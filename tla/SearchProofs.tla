---------------------------- MODULE SearchProofs ----------------------------
(***************************************************************************)
(* Proofs about three searches and what they go through: home_server_ldb() *)
(* of realms.cpp around the servers of a pool, sql_get_socket() of rlm_sql *)
(* around its connections, and client_find() of client.cpp through the     *)
(* trees of clients.  The first two loops are recursive functions on 0..n, *)
(* the state after so many turns; what they leave is proved by induction   *)
(* over the turns.                                                         *)
(***************************************************************************)
EXTENDS HomePool, Sql, Clients, SequenceTheorems, WellFoundedInduction, TLAPS

----------------------------------------------------------------------------
(* Induction over the turns of a loop.                                      *)

\* A property of the numbers up to n that holds for 0 and is handed on.
LEMMA UpTo ==
  ASSUME NEW n \in Nat, NEW S \in SUBSET (0..n), 0 \in S,
         \A k \in 1..n : k - 1 \in S => k \in S
  PROVE  S = 0..n
  <1> SUFFICES ASSUME (0..n) \ S # {} PROVE FALSE
    OBVIOUS
  <1> DEFINE T == (0..n) \ S
  <1>1. T \subseteq Nat /\ T # {}
    OBVIOUS
  <1> HIDE DEF T
  <1>2. PICK x \in T : \A y \in T : ~(<<y, x>> \in OpToRel(<, Nat))
    BY <1>1, NatLessThanWellFounded, WFMin
  <1>3. \A y \in T : ~(y < x)
    BY <1>1, <1>2 DEF OpToRel
  <1>4. x \in 1..n /\ x \notin S
    BY DEF T
  <1>5. x - 1 \in 0..n /\ x - 1 < x
    BY <1>4
  <1>6. x - 1 \in S
    BY <1>3, <1>5 DEF T
  <1> QED
    BY <1>4, <1>6

Recursive(g, n, base, F) == g = [k \in 0..n |-> IF k = 0 THEN base ELSE F[k][g[k - 1]]]

\* A function that is defined by recursion from below exists.
LEMMA RecursionExists ==
  ASSUME NEW n \in Nat, NEW base, NEW F
  PROVE  \E g : Recursive(g, n, base, F)
  <1> DEFINE Upto(g, m) == /\ g = [k \in 0..m |-> g[k]]
                           /\ g[0] = base
                           /\ \A k \in 1..m : g[k] = F[k][g[k - 1]]
             S == {m \in 0..n : \E g : Upto(g, m)}
  <1>1. 0 \in S
    <2>1. Upto([k \in 0..0 |-> base], 0)
      OBVIOUS
    <2> HIDE DEF Upto
    <2> QED
      BY <2>1
  <1>2. ASSUME NEW m \in 1..n, m - 1 \in S PROVE m \in S
    <2>1. PICK g : Upto(g, m - 1)
      BY <1>2
    <2> DEFINE h == [k \in 0..m |-> IF k = m THEN F[m][g[m - 1]] ELSE g[k]]
    <2>2. h[0] = base
      BY <2>1
    <2>3. ASSUME NEW k \in 1..m PROVE h[k] = F[k][h[k - 1]]
      <3>1. k - 1 \in 0..m /\ k - 1 # m /\ h[k - 1] = g[k - 1]
        OBVIOUS
      <3>2. CASE k = m
        BY <3>1, <3>2
      <3>3. CASE k # m
        <4>1. k \in 1..(m - 1)
          BY <3>3
        <4>2. g[k] = F[k][g[k - 1]]
          BY <2>1, <4>1
        <4> QED
          BY <3>1, <3>3, <4>2
      <3> QED
        BY <3>2, <3>3
    <2>4. h = [k \in 0..m |-> h[k]]
      OBVIOUS
    <2>5. Upto(h, m)
      BY <2>2, <2>3, <2>4
    <2> HIDE DEF Upto, h
    <2> QED
      BY <2>5
  <1>3. S = 0..n
    <2> HIDE DEF S
    <2>1. S \in SUBSET (0..n)
      BY DEF S
    <2> QED
      BY <1>1, <1>2, <2>1, UpTo
  <1>4. PICK g : Upto(g, n)
    BY <1>3
  <1>5. g = [k \in 0..n |-> IF k = 0 THEN base ELSE F[k][g[k - 1]]]
    <2>3. g[0] = base /\ \A k \in 1..n : g[k] = F[k][g[k - 1]]
      BY <1>4
    <2>1. ASSUME NEW k \in 0..n PROVE g[k] = IF k = 0 THEN base ELSE F[k][g[k - 1]]
      <3>1. k = 0 \/ k \in 1..n
        OBVIOUS
      <3> QED
        BY ONLY <2>3, <3>1
    <2>2. [k \in 0..n |-> g[k]] = [k \in 0..n |-> IF k = 0 THEN base ELSE F[k][g[k - 1]]]
      BY <2>1
    <2> QED
      BY <1>4, <2>2
  <1> QED
    BY <1>5 DEF Recursive

----------------------------------------------------------------------------
(* Going around a ring.                                                     *)

LEMMA ModLemma ==
  ASSUME NEW n \in Nat \ {0}, NEW a \in 0..(2 * n - 1)
  PROVE  /\ a % n \in 0..(n - 1)
         /\ a < n => a % n = a
         /\ a >= n => a % n = a - n
  <1>1. CASE a < n
    BY <1>1
  <1>2. CASE a >= n
    BY <1>2
  <1> QED
    BY <1>1, <1>2


Distance(n, start, i) == (i - 1 + n - start) % n
PlaceAt(n, start, count) == ((start + count - 1) % n) + 1

LEMMA PlaceLemma ==
  ASSUME NEW n \in Nat \ {0}, NEW start \in 0..(n - 1), NEW count \in 1..n
  PROVE  PlaceAt(n, start, count) \in 1..n /\ Distance(n, start, PlaceAt(n, start, count)) = count - 1
  <1>1. PICK a \in 0..(2 * n - 1) : a = start + count - 1
    OBVIOUS
  <1>2. PICK p : p = PlaceAt(n, start, count)
    OBVIOUS
  <1>3. p = (a % n) + 1
    BY <1>1, <1>2 DEF PlaceAt
  <1>4. a % n \in 0..(n - 1) /\ (a < n => a % n = a) /\ (a >= n => a % n = a - n)
    BY ModLemma
  <1>5. p \in 1..n
    BY <1>3, <1>4
  <1>6. PICK d \in 0..(2 * n - 1) : d = p - 1 + n - start
    BY <1>5
  <1>7. d % n \in 0..(n - 1) /\ (d < n => d % n = d) /\ (d >= n => d % n = d - n)
    BY ModLemma
  <1>8. Distance(n, start, p) = d % n
    BY <1>6 DEF Distance
  <1>9. d % n = count - 1
    <2>1. PICK x : x = a % n
      OBVIOUS
    <2>2. PICK y : y = d % n
      OBVIOUS
    <2>3. y = count - 1
      <3>1. CASE a < n
        BY <1>1, <1>3, <1>4, <1>6, <1>7, <2>1, <2>2, <3>1
      <3>2. CASE a >= n
        BY <1>1, <1>3, <1>4, <1>6, <1>7, <2>1, <2>2, <3>2
      <3> QED
        BY <3>1, <3>2
    <2> QED
      BY <2>2, <2>3
  <1> QED
    BY <1>2, <1>5, <1>8, <1>9

LEMMA DistanceLemma ==
  ASSUME NEW n \in Nat \ {0}, NEW start \in 0..(n - 1), NEW i \in 1..n
  PROVE  Distance(n, start, i) \in 0..(n - 1) /\ PlaceAt(n, start, Distance(n, start, i) + 1) = i
  <1>1. PICK a \in 0..(2 * n - 1) : a = i - 1 + n - start
    OBVIOUS
  <1>2. PICK d : d = Distance(n, start, i)
    OBVIOUS
  <1>3. d = a % n
    BY <1>1, <1>2 DEF Distance
  <1>4. a % n \in 0..(n - 1) /\ (a < n => a % n = a) /\ (a >= n => a % n = a - n)
    BY ModLemma
  <1>9. d \in 0..(n - 1)
    BY <1>3, <1>4
  <1>5. PICK b \in 0..(2 * n - 1) : b = start + (d + 1) - 1
    BY <1>9
  <1>6. b % n \in 0..(n - 1) /\ (b < n => b % n = b) /\ (b >= n => b % n = b - n)
    BY ModLemma
  <1>7. PlaceAt(n, start, d + 1) = (b % n) + 1
    BY <1>5 DEF PlaceAt
  <1>8. b % n = i - 1
    <2>1. PICK x : x = a % n
      OBVIOUS
    <2>2. PICK y : y = b % n
      OBVIOUS
    <2>3. y = i - 1
      <3>1. CASE a < n
        BY <1>1, <1>3, <1>4, <1>5, <1>6, <2>1, <2>2, <3>1
      <3>2. CASE a >= n
        BY <1>1, <1>3, <1>4, <1>5, <1>6, <2>1, <2>2, <3>2
      <3> QED
        BY <3>1, <3>2
    <2> QED
      BY <2>2, <2>3
  <1> QED
    <2>1. (b % n) + 1 = i
      BY <1>8
    <2> QED
      BY <1>2, <1>7, <1>9, <2>1

----------------------------------------------------------------------------
(* The loop of home_server_ldb().                                           *)

Lookout == [found : Homes \cup {NoHome}, zombie : Homes \cup {NoHome}]

\* The server that is looked at in a turn.
Visited(servers, start, count) == servers[((start + count - 1) % Len(servers)) + 1]

LEMMA VisitedType ==
  ASSUME NEW servers \in Seq(Homes), NEW start \in Nat, NEW count \in 1..Len(servers)
  PROVE  Visited(servers, start, count) \in Homes
  <1>1. Len(servers) \in Nat \ {0} /\ start + count - 1 \in Nat
    OBVIOUS
  <1>2. (start + count - 1) % Len(servers) \in 0..(Len(servers) - 1)
    BY <1>1
  <1>3. ((start + count - 1) % Len(servers)) + 1 \in 1..Len(servers)
    BY <1>1, <1>2
  <1> QED
    BY <1>3 DEF Visited

LEMMA TurnType ==
  ASSUME NEW type, NEW x \in Lookout, NEW home \in Homes, NEW r
  PROVE  Turn(type, x, home, r) \in SUBSET Lookout
  <1>1. [x EXCEPT !.found = home] \in Lookout
    BY DEF Lookout
  <1>2. [x EXCEPT !.zombie = IF @ = NoHome THEN home ELSE @] \in Lookout
    BY DEF Lookout
  <1> QED
    BY <1>1, <1>2 DEF Turn, LessBusy

\* One turn from every outcome so far.
AllTurns(type, X, home, r) == UNION {Turn(type, x, home, r) : x \in X}

IsTurns(T, type, servers, start, r) ==
  /\ T[0] = {[found |-> NoHome, zombie |-> NoHome]}
  /\ \A count \in 1..Len(servers) :
       T[count] = AllTurns(type, T[count - 1], Visited(servers, start, count), r)
  /\ \A count \in 0..Len(servers) : T[count] \in SUBSET Lookout

\* The recursion over the turns is well defined.
LEMMA TurnsLemma ==
  ASSUME NEW type, NEW servers \in Seq(Homes), NEW start \in Nat, NEW r
  PROVE  IsTurns(Turns(type, servers, start, r), type, servers, start, r)
  <1> DEFINE n == Len(servers)
             first == {[found |-> NoHome, zombie |-> NoHome]}
             Step(count, X) == UNION {Turn(type, x, servers[((start + count - 1) % n) + 1], r) : x \in X}
             F == [count \in 1..n |-> [X \in SUBSET Lookout |-> Step(count, X)]]
             Def(g) == [count \in 0..n |-> IF count = 0 THEN first ELSE Step(count, g[count - 1])]
             T == Turns(type, servers, start, r)
  <1>0. n \in Nat
    OBVIOUS
  <1>1. first \in SUBSET Lookout
    BY DEF Lookout
  <1>2. ASSUME NEW count \in 1..n, NEW X \in SUBSET Lookout
        PROVE  Step(count, X) \in SUBSET Lookout
    <2>1. servers[((start + count - 1) % n) + 1] \in Homes
      BY VisitedType DEF Visited
    <2> QED
      BY <2>1, TurnType
  <1>3. T = CHOOSE g : g = Def(g)
    BY DEF Turns
  <1> HIDE DEF Step, first, T
  <1>11. PICK g : Recursive(g, n, first, F)
    <2> HIDE DEF F, n
    <2> QED
      BY <1>0, RecursionExists
  <1>4. g = [k \in 0..n |-> IF k = 0 THEN first ELSE F[k][g[k - 1]]]
    BY <1>11 DEF Recursive
  <1>5. \A k \in 0..n : g[k] \in SUBSET Lookout
    <2> DEFINE S == {k \in 0..n : g[k] \in SUBSET Lookout}
    <2>1. 0 \in S
      BY <1>0, <1>1, <1>4
    <2>2. ASSUME NEW k \in 1..n, k - 1 \in S PROVE k \in S
      <3>1. k \in 0..n /\ k # 0 /\ g[k - 1] \in SUBSET Lookout
        BY <2>2
      <3>2. g[k] = F[k][g[k - 1]]
        BY <1>4, <3>1
      <3>3. F[k][g[k - 1]] = Step(k, g[k - 1])
        BY <3>1
      <3> QED
        BY <1>2, <3>1, <3>2, <3>3
    <2>3. S \in SUBSET (0..n)
      OBVIOUS
    <2>4. S = 0..n
      <3> HIDE DEF S, n
      <3> QED
        BY <1>0, <2>1, <2>2, <2>3, UpTo
    <2> QED
      BY <2>4
  <1>6. g = Def(g)
    <2>1. ASSUME NEW k \in 0..n
          PROVE  (IF k = 0 THEN first ELSE F[k][g[k - 1]]) = (IF k = 0 THEN first ELSE Step(k, g[k - 1]))
      <3>1. CASE k # 0
        <4>1. k \in 1..n /\ k - 1 \in 0..n
          BY <3>1
        <4>2. F[k][g[k - 1]] = Step(k, g[k - 1])
          BY <1>5, <4>1
        <4> QED
          BY <4>2
      <3> QED
        BY <3>1
    <2> QED
      BY <1>4, <2>1
  <1>7. T = Def(T)
    <2> HIDE DEF Def
    <2> QED
      BY <1>3, <1>6
  <1>8. T[0] = first
    BY <1>0, <1>7
  <1>9. \A count \in 1..n : T[count] = Step(count, T[count - 1])
    BY <1>0, <1>7
  <1>10. \A k \in 0..n : T[k] \in SUBSET Lookout
    <2> DEFINE S == {k \in 0..n : T[k] \in SUBSET Lookout}
    <2>1. 0 \in S
      BY <1>0, <1>1, <1>8
    <2>2. ASSUME NEW k \in 1..n, k - 1 \in S PROVE k \in S
      BY <1>2, <1>9, <2>2
    <2>3. S \in SUBSET (0..n)
      OBVIOUS
    <2>4. S = 0..n
      <3> HIDE DEF S, n
      <3> QED
        BY <1>0, <2>1, <2>2, <2>3, UpTo
    <2> QED
      BY <2>4
  <1> QED
    BY <1>8, <1>9, <1>10 DEF Step, first, T, Visited, AllTurns, IsTurns

LEMMA TurnsFirst ==
  ASSUME NEW type, NEW servers \in Seq(Homes), NEW start \in Nat, NEW r
  PROVE  Turns(type, servers, start, r)[0] = {[found |-> NoHome, zombie |-> NoHome]}
  <1>1. IsTurns(Turns(type, servers, start, r), type, servers, start, r)
    BY TurnsLemma
  <1> QED
    BY <1>1 DEF IsTurns

LEMMA TurnsNext ==
  ASSUME NEW type, NEW servers \in Seq(Homes), NEW start \in Nat, NEW r, NEW count \in 1..Len(servers)
  PROVE  /\ Turns(type, servers, start, r)[count] =
              AllTurns(type, Turns(type, servers, start, r)[count - 1], Visited(servers, start, count), r)
         /\ Turns(type, servers, start, r)[count - 1] \in SUBSET Lookout
  <1>1. count - 1 \in 0..Len(servers)
    OBVIOUS
  <1>2. IsTurns(Turns(type, servers, start, r), type, servers, start, r)
    BY TurnsLemma
  <1> QED
    BY <1>1, <1>2 DEF IsTurns

LEMMA TurnsLast ==
  ASSUME NEW type, NEW servers \in Seq(Homes), NEW start \in Nat, NEW r
  PROVE  Turns(type, servers, start, r)[Len(servers)] \in SUBSET Lookout
  <1>1. Len(servers) \in 0..Len(servers)
    OBVIOUS
  <1>2. IsTurns(Turns(type, servers, start, r), type, servers, start, r)
    BY TurnsLemma
  <1> QED
    BY <1>1, <1>2 DEF IsTurns

----------------------------------------------------------------------------
(* What one turn does.                                                      *)

\* A server that the loop takes.
Live(home, r) == MayTake(home, r) /\ home_state[home] = "alive"

\* What is found, or kept as a last resort, may be used.
Usable(x, r) ==
  /\ x.found # NoHome => MayTake(x.found, r)
  /\ x.zombie # NoHome => MayTake(x.zombie, r)

LEMMA TurnUsable ==
  ASSUME NEW type, NEW x \in Lookout, NEW home \in Homes, NEW r, Usable(x, r),
         NEW y \in Turn(type, x, home, r)
  PROVE  Usable(y, r)
  <1>1. CASE y = x
    BY <1>1
  <1>2. CASE y = [x EXCEPT !.found = home] /\ MayTake(home, r)
    BY <1>2 DEF Usable, Lookout
  <1>3. CASE y = [x EXCEPT !.zombie = IF @ = NoHome THEN home ELSE @] /\ MayTake(home, r)
    BY <1>3 DEF Usable, Lookout
  <1> QED
    BY <1>1, <1>2, <1>3 DEF Turn, LessBusy

\* All types but load-balance: the first live server stays.
LEMMA TurnFirst ==
  ASSUME PoolTypeOK, NEW type, type # "load-balance", NEW x \in Lookout, NEW home \in Homes, NEW r
  PROVE  /\ Turn(type, x, home, r) # {}
         /\ x.found # NoHome => \A y \in Turn(type, x, home, r) : y.found = x.found
         /\ x.found = NoHome /\ ~Live(home, r) => \A y \in Turn(type, x, home, r) : y.found = NoHome
         /\ x.found = NoHome /\ Live(home, r) => \A y \in Turn(type, x, home, r) : y.found = home
  <1>0. home_state[home] \in {"alive", "zombie", "dead"}
    BY DEF PoolTypeOK
  <1>1. [x EXCEPT !.found = home].found = home
    BY DEF Lookout
  <1>2. [x EXCEPT !.zombie = IF @ = NoHome THEN home ELSE @].found = x.found
    BY DEF Lookout
  <1>3. CASE x.found # NoHome
    BY <1>3 DEF Turn
  <1>4. CASE x.found = NoHome /\ ~MayTake(home, r)
    BY <1>4 DEF Turn, Live
  <1>5. CASE x.found = NoHome /\ MayTake(home, r) /\ home_state[home] = "zombie"
    BY <1>2, <1>5 DEF Turn, Live
  <1>6. CASE x.found = NoHome /\ MayTake(home, r) /\ home_state[home] # "zombie"
    <2>1. Live(home, r)
      BY <1>0, <1>6 DEF Live, MayTake
    <2> QED
      BY <1>1, <1>6, <2>1 DEF Turn
  <1> QED
    BY <1>3, <1>4, <1>5, <1>6

\* load-balance: a live server that is less busy is taken instead of the one
\* found; of two that are as busy, each may be.
LEMMA TurnBalanced ==
  ASSUME PoolTypeOK, NEW x \in Lookout, NEW home \in Homes, NEW r
  PROVE  LET turn == Turn("load-balance", x, home, r)
             co == currently_outstanding
         IN  /\ turn # {}
             /\ ~Live(home, r) => \A y \in turn : y.found = x.found
             /\ x.found = NoHome /\ Live(home, r) => \A y \in turn : y.found = home
             /\ x.found # NoHome /\ Live(home, r) =>
                  /\ \A y \in turn : \/ y.found = home /\ co[home] <= co[x.found]
                                     \/ y.found = x.found /\ co[x.found] <= co[home]
                  /\ co[home] <= co[x.found] => \E y \in turn : y.found = home
                  /\ co[x.found] <= co[home] => \E y \in turn : y.found = x.found
  <1> DEFINE turn == Turn("load-balance", x, home, r)
             co == currently_outstanding
             taken == [x EXCEPT !.found = home]
  <1>0. home_state[home] \in {"alive", "zombie", "dead"} /\ co[home] \in Int
    BY HomePoolAssumption DEF PoolTypeOK
  <1>1. taken.found = home
    BY DEF Lookout
  <1>2. [x EXCEPT !.zombie = IF @ = NoHome THEN home ELSE @].found = x.found
    BY DEF Lookout
  <1>3. CASE ~MayTake(home, r)
    BY <1>3 DEF Turn, Live
  <1>4. CASE MayTake(home, r) /\ home_state[home] = "zombie"
    BY <1>2, <1>4 DEF Turn, Live
  <1>5. CASE MayTake(home, r) /\ home_state[home] # "zombie"
    <2>1. Live(home, r)
      BY <1>0, <1>5 DEF Live, MayTake
    <2>2. CASE x.found = NoHome
      BY <1>1, <1>5, <2>1, <2>2 DEF Turn
    <2>3. CASE x.found # NoHome
      <3>1. x.found \in Homes /\ co[x.found] \in Int
        BY <2>3, HomePoolAssumption DEF Lookout, PoolTypeOK
      <3>2. turn = (IF co[home] <= co[x.found] THEN {taken} ELSE {})
                      \cup (IF co[home] >= co[x.found] THEN {x} ELSE {})
        BY <1>1, <1>5, <2>3 DEF Turn, LessBusy
      <3>3. co[home] <= co[x.found] \/ co[home] >= co[x.found]
        BY <1>0, <3>1
      <3>4. co[x.found] <= co[home] <=> co[home] >= co[x.found]
        BY <1>0, <3>1
      <3> HIDE DEF turn, taken, co
      <3>5. turn # {}
        BY <3>2, <3>3
      <3>6. \A y \in turn : \/ y = taken /\ co[home] <= co[x.found]
                            \/ y = x /\ co[x.found] <= co[home]
        BY <3>2, <3>4
      <3>7. co[home] <= co[x.found] => taken \in turn
        BY <3>2
      <3>8. co[x.found] <= co[home] => x \in turn
        BY <3>2, <3>4
      <3> QED
        BY <1>1, <2>1, <2>3, <3>5, <3>6, <3>7, <3>8 DEF turn, co
    <2> QED
      BY <2>2, <2>3
  <1> QED
    BY <1>3, <1>4, <1>5

----------------------------------------------------------------------------
(* What is found after all turns.                                           *)

LEMMA LoopUsable ==
  ASSUME NEW type, NEW servers \in Seq(Homes), NEW start \in Nat, NEW r,
         NEW x \in Loop(type, servers, start, r)
  PROVE  x \in Lookout /\ Usable(x, r)
  <1> DEFINE n == Len(servers)
             T == Turns(type, servers, start, r)
             S == {k \in 0..n : \A y \in T[k] : Usable(y, r)}
  <1>0. n \in Nat
    OBVIOUS
  <1>1. 0 \in S
    <2>1. T[0] = {[found |-> NoHome, zombie |-> NoHome]}
      BY TurnsFirst
    <2> QED
      BY <1>0, <2>1 DEF Usable
  <1>2. ASSUME NEW k \in 1..n, k - 1 \in S PROVE k \in S
    <2>1. T[k] = AllTurns(type, T[k - 1], Visited(servers, start, k), r)
      BY TurnsNext
    <2>2. \A y \in T[k - 1] : y \in Lookout /\ Usable(y, r)
      BY <1>2, TurnsNext
    <2>3. Visited(servers, start, k) \in Homes
      BY VisitedType
    <2> HIDE DEF T
    <2>4. \A z \in T[k] : Usable(z, r)
      BY <2>1, <2>2, <2>3, TurnUsable DEF AllTurns
    <2> QED
      BY <2>4
  <1>3. S = 0..n
    <2>1. S \in SUBSET (0..n)
      OBVIOUS
    <2> HIDE DEF S, n
    <2> QED
      BY <1>0, <1>1, <1>2, <2>1, UpTo
  <1>4. n \in S
    BY <1>0, <1>3
  <1>5. T[n] \in SUBSET Lookout
    BY TurnsLast
  <1>6. x \in T[n]
    BY DEF Loop
  <1> QED
    BY <1>4, <1>5, <1>6

\* None of the first count servers that are looked at is live; h is the first
\* of them that is; h is a least busy one of them.
NoneOf(servers, start, r, count) ==
  \A j \in 1..count : ~Live(Visited(servers, start, j), r)
FirstOf(servers, start, r, count, h) ==
  \E j \in 1..count : /\ Live(Visited(servers, start, j), r) /\ h = Visited(servers, start, j)
                      /\ \A m \in 1..(j - 1) : ~Live(Visited(servers, start, m), r)
LeastOf(servers, start, r, count, h) ==
  \E j \in 1..count : /\ Live(Visited(servers, start, j), r) /\ h = Visited(servers, start, j)
                      /\ \A m \in 1..count : Live(Visited(servers, start, m), r) =>
                           currently_outstanding[h] <= currently_outstanding[Visited(servers, start, m)]

LEMMA FirstIsFound ==
  ASSUME PoolTypeOK, NEW type, type # "load-balance", NEW servers \in Seq(Homes), NEW start \in Nat, NEW r
  PROVE  /\ Loop(type, servers, start, r) # {}
         /\ \A x \in Loop(type, servers, start, r) :
              \/ x.found = NoHome /\ NoneOf(servers, start, r, Len(servers))
              \/ FirstOf(servers, start, r, Len(servers), x.found)
  <1> DEFINE n == Len(servers)
             T == Turns(type, servers, start, r)
             V(k) == Visited(servers, start, k)
             Fits(k, x) == \/ x.found = NoHome /\ NoneOf(servers, start, r, k)
                           \/ FirstOf(servers, start, r, k, x.found)
             S == {k \in 0..n : T[k] # {} /\ \A x \in T[k] : Fits(k, x)}
  <1>0. n \in Nat
    OBVIOUS
  <1>1. 0 \in S
    <2>1. T[0] = {[found |-> NoHome, zombie |-> NoHome]}
      BY TurnsFirst
    <2>2. NoneOf(servers, start, r, 0)
      BY DEF NoneOf
    <2>3. T[0] # {} /\ \A x \in T[0] : Fits(0, x)
      BY <2>1, <2>2
    <2> QED
      BY <1>0, <2>3
  <1>2. ASSUME NEW k \in 1..n, k - 1 \in S PROVE k \in S
    <2>1. T[k] = AllTurns(type, T[k - 1], V(k), r)
      BY TurnsNext
    <2>2. T[k - 1] # {} /\ \A y \in T[k - 1] : y \in Lookout /\ Fits(k - 1, y)
      BY <1>2, TurnsNext
    <2>3. V(k) \in Homes /\ V(k) # NoHome
      BY VisitedType, HomePoolAssumption
    <2>4. T[k] # {}
      <3> HIDE DEF T, V
      <3>1. PICK y \in T[k - 1] : y \in Lookout
        BY <2>2
      <3>2. Turn(type, y, V(k), r) # {}
        BY <2>3, <3>1, TurnFirst
      <3> QED
        BY <2>1, <3>2 DEF AllTurns
    <2>5. ASSUME NEW x \in T[k] PROVE Fits(k, x)
      <3>1. PICK y \in T[k - 1] : x \in Turn(type, y, V(k), r)
        BY <2>1 DEF AllTurns
      <3>2. y \in Lookout /\ Fits(k - 1, y)
        BY <2>2, <3>1
      <3>3. /\ y.found # NoHome => x.found = y.found
            /\ y.found = NoHome /\ ~Live(V(k), r) => x.found = NoHome
            /\ y.found = NoHome /\ Live(V(k), r) => x.found = V(k)
        <4> HIDE DEF T, V
        <4> QED
          BY <2>3, <3>1, <3>2, TurnFirst
      <3>4. \A j \in 1..(k - 1) : j \in 1..k
        OBVIOUS
      <3>5. CASE FirstOf(servers, start, r, k - 1, y.found)
        <4>1. y.found # NoHome
          BY <3>2, <3>5, VisitedType, HomePoolAssumption, <1>0 DEF FirstOf
        <4>2. FirstOf(servers, start, r, k, y.found)
          BY <3>4, <3>5 DEF FirstOf
        <4> QED
          BY <3>3, <4>1, <4>2
      <3>6. CASE y.found = NoHome /\ NoneOf(servers, start, r, k - 1)
        <4>1. \A j \in 1..(k - 1) : ~Live(V(j), r)
          BY <3>6 DEF NoneOf
        <4>2. CASE Live(V(k), r)
          <5>1. FirstOf(servers, start, r, k, x.found)
            BY <3>3, <3>6, <4>1, <4>2 DEF FirstOf
          <5> QED
            BY <5>1
        <4>3. CASE ~Live(V(k), r)
          <5>1. \A j \in 1..k : j = k \/ j \in 1..(k - 1)
            OBVIOUS
          <5>2. NoneOf(servers, start, r, k)
            BY <4>1, <4>3, <5>1 DEF NoneOf
          <5> QED
            BY <3>3, <3>6, <4>3, <5>2
        <4> QED
          BY <4>2, <4>3
      <3> QED
        BY <3>2, <3>5, <3>6
    <2> QED
      BY <2>4, <2>5
  <1>3. S = 0..n
    <2>1. S \in SUBSET (0..n)
      OBVIOUS
    <2> HIDE DEF S, n
    <2> QED
      BY <1>0, <1>1, <1>2, <2>1, UpTo
  <1>4. n \in S
    BY <1>0, <1>3
  <1> QED
    BY <1>4 DEF Loop

LEMMA LeastIsFound ==
  ASSUME PoolTypeOK, NEW servers \in Seq(Homes), NEW start \in Nat, NEW r
  PROVE  LET loop == Loop("load-balance", servers, start, r)
             n == Len(servers)
         IN  /\ loop # {}
             /\ \A x \in loop : \/ x.found = NoHome /\ NoneOf(servers, start, r, n)
                                \/ LeastOf(servers, start, r, n, x.found)
             /\ \A h : LeastOf(servers, start, r, n, h) => \E x \in loop : x.found = h
  <1> DEFINE n == Len(servers)
             T == Turns("load-balance", servers, start, r)
             V(k) == Visited(servers, start, k)
             co == currently_outstanding
             L(k) == Live(V(k), r)
             None(k) == NoneOf(servers, start, r, k)
             Least(k, h) == LeastOf(servers, start, r, k, h)
             Fits(k, x) == (x.found = NoHome /\ None(k)) \/ Least(k, x.found)
             S == {k \in 0..n : /\ T[k] # {} /\ \A x \in T[k] : Fits(k, x)
                                /\ \A h : Least(k, h) => \E x \in T[k] : x.found = h}
  <1>0. n \in Nat /\ \A k \in 1..n : V(k) \in Homes /\ V(k) # NoHome /\ co[V(k)] \in Int
    BY VisitedType, HomePoolAssumption DEF PoolTypeOK
  <1>1. 0 \in S
    <2>1. T[0] = {[found |-> NoHome, zombie |-> NoHome]}
      BY TurnsFirst
    <2>2. None(0)
      BY DEF NoneOf
    <2>3. \A h : ~Least(0, h)
      BY DEF LeastOf
    <2>6. T[0] # {} /\ \A x \in T[0] : x.found = NoHome
      <3> HIDE DEF T
      <3>1. PICK one : one = [found |-> NoHome, zombie |-> NoHome]
        OBVIOUS
      <3>2. one.found = NoHome /\ T[0] = {one}
        BY <2>1, <3>1
      <3> QED
        BY ONLY <3>2
    <2>4. T[0] # {} /\ \A x \in T[0] : Fits(0, x)
      <3> HIDE DEF None, Least, T
      <3> QED
        BY <2>2, <2>6
    <2>5. 0 \in 0..n
      BY <1>0
    <2> HIDE DEF T, Fits, Least
    <2> QED
      BY <2>3, <2>4, <2>5
  <1>2. ASSUME NEW k \in 1..n, k - 1 \in S PROVE k \in S
    <2>0. k - 1 \in Nat /\ k \in 1..k /\ (\A j \in 1..(k - 1) : j \in 1..k /\ j \in 1..n)
          /\ \A j \in 1..k : (j = k \/ j \in 1..(k - 1)) /\ j \in 1..n
      BY <1>0
    <2>1. T[k] = AllTurns("load-balance", T[k - 1], V(k), r)
      BY TurnsNext
    <2>2. T[k - 1] # {} /\ \A y \in T[k - 1] : y \in Lookout /\ Fits(k - 1, y)
      BY <1>2, TurnsNext
    <2>3. ASSUME NEW h, Least(k - 1, h) PROVE \E y \in T[k - 1] : y.found = h
      BY <1>2, <2>3
    <2>4. V(k) \in Homes /\ V(k) # NoHome /\ co[V(k)] \in Int
      BY <1>0
    \* One turn, from each outcome before it.
    <2>5. ASSUME NEW y \in T[k - 1]
          PROVE  LET turn == Turn("load-balance", y, V(k), r)
                 IN  /\ turn # {}
                     /\ ~L(k) => \A x \in turn : x.found = y.found
                     /\ y.found = NoHome /\ L(k) => \A x \in turn : x.found = V(k)
                     /\ y.found # NoHome /\ L(k) =>
                          /\ \A x \in turn : \/ x.found = V(k) /\ co[V(k)] <= co[y.found]
                                             \/ x.found = y.found /\ co[y.found] <= co[V(k)]
                          /\ co[V(k)] <= co[y.found] => \E x \in turn : x.found = V(k)
                          /\ co[y.found] <= co[V(k)] => \E x \in turn : x.found = y.found
      <3>1. y \in Lookout
        BY <2>2
      <3> HIDE DEF V, T
      <3> QED
        BY <2>4, <3>1, TurnBalanced
    <2>6. \A y \in T[k - 1] : \A x \in Turn("load-balance", y, V(k), r) : x \in T[k]
      BY <2>1 DEF AllTurns
    <2>7. ASSUME NEW x \in T[k] PROVE \E y \in T[k - 1] : x \in Turn("load-balance", y, V(k), r)
      BY <2>1 DEF AllTurns
    \* None and Least from one number of turns to the next.
    <2>8. None(k) <=> None(k - 1) /\ ~L(k)
      BY <2>0 DEF NoneOf
    <2>9. ASSUME NEW h, Least(k - 1, h)
          PROVE  h \in Homes /\ h # NoHome /\ co[h] \in Int /\ ~None(k - 1)
      BY <1>0, <2>0, <2>9 DEF LeastOf, NoneOf
    <2>10. ASSUME NEW h, Least(k - 1, h), ~L(k) \/ co[h] <= co[V(k)] PROVE Least(k, h)
      <3>1. PICK j \in 1..(k - 1) : /\ L(j) /\ h = V(j)
                                    /\ \A m \in 1..(k - 1) : L(m) => co[h] <= co[V(m)]
        BY <2>10 DEF LeastOf
      <3>2. \A m \in 1..k : L(m) => co[h] <= co[V(m)]
        BY <2>0, <2>10, <3>1
      <3> QED
        BY <2>0, <3>1, <3>2 DEF LeastOf
    <2>11. ASSUME L(k), None(k - 1) PROVE Least(k, V(k))
      <3>1. \A m \in 1..k : L(m) => co[V(k)] <= co[V(m)]
        BY <2>0, <2>4, <2>11 DEF NoneOf
      <3> QED
        BY <2>0, <2>11, <3>1 DEF LeastOf
    <2>12. ASSUME NEW h, L(k), Least(k - 1, h), co[V(k)] <= co[h] PROVE Least(k, V(k))
      <3>1. PICK j \in 1..(k - 1) : /\ L(j) /\ h = V(j)
                                    /\ \A m \in 1..(k - 1) : L(m) => co[h] <= co[V(m)]
        BY <2>12 DEF LeastOf
      <3>2. co[h] \in Int /\ \A m \in 1..(k - 1) : co[V(m)] \in Int
        BY <1>0, <2>0, <3>1
      <3>3. \A m \in 1..(k - 1) : L(m) => co[V(k)] <= co[V(m)]
        BY <2>4, <2>12, <3>1, <3>2
      <3>4. \A m \in 1..k : L(m) => co[V(k)] <= co[V(m)]
        BY <2>0, <2>4, <3>3
      <3> QED
        BY <2>0, <2>12, <3>4 DEF LeastOf
    <2>13. ASSUME NEW h, Least(k, h)
           PROVE  \/ h = V(k) /\ L(k) /\ \A g : Least(k - 1, g) => co[h] <= co[g]
                  \/ Least(k - 1, h) /\ (L(k) => co[h] <= co[V(k)])
      <3>1. PICK j \in 1..k : /\ L(j) /\ h = V(j)
                              /\ \A m \in 1..k : L(m) => co[h] <= co[V(m)]
        BY <2>13 DEF LeastOf
      <3>2. CASE j = k
        <4>1. ASSUME NEW g, Least(k - 1, g) PROVE co[h] <= co[g]
          <5>1. PICK i \in 1..(k - 1) : L(i) /\ g = V(i)
            BY <4>1 DEF LeastOf
          <5> QED
            BY <2>0, <3>1, <5>1
        <4> QED
          BY <3>1, <3>2, <4>1
      <3>3. CASE j \in 1..(k - 1)
        <4>1. \A m \in 1..(k - 1) : L(m) => co[h] <= co[V(m)]
          BY <2>0, <3>1
        <4>2. Least(k - 1, h)
          BY <3>1, <3>3, <4>1 DEF LeastOf
        <4> QED
          BY <2>0, <3>1, <4>2
      <3> QED
        BY <2>0, <3>2, <3>3
    <2> HIDE DEF T, V, L, None, Least, S, co
    <2>14. T[k] # {}
      BY <2>2, <2>5, <2>6
    <2>15. ASSUME NEW x \in T[k] PROVE Fits(k, x)
      <3>1. PICK y \in T[k - 1] : x \in Turn("load-balance", y, V(k), r)
        BY <2>7
      <3>2. Fits(k - 1, y)
        BY <2>2
      <3>3. CASE y.found = NoHome /\ None(k - 1)
        BY <2>5, <2>8, <2>11, <3>1, <3>3
      <3>4. CASE Least(k - 1, y.found)
        <4>1. y.found # NoHome
          BY <2>9, <3>4
        <4>2. CASE ~L(k)
          BY <2>5, <2>10, <3>1, <3>4, <4>2
        <4>3. CASE L(k)
          <5>1. \/ x.found = V(k) /\ co[V(k)] <= co[y.found]
                \/ x.found = y.found /\ co[y.found] <= co[V(k)]
            BY <2>5, <3>1, <4>1, <4>3
          <5> QED
            BY <2>10, <2>12, <3>4, <4>3, <5>1
        <4> QED
          BY <4>2, <4>3
      <3> QED
        BY <3>2, <3>3, <3>4
    <2>16. ASSUME NEW h, Least(k, h) PROVE \E x \in T[k] : x.found = h
      <3>1. CASE h = V(k) /\ L(k) /\ \A g : Least(k - 1, g) => co[h] <= co[g]
        <4>1. PICK y \in T[k - 1] : Fits(k - 1, y)
          BY <2>2
        <4>2. CASE y.found = NoHome
          BY <2>5, <2>6, <3>1, <4>1, <4>2
        <4>3. CASE y.found # NoHome /\ Least(k - 1, y.found)
          <5>1. co[V(k)] <= co[y.found]
            BY <3>1, <4>3
          <5>2. \E x \in Turn("load-balance", y, V(k), r) : x.found = V(k)
            BY <2>5, <3>1, <4>1, <4>3, <5>1
          <5> QED
            BY <2>6, <3>1, <4>1, <5>2
        <4> QED
          BY <4>1, <4>2, <4>3
      <3>2. CASE Least(k - 1, h) /\ (L(k) => co[h] <= co[V(k)])
        <4>1. PICK y \in T[k - 1] : y.found = h
          BY <2>3, <3>2
        <4>2. h # NoHome
          BY <2>9, <3>2
        <4>3. \E x \in Turn("load-balance", y, V(k), r) : x.found = h
          BY <2>5, <3>2, <4>1, <4>2
        <4> QED
          BY <2>6, <4>1, <4>3
      <3> QED
        BY <2>13, <2>16, <3>1, <3>2
    <2> QED
      BY <2>14, <2>15, <2>16 DEF S
  <1>3. S = 0..n
    <2>1. S \in SUBSET (0..n)
      OBVIOUS
    <2> HIDE DEF S, n
    <2> QED
      BY <1>0, <1>1, <1>2, <2>1, UpTo
  <1>4. n \in S
    BY <1>0, <1>3
  <1> QED
    BY <1>4 DEF Loop

LEMMA StartLemma ==
  ASSUME NEW type, NEW n \in Nat \ {0}, NEW r \in Requests
  PROVE  Start(type, n, r) \in 0..(n - 1)
  <1>1. r.hash \in Nat
    BY HomePoolAssumption DEF Requests
  <1>2. r.hash % n \in 0..(n - 1)
    BY <1>1
  <1> QED
    BY <1>2 DEF Start

----------------------------------------------------------------------------
(* The choice.                                                              *)

LEMMA ChosenUsable ==
  ASSUME NEW type, NEW servers \in Seq(Homes), servers # <<>>, NEW virtual, NEW r \in Requests,
         NEW h \in Chosen(type, servers, virtual, r)
  PROVE  h = virtual \/ (h \in Homes /\ MayTake(h, r))
  <1>1. Len(servers) \in Nat \ {0}
    BY EmptySeq
  <1>2. PICK start \in Nat : start = Start(type, Len(servers), r)
    BY <1>1, StartLemma
  <1>3. PICK x \in Loop(type, servers, start, r) :
          h = IF x.found # NoHome THEN x.found ELSE IF x.zombie # NoHome THEN x.zombie ELSE virtual
    BY <1>2 DEF Chosen
  <1>4. x \in Lookout /\ Usable(x, r)
    BY <1>3, LoopUsable
  <1> QED
    BY <1>3, <1>4 DEF Lookout, Usable

LEMMA LdbUsable ==
  ASSUME PoolTypeOK, NEW r \in Requests, NEW o \in home_server_ldb(r), ~pool_conf.wakeAll, o.home \in Homes
  PROVE  MayTake(o.home, r)
  <1> DEFINE c == pool_conf
             Last == IF c.realmFallback /\ r.code # "coa" /\ c.default # <<>>
                     THEN Chosen("fail-over", c.default, NoHome, r) ELSE {NoHome}
  <1>1. /\ c.servers \in Seq(Homes) /\ c.servers # <<>> /\ c.default \in Seq(Homes)
        /\ c.virtual \in {Fallback, NoHome}
    BY DEF PoolTypeOK, PoolConf
  <1>2. PICK h \in Chosen(c.type, c.servers, c.virtual, r) :
          \/ o = [home |-> h, woken |-> {}]
          \/ \E d \in Last : o = [home |-> d, woken |-> {}]
    BY DEF home_server_ldb
  <1>3. CASE o = [home |-> h, woken |-> {}]
    <2>1. o.home = h
      BY <1>3
    <2> QED
      BY <1>1, <1>2, <2>1, ChosenUsable, HomePoolAssumption
  <1>4. ASSUME NEW d \in Last, o = [home |-> d, woken |-> {}] PROVE MayTake(o.home, r)
    <2>1. o.home = d /\ d # NoHome
      BY <1>4, HomePoolAssumption
    <2>2. d \in Chosen("fail-over", c.default, NoHome, r) /\ c.default # <<>>
      BY <2>1
    <2> QED
      BY <1>1, <2>1, <2>2, ChosenUsable, HomePoolAssumption
  <1> QED
    BY <1>2, <1>3, <1>4

LEMMA AliveLemma == ASSUME NEW r PROVE Alive(r) = {i \in DOMAIN pool_conf.servers : Live(pool_conf.servers[i], r)}
  BY DEF Alive, Live

\* When a live server is found the choice is made by the loop.
LEMMA LdbIsLoop ==
  ASSUME PoolTypeOK, NEW r \in Requests, NEW L, L # {},
         L = Loop(pool_conf.type, pool_conf.servers, Start(pool_conf.type, Len(pool_conf.servers), r), r),
         \A x \in L : x.found \in Homes
  PROVE  {o.home : o \in home_server_ldb(r)} = {x.found : x \in L}
  <1>1. Chosen(pool_conf.type, pool_conf.servers, pool_conf.virtual, r) = {x.found : x \in L}
    BY HomePoolAssumption DEF Chosen
  <1>2. \A h \in {x.found : x \in L} : h # NoHome
    BY HomePoolAssumption
  <1>3. ASSUME NEW o \in home_server_ldb(r) PROVE \E x \in L : o.home = x.found
    <2>1. PICK h \in {x.found : x \in L} : o = [home |-> h, woken |-> {}]
      BY <1>1, <1>2 DEF home_server_ldb
    <2>2. o.home = h
      BY <2>1
    <2> QED
      BY <2>1, <2>2
  <1>4. ASSUME NEW x \in L PROVE \E o \in home_server_ldb(r) : o.home = x.found
    <2>1. x.found \in {y.found : y \in L}
      OBVIOUS
    <2>2. [home |-> x.found, woken |-> {}] \in home_server_ldb(r)
      BY <1>1, <1>2, <2>1 DEF home_server_ldb
    <2>3. [home |-> x.found, woken |-> {}].home = x.found
      OBVIOUS
    <2> QED
      BY <2>2, <2>3
  <1> QED
    BY <1>3, <1>4

LEMMA ActsAsLemma ==
  ASSUME PoolTypeOK, NEW r \in Requests, NEW n
  PROVE  /\ Origin(ActsAs(r), n, r) = Start(pool_conf.type, n, r)
         /\ ActsAs(r) = "load-balance" <=> pool_conf.type = "load-balance"
  <1>1. pool_conf.type \in PoolTypes
    BY DEF PoolTypeOK, PoolConf
  <1> QED
    BY <1>1 DEF Origin, ActsAs, Start, PoolTypes

LEMMA BestIsFound == ASSUME PoolTypeOK PROVE LoopFindsBest
  <1> SUFFICES ASSUME NEW r \in Requests, Alive(r) # {}
               PROVE  LET s == pool_conf.servers
                          n == Len(s)
                          b == Start(pool_conf.type, n, r)
                          Dist(i) == (i - 1 + n - b) % n
                          best == IF pool_conf.type = "load-balance"
                                  THEN {i \in Alive(r) : \A j \in Alive(r) :
                                          currently_outstanding[s[i]] <= currently_outstanding[s[j]]}
                                  ELSE {i \in Alive(r) : \A j \in Alive(r) : Dist(i) <= Dist(j)}
                      IN  {o.home : o \in home_server_ldb(r)} = {s[i] : i \in best}
    BY ActsAsLemma DEF LoopFindsBest
  <1>1. PICK s : s = pool_conf.servers
    OBVIOUS
  <1>2. s \in Seq(Homes) /\ s # <<>> /\ pool_conf.type \in PoolTypes
    BY <1>1 DEF PoolTypeOK, PoolConf
  <1>3. PICK n \in Nat \ {0} : n = Len(s)
    BY <1>2, EmptySeq
  <1>4. PICK b \in 0..(n - 1) : b = Start(pool_conf.type, n, r)
    BY StartLemma
  <1>5. PICK loop : loop = Loop(pool_conf.type, s, b, r)
    OBVIOUS
  <1> DEFINE V(k) == Visited(s, b, k)
             P(k) == PlaceAt(n, b, k)
             D(i) == Distance(n, b, i)
             co == currently_outstanding
  <1>6. b \in Nat /\ DOMAIN s = 1..n
    BY <1>2, <1>3
  <1>7. \A k \in 1..n : P(k) \in 1..n /\ D(P(k)) = k - 1 /\ V(k) = s[P(k)]
    BY <1>3, PlaceLemma DEF Visited, PlaceAt
  <1>8. \A i \in 1..n : D(i) + 1 \in 1..n /\ D(i) \in Int /\ V(D(i) + 1) = s[i]
    <2>1. \A i \in 1..n : D(i) \in 0..(n - 1) /\ P(D(i) + 1) = i
      BY DistanceLemma
    <2>2. \A i \in 1..n : D(i) + 1 \in 1..n /\ D(i) \in Int
      BY <2>1
    <2> QED
      BY <1>7, <2>1, <2>2
  <1>9. Alive(r) = {i \in 1..n : Live(s[i], r)}
    BY <1>1, <1>6, AliveLemma
  <1>10. PICK a \in 1..n : Live(s[a], r)
    BY <1>9
  <1>11. ~NoneOf(s, b, r, n)
    BY <1>8, <1>10 DEF NoneOf
  <1>12. \A k \in 1..n : V(k) \in Homes
    BY <1>2, <1>3, <1>6, VisitedType
  <1> HIDE DEF V, P, D
  <1>13. CASE pool_conf.type # "load-balance"
    <2>1. loop # {} /\ \A x \in loop : FirstOf(s, b, r, n, x.found)
      BY <1>2, <1>3, <1>5, <1>6, <1>11, <1>13, FirstIsFound
    <2>2. ASSUME NEW x \in loop
          PROVE  \E k \in 1..n : /\ Live(V(k), r) /\ x.found = V(k)
                                 /\ \A m \in 1..(k - 1) : ~Live(V(m), r)
      BY <2>1 DEF FirstOf, V
    <2>3. {o.home : o \in home_server_ldb(r)} = {x.found : x \in loop}
      <3>1. \A x \in loop : x.found \in Homes
        BY <1>12, <2>2
      <3> QED
        BY <1>1, <1>3, <1>4, <1>5, <2>1, <3>1, LdbIsLoop
    <2> DEFINE best == {i \in Alive(r) : \A j \in Alive(r) : D(i) <= D(j)}
    <2>4. ASSUME NEW x \in loop PROVE \E i \in best : x.found = s[i]
      <3>1. PICK k \in 1..n : /\ Live(V(k), r) /\ x.found = V(k)
                              /\ \A m \in 1..(k - 1) : ~Live(V(m), r)
        BY <2>2
      <3>2. P(k) \in 1..n /\ D(P(k)) = k - 1 /\ x.found = s[P(k)]
        BY <1>7, <3>1
      <3>3. ASSUME NEW j \in Alive(r) PROVE D(P(k)) <= D(j)
        <4>1. j \in 1..n /\ D(j) + 1 \in 1..n /\ D(j) \in Int /\ Live(V(D(j) + 1), r)
          BY <1>8, <1>9
        <4>2. ~(D(j) + 1 \in 1..(k - 1))
          BY <3>1, <4>1
        <4> QED
          BY <3>2, <4>1, <4>2
      <3> QED
        BY <1>9, <3>1, <3>2, <3>3
    <2>5. ASSUME NEW i \in best PROVE \E x \in loop : x.found = s[i]
      <3>1. PICK x \in loop : TRUE
        BY <2>1
      <3>2. PICK k \in 1..n : /\ Live(V(k), r) /\ x.found = V(k)
                              /\ \A m \in 1..(k - 1) : ~Live(V(m), r)
        BY <2>2
      <3>3. i \in 1..n /\ Live(s[i], r)
        BY <1>9
      <3>4. D(i) + 1 \in 1..n /\ D(i) \in Int /\ V(D(i) + 1) = s[i]
        BY <1>8, <3>3
      <3>5. P(k) \in 1..n /\ D(P(k)) = k - 1 /\ x.found = s[P(k)]
        BY <1>7, <3>2
      <3>6. P(k) \in Alive(r)
        BY <1>9, <3>2, <3>5
      <3>7. D(i) <= k - 1
        BY <3>5, <3>6
      <3>8. ~(D(i) + 1 \in 1..(k - 1))
        BY <3>2, <3>3, <3>4
      <3>9. D(i) + 1 = k
        BY <3>4, <3>7, <3>8
      <3> QED
        BY <3>2, <3>4, <3>9
    <2>6. {x.found : x \in loop} = {s[i] : i \in best}
      BY <2>4, <2>5
    <2> QED
      BY <1>1, <1>3, <1>4, <1>13, <2>3, <2>6 DEF D, Distance
  <1>14. CASE pool_conf.type = "load-balance"
    <2>1. /\ loop # {}
          /\ \A x \in loop : LeastOf(s, b, r, n, x.found)
          /\ \A h : LeastOf(s, b, r, n, h) => \E x \in loop : x.found = h
      BY <1>2, <1>3, <1>5, <1>6, <1>11, <1>14, LeastIsFound
    <2>2. ASSUME NEW x \in loop
          PROVE  \E k \in 1..n : /\ Live(V(k), r) /\ x.found = V(k)
                                 /\ \A m \in 1..n : Live(V(m), r) => co[x.found] <= co[V(m)]
      BY <2>1 DEF LeastOf, V
    <2>3. {o.home : o \in home_server_ldb(r)} = {x.found : x \in loop}
      <3>1. \A x \in loop : x.found \in Homes
        BY <1>12, <2>2
      <3> QED
        BY <1>1, <1>3, <1>4, <1>5, <2>1, <3>1, LdbIsLoop
    <2> DEFINE best == {i \in Alive(r) : \A j \in Alive(r) : co[s[i]] <= co[s[j]]}
    <2>4. ASSUME NEW x \in loop PROVE \E i \in best : x.found = s[i]
      <3>1. PICK k \in 1..n : /\ Live(V(k), r) /\ x.found = V(k)
                              /\ \A m \in 1..n : Live(V(m), r) => co[x.found] <= co[V(m)]
        BY <2>2
      <3>2. P(k) \in 1..n /\ x.found = s[P(k)]
        BY <1>7, <3>1
      <3>3. ASSUME NEW j \in Alive(r) PROVE co[s[P(k)]] <= co[s[j]]
        BY <1>8, <1>9, <3>1, <3>2
      <3> QED
        BY <1>9, <3>1, <3>2, <3>3
    <2>5. ASSUME NEW i \in best PROVE \E x \in loop : x.found = s[i]
      <3>1. i \in 1..n /\ Live(s[i], r)
        BY <1>9
      <3>2. D(i) + 1 \in 1..n /\ V(D(i) + 1) = s[i]
        BY <1>8, <3>1
      <3>3. \A m \in 1..n : Live(V(m), r) => co[s[i]] <= co[V(m)]
        BY <1>7, <1>9
      <3>4. LeastOf(s, b, r, n, s[i])
        BY <3>1, <3>2, <3>3 DEF LeastOf, V
      <3> QED
        BY <2>1, <3>4
    <2>6. {x.found : x \in loop} = {s[i] : i \in best}
      BY <2>4, <2>5
    <2> QED
      BY <1>1, <1>14, <2>3, <2>6
  <1> QED
    BY <1>13, <1>14

----------------------------------------------------------------------------
LEMMA PoolTypeInit == PoolInit => PoolTypeOK /\ NeverTooBusy
  BY HomePoolAssumption DEF PoolInit, PoolTypeOK, NeverTooBusy

LEMMA PoolStep ==
  ASSUME PoolTypeOK, NeverTooBusy, [PoolNext]_poolVars
  PROVE  PoolTypeOK' /\ NeverTooBusy'
  <1>1. ASSUME NEW r \in Requests, Proxy(r) PROVE PoolTypeOK' /\ NeverTooBusy'
    <2>1. PICK o \in home_server_ldb(r) :
            /\ home_state' = [h \in Homes |-> IF h \in o.woken THEN "alive" ELSE home_state[h]]
            /\ currently_outstanding' =
                 [h \in Homes |-> currently_outstanding[h] + IF h = o.home THEN 1 ELSE 0]
            /\ \A h \in Homes : currently_outstanding'[h] <= MaxOutstanding + 1
            /\ UNCHANGED pool_conf
      BY <1>1 DEF Proxy
    <2>2. \A h \in Homes : currently_outstanding'[h] \in 0..(MaxOutstanding + 1)
      BY <2>1, HomePoolAssumption DEF PoolTypeOK
    <2>3. PoolTypeOK'
      BY <2>1, <2>2 DEF PoolTypeOK
    <2>4. ASSUME ~pool_conf.wakeAll, NEW h \in Homes PROVE currently_outstanding'[h] <= MaxOutstanding
      <3>0. currently_outstanding[h] \in Int /\ currently_outstanding[h] <= MaxOutstanding
        BY <2>4, HomePoolAssumption DEF NeverTooBusy, PoolTypeOK
      <3>1. CASE h # o.home
        BY <2>1, <3>0, <3>1
      <3>2. CASE h = o.home
        <4>1. MayTake(h, r)
          BY <2>1, <2>4, <3>2, LdbUsable
        <4>2. currently_outstanding[h] < MaxOutstanding
          BY <4>1 DEF MayTake
        <4> QED
          BY <2>1, <3>0, <3>2, <4>2, HomePoolAssumption
      <3> QED
        BY <3>1, <3>2
    <2>5. NeverTooBusy'
      BY <2>1, <2>4 DEF NeverTooBusy
    <2> QED
      BY <2>3, <2>5
  <1>2. ASSUME NEW h \in Homes, Leaves(h) PROVE PoolTypeOK' /\ NeverTooBusy'
    BY <1>2, HomePoolAssumption DEF Leaves, PoolTypeOK, NeverTooBusy
  <1>3. ASSUME NEW h \in Homes, StateChanges(h) PROVE PoolTypeOK' /\ NeverTooBusy'
    BY <1>3 DEF StateChanges, PoolTypeOK, NeverTooBusy
  <1>4. CASE UNCHANGED poolVars
    BY <1>4 DEF poolVars, PoolTypeOK, NeverTooBusy
  <1> QED
    BY <1>1, <1>2, <1>3, <1>4 DEF PoolNext

(***************************************************************************)
(* home_server_ldb() finds the best server for the type it acts as, for    *)
(* pools of every length, every hash and every state of the servers, and   *)
(* max_outstanding is never exceeded without wake_all.                     *)
(***************************************************************************)
THEOREM ChoiceIsAlwaysRight == PoolSpec => []ChoiceIsRight
  <1>1. PoolInit => PoolTypeOK /\ NeverTooBusy
    BY PoolTypeInit
  <1>2. PoolTypeOK /\ NeverTooBusy /\ [PoolNext]_poolVars => (PoolTypeOK /\ NeverTooBusy)'
    BY PoolStep
  <1>3. PoolTypeOK /\ NeverTooBusy => ChoiceIsRight
    BY BestIsFound DEF ChoiceIsRight
  <1> QED
    BY <1>1, <1>2, <1>3, PTL DEF PoolSpec

----------------------------------------------------------------------------
(* What a handler works on.                                                 *)

SqlWorld ==
    [socks: [Places -> SqlSock], grace: 0 .. SqlDelay + 1, rows: [SqlSessions -> Seq(BOOLEAN)],
     ret: {"ok", "error", "down"}, n: Nat, got: 0 .. NumSocks]

SocksAreTrue(ss) == \A i \in Places : ss[i].connected <=> ss[i].conn # "none"

LEMMA SqlNats ==
  /\ NumSocks \in Nat \ {0} /\ SqlDelay \in Nat /\ SqlLifetime \in Nat /\ SqlMaxQueries \in Nat /\ MaxRows \in Nat
  BY SqlAssumption

LEMMA OpenLemma == Open \in SqlSock /\ Open.connected = TRUE /\ Open.conn = "live" /\ ~UsedUp(Open)
  <1>1. Open \in SqlSock
    BY SqlNats DEF Open, SqlSock
  <1>2. Open.connected = TRUE /\ Open.conn = "live" /\ Open.age = 0 /\ Open.queries = 0
    BY DEF Open
  <1> QED
    BY <1>1, <1>2, SqlNats DEF UsedUp

LEMMA ConnectedLemma ==
  ASSUME NEW w \in SqlWorld, NEW i \in Places
  PROVE  LET v == Connected(w, i)
         IN  /\ v \in SqlWorld
             /\ v.socks = [w.socks EXCEPT ![i] = Open]
             /\ v.grace = w.grace /\ v.rows = w.rows /\ v.ret = w.ret /\ v.n = w.n /\ v.got = w.got
  <1>1. [w.socks EXCEPT ![i] = Open] \in [Places -> SqlSock]
    BY OpenLemma DEF SqlWorld
  <1> QED
    BY <1>1 DEF Connected, SqlWorld

LEMMA UnconnectedLemma == Unconnected \in SqlSock /\ Unconnected.connected = FALSE /\ Unconnected.conn = "none"
  BY OpenLemma DEF Unconnected, SqlSock

LEMMA NotConnectedLemma ==
  ASSUME NEW w \in SqlWorld, NEW i \in Places
  PROVE  /\ NotConnected(w, i) \in SqlWorld
         /\ NotConnected(w, i).socks = [w.socks EXCEPT ![i] = Unconnected]
         /\ NotConnected(w, i).grace = SqlDelay + 1 /\ NotConnected(w, i).rows = w.rows
         /\ NotConnected(w, i).ret = w.ret /\ NotConnected(w, i).n = w.n /\ NotConnected(w, i).got = w.got
  <1>1. w.socks \in [Places -> SqlSock]
    BY DEF SqlWorld
  <1>2. PICK w1 : w1 = [w EXCEPT !.socks = [w.socks EXCEPT ![i] = Unconnected]]
    OBVIOUS
  <1>3. [w.socks EXCEPT ![i] = Unconnected] \in [Places -> SqlSock]
    BY <1>1, UnconnectedLemma
  <1>4. NotConnected(w, i) = [w1 EXCEPT !.grace = SqlDelay + 1]
    BY <1>1, <1>2 DEF NotConnected, SqlWorld
  <1>5. /\ w1 \in SqlWorld /\ w1.socks = [w.socks EXCEPT ![i] = Unconnected]
        /\ w1.rows = w.rows /\ w1.ret = w.ret /\ w1.n = w.n /\ w1.got = w.got
    BY <1>2, <1>3 DEF SqlWorld
  <1> QED
    BY <1>4, <1>5, SqlNats DEF SqlWorld

----------------------------------------------------------------------------
(* sql_get_socket().                                                        *)

\* What one socket of the search does: v after w.
Tried(w, i, v) ==
  /\ v \in SqlWorld /\ v.rows = w.rows /\ v.ret = w.ret /\ v.n = w.n
  /\ SocksAreTrue(w.socks) => SocksAreTrue(v.socks)
  /\ v.got \in {0, i}
  /\ v.got = i => v.socks[i].connected /\ ~UsedUp(v.socks[i])
  /\ \A j \in Places \ {i} : v.socks[j] = w.socks[j]
  /\ sql_up /\ w.grace = 0 => v.got = i
  /\ w.socks[i].connected /\ ~UsedUp(w.socks[i]) => v.got = i

LEMMA GotLemma ==
  ASSUME NEW v \in SqlWorld, NEW i \in Places
  PROVE  LET g == [v EXCEPT !.got = i]
         IN  /\ g \in SqlWorld /\ g.socks = v.socks /\ g.grace = v.grace /\ g.rows = v.rows
             /\ g.ret = v.ret /\ g.n = v.n /\ g.got = i
  <1>1. i \in 0 .. NumSocks
    BY SqlNats DEF Places
  <1> QED
    BY <1>1 DEF SqlWorld

LEMMA VisitLemma ==
  ASSUME NEW w \in SqlWorld, w.got = 0, NEW i \in Places
  PROVE  Tried(w, i, Visit(w, i))
  <1>0. /\ w.socks \in [Places -> SqlSock] /\ w.socks[i] \in SqlSock /\ i # 0
        /\ w.socks[i].connected \in BOOLEAN
    BY SqlNats DEF SqlWorld, SqlSock, Places
  <1> DEFINE again == UsedUp(w.socks[i]) \/ (~w.socks[i].connected /\ w.grace = 0)
  <1>1. CASE again /\ sql_up
    <2>1. PICK v \in SqlWorld :
            /\ v = Connected(w, i) /\ v.socks = [w.socks EXCEPT ![i] = Open]
            /\ v.rows = w.rows /\ v.ret = w.ret /\ v.n = w.n
      BY ConnectedLemma
    <2>2. v.socks[i] = Open /\ \A j \in Places \ {i} : v.socks[j] = w.socks[j]
      BY <1>0, <2>1
    <2>3. Visit(w, i) = [v EXCEPT !.got = i]
      BY <1>1, <2>1, <2>2, OpenLemma DEF Visit
    <2>4. /\ Visit(w, i) \in SqlWorld /\ Visit(w, i).socks = v.socks /\ Visit(w, i).rows = v.rows
          /\ Visit(w, i).ret = v.ret /\ Visit(w, i).n = v.n /\ Visit(w, i).got = i
      BY <2>3, GotLemma
    <2>5. SocksAreTrue(w.socks) => SocksAreTrue(v.socks)
      BY <2>2, OpenLemma DEF SocksAreTrue
    <2> QED
      BY <2>1, <2>2, <2>4, <2>5, OpenLemma DEF Tried
  <1>2. CASE again /\ ~sql_up
    <2>4. PICK none \in SqlSock : none = Unconnected
      BY UnconnectedLemma
    <2>1. PICK v \in SqlWorld :
            /\ none \in SqlSock
            /\ v = NotConnected(w, i) /\ v.socks = [w.socks EXCEPT ![i] = none]
            /\ none.connected = FALSE /\ none.conn = "none"
            /\ v.rows = w.rows /\ v.ret = w.ret /\ v.n = w.n /\ v.got = w.got
      BY <2>4, NotConnectedLemma, UnconnectedLemma
    <2>2. v.socks[i] = none /\ \A j \in Places \ {i} : v.socks[j] = w.socks[j]
      BY <1>0, <2>1
    <2>3. Visit(w, i) = v
      BY <1>2, <2>1, <2>2 DEF Visit
    <2>5. SocksAreTrue(w.socks) => SocksAreTrue(v.socks)
      BY <2>1, <2>2 DEF SocksAreTrue
    <2>6. ~(w.socks[i].connected /\ ~UsedUp(w.socks[i]))
      BY <1>2
    <2> QED
      BY <1>0, <1>2, <2>1, <2>2, <2>3, <2>5, <2>6 DEF Tried
  <1>3. CASE ~again /\ w.socks[i].connected
    <2>1. Visit(w, i) = [w EXCEPT !.got = i]
      BY <1>3 DEF Visit
    <2>2. /\ Visit(w, i) \in SqlWorld /\ Visit(w, i).socks = w.socks /\ Visit(w, i).rows = w.rows
          /\ Visit(w, i).ret = w.ret /\ Visit(w, i).n = w.n /\ Visit(w, i).got = i
      BY <2>1, GotLemma
    <2> QED
      BY <1>3, <2>2 DEF Tried
  <1>4. CASE ~again /\ ~w.socks[i].connected
    <2>1. Visit(w, i) = w
      BY <1>4 DEF Visit
    <2>2. ~(sql_up /\ w.grace = 0)
      BY <1>4
    <2> QED
      BY <1>0, <1>4, <2>1, <2>2 DEF Tried
  <1> QED
    BY <1>1, <1>2, <1>3, <1>4

LEMMA RingLemma ==
  ASSUME last_used \in 0 .. NumSocks
  PROVE  /\ \A k \in 1 .. NumSocks : Ring[k] \in Places
         /\ \A i \in Places : \E k \in 1 .. NumSocks : Ring[k] = i
  <1>1. PICK b : b = (IF last_used = 0 THEN 1 ELSE last_used) - 1
    OBVIOUS
  <1>2. b \in 0 .. (NumSocks - 1)
    BY <1>1, SqlNats
  <1>3. ASSUME NEW k \in 1 .. NumSocks PROVE Ring[k] = PlaceAt(NumSocks, b, k)
    <2>1. (IF last_used = 0 THEN 1 ELSE last_used) + k - 2 = b + k - 1
      BY <1>1, <1>2
    <2> QED
      BY <2>1 DEF Ring, PlaceAt
  <1>4. \A k \in 1 .. NumSocks : Ring[k] \in Places
    BY <1>2, <1>3, PlaceLemma, SqlNats DEF Places
  <1>5. ASSUME NEW i \in Places PROVE \E k \in 1 .. NumSocks : Ring[k] = i
    <2>1. PICK d : d = Distance(NumSocks, b, i)
      OBVIOUS
    <2>2. d \in 0 .. (NumSocks - 1) /\ PlaceAt(NumSocks, b, d + 1) = i
      BY <1>2, <2>1, DistanceLemma, SqlNats DEF Places
    <2>3. d + 1 \in 1 .. NumSocks
      BY <2>2, SqlNats
    <2> QED
      BY <1>3, <2>2, <2>3
  <1> QED
    BY <1>4, <1>5

\* The search from v to its next socket.
Next1(v, i) == IF v.got # 0 THEN v ELSE Visit(v, i)

IsSearch(T, w) ==
  /\ T[0] = w
  /\ \A k \in 1 .. NumSocks : T[k] = Next1(T[k - 1], Ring[k])
  /\ \A k \in 0 .. NumSocks : T[k] \in SqlWorld

LEMMA Next1Type ==
  ASSUME NEW v \in SqlWorld, NEW i \in Places
  PROVE  Next1(v, i) \in SqlWorld
  BY VisitLemma DEF Next1, Tried

\* The recursion over the sockets is well defined.
LEMMA SearchLemma ==
  ASSUME NEW w \in SqlWorld, last_used \in 0 .. NumSocks
  PROVE  IsSearch(Search(w), w)
  <1> DEFINE N == NumSocks
             F == [k \in 1 .. N |-> [v \in SqlWorld |-> Next1(v, Ring[k])]]
             Def(g) == [k \in 0 .. N |-> IF k = 0 THEN w ELSE Next1(g[k - 1], Ring[k])]
             T == Search(w)
  <1>0. N \in Nat
    BY SqlNats
  <1>1. \A k \in 1 .. N : Ring[k] \in Places
    BY RingLemma
  <1>2. ASSUME NEW k \in 1 .. N, NEW v \in SqlWorld PROVE Next1(v, Ring[k]) \in SqlWorld
    BY <1>1, Next1Type
  <1>3. T = CHOOSE g : g = Def(g)
    BY DEF Search, Next1
  <1> HIDE DEF T, N
  <1>4. PICK g : Recursive(g, N, w, F)
    <2> HIDE DEF F
    <2> QED
      BY <1>0, RecursionExists
  <1>5. g = [k \in 0 .. N |-> IF k = 0 THEN w ELSE F[k][g[k - 1]]]
    BY <1>4 DEF Recursive
  <1>6. \A k \in 0 .. N : g[k] \in SqlWorld
    <2> DEFINE S == {k \in 0 .. N : g[k] \in SqlWorld}
    <2>1. 0 \in S
      BY <1>0, <1>5
    <2>2. ASSUME NEW k \in 1 .. N, k - 1 \in S PROVE k \in S
      <3>1. k \in 0 .. N /\ k # 0 /\ g[k - 1] \in SqlWorld
        BY <2>2
      <3>2. g[k] = F[k][g[k - 1]]
        BY <1>5, <3>1
      <3>3. F[k][g[k - 1]] = Next1(g[k - 1], Ring[k])
        BY <3>1
      <3> QED
        BY <1>2, <3>1, <3>2, <3>3
    <2>3. S \in SUBSET (0 .. N)
      OBVIOUS
    <2>4. S = 0 .. N
      <3> HIDE DEF S
      <3> QED
        BY <1>0, <2>1, <2>2, <2>3, UpTo
    <2> QED
      BY <2>4
  <1>7. g = Def(g)
    <2>1. ASSUME NEW k \in 0 .. N
          PROVE  (IF k = 0 THEN w ELSE F[k][g[k - 1]]) = (IF k = 0 THEN w ELSE Next1(g[k - 1], Ring[k]))
      <3>1. CASE k # 0
        <4>1. k \in 1 .. N /\ k - 1 \in 0 .. N
          BY <1>0, <3>1
        <4>3. g[k - 1] \in SqlWorld
          BY <1>6, <4>1
        <4>2. F[k][g[k - 1]] = Next1(g[k - 1], Ring[k])
          BY <4>1, <4>3
        <4> QED
          BY <4>2
      <3> QED
        BY <3>1
    <2> QED
      BY <1>5, <2>1
  <1>8. T = Def(T)
    <2> HIDE DEF Def
    <2> QED
      BY <1>3, <1>7
  <1>9. T[0] = w
    BY <1>0, <1>8
  <1>10. \A k \in 1 .. N : T[k] = Next1(T[k - 1], Ring[k])
    BY <1>0, <1>8
  <1>11. \A k \in 0 .. N : T[k] \in SqlWorld
    <2> DEFINE S == {k \in 0 .. N : T[k] \in SqlWorld}
    <2>1. 0 \in S
      BY <1>0, <1>9
    <2>2. ASSUME NEW k \in 1 .. N, k - 1 \in S PROVE k \in S
      BY <1>2, <1>10, <2>2
    <2>3. S \in SUBSET (0 .. N)
      OBVIOUS
    <2>4. S = 0 .. N
      <3> HIDE DEF S
      <3> QED
        BY <1>0, <2>1, <2>2, <2>3, UpTo
    <2> QED
      BY <2>4
  <1> QED
    BY <1>9, <1>10, <1>11 DEF T, N, IsSearch

\* What is known after k sockets.
Searched(w, k, v) ==
  /\ v \in SqlWorld /\ v.rows = w.rows /\ v.ret = w.ret /\ v.n = w.n
  /\ SocksAreTrue(w.socks) => SocksAreTrue(v.socks)
  /\ v.got # 0 => v.got \in Places /\ v.socks[v.got].connected /\ ~UsedUp(v.socks[v.got])
  /\ v.got = 0 => /\ k = 0 => v = w
                  /\ k # 0 => ~(sql_up /\ w.grace = 0)
                  /\ \A i \in Places : (\A j \in 1 .. k : Ring[j] # i) => v.socks[i] = w.socks[i]
                  /\ \A j \in 1 .. k : ~(w.socks[Ring[j]].connected /\ ~UsedUp(w.socks[Ring[j]]))

LEMMA SearchStep ==
  ASSUME NEW w \in SqlWorld, w.got = 0, last_used \in 0 .. NumSocks,
         NEW k \in 1 .. NumSocks, NEW v, Searched(w, k - 1, v)
  PROVE  Searched(w, k, Next1(v, Ring[k]))
  <1>1. Ring[k] \in Places /\ Ring[k] # 0
    BY RingLemma, SqlNats DEF Places
  <1>2. k # 0 /\ (\A j \in 1 .. k : j = k \/ j \in 1 .. (k - 1)) /\ (\A j \in 1 .. (k - 1) : j \in 1 .. k) /\ k \in 1 .. k
    OBVIOUS
  <1>3. CASE v.got # 0
    BY <1>3 DEF Next1, Searched
  <1>4. CASE v.got = 0
    <2>1. PICK x : x = Next1(v, Ring[k])
      OBVIOUS
    <2>2. v \in SqlWorld
      BY DEF Searched
    <2>3. Tried(v, Ring[k], x)
      BY <1>1, <1>4, <2>1, <2>2, VisitLemma DEF Next1
    <2>4. x \in SqlWorld /\ x.rows = w.rows /\ x.ret = w.ret /\ x.n = w.n
      BY <2>3 DEF Tried, Searched
    <2>5. SocksAreTrue(w.socks) => SocksAreTrue(x.socks)
      BY <2>3 DEF Tried, Searched
    <2>6. x.got # 0 => x.got \in Places /\ x.socks[x.got].connected /\ ~UsedUp(x.socks[x.got])
      BY <1>1, <2>3 DEF Tried
    <2>7. ASSUME x.got = 0 PROVE ~(sql_up /\ w.grace = 0)
      <3>1. ~(sql_up /\ v.grace = 0)
        BY <1>1, <2>3, <2>7 DEF Tried
      <3>2. k - 1 = 0 => v = w
        BY <1>4 DEF Searched
      <3>3. k - 1 # 0 => ~(sql_up /\ w.grace = 0)
        BY <1>4 DEF Searched
      <3> QED
        BY <3>1, <3>2, <3>3
    <2>8. ASSUME NEW i \in Places, \A j \in 1 .. k : Ring[j] # i PROVE x.socks[i] = w.socks[i]
      <3>1. v.socks[i] = w.socks[i]
        BY <1>2, <1>4, <2>8 DEF Searched
      <3>2. i # Ring[k]
        BY <1>2, <2>8
      <3> QED
        BY <2>3, <3>1, <3>2 DEF Tried
    <2>9. ASSUME x.got = 0, NEW j \in 1 .. k
          PROVE  ~(w.socks[Ring[j]].connected /\ ~UsedUp(w.socks[Ring[j]]))
      <3>1. CASE \E m \in 1 .. (k - 1) : Ring[m] = Ring[j]
        <4>1. PICK m \in 1 .. (k - 1) : Ring[m] = Ring[j]
          BY <3>1
        <4>2. ~(w.socks[Ring[m]].connected /\ ~UsedUp(w.socks[Ring[m]]))
          BY <1>4, <4>1 DEF Searched
        <4> QED
          BY <4>1, <4>2
      <3>2. CASE ~\E m \in 1 .. (k - 1) : Ring[m] = Ring[j]
        <4>1. j = k
          BY <1>2, <3>2
        <4>2. v.socks[Ring[k]] = w.socks[Ring[k]]
          BY <1>1, <1>4, <3>2, <4>1 DEF Searched
        <4> QED
          BY <1>1, <2>3, <2>9, <4>1, <4>2 DEF Tried
      <3> QED
        BY <3>1, <3>2
    <2>10. Searched(w, k, x)
      BY <1>2, <2>4, <2>5, <2>6, <2>7, <2>8, <2>9 DEF Searched
    <2> QED
      BY <2>1, <2>10
  <1> QED
    BY <1>3, <1>4

LEMMA SearchIsRight ==
  ASSUME NEW w \in SqlWorld, w.got = 0, last_used \in 0 .. NumSocks
  PROVE  Searched(w, NumSocks, Search(w)[NumSocks])
  <1>1. PICK T : T = Search(w)
    OBVIOUS
  <1>2. /\ T[0] = w
        /\ \A k \in 1 .. NumSocks : T[k] = Next1(T[k - 1], Ring[k])
    BY <1>1, SearchLemma DEF IsSearch
  <1> DEFINE S == {k \in 0 .. NumSocks : Searched(w, k, T[k])}
  <1>3. 0 \in S
    <2>1. Searched(w, 0, w)
      BY DEF Searched
    <2> QED
      BY <1>2, <2>1, SqlNats
  <1>4. ASSUME NEW k \in 1 .. NumSocks, k - 1 \in S PROVE k \in S
    BY <1>2, <1>4, SearchStep
  <1>5. S \in SUBSET (0 .. NumSocks)
    OBVIOUS
  <1>6. S = 0 .. NumSocks
    <2> HIDE DEF S
    <2> QED
      BY <1>3, <1>4, <1>5, UpTo, SqlNats
  <1> QED
    BY <1>1, <1>6, SqlNats

\* A socket of the search is given out: its rows are as before.
LEMMA GetLemma ==
  ASSUME NEW w \in SqlWorld, w.got = 0, last_used \in 0 .. NumSocks
  PROVE  LET g == sql_get_socket(w)
         IN  /\ g \in SqlWorld /\ g.rows = w.rows
             /\ SocksAreTrue(w.socks) => SocksAreTrue(g.socks)
             /\ g.got # 0 => g.got \in Places
             /\ sql_up /\ w.grace = 0 => g.got # 0
             /\ (\E i \in Places : w.socks[i].connected /\ ~UsedUp(w.socks[i])) => g.got # 0
  <1>1. PICK f : f = Search(w)[NumSocks]
    OBVIOUS
  <1>2. Searched(w, NumSocks, f)
    BY <1>1, SearchIsRight
  <1>3. f \in SqlWorld /\ f.rows = w.rows /\ (SocksAreTrue(w.socks) => SocksAreTrue(f.socks))
    BY <1>2 DEF Searched
  <1>4. f.got # 0 => f.got \in Places
    BY <1>2 DEF Searched
  <1>5. sql_up /\ w.grace = 0 => f.got # 0
    BY <1>2, SqlNats DEF Searched
  <1>6. (\E i \in Places : w.socks[i].connected /\ ~UsedUp(w.socks[i])) => f.got # 0
    <2> SUFFICES ASSUME NEW i \in Places, w.socks[i].connected, ~UsedUp(w.socks[i]), f.got = 0
                 PROVE  FALSE
      OBVIOUS
    <2>1. PICK k \in 1 .. NumSocks : Ring[k] = i
      BY RingLemma
    <2> QED
      BY <1>2, <2>1 DEF Searched
  <1>7. CASE f.got = 0 \/ SqlMaxQueries = 0
    <2>1. sql_get_socket(w) = f
      BY <1>1, <1>7 DEF sql_get_socket
    <2> QED
      BY <1>3, <1>4, <1>5, <1>6, <2>1
  <1>8. CASE f.got # 0 /\ SqlMaxQueries # 0
    <2>1. PICK i \in Places : i = f.got
      BY <1>4, <1>8
    <2>2. PICK s \in SqlSock : s = f.socks[i] /\ f.socks \in [Places -> SqlSock]
      BY <1>3 DEF SqlWorld
    <2>3. s.connected /\ ~UsedUp(s)
      BY <1>2, <1>8, <2>1, <2>2 DEF Searched
    <2>4. s.queries \in 0 .. SqlMaxQueries /\ ~(s.queries >= SqlMaxQueries)
      BY <1>8, <2>3 DEF UsedUp, SqlSock
    <2>5. s.queries + 1 \in 0 .. SqlMaxQueries
      BY <2>4, SqlNats
    <2>6. PICK u : u = [s EXCEPT !.queries = s.queries + 1]
      OBVIOUS
    <2>7. u \in SqlSock /\ u.connected = s.connected /\ u.conn = s.conn
      BY <2>5, <2>6 DEF SqlSock
    <2>8. PICK ss : ss = [f.socks EXCEPT ![i] = u]
      OBVIOUS
    <2>9. ss \in [Places -> SqlSock] /\ ss[i] = u /\ \A j \in Places \ {i} : ss[j] = f.socks[j]
      BY <2>2, <2>7, <2>8
    <2>10. sql_get_socket(w) = [f EXCEPT !.socks = ss]
      <3>1. sql_get_socket(w) = [f EXCEPT !.socks[i].queries = @ + 1]
        BY <1>1, <1>8, <2>1 DEF sql_get_socket
      <3> QED
        BY <1>3, <2>2, <2>6, <2>8, <3>1 DEF SqlWorld
    <2>11. LET g == sql_get_socket(w)
           IN  g \in SqlWorld /\ g.rows = f.rows /\ g.got = f.got /\ g.socks = ss
      BY <1>3, <2>9, <2>10 DEF SqlWorld
    <2>12. SocksAreTrue(f.socks) => SocksAreTrue(ss)
      BY <2>2, <2>7, <2>9 DEF SocksAreTrue
    <2> QED
      BY <1>3, <1>4, <1>5, <1>6, <2>11, <2>12
  <1> QED
    BY <1>7, <1>8

----------------------------------------------------------------------------
(* The rows.                                                                *)

\* No row goes, and a closed one stays closed.
RowsKept(r1, r2) ==
  \A t \in SqlSessions : /\ Len(r1[t]) <= Len(r2[t])
                         /\ \A k \in 1 .. Len(r1[t]) : r1[t][k] = FALSE => r2[t][k] = FALSE

OneRow(r) == unique_key => \A t \in SqlSessions : Len(r[t]) <= 1

Closed(r, s) == \A k \in 1 .. Len(r[s]) : r[s][k] = FALSE

LEMMA RowsKeptTransitive ==
  ASSUME NEW r1 \in [SqlSessions -> Seq(BOOLEAN)], NEW r2 \in [SqlSessions -> Seq(BOOLEAN)],
         NEW r3 \in [SqlSessions -> Seq(BOOLEAN)], RowsKept(r1, r2), RowsKept(r2, r3)
  PROVE  RowsKept(r1, r3)
  <1> SUFFICES ASSUME NEW t \in SqlSessions
               PROVE  /\ Len(r1[t]) <= Len(r3[t])
                      /\ \A k \in 1 .. Len(r1[t]) : r1[t][k] = FALSE => r3[t][k] = FALSE
    BY DEF RowsKept
  <1>1. Len(r1[t]) \in Nat /\ Len(r2[t]) \in Nat /\ Len(r3[t]) \in Nat
    OBVIOUS
  <1>2. Len(r1[t]) <= Len(r2[t]) /\ Len(r2[t]) <= Len(r3[t])
    BY DEF RowsKept
  <1>3. \A k \in 1 .. Len(r1[t]) : k \in 1 .. Len(r2[t])
    BY <1>1, <1>2
  <1> QED
    BY <1>1, <1>2, <1>3 DEF RowsKept

\* A session without an open row gets one by an INSERT of a Start or an Alive,
\* and with a unique key only as its first.
StaysClosed(r1, r2, s, q) ==
  \A t \in SqlSessions :
     Closed(r1, t) /\ (q \notin {"start", "alive_alt"} \/ t # s \/ (unique_key /\ Len(r1[t]) >= 1)) => Closed(r2, t)

LEMMA StaysClosedTransitive ==
  ASSUME NEW r1 \in [SqlSessions -> Seq(BOOLEAN)], NEW r2 \in [SqlSessions -> Seq(BOOLEAN)], NEW r3,
         NEW s, NEW q, RowsKept(r1, r2), StaysClosed(r1, r2, s, q), StaysClosed(r2, r3, s, q)
  PROVE  StaysClosed(r1, r3, s, q)
  <1> SUFFICES ASSUME NEW t \in SqlSessions, Closed(r1, t),
                      q \notin {"start", "alive_alt"} \/ t # s \/ (unique_key /\ Len(r1[t]) >= 1)
               PROVE  Closed(r3, t)
    BY DEF StaysClosed
  <1>1. Len(r1[t]) \in Nat /\ Len(r2[t]) \in Nat /\ Len(r1[t]) <= Len(r2[t])
    BY DEF RowsKept
  <1>2. Closed(r2, t)
    BY DEF StaysClosed
  <1>3. q \notin {"start", "alive_alt"} \/ t # s \/ (unique_key /\ Len(r2[t]) >= 1)
    BY <1>1
  <1> QED
    BY <1>2, <1>3 DEF StaysClosed

LEMMA StaysClosedRefl == ASSUME NEW r, NEW s, NEW q PROVE StaysClosed(r, r, s, q)
  BY DEF StaysClosed

\* What a successful statement tells of the rows of its session.
Stored(v, s, q) ==
  /\ q \in {"alive", "stop"} => v.n = Len(v.rows[s])
  /\ q \in {"alive_alt", "stop_alt"} => Len(v.rows[s]) >= 1
  /\ q = "stop" => Closed(v.rows, s)

Queries == {"start", "start_alt", "alive", "alive_alt", "stop", "stop_alt", "onoff"}

\* v is w after some statements.
Later(w, v) ==
  /\ v \in SqlWorld /\ v.got = w.got
  /\ RowsKept(w.rows, v.rows) /\ (OneRow(w.rows) => OneRow(v.rows))
  /\ SocksAreTrue(v.socks)

LEMMA RowsRefl == ASSUME NEW r \in [SqlSessions -> Seq(BOOLEAN)] PROVE RowsKept(r, r)
  BY DEF RowsKept

LEMMA LaterTransitive ==
  ASSUME NEW w \in SqlWorld, NEW v, NEW u, Later(w, v), Later(v, u)
  PROVE  Later(w, u)
  <1>1. w.rows \in [SqlSessions -> Seq(BOOLEAN)] /\ v.rows \in [SqlSessions -> Seq(BOOLEAN)]
        /\ u.rows \in [SqlSessions -> Seq(BOOLEAN)]
    BY DEF SqlWorld, Later
  <1>2. RowsKept(w.rows, v.rows) /\ RowsKept(v.rows, u.rows)
    BY DEF Later
  <1>3. RowsKept(w.rows, u.rows)
    BY <1>1, <1>2, RowsKeptTransitive
  <1> QED
    BY <1>3 DEF Later

\* A world with other rows, or another result.
OtherRows(w, r, m) == [w EXCEPT !.rows = r, !.n = m, !.ret = "ok"]

LEMMA WithRows ==
  ASSUME NEW w \in SqlWorld, NEW r \in [SqlSessions -> Seq(BOOLEAN)], NEW m \in Nat
  PROVE  /\ OtherRows(w, r, m) \in SqlWorld /\ OtherRows(w, r, m).rows = r
         /\ OtherRows(w, r, m).n = m /\ OtherRows(w, r, m).ret = "ok"
         /\ OtherRows(w, r, m).socks = w.socks /\ OtherRows(w, r, m).grace = w.grace
         /\ OtherRows(w, r, m).got = w.got
  BY DEF SqlWorld, OtherRows

LEMMA WithResult ==
  ASSUME NEW w \in SqlWorld, NEW x \in {"ok", "error", "down"}
  PROVE  LET v == [w EXCEPT !.ret = x]
         IN  /\ v \in SqlWorld /\ v.rows = w.rows /\ v.n = w.n /\ v.ret = x
             /\ v.socks = w.socks /\ v.grace = w.grace /\ v.got = w.got
  BY DEF SqlWorld

\* What the database does with a statement.
Ran(w, s, q, v) ==
  /\ v \in SqlWorld /\ v.socks = w.socks /\ v.got = w.got
  /\ RowsKept(w.rows, v.rows) /\ (OneRow(w.rows) => OneRow(v.rows)) /\ StaysClosed(w.rows, v.rows, s, q)
  /\ v.ret = "ok" => Stored(v, s, q)

LEMMA InsertLemma ==
  ASSUME NEW w \in SqlWorld, NEW s \in SqlSessions, NEW open \in BOOLEAN, NEW q \in Queries,
         q \in {"start", "alive_alt"} \/ (q = "stop_alt" /\ open = FALSE)
  PROVE  Ran(w, s, q, Insert(w, s, open))
  <1>1. PICK rows \in [SqlSessions -> Seq(BOOLEAN)] : rows = w.rows
    BY DEF SqlWorld
  <1>2. CASE unique_key /\ w.rows[s] # <<>>
    <2>1. Insert(w, s, open) = [w EXCEPT !.ret = "error"]
      BY <1>2 DEF Insert
    <2>2. PICK v : v = [w EXCEPT !.ret = "error"]
      OBVIOUS
    <2>3. v \in SqlWorld /\ v.rows = rows /\ v.ret = "error" /\ v.socks = w.socks /\ v.got = w.got
      BY ONLY <1>1, <2>2, w \in SqlWorld DEF SqlWorld
    <2>4. RowsKept(rows, rows)
      BY ONLY rows \in [SqlSessions -> Seq(BOOLEAN)], RowsRefl
    <2>5. v.ret # "ok"
      BY ONLY <2>3
    <2>6. Ran(w, s, q, v)
      BY ONLY <1>1, <2>3, <2>4, <2>5, StaysClosedRefl DEF Ran
    <2> QED
      BY ONLY <2>1, <2>2, <2>6
  <1>3. CASE ~(unique_key /\ w.rows[s] # <<>>)
    <2>1. PICK r : r = [rows EXCEPT ![s] = Append(rows[s], open)]
      OBVIOUS
    <2>2. /\ Append(rows[s], open) \in Seq(BOOLEAN)
          /\ Len(Append(rows[s], open)) = Len(rows[s]) + 1 /\ Len(rows[s]) \in Nat
          /\ Append(rows[s], open)[Len(rows[s]) + 1] = open
          /\ \A k \in 1 .. Len(rows[s]) : Append(rows[s], open)[k] = rows[s][k]
      BY AppendProperties
    <2>3. r \in [SqlSessions -> Seq(BOOLEAN)] /\ r[s] = Append(rows[s], open)
          /\ \A t \in SqlSessions \ {s} : r[t] = rows[t]
      BY <2>1, <2>2
    <2>4. PICK v : v = Insert(w, s, open)
      OBVIOUS
    <2>5. v = OtherRows(w, r, 1)
      BY <1>1, <1>3, <2>1, <2>4 DEF Insert, SqlWorld, OtherRows
    <2>13. r \in [SqlSessions -> Seq(BOOLEAN)] /\ 1 \in Nat
      BY <2>3
    <2>6. /\ v \in SqlWorld /\ v.rows = r /\ v.n = 1 /\ v.ret = "ok"
          /\ v.socks = w.socks /\ v.grace = w.grace /\ v.got = w.got
      BY ONLY <2>5, <2>13, WithRows, w \in SqlWorld
    <2>7. RowsKept(rows, r)
      <3> SUFFICES ASSUME NEW t \in SqlSessions
                   PROVE  /\ Len(rows[t]) <= Len(r[t])
                          /\ \A k \in 1 .. Len(rows[t]) : rows[t][k] = FALSE => r[t][k] = FALSE
        BY DEF RowsKept
      <3>1. CASE t = s
        BY <2>2, <2>3, <3>1
      <3>2. CASE t # s
        BY <2>3, <3>2
      <3> QED
        BY <3>1, <3>2
    <2>8. unique_key => Len(rows[s]) = 0
      BY <1>1, <1>3, EmptySeq
    <2>9. OneRow(rows) => OneRow(r)
      <3> SUFFICES ASSUME unique_key, OneRow(rows), NEW t \in SqlSessions PROVE Len(r[t]) <= 1
        BY DEF OneRow
      <3>1. CASE t = s
        <4>1. Len(r[s]) = Len(rows[s]) + 1 /\ Len(rows[s]) = 0
          BY <2>2, <2>3, <2>8
        <4> QED
          BY <3>1, <4>1
      <3>2. CASE t # s
        BY <2>3, <3>2 DEF OneRow
      <3> QED
        BY <3>1, <3>2
    <2>10. Len(r[s]) >= 1
      BY <2>2, <2>3
    <2>11. StaysClosed(rows, r, s, q)
      <3> SUFFICES ASSUME NEW t \in SqlSessions, Closed(rows, t),
                          q \notin {"start", "alive_alt"} \/ t # s \/ (unique_key /\ Len(rows[t]) >= 1)
                   PROVE  Closed(r, t)
        BY DEF StaysClosed
      <3>1. CASE t # s
        BY <2>3, <3>1 DEF Closed
      <3>2. CASE t = s
        <4>1. open = FALSE
          BY <2>2, <2>8, <3>2
        <4>2. \A k \in 1 .. Len(rows[s]) + 1 : k = Len(rows[s]) + 1 \/ k \in 1 .. Len(rows[s])
          BY <2>2
        <4> QED
          BY <2>2, <2>3, <3>2, <4>1, <4>2 DEF Closed
      <3> QED
        BY <3>1, <3>2
    <2>12. Stored(v, s, q)
      BY <2>6, <2>10 DEF Stored
    <2> QED
      BY <1>1, <2>4, <2>6, <2>7, <2>9, <2>11, <2>12 DEF Ran
  <1> QED
    BY <1>2, <1>3

LEMMA UpdateLemma ==
  ASSUME NEW w \in SqlWorld, NEW s \in SqlSessions, NEW closes \in BOOLEAN, NEW q \in Queries,
         q \notin {"alive_alt", "stop_alt"}, q = "stop" => closes = TRUE
  PROVE  Ran(w, s, q, Update(w, s, closes))
  <1>1. PICK rows \in [SqlSessions -> Seq(BOOLEAN)] : rows = w.rows
    BY DEF SqlWorld
  <1>2. PICK u : u = [k \in DOMAIN rows[s] |-> rows[s][k] /\ ~closes]
    OBVIOUS
  <1>3. /\ Len(rows[s]) \in Nat /\ DOMAIN rows[s] = 1 .. Len(rows[s])
        /\ \A k \in 1 .. Len(rows[s]) : rows[s][k] \in BOOLEAN
    OBVIOUS
  <1>4. u \in [1 .. Len(rows[s]) -> BOOLEAN]
    BY <1>2, <1>3
  <1>5. u \in Seq(BOOLEAN) /\ Len(u) = Len(rows[s])
    BY <1>3, <1>4, SeqDef, LenProperties
  <1>6. /\ \A k \in 1 .. Len(rows[s]) : rows[s][k] = FALSE => u[k] = FALSE
        /\ closes = TRUE => \A k \in 1 .. Len(rows[s]) : u[k] = FALSE
    BY <1>2, <1>3
  <1>7. PICK r : r = [rows EXCEPT ![s] = u]
    OBVIOUS
  <1>8. /\ r \in [SqlSessions -> Seq(BOOLEAN)] /\ r[s] = u
        /\ \A t \in SqlSessions \ {s} : r[t] = rows[t]
    BY <1>5, <1>7
  <1>9. PICK v : v = Update(w, s, closes)
    OBVIOUS
  <1>10. v = OtherRows(w, r, Len(rows[s]))
    BY <1>1, <1>2, <1>7, <1>9 DEF Update, SqlWorld, OtherRows
  <1>11. /\ v \in SqlWorld /\ v.rows = r /\ v.n = Len(rows[s]) /\ v.ret = "ok"
         /\ v.socks = w.socks /\ v.grace = w.grace /\ v.got = w.got
    BY <1>3, <1>8, <1>10, WithRows
  <1>12. RowsKept(rows, r)
    <2> SUFFICES ASSUME NEW t \in SqlSessions
                 PROVE  /\ Len(rows[t]) <= Len(r[t])
                        /\ \A k \in 1 .. Len(rows[t]) : rows[t][k] = FALSE => r[t][k] = FALSE
      BY DEF RowsKept
    <2>1. CASE t = s
      BY <1>3, <1>5, <1>6, <1>8, <2>1
    <2>2. CASE t # s
      BY <1>8, <2>2
    <2> QED
      BY <2>1, <2>2
  <1>13. OneRow(rows) => OneRow(r)
    <2> SUFFICES ASSUME unique_key, OneRow(rows), NEW t \in SqlSessions PROVE Len(r[t]) <= 1
      BY DEF OneRow
    <2>1. CASE t = s
      BY <1>5, <1>8, <2>1 DEF OneRow
    <2>2. CASE t # s
      BY <1>8, <2>2 DEF OneRow
    <2> QED
      BY <2>1, <2>2
  <1>14. Stored(v, s, q)
    <2>1. q = "stop" => Closed(r, s)
      BY <1>5, <1>6, <1>8 DEF Closed
    <2> QED
      BY <1>5, <1>8, <1>11, <2>1 DEF Stored
  <1>15. StaysClosed(rows, r, s, q)
    <2>1. ASSUME NEW t \in SqlSessions, Closed(rows, t) PROVE Closed(r, t)
      <3>1. CASE t = s
        BY <1>5, <1>6, <1>8, <2>1, <3>1 DEF Closed
      <3>2. CASE t # s
        BY <1>8, <2>1, <3>2 DEF Closed
      <3> QED
        BY <3>1, <3>2
    <2> QED
      BY <2>1 DEF StaysClosed
  <1> QED
    BY <1>1, <1>9, <1>11, <1>12, <1>13, <1>14, <1>15 DEF Ran

LEMMA OnOffLemma ==
  ASSUME NEW w \in SqlWorld, NEW s \in SqlSessions
  PROVE  Ran(w, s, "onoff", Statement(w, s, "onoff"))
  <1>1. PICK rows \in [SqlSessions -> Seq(BOOLEAN)] : rows = w.rows
    BY DEF SqlWorld
  <1>2. PICK r : r = [t \in SqlSessions |-> [k \in DOMAIN rows[t] |-> FALSE]]
    OBVIOUS
  <1>3. ASSUME NEW t \in SqlSessions
        PROVE  r[t] \in Seq(BOOLEAN) /\ Len(r[t]) = Len(rows[t]) /\ \A k \in 1 .. Len(rows[t]) : r[t][k] = FALSE
    <2>1. Len(rows[t]) \in Nat /\ DOMAIN rows[t] = 1 .. Len(rows[t])
      OBVIOUS
    <2>2. r[t] = [k \in 1 .. Len(rows[t]) |-> FALSE]
      BY <1>2, <2>1
    <2>3. r[t] \in [1 .. Len(rows[t]) -> BOOLEAN] /\ \A k \in 1 .. Len(rows[t]) : r[t][k] = FALSE
      BY <2>2
    <2>6. PICK m \in Nat : m = Len(rows[t])
      BY <2>1
    <2>7. r[t] \in [1 .. m -> BOOLEAN]
      BY <2>3, <2>6
    <2>4. r[t] \in Seq(BOOLEAN)
      BY <2>7, SeqDef
    <2>5. Len(r[t]) = Len(rows[t])
      BY <2>1, <2>3, <2>4, LenProperties
    <2> QED
      BY <2>3, <2>4, <2>5
  <1>4. r \in [SqlSessions -> Seq(BOOLEAN)]
    BY <1>2, <1>3
  <1>5. PICK v : v = Statement(w, s, "onoff")
    OBVIOUS
  <1>6. v = OtherRows(w, r, w.n)
    BY <1>1, <1>2, <1>5 DEF Statement, SqlWorld, OtherRows
  <1>7. w.n \in Nat
    BY DEF SqlWorld
  <1>8. /\ v \in SqlWorld /\ v.rows = r /\ v.n = w.n /\ v.ret = "ok"
        /\ v.socks = w.socks /\ v.grace = w.grace /\ v.got = w.got
    BY <1>4, <1>6, <1>7, WithRows
  <1>12. \A t \in SqlSessions : Len(rows[t]) \in Nat
    OBVIOUS
  <1>9. RowsKept(rows, r)
    <2> SUFFICES ASSUME NEW t \in SqlSessions
                 PROVE  /\ Len(rows[t]) <= Len(r[t])
                        /\ \A k \in 1 .. Len(rows[t]) : rows[t][k] = FALSE => r[t][k] = FALSE
      BY DEF RowsKept
    <2>1. Len(r[t]) = Len(rows[t]) /\ \A k \in 1 .. Len(rows[t]) : r[t][k] = FALSE
      BY <1>3
    <2>2. Len(rows[t]) <= Len(r[t])
      BY <1>12, <2>1
    <2> QED
      BY <2>1, <2>2
  <1>10. OneRow(rows) => OneRow(r)
    BY <1>3 DEF OneRow
  <1>11. Stored(v, s, "onoff")
    BY DEF Stored
  <1>13. StaysClosed(rows, r, s, "onoff")
    BY <1>3 DEF StaysClosed, Closed
  <1> QED
    BY <1>1, <1>5, <1>8, <1>9, <1>10, <1>11, <1>13 DEF Ran

LEMMA StatementLemma ==
  ASSUME NEW w \in SqlWorld, NEW s \in SqlSessions, NEW q \in Queries
  PROVE  Ran(w, s, q, Statement(w, s, q))
  <1>1. CASE q = "start" \/ q = "alive_alt"
    <2>1. Statement(w, s, q) = Insert(w, s, TRUE)
      BY <1>1 DEF Statement
    <2> QED
      BY <1>1, <2>1, InsertLemma
  <1>2. CASE q = "stop_alt"
    <2>1. Statement(w, s, q) = Insert(w, s, FALSE)
      BY <1>2 DEF Statement
    <2> QED
      BY <1>2, <2>1, InsertLemma
  <1>3. CASE q = "start_alt" \/ q = "alive"
    <2>1. Statement(w, s, q) = Update(w, s, FALSE)
      BY <1>3 DEF Statement
    <2> QED
      BY <1>3, <2>1, UpdateLemma
  <1>4. CASE q = "stop"
    <2>1. Statement(w, s, q) = Update(w, s, TRUE)
      BY <1>4 DEF Statement
    <2> QED
      BY <1>4, <2>1, UpdateLemma
  <1>5. CASE q = "onoff"
    BY <1>5, OnOffLemma
  <1> QED
    BY <1>1, <1>2, <1>3, <1>4, <1>5 DEF Queries

----------------------------------------------------------------------------
(* Queries on a connection that may be lost.                                *)

Breaks(v, i) == [v EXCEPT !.ret = "down", !.socks[i].conn = "broken"]

LEMMA BreaksLemma ==
  ASSUME NEW v \in SqlWorld, NEW i \in Places, SocksAreTrue(v.socks), v.socks[i].conn = "live"
  PROVE  /\ Breaks(v, i) \in SqlWorld /\ SocksAreTrue(Breaks(v, i).socks)
         /\ Breaks(v, i).rows = v.rows /\ Breaks(v, i).got = v.got /\ Breaks(v, i).ret = "down"
  <1>1. PICK s \in SqlSock : s = v.socks[i] /\ v.socks \in [Places -> SqlSock]
    BY DEF SqlWorld
  <1>2. PICK u : u = [s EXCEPT !.conn = "broken"]
    OBVIOUS
  <1>3. u \in SqlSock /\ u.connected = s.connected /\ u.conn = "broken"
    BY <1>2 DEF SqlSock
  <1>4. PICK ss : ss = [v.socks EXCEPT ![i] = u]
    OBVIOUS
  <1>5. ss \in [Places -> SqlSock] /\ ss[i] = u /\ \A j \in Places \ {i} : ss[j] = v.socks[j]
    BY <1>1, <1>3, <1>4
  <1>6. s.connected
    BY <1>1 DEF SocksAreTrue
  <1>7. SocksAreTrue(ss)
    BY <1>3, <1>5, <1>6 DEF SocksAreTrue
  <1>8. Breaks(v, i) = [v EXCEPT !.ret = "down", !.socks = ss]
    BY <1>1, <1>2, <1>4 DEF Breaks, SqlWorld
  <1>9. /\ Breaks(v, i) \in SqlWorld /\ Breaks(v, i).socks = ss
        /\ Breaks(v, i).rows = v.rows /\ Breaks(v, i).got = v.got /\ Breaks(v, i).ret = "down"
    BY <1>5, <1>8 DEF SqlWorld
  <1> QED
    BY <1>7, <1>9

\* v is a result of query q of session s, made from w.
Result(w, s, q, v) ==
  Later(w, v) /\ StaysClosed(w.rows, v.rows, s, q) /\ (v.ret = "ok" => Stored(v, s, q))

LEMMA AttemptLemma ==
  ASSUME NEW w \in SqlWorld, SocksAreTrue(w.socks), NEW i \in Places, NEW s \in SqlSessions,
         NEW q \in Queries, NEW v \in Attempt(w, i, s, q)
  PROVE  Result(w, s, q, v)
  <1>0. w.rows \in [SqlSessions -> Seq(BOOLEAN)]
    BY DEF SqlWorld
  <1>1. PICK x : x = Statement(w, s, q)
    OBVIOUS
  <1>2. Ran(w, s, q, x)
    BY <1>1, StatementLemma
  <1>3. CASE v = [w EXCEPT !.ret = "down"] \/ v = [w EXCEPT !.ret = "error"]
    <2>1. v \in SqlWorld /\ v.rows = w.rows /\ v.socks = w.socks /\ v.got = w.got /\ v.ret # "ok"
      BY <1>3 DEF SqlWorld
    <2> QED
      BY <1>0, <2>1, RowsRefl, StaysClosedRefl DEF Result, Later
  <1>4. CASE v = x
    BY <1>2, <1>4 DEF Result, Later, Ran
  <1>5. CASE w.socks[i].conn = "live" /\ v = Breaks(w, i)
    <2>1. v \in SqlWorld /\ SocksAreTrue(v.socks) /\ v.rows = w.rows /\ v.got = w.got /\ v.ret = "down"
      BY <1>5, BreaksLemma
    <2> QED
      BY <1>0, <2>1, RowsRefl, StaysClosedRefl DEF Result, Later
  <1>6. CASE w.socks[i].conn = "live" /\ v = Breaks(x, i)
    <2>1. x \in SqlWorld /\ x.socks = w.socks /\ x.got = w.got
      BY <1>2 DEF Ran
    <2>4. SocksAreTrue(x.socks) /\ x.socks[i].conn = "live"
      BY <1>6, <2>1
    <2>2. v \in SqlWorld /\ SocksAreTrue(v.socks) /\ v.rows = x.rows /\ v.got = x.got /\ v.ret = "down"
      BY <1>6, <2>1, <2>4, BreaksLemma
    <2>3. RowsKept(w.rows, x.rows) /\ (OneRow(w.rows) => OneRow(x.rows)) /\ StaysClosed(w.rows, x.rows, s, q)
      BY <1>2 DEF Ran
    <2> QED
      BY <2>1, <2>2, <2>3 DEF Result, Later
  <1>7. CASE w.socks[i].conn # "live"
    BY <1>3, <1>7 DEF Attempt
  <1>8. CASE w.socks[i].conn = "live"
    <2>1. v \in {x, [w EXCEPT !.ret = "error"], Breaks(w, i), Breaks(x, i)}
      BY <1>1, <1>8 DEF Attempt, Breaks
    <2> QED
      BY <1>3, <1>4, <1>5, <1>6, <1>8, <2>1
  <1> QED
    BY <1>7, <1>8

LEMMA ConnectsLemma ==
  ASSUME NEW w \in SqlWorld, SocksAreTrue(w.socks), NEW i \in Places, NEW v \in Connects(w, i)
  PROVE  Later(w, v) /\ v.rows = w.rows
  <1>0. w.rows \in [SqlSessions -> Seq(BOOLEAN)] /\ w.socks \in [Places -> SqlSock]
    BY DEF SqlWorld
  <1>1. CASE v = Connected(w, i)
    <2>1. v \in SqlWorld /\ v.socks = [w.socks EXCEPT ![i] = Open] /\ v.rows = w.rows /\ v.got = w.got
      BY <1>1, ConnectedLemma
    <2>2. v.socks[i] = Open /\ \A j \in Places \ {i} : v.socks[j] = w.socks[j]
      BY <1>0, <2>1
    <2>3. SocksAreTrue(v.socks)
      BY <2>2, OpenLemma DEF SocksAreTrue
    <2> QED
      BY <1>0, <2>1, <2>3, RowsRefl DEF Later
  <1>2. CASE v = NotConnected(w, i)
    <2>0. PICK none \in SqlSock : none = Unconnected
      BY UnconnectedLemma
    <2>1. /\ v \in SqlWorld /\ v.socks = [w.socks EXCEPT ![i] = none] /\ v.rows = w.rows /\ v.got = w.got
          /\ none.connected = FALSE /\ none.conn = "none"
      BY <1>2, <2>0, NotConnectedLemma, UnconnectedLemma
    <2>2. v.socks[i] = none /\ \A j \in Places \ {i} : v.socks[j] = w.socks[j]
      BY <1>0, <2>1
    <2>3. SocksAreTrue(v.socks)
      BY <2>1, <2>2 DEF SocksAreTrue
    <2> QED
      BY <1>0, <2>1, <2>3, RowsRefl DEF Later
  <1> QED
    BY <1>1, <1>2 DEF Connects

LEMMA QueryLemma ==
  ASSUME NEW w \in SqlWorld, SocksAreTrue(w.socks), NEW i \in Places, NEW s \in SqlSessions,
         NEW q \in Queries, NEW v \in rlm_sql_query(w, i, s, q)
  PROVE  Result(w, s, q, v)
  <1> DEFINE first == Attempt(w, i, s, q)
             again == UNION {Connects(x, i) : x \in {u \in first : u.ret = "down"}}
             second == UNION {Attempt(x, i, s, q) : x \in {u \in again : u.socks[i].connected}}
  <1>1. ASSUME NEW x \in first PROVE Result(w, s, q, x)
    BY AttemptLemma
  <1>2. ASSUME NEW x \in again PROVE Later(w, x) /\ StaysClosed(w.rows, x.rows, s, q)
    <2>1. PICK u \in first : x \in Connects(u, i)
      OBVIOUS
    <2>2. Later(w, u) /\ StaysClosed(w.rows, u.rows, s, q)
      BY <1>1 DEF Result
    <2>3. Later(u, x) /\ x.rows = u.rows
      BY <2>1, <2>2, ConnectsLemma DEF Later
    <2> QED
      BY <2>2, <2>3, LaterTransitive
  <1>3. ASSUME NEW x \in second PROVE Result(w, s, q, x)
    <2>1. PICK u \in again : x \in Attempt(u, i, s, q)
      OBVIOUS
    <2>2. Later(w, u) /\ StaysClosed(w.rows, u.rows, s, q)
      BY <1>2
    <2>3. Result(u, s, q, x)
      BY <2>1, <2>2, AttemptLemma DEF Later
    <2>4. Later(w, x)
      BY <2>2, <2>3, LaterTransitive DEF Result
    <2>5. StaysClosed(w.rows, x.rows, s, q)
      BY <2>2, <2>3, StaysClosedTransitive DEF Result, Later, SqlWorld
    <2> QED
      BY <2>3, <2>4, <2>5 DEF Result
  <1>4. \/ v \in first
        \/ \E x \in again : v = [x EXCEPT !.ret = "error"]
        \/ \E x \in second : v = [x EXCEPT !.ret = IF @ = "ok" THEN "ok" ELSE "error"]
    BY DEF rlm_sql_query
  <1> HIDE DEF first, again, second
  <1>5. CASE v \in first
    BY <1>1, <1>5
  <1>6. ASSUME NEW x \in again, v = [x EXCEPT !.ret = "error"] PROVE Result(w, s, q, v)
    <2>1. Later(w, x) /\ x \in SqlWorld /\ StaysClosed(w.rows, x.rows, s, q)
      BY <1>2 DEF Later
    <2>2. v \in SqlWorld /\ v.rows = x.rows /\ v.socks = x.socks /\ v.got = x.got /\ v.ret = "error"
      BY <1>6, <2>1, WithResult
    <2> QED
      BY <2>1, <2>2 DEF Result, Later
  <1>7. ASSUME NEW x \in second, v = [x EXCEPT !.ret = IF @ = "ok" THEN "ok" ELSE "error"]
        PROVE  Result(w, s, q, v)
    <2>1. Result(w, s, q, x) /\ x \in SqlWorld
      BY <1>3 DEF Later, Result
    <2>2. PICK ret \in {"ok", "error", "down"} : ret = IF x.ret = "ok" THEN "ok" ELSE "error"
      OBVIOUS
    <2>3. v = [x EXCEPT !.ret = ret]
      BY <1>7, <2>1, <2>2 DEF SqlWorld
    <2>4. v \in SqlWorld /\ v.rows = x.rows /\ v.socks = x.socks /\ v.got = x.got /\ v.ret = ret /\ v.n = x.n
      BY <2>1, <2>3, WithResult
    <2>5. v.ret = "ok" => Stored(v, s, q)
      BY <2>1, <2>2, <2>4 DEF Result, Stored
    <2>6. Later(w, v) /\ StaysClosed(w.rows, v.rows, s, q)
      BY <2>1, <2>4 DEF Result, Later
    <2> QED
      BY <2>5, <2>6 DEF Result
  <1> QED
    BY <1>4, <1>5, <1>6, <1>7

\* What is known of the session when its packet is answered.
Answered(v, s, kind) ==
  /\ kind \in {"alive", "stop"} => Len(v.rows[s]) >= 1
  /\ kind = "stop" => Closed(v.rows, s)

\* Only a Start opens a row of a session that has rows and none of them open.
NotOpened(w, v, s, kind) ==
  \A t \in SqlSessions :
     Closed(w.rows, t) /\ Len(w.rows[t]) >= 1 /\ (kind # "start" \/ t # s \/ unique_key) => Closed(v.rows, t)

LEMMA AccountingLemma ==
  ASSUME NEW w \in SqlWorld, SocksAreTrue(w.socks), NEW i \in Places, NEW s \in SqlSessions,
         NEW kind \in Kinds \cup {"onoff"}, NEW v \in Accounting(w, i, s, kind)
  PROVE  Later(w, v) /\ (v.ret = "ok" => Answered(v, s, kind)) /\ NotOpened(w, v, s, kind)
  <1>0. kind \in Queries /\ kind # "alive_alt"
    BY DEF Kinds, Queries
  <1>1. PICK u \in rlm_sql_query(w, i, s, kind) :
          v \in IF TriesAlternate(u, kind) THEN rlm_sql_query(u, i, s, Alternate[kind]) ELSE {u}
    BY DEF Accounting
  <1>2. Result(w, s, kind, u)
    BY <1>0, <1>1, QueryLemma
  <1>3. Later(w, u) /\ u \in SqlWorld /\ SocksAreTrue(u.socks)
    BY <1>2 DEF Result, Later
  <1>4. CASE TriesAlternate(u, kind)
    <2>1. kind \in Kinds
      BY <1>4 DEF TriesAlternate
    <2>2. PICK q \in Queries : /\ q = Alternate[kind] /\ (kind = "alive" => q = "alive_alt")
                               /\ (kind = "stop" => q = "stop_alt") /\ (kind = "start" => q = "start_alt")
      BY <2>1 DEF Alternate, Kinds, Queries
    <2>3. Result(u, s, q, v)
      BY <1>1, <1>3, <1>4, <2>2, QueryLemma
    <2>4. Later(w, v)
      BY <1>3, <2>3, LaterTransitive DEF Result
    <2>6. kind \in {"alive", "stop"} => Len(u.rows[s]) = 0
      <3>1. u.n \in Nat
        BY <1>3 DEF SqlWorld
      <3>2. kind \in {"alive", "stop"} => u.ret = "ok" /\ u.n < 1
        BY <1>4 DEF TriesAlternate
      <3>3. kind \in {"alive", "stop"} => u.n = Len(u.rows[s])
        BY <1>2, <3>2 DEF Result, Stored
      <3> QED
        BY <3>1, <3>2, <3>3
    <2>7. kind = "stop" => Closed(u.rows, s)
      BY <2>6 DEF Closed
    <2>5. v.ret = "ok" => Answered(v, s, kind)
      <3>1. kind = "stop" => Closed(v.rows, s)
        BY <2>2, <2>3, <2>7 DEF Result, StaysClosed
      <3> QED
        BY <2>2, <2>3, <3>1 DEF Result, Stored, Answered
    <2>8. NotOpened(w, v, s, kind)
      <3> SUFFICES ASSUME NEW t \in SqlSessions, Closed(w.rows, t), Len(w.rows[t]) >= 1,
                          kind # "start" \/ t # s \/ unique_key
                   PROVE  Closed(v.rows, t)
        BY DEF NotOpened
      <3>1. Closed(u.rows, t)
        BY <1>0, <1>2 DEF Result, StaysClosed
      <3>2. /\ Len(w.rows[t]) \in Nat /\ Len(u.rows[t]) \in Nat /\ Len(w.rows[t]) <= Len(u.rows[t])
        BY <1>3 DEF Later, RowsKept, SqlWorld
      <3>3. q \in {"start", "alive_alt"} => t # s
        BY <2>1, <2>2, <2>6, <3>2 DEF Kinds
      <3> QED
        BY <2>3, <3>1, <3>3 DEF Result, StaysClosed
    <2> QED
      BY <2>4, <2>5, <2>8
  <1>5. CASE ~TriesAlternate(u, kind)
    <2>1. v = u
      BY <1>1, <1>5
    <2>2. ASSUME v.ret = "ok" PROVE Answered(v, s, kind)
      <3>1. Stored(u, s, kind)
        BY <1>2, <2>1, <2>2 DEF Result
      <3>2. u.n \in Nat
        BY <1>3 DEF SqlWorld
      <3>3. kind \in {"alive", "stop"} => Len(u.rows[s]) >= 1
        BY <1>5, <2>1, <2>2, <3>1, <3>2 DEF TriesAlternate, Stored
      <3> QED
        BY <2>1, <3>1, <3>3 DEF Stored, Answered
    <2>3. NotOpened(w, v, s, kind)
      BY <1>0, <1>2, <2>1 DEF Result, StaysClosed, NotOpened
    <2> QED
      BY <1>3, <2>1, <2>2, <2>3
  <1> QED
    BY <1>4, <1>5

----------------------------------------------------------------------------
(* The inductive invariant: with a unique key no session has two rows.      *)

SqlInv == SqlTypeOK /\ SocketIsTrue /\ OneRow(radacct) /\ StopIsFinal

LEMMA WorldLemma ==
  ASSUME SqlTypeOK
  PROVE  /\ World \in SqlWorld /\ World.socks = socks /\ World.grace = grace /\ World.rows = radacct
         /\ World.got = 0 /\ last_used \in 0 .. NumSocks
  BY SqlNats DEF SqlTypeOK, World, SqlWorld

LEMMA PoolRecoversLemma == ASSUME SqlTypeOK PROVE PoolRecovers
  <1>1. PICK w \in SqlWorld : w = World /\ w.socks = socks /\ w.grace = grace /\ w.got = 0
    BY WorldLemma
  <1>2. last_used \in 0 .. NumSocks
    BY WorldLemma
  <1>3. PICK g : g = sql_get_socket(w)
    OBVIOUS
  <1>4. /\ sql_up /\ w.grace = 0 => g.got # 0
        /\ (\E i \in Places : w.socks[i].connected /\ ~UsedUp(w.socks[i])) => g.got # 0
    BY <1>1, <1>2, <1>3, GetLemma
  <1> QED
    BY <1>1, <1>3, <1>4 DEF PoolRecovers

LEMMA SqlInitLemma == ASSUME SqlInit PROVE SqlInv
  <1>1. socks \in [Places -> SqlSock] /\ SocketIsTrue
    <2>1. socks = [i \in Places |-> IF sql_up THEN Open ELSE Unconnected]
      BY DEF SqlInit
    <2> QED
      BY <2>1, OpenLemma, UnconnectedLemma DEF SocketIsTrue
  <1>2. radacct \in [SqlSessions -> Seq(BOOLEAN)] /\ \A s \in SqlSessions : Len(radacct[s]) = 0
    BY EmptySeq DEF SqlInit
  <1>3. SqlTypeOK
    BY <1>1, <1>2, SqlNats, SqlAssumption DEF SqlInit, SqlTypeOK
  <1>4. OneRow(radacct)
    BY <1>2 DEF OneRow
  <1>5. StopIsFinal
    BY DEF SqlInit, StopIsFinal
  <1> QED
    BY <1>1, <1>3, <1>4, <1>5 DEF SqlInv

LEMMA HandleLemma ==
  ASSUME SqlInv, NEW s \in SqlSessions, NEW kind \in Kinds \cup {"onoff"}, Handle(s, kind)
  PROVE  SqlInv'
  <1>0. SqlTypeOK /\ SocketIsTrue /\ OneRow(radacct) /\ StopIsFinal
    BY DEF SqlInv
  <1>1. PICK w0 \in SqlWorld : w0 = World /\ w0.socks = socks /\ w0.rows = radacct /\ w0.got = 0
    BY <1>0, WorldLemma
  <1>2. SocksAreTrue(w0.socks) /\ last_used \in 0 .. NumSocks
    BY <1>0, <1>1 DEF SocketIsTrue, SocksAreTrue, SqlTypeOK
  <1>3. PICK w : w = sql_get_socket(w0)
    OBVIOUS
  <1>4. w \in SqlWorld /\ w.rows = radacct /\ SocksAreTrue(w.socks) /\ (w.got # 0 => w.got \in Places)
    BY <1>1, <1>2, <1>3, GetLemma
  <1>5. PICK v \in (IF w.got = 0 THEN {[w EXCEPT !.ret = "error"]} ELSE Accounting(w, w.got, s, kind)) :
         /\ socks' = v.socks /\ grace' = v.grace /\ radacct' = v.rows
         /\ last_used' = IF v.got = 0 THEN last_used ELSE IF v.got = NumSocks THEN 0 ELSE v.got + 1
         /\ acked' = IF v.ret = "ok" /\ kind \in Kinds THEN [acked EXCEPT ![s] = @ \cup {kind}] ELSE acked
         /\ restarted' = IF "stop" \notin acked[s] THEN restarted
                         ELSE IF kind = "start" THEN restarted \cup {s}
                         ELSE IF kind = "stop" /\ v.ret = "ok" THEN restarted \ {s} ELSE restarted
         /\ UNCHANGED <<sql_up, unique_key>>
    BY <1>1, <1>3 DEF Handle
  <1>6. w.rows \in [SqlSessions -> Seq(BOOLEAN)]
    BY <1>4 DEF SqlWorld
  <1>7. Later(w, v) /\ (v.ret = "ok" => Answered(v, s, kind)) /\ NotOpened(w, v, s, kind)
    <2>1. CASE w.got = 0
      <3>1. v = [w EXCEPT !.ret = "error"]
        BY <1>5, <2>1
      <3>2. v \in SqlWorld /\ v.rows = w.rows /\ v.socks = w.socks /\ v.got = w.got /\ v.ret = "error"
        BY <1>4, <3>1, WithResult
      <3> QED
        BY <1>4, <1>6, <3>2, RowsRefl DEF Later, NotOpened
    <2>2. CASE w.got # 0
      <3>1. v \in Accounting(w, w.got, s, kind)
        BY <1>5, <2>2
      <3> QED
        BY <1>4, <2>2, <3>1, AccountingLemma
    <2> QED
      BY <2>1, <2>2
  <1>8. v \in SqlWorld /\ RowsKept(radacct, v.rows) /\ OneRow(v.rows) /\ SocksAreTrue(v.socks)
    BY <1>0, <1>4, <1>7 DEF Later
  <1>9. last_used' \in 0 .. NumSocks
    <2>1. v.got \in 0 .. NumSocks
      BY <1>8 DEF SqlWorld
    <2> QED
      BY <1>2, <1>5, <2>1, SqlNats
  <1>10. acked' \in [SqlSessions -> SUBSET Kinds]
    BY <1>0, <1>5 DEF SqlTypeOK
  <1>11. /\ socks' \in [Places -> SqlSock] /\ grace' \in 0 .. SqlDelay + 1
         /\ radacct' \in [SqlSessions -> Seq(BOOLEAN)] /\ sql_up' \in BOOLEAN
         /\ unique_key' \in BOOLEAN /\ restarted' \subseteq SqlSessions
    BY <1>0, <1>5, <1>8 DEF SqlWorld, SqlTypeOK
  <1>12. SqlTypeOK'
    BY <1>9, <1>10, <1>11 DEF SqlTypeOK
  <1>13. SocketIsTrue'
    BY <1>5, <1>8 DEF SocksAreTrue, SocketIsTrue
  <1>14. OneRow(radacct)'
    BY <1>5, <1>8 DEF OneRow
  <1>15. ASSUME NEW t \in SqlSessions
         PROVE  /\ acked'[t] \cap {"alive", "stop"} # {} =>
                     Len(radacct'[t]) >= 1 /\ (unique_key' => Len(radacct'[t]) = 1)
                /\ "stop" \in acked'[t] /\ (unique_key' \/ t \notin restarted') =>
                     \A k \in 1 .. Len(radacct'[t]) : ~radacct'[t][k]
    <2>0. /\ Len(radacct[t]) \in Nat /\ Len(v.rows[t]) \in Nat /\ Len(radacct[t]) <= Len(v.rows[t])
          /\ unique_key => Len(v.rows[t]) <= 1
          /\ radacct[t] \in Seq(BOOLEAN)
      BY <1>0, <1>8 DEF OneRow, SqlTypeOK, SqlWorld, RowsKept
    <2>1. /\ acked[t] \cap {"alive", "stop"} # {} => Len(radacct[t]) >= 1
          /\ "stop" \in acked[t] /\ (unique_key \/ t \notin restarted) =>
               \A k \in 1 .. Len(radacct[t]) : ~radacct[t][k]
      BY <1>0 DEF StopIsFinal
    <2>2. \/ acked'[t] = acked[t]
          \/ t = s /\ v.ret = "ok" /\ acked'[t] = acked[t] \cup {kind}
      <3>1. acked \in [SqlSessions -> SUBSET Kinds]
        BY <1>0 DEF SqlTypeOK
      <3>2. CASE acked' = acked
        BY <3>2
      <3>3. CASE acked' = [acked EXCEPT ![s] = @ \cup {kind}] /\ v.ret = "ok"
        BY <3>1, <3>3
      <3> QED
        BY <1>5, <3>2, <3>3
    <2>3. acked'[t] \cap {"alive", "stop"} # {} => Len(v.rows[t]) >= 1
      <3>1. CASE acked[t] \cap {"alive", "stop"} # {}
        BY <2>0, <2>1, <3>1
      <3>2. CASE t = s /\ v.ret = "ok" /\ kind \in {"alive", "stop"}
        BY <1>7, <3>2 DEF Answered
      <3> QED
        BY <2>2, <3>1, <3>2
    <2>4. ASSUME "stop" \in acked'[t], unique_key \/ t \notin restarted'
          PROVE  Closed(v.rows, t)
      <3>1. CASE t = s /\ v.ret = "ok" /\ kind = "stop"
        BY <1>7, <3>1 DEF Answered
      <3>2. CASE ~(t = s /\ v.ret = "ok" /\ kind = "stop")
        <4>1. "stop" \in acked[t]
          BY <2>2, <2>4, <3>2
        <4>2. unique_key \/ (t \notin restarted /\ ~(t = s /\ kind = "start"))
          BY <1>5, <2>4, <3>2, <4>1
        <4>3. Len(radacct[t]) >= 1 /\ \A k \in 1 .. Len(radacct[t]) : ~radacct[t][k]
          BY <2>1, <4>1, <4>2
        <4>4. Closed(radacct, t)
          BY <2>0, <4>3 DEF Closed
        <4> QED
          BY <1>4, <1>7, <4>2, <4>3, <4>4 DEF NotOpened
      <3> QED
        BY <3>1, <3>2
    <2>5. ASSUME unique_key, Len(v.rows[t]) >= 1 PROVE Len(v.rows[t]) = 1
      <3>1. PICK n \in Nat : n = Len(v.rows[t])
        BY <2>0
      <3>2. n <= 1 /\ n >= 1
        BY <2>0, <2>5, <3>1
      <3>3. n = 1
        BY <3>2
      <3> QED
        BY <3>1, <3>3
    <2>6. (acked'[t] \cap {"alive", "stop"} # {} => Len(v.rows[t]) >= 1 /\ (unique_key => Len(v.rows[t]) = 1))
      BY <2>3, <2>5
    <2>7. radacct' = v.rows /\ unique_key' = unique_key
      BY <1>5
    <2>8. "stop" \in acked'[t] /\ (unique_key \/ t \notin restarted') => \A k \in 1 .. Len(v.rows[t]) : ~v.rows[t][k]
      BY <2>4 DEF Closed
    <2> QED
      BY <2>6, <2>7, <2>8
  <1>16. StopIsFinal'
    BY <1>15 DEF StopIsFinal
  <1> QED
    BY <1>12, <1>13, <1>14, <1>16 DEF SqlInv

LEMMA SqlStepLemma == ASSUME SqlInv, [SqlNext]_sqlVars PROVE SqlInv'
  <1>0. SqlTypeOK /\ SocketIsTrue /\ OneRow(radacct) /\ StopIsFinal
    BY DEF SqlInv
  <1>1. ASSUME NEW s \in SqlSessions, NEW kind \in Kinds \cup {"onoff"}, Handle(s, kind) PROVE SqlInv'
    BY <1>1, HandleLemma
  \* What leaves the rows and the history alone.
  <1>2. ASSUME UNCHANGED <<last_used, unique_key, radacct, acked, restarted>>, sql_up' \in BOOLEAN, grace' \in 0 .. SqlDelay + 1,
               socks' \in [Places -> SqlSock], SocksAreTrue(socks')
        PROVE  SqlInv'
    <2>1. SqlTypeOK'
      BY <1>0, <1>2 DEF SqlTypeOK
    <2>2. SocketIsTrue'
      BY <1>2 DEF SocksAreTrue, SocketIsTrue
    <2> QED
      BY <1>0, <1>2, <2>1, <2>2 DEF SqlInv, OneRow, StopIsFinal
  <1>3. ASSUME NEW P \in SUBSET Places, Broken(P) PROVE socks' \in [Places -> SqlSock] /\ SocksAreTrue(socks')
    <2>1. ASSUME NEW i \in Places PROVE socks'[i] \in SqlSock /\ (socks'[i].connected <=> socks'[i].conn # "none")
      <3>1. PICK s \in SqlSock : s = socks[i]
        BY <1>0 DEF SqlTypeOK
      <3>2. s.connected <=> s.conn # "none"
        BY <1>0, <3>1 DEF SocketIsTrue
      <3>3. PICK u : u = [s EXCEPT !.conn = "broken"]
        OBVIOUS
      <3>4. u \in SqlSock /\ u.connected = s.connected /\ u.conn = "broken"
        BY <3>3 DEF SqlSock
      <3>5. socks'[i] = IF i \in P /\ s.conn = "live" THEN u ELSE s
        BY <1>3, <3>1, <3>3 DEF Broken
      <3> QED
        BY <3>2, <3>4, <3>5
    <2>2. socks' = [i \in Places |-> socks'[i]]
      BY <1>3 DEF Broken
    <2>3. socks' \in [Places -> SqlSock]
      BY <2>1, <2>2
    <2> QED
      BY <2>1, <2>3 DEF SocksAreTrue
  <1>4. CASE Database
    <2>1. UNCHANGED <<last_used, unique_key, radacct, acked, restarted>> /\ sql_up' \in BOOLEAN /\ grace' \in 0 .. SqlDelay + 1
      BY <1>0, <1>4 DEF Database, SqlTypeOK
    <2>2. UNCHANGED socks \/ \E P \in SUBSET Places : Broken(P)
      BY <1>4 DEF Database
    <2>3. socks' \in [Places -> SqlSock] /\ SocksAreTrue(socks')
      BY <1>0, <1>3, <2>2 DEF SqlTypeOK, SocketIsTrue, SocksAreTrue
    <2> QED
      BY <1>2, <2>1, <2>3
  <1>5. CASE SqlTick
    <2>1. UNCHANGED <<last_used, unique_key, radacct, acked, restarted, sql_up>>
      BY <1>5 DEF SqlTick
    <2>2. grace' \in 0 .. SqlDelay + 1
      BY <1>0, <1>5, SqlNats DEF SqlTick, SqlTypeOK
    <2>3. ASSUME NEW i \in Places PROVE socks'[i] \in SqlSock /\ (socks'[i].connected <=> socks'[i].conn # "none")
      <3>1. PICK s \in SqlSock : s = socks[i]
        BY <1>0 DEF SqlTypeOK
      <3>2. s.connected <=> s.conn # "none"
        BY <1>0, <3>1 DEF SocketIsTrue
      <3>3. PICK a : a = IF s.connected /\ SqlLifetime # 0 /\ s.age <= SqlLifetime THEN s.age + 1 ELSE s.age
        OBVIOUS
      <3>4. s.age \in 0 .. SqlLifetime + 1
        BY DEF SqlSock
      <3>5. a \in 0 .. SqlLifetime + 1
        BY <3>3, <3>4, SqlNats
      <3>6. PICK u : u = [s EXCEPT !.age = a]
        OBVIOUS
      <3>7. u \in SqlSock /\ u.connected = s.connected /\ u.conn = s.conn
        BY <3>5, <3>6 DEF SqlSock
      <3>8. socks'[i] = u
        BY <1>5, <3>1, <3>3, <3>6 DEF SqlTick, SqlSock
      <3> QED
        BY <3>2, <3>7, <3>8
    <2>4. socks' = [i \in Places |-> socks'[i]]
      BY <1>5 DEF SqlTick
    <2>5. socks' \in [Places -> SqlSock] /\ SocksAreTrue(socks')
      BY <2>3, <2>4 DEF SocksAreTrue
    <2>6. sql_up' \in BOOLEAN
      BY <1>0, <2>1 DEF SqlTypeOK
    <2> QED
      BY <1>2, <2>1, <2>2, <2>5, <2>6
  <1>6. CASE UNCHANGED sqlVars
    BY <1>0, <1>6 DEF sqlVars, SqlInv, SqlTypeOK, SocketIsTrue, OneRow, StopIsFinal
  <1> QED
    BY <1>1, <1>4, <1>5, <1>6 DEF SqlNext

(***************************************************************************)
(* SQL accounting, for any number of sockets and sessions, any lifetime,   *)
(* limit of queries and time of grace: an answered Stop leaves no open row,*)
(* however packets and connections get lost and rlm_sql_query() repeats    *)
(* itself.  Where acctuniqueid is unique it leaves one row, closed for     *)
(* good; without that key, as in the shipped schema, a later Start opens   *)
(* another one, and nothing else does.  And sql_get_socket() finds a socket*)
(* whenever there is one to be had.                                        *)
(***************************************************************************)
THEOREM SqlIsAlwaysRight == SqlSpec => []SqlIsRight
  <1>1. SqlInit => SqlInv
    BY SqlInitLemma
  <1>2. SqlInv /\ [SqlNext]_sqlVars => SqlInv'
    BY SqlStepLemma
  <1>3. SqlInv => SqlIsRight
    BY PoolRecoversLemma DEF SqlInv, SqlIsRight
  <1> QED
    BY <1>1, <1>2, <1>3, PTL DEF SqlSpec

----------------------------------------------------------------------------
(* Addresses and what a prefix leaves of them.                              *)

LEMMA WordsLemma ==
  ASSUME NEW af \in {"v4", "v6"}
  PROVE  /\ WordBits \in Nat \ {0} /\ Words(af) \in 1..4
         /\ MaxPrefix(af) = Words(af) * WordBits /\ MaxPrefix(af) \in 1..(4 * WordBits)
  <1>1. WordBits \in Nat \ {0}
    BY ClientsAssumption
  <1>2. CASE af = "v4"
    BY <1>1, <1>2 DEF Words, MaxPrefix
  <1>3. CASE af = "v6"
    BY <1>1, <1>3 DEF Words, MaxPrefix
  <1> QED
    BY <1>2, <1>3

LEMMA AddressParts ==
  ASSUME NEW ip \in Address
  PROVE  /\ ip.af \in {"v4", "v6"} /\ ip.w \in [1 .. Words(ip.af) -> Word]
         /\ ip = [af |-> ip.af, w |-> ip.w]
  <1>1. PICK f \in {"v4", "v6"} : ip \in [af: {f}, w: [1 .. Words(f) -> Word]]
    BY DEF Address
  <1> QED
    BY <1>1

LEMMA AddressMade ==
  ASSUME NEW f \in {"v4", "v6"}, NEW w \in [1 .. Words(f) -> Word]
  PROVE  [af |-> f, w |-> w] \in Address
  <1>1. [af |-> f, w |-> w] \in [af: {f}, w: [1 .. Words(f) -> Word]]
    OBVIOUS
  <1> QED
    BY <1>1 DEF Address

\* Addresses are equal when their bits are.
LEMMA AddressEqual ==
  ASSUME NEW a \in Address, NEW b \in Address, a.af = b.af,
         \A i \in 1 .. Words(a.af), j \in 1 .. WordBits : a.w[i][j] = b.w[i][j]
  PROVE  a = b
  <1>1. a.w \in [1 .. Words(a.af) -> Word] /\ b.w \in [1 .. Words(a.af) -> Word]
    BY AddressParts
  <1>2. ASSUME NEW i \in 1 .. Words(a.af) PROVE a.w[i] = b.w[i]
    <2>1. PICK x \in Word : x = a.w[i]
      BY <1>1
    <2>2. PICK y \in Word : y = b.w[i]
      BY <1>1
    <2>3. \A j \in 1 .. WordBits : x[j] = y[j]
      BY <2>1, <2>2
    <2>4. x = y
      <3>1. x = [j \in 1 .. WordBits |-> x[j]] /\ y = [j \in 1 .. WordBits |-> y[j]]
        BY DEF Word
      <3>2. [j \in 1 .. WordBits |-> x[j]] = [j \in 1 .. WordBits |-> y[j]]
        BY ONLY <2>3
      <3> QED
        BY ONLY <3>1, <3>2
    <2> QED
      BY <2>1, <2>2, <2>4
  <1>3. a.w = b.w
    <2>1. /\ a.w = [i \in 1 .. Words(a.af) |-> a.w[i]]
          /\ b.w = [i \in 1 .. Words(a.af) |-> b.w[i]]
      BY <1>1
    <2>2. [i \in 1 .. Words(a.af) |-> a.w[i]] = [i \in 1 .. Words(a.af) |-> b.w[i]]
      BY ONLY <1>2
    <2> QED
      BY ONLY <2>1, <2>2
  <1> QED
    BY <1>3, AddressParts

\* The place of a bit in an address.
Bit(i, j) == (i - 1) * WordBits + j

\* s is the address without the bits behind the prefix.
IsSane(ip, prefix, s) ==
  /\ s \in Address /\ s.af = ip.af
  /\ \A i \in 1 .. Words(ip.af), j \in 1 .. WordBits :
       s.w[i][j] = IF Bit(i, j) <= prefix THEN ip.w[i][j] ELSE 0

LEMMA MaskedLemma ==
  ASSUME NEW word \in Word, NEW keep \in Nat
  PROVE  /\ Masked(word, keep) \in Word
         /\ \A j \in 1 .. WordBits : Masked(word, keep)[j] = IF j <= keep THEN word[j] ELSE 0
  BY DEF Masked, Word

\* Where the word that the prefix cuts is.
LEMMA CutLemma ==
  ASSUME NEW prefix \in 0 .. 4 * WordBits, NEW i \in 1..4, NEW j \in 1 .. WordBits
  PROVE  LET keep == prefix % WordBits
             cut == prefix \div WordBits
         IN  /\ keep \in 0 .. WordBits - 1 /\ cut \in 0..4
             /\ i <= cut => Bit(i, j) <= prefix
             /\ i = cut + 1 => (Bit(i, j) <= prefix <=> j <= keep)
             /\ i > cut + 1 => Bit(i, j) > prefix
  <1>1. WordBits \in Nat \ {0}
    BY ClientsAssumption
  <1>2. PICK W \in Nat \ {0} : W = WordBits
    BY <1>1
  <1>3. PICK keep \in 0 .. W - 1, cut \in Nat : keep = prefix % W /\ cut = prefix \div W /\ prefix = cut * W + keep
    BY <1>2
  <1>4. cut \in 0..4
    <2> SUFFICES ASSUME cut > 4 PROVE FALSE
      BY <1>3
    <2>1. PICK d \in Nat : cut = 5 + d
      <3>1. cut - 5 \in Nat /\ cut = 5 + (cut - 5)
        BY <1>3
      <3> QED
        BY <3>1
    <2>2. d * W \in Nat
      BY <1>2
    <2>3. cut * W = 5 * W + d * W
      BY <1>2, <2>1
    <2> QED
      BY <1>2, <1>3, <2>2, <2>3
  <1>5. /\ i <= cut => Bit(i, j) <= prefix
        /\ i = cut + 1 => (Bit(i, j) <= prefix <=> j <= keep)
        /\ i > cut + 1 => Bit(i, j) > prefix
    <2>1. cut = 0 \/ cut = 1 \/ cut = 2 \/ cut = 3 \/ cut = 4
      BY <1>4
    <2>2. i = 1 \/ i = 2 \/ i = 3 \/ i = 4
      OBVIOUS
    <2>3. CASE i = 1
      BY <1>2, <1>3, <2>1, <2>3 DEF Bit
    <2>4. CASE i = 2
      BY <1>2, <1>3, <2>1, <2>4 DEF Bit
    <2>5. CASE i = 3
      BY <1>2, <1>3, <2>1, <2>5 DEF Bit
    <2>6. CASE i = 4
      BY <1>2, <1>3, <2>1, <2>6 DEF Bit
    <2> QED
      BY <2>2, <2>3, <2>4, <2>5, <2>6
  <1> QED
    BY <1>2, <1>3, <1>4, <1>5

LEMMA SaneLemma ==
  ASSUME NEW ip \in Address, NEW prefix \in 0 .. MaxPrefix(ip.af)
  PROVE  IsSane(ip, prefix, client_sane(ip, prefix))
  <1> DEFINE keep == prefix % WordBits
             cut == prefix \div WordBits
             W == [i \in 1 .. Words(ip.af) |-> CASE i <= cut -> ip.w[i]
                                                  [] i = cut + 1 -> Masked(ip.w[i], keep)
                                                  [] OTHER -> Masked(ip.w[i], 0)]
  <1>1. /\ ip.af \in {"v4", "v6"} /\ ip.w \in [1 .. Words(ip.af) -> Word] /\ ip = [af |-> ip.af, w |-> ip.w]
    BY AddressParts
  <1>2. /\ WordBits \in Nat \ {0} /\ Words(ip.af) \in 1..4 /\ MaxPrefix(ip.af) \in 1..(4 * WordBits)
    BY <1>1, WordsLemma
  <1>3. prefix \in 0 .. 4 * WordBits
    BY <1>2
  <1>4. keep \in 0 .. WordBits - 1 /\ cut \in 0..4
    <2>1. 1 \in 1..4 /\ 1 \in 1 .. WordBits
      BY <1>2
    <2> QED
      BY <1>3, <2>1, CutLemma
  <1>5. client_sane(ip, prefix) = [af |-> ip.af, w |-> W]
    <2>1. DOMAIN ip.w = 1 .. Words(ip.af)
      BY <1>1
    <2>2. PICK v : v = ip.w
      OBVIOUS
    <2>3. PICK f : f = ip.af
      OBVIOUS
    <2>4. ip = [af |-> f, w |-> v]
      BY <1>1, <2>2, <2>3
    <2>5. client_sane(ip, prefix) = [ip EXCEPT !.w = W]
      BY <2>1 DEF client_sane
    <2> HIDE DEF W
    <2> QED
      BY <2>3, <2>4, <2>5
  <1>6. \A i \in 1 .. Words(ip.af) : W[i] \in Word
    <2> TAKE i \in 1 .. Words(ip.af)
    <2>1. ip.w[i] \in Word /\ keep \in Nat /\ 0 \in Nat
      BY <1>1, <1>2, <1>4
    <2>2. Masked(ip.w[i], keep) \in Word /\ Masked(ip.w[i], 0) \in Word
      BY <2>1, MaskedLemma
    <2> HIDE DEF keep, cut
    <2> QED
      BY <2>1, <2>2
  <1>7. W \in [1 .. Words(ip.af) -> Word]
    <2> HIDE DEF keep, cut
    <2> QED
      BY <1>6
  <1>8. [af |-> ip.af, w |-> W] \in Address
    <2> HIDE DEF W
    <2> QED
      BY <1>1, <1>7, AddressMade
  <1>9. ASSUME NEW i \in 1 .. Words(ip.af), NEW j \in 1 .. WordBits
        PROVE  W[i][j] = IF Bit(i, j) <= prefix THEN ip.w[i][j] ELSE 0
    <2>1. i \in 1..4 /\ ip.w[i] \in Word /\ keep \in Nat /\ 0 \in Nat
      BY <1>1, <1>2, <1>4
    <2>2. /\ i <= cut => Bit(i, j) <= prefix
          /\ i = cut + 1 => (Bit(i, j) <= prefix <=> j <= keep)
          /\ i > cut + 1 => Bit(i, j) > prefix
      BY <1>3, <2>1, CutLemma
    <2>3. /\ Masked(ip.w[i], keep)[j] = IF j <= keep THEN ip.w[i][j] ELSE 0
          /\ Masked(ip.w[i], 0)[j] = IF j <= 0 THEN ip.w[i][j] ELSE 0
      BY <2>1, MaskedLemma
    <2>4. Bit(i, j) \in Nat
      BY <1>2, <2>1 DEF Bit
    <2> HIDE DEF keep, cut
    <2>5. CASE i <= cut
      BY <1>4, <2>1, <2>2, <2>5
    <2>6. CASE i = cut + 1
      BY <1>4, <2>2, <2>3, <2>6
    <2>7. CASE i > cut + 1
      BY <1>2, <1>3, <1>4, <2>2, <2>3, <2>4, <2>7
    <2> QED
      BY <1>4, <2>1, <2>5, <2>6, <2>7
  <1> HIDE DEF W
  <1> QED
    BY <1>5, <1>8, <1>9 DEF IsSane

LEMMA SaneUnique ==
  ASSUME NEW ip \in Address, NEW prefix, NEW s, NEW t, IsSane(ip, prefix, s), IsSane(ip, prefix, t)
  PROVE  s = t
  <1>1. s \in Address /\ t \in Address /\ s.af = ip.af /\ t.af = ip.af
    BY DEF IsSane
  <1>2. \A i \in 1 .. Words(s.af), j \in 1 .. WordBits : s.w[i][j] = t.w[i][j]
    BY <1>1 DEF IsSane
  <1> QED
    BY <1>1, <1>2, AddressEqual

LEMMA SaneTwice ==
  ASSUME NEW ip \in Address, NEW prefix \in 0 .. MaxPrefix(ip.af)
  PROVE  /\ client_sane(ip, prefix) \in Address /\ client_sane(ip, prefix).af = ip.af
         /\ client_sane(client_sane(ip, prefix), prefix) = client_sane(ip, prefix)
  <1>1. PICK s : s = client_sane(ip, prefix)
    OBVIOUS
  <1>2. IsSane(ip, prefix, s)
    BY <1>1, SaneLemma
  <1>3. s \in Address /\ s.af = ip.af
    BY <1>2 DEF IsSane
  <1>4. PICK t : t = client_sane(s, prefix)
    OBVIOUS
  <1>5. IsSane(s, prefix, t)
    BY <1>3, <1>4, SaneLemma
  <1>6. IsSane(ip, prefix, t)
    BY <1>2, <1>3, <1>5 DEF IsSane
  <1>7. s = t
    BY <1>2, <1>6, SaneUnique
  <1> QED
    BY <1>1, <1>3, <1>4, <1>7

\* The whole address.
LEMMA SaneWhole ==
  ASSUME NEW ip \in Address
  PROVE  client_sane(ip, MaxPrefix(ip.af)) = ip
  <1>1. /\ ip.af \in {"v4", "v6"}
    BY AddressParts
  <1>2. /\ WordBits \in Nat \ {0} /\ Words(ip.af) \in 1..4 /\ MaxPrefix(ip.af) = Words(ip.af) * WordBits
        /\ MaxPrefix(ip.af) \in 0 .. MaxPrefix(ip.af)
    BY <1>1, WordsLemma
  <1>3. IsSane(ip, MaxPrefix(ip.af), client_sane(ip, MaxPrefix(ip.af)))
    BY <1>2, SaneLemma
  <1>4. \A i \in 1 .. Words(ip.af), j \in 1 .. WordBits : Bit(i, j) <= MaxPrefix(ip.af)
    <2>1. PICK n \in 1..4 : n = Words(ip.af)
      BY <1>2
    <2> SUFFICES ASSUME NEW i \in 1..n, NEW j \in 1 .. WordBits PROVE (i - 1) * WordBits + j <= n * WordBits
      BY <1>2, <2>1 DEF Bit
    <2>2. n = 1 \/ n = 2 \/ n = 3 \/ n = 4
      OBVIOUS
    <2>3. i = 1 \/ i = 2 \/ i = 3 \/ i = 4
      OBVIOUS
    <2> QED
      BY <1>2, <2>2, <2>3
  <1>5. IsSane(ip, MaxPrefix(ip.af), ip)
    BY <1>4 DEF IsSane
  <1> QED
    BY <1>3, <1>5, SaneUnique

\* An address lies in a network when the network is what its prefix leaves of
\* the address.
LEMMA AgreeLemma ==
  ASSUME NEW c \in Address, NEW ip \in Address, NEW prefix \in 0 .. MaxPrefix(c.af), c = client_sane(c, prefix)
  PROVE  Agree(c, ip, prefix) <=> prefix <= MaxPrefix(ip.af) /\ c = client_sane(ip, prefix)
  <1>1. IsSane(c, prefix, c)
    BY SaneLemma
  <1>2. c.af \in {"v4", "v6"} /\ ip.af \in {"v4", "v6"} /\ MaxPrefix(c.af) \in Nat /\ MaxPrefix(ip.af) \in Nat
    <2>1. c.af \in {"v4", "v6"} /\ ip.af \in {"v4", "v6"}
      BY AddressParts
    <2> QED
      BY <2>1, WordsLemma
  <1>3. ASSUME Agree(c, ip, prefix) PROVE prefix <= MaxPrefix(ip.af) /\ c = client_sane(ip, prefix)
    <2>1. c.af = ip.af
      BY <1>3 DEF Agree
    <2>2. prefix \in 0 .. MaxPrefix(ip.af)
      BY <2>1
    <2>3. IsSane(ip, prefix, client_sane(ip, prefix))
      BY <2>2, SaneLemma
    <2>4. \A i \in 1 .. Words(c.af), j \in 1 .. WordBits : Bit(i, j) <= prefix => c.w[i][j] = ip.w[i][j]
      BY <1>3 DEF Agree, Bit
    <2>5. IsSane(ip, prefix, c)
      BY <1>1, <2>1, <2>4 DEF IsSane
    <2> QED
      BY <1>2, <2>2, <2>3, <2>5, SaneUnique
  <1>4. ASSUME prefix <= MaxPrefix(ip.af), c = client_sane(ip, prefix) PROVE Agree(c, ip, prefix)
    <2>1. prefix \in 0 .. MaxPrefix(ip.af)
      BY <1>2, <1>4
    <2>2. IsSane(ip, prefix, c)
      BY <1>4, <2>1, SaneLemma
    <2> QED
      BY <2>2 DEF IsSane, Agree, Bit
  <1> QED
    BY <1>3, <1>4

----------------------------------------------------------------------------
(* The search for a client.                                                 *)

LEMMA MaxLemma ==
  ASSUME NEW hi \in Nat, NEW S \in SUBSET (0..hi), S # {}
  PROVE  Max(S) \in S /\ \A y \in S : y <= Max(S)
  <1> DEFINE T == {hi - y : y \in S}
  <1>2. \A y \in S : hi - y \in T
    OBVIOUS
  <1>3. ASSUME NEW t \in T PROVE hi - t \in S /\ t \in Nat
    <2>1. PICK y \in S : t = hi - y
      OBVIOUS
    <2>2. y \in 0..hi
      OBVIOUS
    <2>3. hi - t = y /\ t \in Nat
      BY <2>1, <2>2
    <2> QED
      BY <2>3
  <1> HIDE DEF T
  <1>1. T \subseteq Nat /\ T # {}
    BY <1>2, <1>3
  <1>4. PICK x \in T : \A y \in T : ~(<<y, x>> \in OpToRel(<, Nat))
    BY <1>1, NatLessThanWellFounded, WFMin
  <1>5. \A y \in T : ~(y < x)
    BY <1>1, <1>4 DEF OpToRel
  <1>6. PICK m \in S : m = hi - x
    BY <1>3
  <1>7. \A y \in S : m >= y
    <2> TAKE y \in S
    <2>1. ~(hi - y < x) /\ x \in Nat /\ y \in Nat
      BY <1>2, <1>3, <1>5
    <2> QED
      BY <1>6, <2>1
  <1>8. Max(S) \in S /\ \A y \in S : Max(S) >= y
    BY <1>7 DEF Max
  <1> QED
    BY <1>8

Lists == [trees: SUBSET Nat, tree_num: SUBSET Nat, min_prefix: 0 .. 4 * WordBits,
          deleted: Seq(Nat), freed: SUBSET Nat]

\* client_sane() was applied to the client.
Canonical(c) == c.prefix \in 0 .. MaxPrefix(c.ip.af) /\ c.ip = client_sane(c.ip, c.prefix)

\* What a search relies on.
TreesOK(cs, ls) ==
  /\ cs \in Seq(RadClient) /\ ls \in Lists /\ ls.trees \subseteq 1 .. Len(cs)
  /\ \A n \in 1 .. Len(cs) : Canonical(cs[n])
  /\ \A n \in ls.trees : ls.min_prefix <= cs[n].prefix
  /\ \A m, n \in ls.trees : cs[m].prefix = cs[n].prefix /\ cs[m].ip = cs[n].ip => m = n

Match(c, ip) == c.prefix <= MaxPrefix(ip.af) /\ c.ip = client_sane(ip, c.prefix)

Nearest(cs, ls, ip, found) ==
  /\ found = 0 => \A n \in ls.trees : ~Match(cs[n], ip)
  /\ found # 0 => /\ found \in ls.trees /\ Match(cs[found], ip)
                  /\ \A n \in ls.trees \ {found} : Match(cs[n], ip) => cs[n].prefix < cs[found].prefix

LEMMA FindLemma ==
  ASSUME NEW cs, NEW ls, TreesOK(cs, ls), NEW ip \in Address
  PROVE  Nearest(cs, ls, ip, client_find(cs, ls, ip))
  <1> DEFINE At(p) == {i \in ls.trees : cs[i].prefix = p /\ cs[i].ip = client_sane(ip, p)}
             hits == {p \in ls.min_prefix .. MaxPrefix(ip.af) : At(p) # {}}
             found == client_find(cs, ls, ip)
  <1>1. ip.af \in {"v4", "v6"} /\ MaxPrefix(ip.af) \in Nat
    <2>1. ip.af \in {"v4", "v6"}
      BY AddressParts
    <2> QED
      BY <2>1, WordsLemma
  <1>2. ls.min_prefix \in Nat /\ ls.trees \subseteq 1 .. Len(cs) /\ Len(cs) \in Nat
    BY ClientsAssumption DEF TreesOK, Lists
  <1>3. found = IF hits = {} THEN 0 ELSE CHOOSE i \in At(Max(hits)) : TRUE
    BY DEF client_find
  <1>4. \A n \in ls.trees : cs[n].prefix \in Nat /\ ls.min_prefix <= cs[n].prefix
    <2> TAKE n \in ls.trees
    <2>1. Canonical(cs[n]) /\ cs[n] \in RadClient
      BY <1>2 DEF TreesOK
    <2> QED
      BY <2>1 DEF Canonical, TreesOK
  <1>5. ASSUME NEW n \in ls.trees, Match(cs[n], ip) PROVE cs[n].prefix \in hits
    <2>1. n \in At(cs[n].prefix)
      BY <1>5 DEF Match
    <2>2. cs[n].prefix \in ls.min_prefix .. MaxPrefix(ip.af)
      BY <1>1, <1>2, <1>4, <1>5 DEF Match
    <2> HIDE DEF At
    <2> QED
      BY <2>1, <2>2
  <1>6. hits \in SUBSET (0 .. MaxPrefix(ip.af))
    BY <1>1, <1>2
  <1> HIDE DEF hits, found
  <1>7. CASE hits = {}
    <2>1. found = 0 /\ \A n \in ls.trees : ~Match(cs[n], ip)
      BY <1>3, <1>5, <1>7
    <2> QED
      BY <2>1 DEF Nearest, found
  <1>8. CASE hits # {}
    <2>1. Max(hits) \in hits /\ \A y \in hits : y <= Max(hits)
      BY <1>1, <1>6, <1>8, MaxLemma
    <2>2. PICK p : p = Max(hits)
      OBVIOUS
    <2>3. p \in 0 .. MaxPrefix(ip.af) /\ p <= MaxPrefix(ip.af) /\ At(p) # {}
      BY <1>1, <1>2, <2>1, <2>2 DEF hits
    <2>4. found \in At(p)
      <3> HIDE DEF At
      <3> QED
        BY <1>3, <1>8, <2>2, <2>3
    <2>5. found \in ls.trees /\ cs[found].prefix = p /\ cs[found].ip = client_sane(ip, p)
      BY <2>4
    <2>6. Match(cs[found], ip)
      BY <2>3, <2>5 DEF Match
    <2>7. ASSUME NEW n \in ls.trees \ {found}, Match(cs[n], ip) PROVE cs[n].prefix < cs[found].prefix
      <3>1. cs[n].prefix \in hits
        BY <1>5, <2>7
      <3>2. cs[n].prefix <= p /\ cs[n].prefix \in Nat
        BY <1>4, <2>1, <2>2, <3>1
      <3>3. cs[n].prefix # p
        <4> SUFFICES ASSUME cs[n].prefix = p PROVE FALSE
          OBVIOUS
        <4>1. cs[n].ip = cs[found].ip
          BY <2>5, <2>7 DEF Match
        <4> QED
          BY <2>5, <2>7, <4>1 DEF TreesOK
      <3> QED
        BY <2>3, <2>5, <3>2, <3>3
    <2>8. found # 0
      BY <1>2, <2>5
    <2> QED
      BY <2>5, <2>6, <2>7, <2>8 DEF Nearest, found
  <1> QED
    BY <1>7, <1>8

LEMMA NearestLemma ==
  ASSUME TreesOK(radclients, lists), NEW ip \in Address
  PROVE  LET around == {n \in lists.trees : Agree(radclients[n].ip, ip, radclients[n].prefix)}
             found == client_find(radclients, lists, ip)
         IN  /\ found = 0 <=> around = {}
             /\ found # 0 => /\ found \in around
                             /\ \A n \in around \ {found} : radclients[n].prefix < radclients[found].prefix
  <1> DEFINE around == {n \in lists.trees : Agree(radclients[n].ip, ip, radclients[n].prefix)}
  <1>1. PICK found : found = client_find(radclients, lists, ip)
    OBVIOUS
  <1>2. Nearest(radclients, lists, ip, found)
    BY <1>1, FindLemma
  <1>3. ASSUME NEW n \in lists.trees PROVE n \in around <=> Match(radclients[n], ip)
    <2>1. PICK c \in RadClient : c = radclients[n]
      BY DEF TreesOK
    <2>2. c.ip \in Address /\ c.prefix \in 0 .. MaxPrefix(c.ip.af) /\ c.ip = client_sane(c.ip, c.prefix)
      <3>1. Canonical(c)
        BY <2>1 DEF TreesOK
      <3> QED
        BY <3>1 DEF Canonical, RadClient
    <2>3. Agree(c.ip, ip, c.prefix) <=> Match(c, ip)
      BY <2>2, AgreeLemma DEF Match
    <2> QED
      BY <2>1, <2>3
  <1>4. around \subseteq lists.trees
    OBVIOUS
  <1> HIDE DEF around
  <1>5. 0 \notin lists.trees
    BY DEF TreesOK
  <1>6. found = 0 <=> around = {}
    BY <1>2, <1>3, <1>4 DEF Nearest
  <1>7. ASSUME found # 0
        PROVE  found \in around /\ \A n \in around \ {found} : radclients[n].prefix < radclients[found].prefix
    BY <1>2, <1>3, <1>4, <1>7 DEF Nearest
  <1> QED
    BY <1>1, <1>6, <1>7 DEF around

----------------------------------------------------------------------------
(* What the lists keep.                                                     *)

\* A client at its time: marked when it left the trees, and no network of one
\* address creates clients.
ClientOK(c, in, now) ==
  /\ in <=> c.dynamic # 3
  /\ c.created <= now
  /\ c.client_server => c.prefix # MaxPrefix(c.ip.af)

\* deleted_clients.
QueueOK(cs, ls) ==
  /\ Len(ls.deleted) <= MaxDeleted
  /\ \A i \in 1 .. Len(ls.deleted) : ls.deleted[i] \in 1 .. Len(cs) /\ ls.deleted[i] \notin ls.trees \cup ls.freed
  /\ \A i, j \in 1 .. Len(ls.deleted) : ls.deleted[i] = ls.deleted[j] => i = j

Kept(cs, ls, now) ==
  /\ TreesOK(cs, ls) /\ QueueOK(cs, ls)
  /\ ls.tree_num = ls.trees /\ ls.freed \subseteq 1 .. Len(cs) /\ ls.freed \cap ls.trees = {}
  /\ \A n \in 1 .. Len(cs) : ClientOK(cs[n], n \in ls.trees, now)

Entered(cs, ls, s, all, in, now) ==
  /\ Kept(all, in, now)
  /\ Len(all) = Len(cs) + 1 /\ all[Len(cs) + 1] = s /\ \A n \in 1 .. Len(cs) : all[n] = cs[n]
  /\ in.trees = ls.trees \cup {Len(cs) + 1} /\ in.freed = ls.freed /\ in.deleted = ls.deleted

LEMMA EnterLists ==
  ASSUME NEW cs \in Seq(RadClient), NEW ls \in Lists, NEW s \in RadClient
  PROVE  /\ Enter(cs, ls, s) \in Lists
         /\ Enter(cs, ls, s).trees = ls.trees \cup {Len(cs) + 1}
         /\ Enter(cs, ls, s).tree_num = ls.tree_num \cup {Len(cs) + 1}
         /\ Enter(cs, ls, s).min_prefix = IF s.prefix < ls.min_prefix THEN s.prefix ELSE ls.min_prefix
         /\ Enter(cs, ls, s).deleted = ls.deleted /\ Enter(cs, ls, s).freed = ls.freed
  <1>1. PICK n \in Nat : n = Len(cs) + 1
    OBVIOUS
  <1>2. PICK p \in 0 .. 4 * WordBits : p = IF s.prefix < ls.min_prefix THEN s.prefix ELSE ls.min_prefix
    BY DEF Lists, RadClient
  <1>3. PICK e : e = Enter(cs, ls, s)
    OBVIOUS
  <1>4. e = [ls EXCEPT !.trees = ls.trees \cup {n}, !.tree_num = ls.tree_num \cup {n}, !.min_prefix = p]
    BY <1>1, <1>2, <1>3 DEF Enter
  <1>5. ls.trees \cup {n} \in SUBSET Nat /\ ls.tree_num \cup {n} \in SUBSET Nat
    BY DEF Lists
  <1>6. /\ e \in Lists /\ e.trees = ls.trees \cup {n} /\ e.tree_num = ls.tree_num \cup {n} /\ e.min_prefix = p
        /\ e.deleted = ls.deleted /\ e.freed = ls.freed
    BY <1>4, <1>5 DEF Lists
  <1> QED
    BY <1>1, <1>2, <1>3, <1>6

LEMMA EnterLemma ==
  ASSUME NEW cs, NEW ls, NEW now \in Nat, Kept(cs, ls, now), NEW s \in RadClient, Canonical(s),
         ClientOK(s, TRUE, now), \A m \in ls.trees : ~(cs[m].prefix = s.prefix /\ cs[m].ip = s.ip)
  PROVE  Entered(cs, ls, s, Append(cs, s), Enter(cs, ls, s), now)
  <1>1. cs \in Seq(RadClient) /\ ls \in Lists /\ ls.trees \subseteq 1 .. Len(cs) /\ Len(cs) \in Nat
    BY DEF Kept, TreesOK
  <1>2. PICK all : all = Append(cs, s)
    OBVIOUS
  <1>3. PICK in : in = Enter(cs, ls, s)
    OBVIOUS
  <1>4. PICK n \in Nat : n = Len(cs) + 1
    BY <1>1
  <1>5. /\ all \in Seq(RadClient) /\ Len(all) = n /\ all[n] = s /\ \A k \in 1 .. Len(cs) : all[k] = cs[k]
    BY <1>1, <1>2, <1>4, AppendProperties
  <1>6. /\ in \in Lists /\ in.trees = ls.trees \cup {n} /\ in.tree_num = ls.tree_num \cup {n}
        /\ in.min_prefix = IF s.prefix < ls.min_prefix THEN s.prefix ELSE ls.min_prefix
        /\ in.deleted = ls.deleted /\ in.freed = ls.freed
    BY <1>1, <1>3, <1>4, EnterLists
  <1>7. 1 .. n = 1 .. Len(cs) \cup {n} /\ n \notin 1 .. Len(cs)
    BY <1>1, <1>4
  <1>8. TreesOK(all, in)
    <2>1. in.trees \subseteq 1 .. n
      BY <1>1, <1>6, <1>7
    <2>2. \A k \in 1 .. n : Canonical(all[k])
      BY <1>5, <1>7 DEF Kept, TreesOK
    <2>3. ASSUME NEW k \in in.trees PROVE in.min_prefix <= all[k].prefix
      <3>1. s.prefix \in Nat /\ ls.min_prefix \in Nat
        BY <1>1, ClientsAssumption DEF Lists, RadClient
      <3>2. CASE k = n
        BY <1>5, <1>6, <3>1, <3>2
      <3>3. CASE k \in ls.trees
        <4>1. k \in 1 .. Len(cs) /\ cs[k] \in RadClient /\ ls.min_prefix <= cs[k].prefix
          BY <1>1, <3>3 DEF Kept, TreesOK
        <4>2. cs[k].prefix \in Nat
          BY <4>1, ClientsAssumption DEF RadClient
        <4>3. all[k].prefix = cs[k].prefix
          BY <1>5, <4>1
        <4> QED
          BY <1>6, <3>1, <4>1, <4>2, <4>3
      <3> QED
        BY <1>6, <2>3, <3>2, <3>3
    <2>4. ASSUME NEW j \in in.trees, NEW k \in in.trees, all[j].prefix = all[k].prefix, all[j].ip = all[k].ip
          PROVE  j = k
      <3>1. \A m \in ls.trees : m \in 1 .. Len(cs) /\ all[m] = cs[m]
        BY <1>1, <1>5
      <3>2. CASE j \in ls.trees /\ k \in ls.trees
        BY <2>4, <3>1, <3>2 DEF Kept, TreesOK
      <3>3. CASE j \in ls.trees /\ k = n
        BY <1>5, <2>4, <3>1, <3>3
      <3>4. CASE j = n /\ k \in ls.trees
        BY <1>5, <2>4, <3>1, <3>4
      <3> QED
        BY <1>6, <2>4, <3>2, <3>3, <3>4
    <2> QED
      BY <1>5, <1>6, <2>1, <2>2, <2>3, <2>4 DEF TreesOK
  <1>9. QueueOK(all, in)
    <2>1. QueueOK(cs, ls)
      BY DEF Kept
    <2>2. \A i \in 1 .. Len(ls.deleted) : ls.deleted[i] \in 1 .. n /\ ls.deleted[i] \notin ls.trees \cup {n} \cup ls.freed
      BY <1>7, <2>1 DEF QueueOK
    <2> QED
      BY <1>5, <1>6, <2>1, <2>2 DEF QueueOK
  <1>10. in.tree_num = in.trees /\ in.freed \subseteq 1 .. n /\ in.freed \cap in.trees = {}
    BY <1>6, <1>7 DEF Kept
  <1>11. ASSUME NEW k \in 1 .. n PROVE ClientOK(all[k], k \in in.trees, now)
    <2>1. CASE k = n
      BY <1>5, <1>6, <2>1 DEF ClientOK
    <2>2. CASE k \in 1 .. Len(cs)
      <3>1. ClientOK(cs[k], k \in ls.trees, now)
        BY <2>2 DEF Kept
      <3>2. k \in in.trees <=> k \in ls.trees
        BY <1>6, <1>7, <2>2
      <3> QED
        BY <1>5, <2>2, <3>1, <3>2 DEF ClientOK
    <2> QED
      BY <1>7, <2>1, <2>2
  <1>12. Kept(all, in, now)
    BY <1>5, <1>8, <1>9, <1>10, <1>11 DEF Kept
  <1> QED
    BY <1>2, <1>3, <1>4, <1>5, <1>6, <1>12 DEF Entered

\* A client that changes in what the lists do not look at.
Touched(cs, cs1, n) ==
  /\ cs1 \in Seq(RadClient) /\ Len(cs1) = Len(cs)
  /\ \A k \in 1 .. Len(cs) : k # n => cs1[k] = cs[k]
  /\ cs1[n].ip = cs[n].ip /\ cs1[n].prefix = cs[n].prefix /\ cs1[n].client_server = cs[n].client_server

LEMMA TouchLemma ==
  ASSUME NEW cs, NEW ls, NEW now \in Nat, Kept(cs, ls, now), NEW cs1, NEW n \in 1 .. Len(cs), Touched(cs, cs1, n),
         cs1[n].created <= now, cs1[n].dynamic = 3 <=> cs[n].dynamic = 3
  PROVE  Kept(cs1, ls, now)
  <1>1. \A k \in 1 .. Len(cs) : cs1[k].ip = cs[k].ip /\ cs1[k].prefix = cs[k].prefix
    BY DEF Touched
  <1>2. TreesOK(cs1, ls)
    <2>1. TreesOK(cs, ls) /\ ls.trees \subseteq 1 .. Len(cs)
      BY DEF Kept, TreesOK
    <2>2. \A k \in 1 .. Len(cs) : Canonical(cs1[k])
      BY <1>1, <2>1 DEF TreesOK, Canonical
    <2>3. \A k \in ls.trees : ls.min_prefix <= cs1[k].prefix
      BY <1>1, <2>1 DEF TreesOK
    <2>4. \A j, k \in ls.trees : cs1[j].prefix = cs1[k].prefix /\ cs1[j].ip = cs1[k].ip => j = k
      BY <1>1, <2>1 DEF TreesOK
    <2> QED
      BY <2>1, <2>2, <2>3, <2>4 DEF TreesOK, Touched
  <1>3. QueueOK(cs1, ls)
    BY DEF Kept, QueueOK, Touched
  <1>4. ASSUME NEW k \in 1 .. Len(cs) PROVE ClientOK(cs1[k], k \in ls.trees, now)
    <2>1. ClientOK(cs[k], k \in ls.trees, now)
      BY DEF Kept
    <2>2. CASE k = n
      BY <2>1, <2>2 DEF ClientOK, Touched
    <2>3. CASE k # n
      BY <2>1, <2>3 DEF Touched
    <2> QED
      BY <2>2, <2>3
  <1> QED
    BY <1>2, <1>3, <1>4 DEF Kept, Touched

\* What client_add() makes of a client that it enters.
AsAdded(s, c) ==
  /\ s \in RadClient /\ s.ip = client_sane(c.ip, c.prefix)
  /\ \A f \in {"prefix", "client_server", "rate_limit", "dynamic", "created", "last_new_client"} : s[f] = c[f]

Added(cs, ls, c, r, now) ==
  /\ r = [ok |-> r.ok, cs |-> r.cs, ls |-> r.ls]
  /\ \/ r.cs = cs /\ r.ls = ls
     \/ r.ok /\ \E s : AsAdded(s, c) /\ Entered(cs, ls, s, r.cs, r.ls, now)

\* Nobody is in the trees for the network of the client.
Free(cs, ls, c) ==
  \A i \in ls.trees : ~(cs[i].prefix = c.prefix /\ cs[i].ip = client_sane(c.ip, c.prefix))

LEMMA AddEnters ==
  ASSUME NEW cs, NEW ls, NEW now \in Nat, Kept(cs, ls, now), NEW c \in RadClient, ClientOK(c, TRUE, now),
         c.prefix <= MaxPrefix(c.ip.af), Free(cs, ls, c)
  PROVE  /\ client_add(cs, ls, c).ok = TRUE
         /\ Added(cs, ls, c, client_add(cs, ls, c), now)
         /\ \E s : AsAdded(s, c) /\ Entered(cs, ls, s, client_add(cs, ls, c).cs, client_add(cs, ls, c).ls, now)
  <1>1. /\ c.ip \in Address /\ c.prefix \in 0 .. 4 * WordBits /\ c.secret \in {1, 2} /\ c.client_server \in BOOLEAN
        /\ c.lifetime \in Nat /\ c.rate_limit \in BOOLEAN /\ c.dynamic \in 0..3 /\ c.created \in Nat /\ c.last_new_client \in Nat
    BY DEF RadClient
  <1>2. c.prefix \in 0 .. MaxPrefix(c.ip.af) /\ MaxPrefix(c.ip.af) \in Nat
    <2>1. c.ip.af \in {"v4", "v6"}
      BY <1>1, AddressParts
    <2> QED
      BY <1>1, <2>1, WordsLemma
  <1>3. PICK ip \in Address : ip = client_sane(c.ip, c.prefix) /\ ip.af = c.ip.af /\ client_sane(ip, c.prefix) = ip
    BY <1>1, <1>2, SaneTwice
  <1>4. PICK sane : sane = [c EXCEPT !.ip = ip]
    OBVIOUS
  <1>5. /\ sane \in RadClient /\ sane.ip = ip /\ AsAdded(sane, c) /\ sane.lifetime = c.lifetime
    BY <1>1, <1>3, <1>4 DEF RadClient, AsAdded
  <1>6. ASSUME NEW s, AsAdded(s, c) PROVE Entered(cs, ls, s, Append(cs, s), Enter(cs, ls, s), now)
    <2>1. s \in RadClient /\ s.ip = ip /\ s.prefix = c.prefix /\ s.client_server = c.client_server /\ s.dynamic = c.dynamic
          /\ s.created = c.created
      BY <1>3, <1>6 DEF AsAdded
    <2>2. Canonical(s)
      BY <1>2, <1>3, <2>1 DEF Canonical
    <2>3. ClientOK(s, TRUE, now)
      BY <1>3, <2>1 DEF ClientOK
    <2>4. \A m \in ls.trees : ~(cs[m].prefix = s.prefix /\ cs[m].ip = s.ip)
      BY <1>3, <2>1 DEF Free
    <2> QED
      BY <2>1, <2>2, <2>3, <2>4, EnterLemma
  <1>7. PICK all : all = Append(cs, sane)
    OBVIOUS
  <1>8. PICK in : in = Enter(cs, ls, sane)
    OBVIOUS
  <1>9. Entered(cs, ls, sane, all, in, now)
    BY <1>5, <1>6, <1>7, <1>8
  <1>10. PICK found : found = client_find(all, in, ip)
    OBVIOUS
  <1>11. all[found].lifetime \in Nat
    <2>1. TreesOK(all, in)
      BY <1>9 DEF Entered, Kept
    <2>2. Nearest(all, in, ip, found)
      BY <1>10, <2>1, FindLemma
    <2>3. Len(cs) + 1 \in in.trees /\ all[Len(cs) + 1] = sane
      BY <1>9 DEF Entered
    <2>4. Match(sane, ip)
      <3>1. sane.prefix = c.prefix
        BY <1>5 DEF AsAdded
      <3> QED
        BY <1>2, <1>3, <1>5, <3>1 DEF Match
    <2>5. found # 0
      BY <2>2, <2>3, <2>4 DEF Nearest
    <2>6. found \in in.trees
      BY <2>2, <2>5 DEF Nearest
    <2>7. all[found] \in RadClient
      BY <2>1, <2>6 DEF TreesOK
    <2> QED
      BY <2>7 DEF RadClient
  <1>12. PICK life \in Nat : life = IF c.dynamic = 1 /\ c.lifetime = 0 THEN all[found].lifetime ELSE c.lifetime
    BY <1>1, <1>11
  <1>13. PICK s : s = [sane EXCEPT !.lifetime = life]
    OBVIOUS
  <1>14. AsAdded(s, c)
    BY <1>5, <1>12, <1>13 DEF AsAdded, RadClient
  <1>15. Entered(cs, ls, s, Append(cs, s), Enter(cs, ls, s), now)
    BY <1>6, <1>14
  <1>16. Enter(cs, ls, s) = in
    <2>1. s.prefix = sane.prefix
      BY <1>5, <1>14 DEF AsAdded
    <2> QED
      BY <1>8, <2>1 DEF Enter
  <1>17. PICK r : r = client_add(cs, ls, c)
    OBVIOUS
  <1>18. Twins(cs, ls, sane) = {}
    <2>1. sane.prefix = c.prefix
      BY <1>5 DEF AsAdded
    <2> QED
      BY <1>3, <1>5, <2>1 DEF Free, Twins
  <1>19. c.prefix <= MaxPrefix(c.ip.af)
    BY <1>2
  <1>20. Inherited(cs, ls, sane) = life
    <2>1. sane.dynamic = c.dynamic
      BY <1>5 DEF AsAdded
    <2> QED
      BY ONLY <1>5, <1>7, <1>8, <1>10, <1>12, <2>1 DEF Inherited
  <1>21. r = [ok |-> TRUE, cs |-> Append(cs, s), ls |-> in]
    BY ONLY <1>3, <1>4, <1>8, <1>13, <1>17, <1>18, <1>19, <1>20 DEF client_add
  <1>22. r.ok = TRUE /\ r.cs = Append(cs, s) /\ r.ls = Enter(cs, ls, s) /\ r = [ok |-> r.ok, cs |-> r.cs, ls |-> r.ls]
    BY <1>16, <1>21
  <1>23. Entered(cs, ls, s, r.cs, r.ls, now)
    BY <1>15, <1>22
  <1>24. Added(cs, ls, c, r, now)
    BY <1>14, <1>22, <1>23 DEF Added
  <1> QED
    BY <1>14, <1>17, <1>22, <1>23, <1>24

LEMMA AddLemma ==
  ASSUME NEW cs, NEW ls, NEW now \in Nat, Kept(cs, ls, now), NEW c \in RadClient, ClientOK(c, TRUE, now)
  PROVE  Added(cs, ls, c, client_add(cs, ls, c), now)
  <1>1. CASE c.prefix <= MaxPrefix(c.ip.af) /\ Free(cs, ls, c)
    BY <1>1, AddEnters
  <1>2. CASE ~(c.prefix <= MaxPrefix(c.ip.af) /\ Free(cs, ls, c))
    <2>1. PICK ip : ip = client_sane(c.ip, c.prefix)
      OBVIOUS
    <2>2. PICK d : d = [c EXCEPT !.ip = ip]
      OBVIOUS
    <2>3. d = [c EXCEPT !.ip = ip] /\ d.ip = ip /\ d.prefix = c.prefix
      BY <2>2 DEF RadClient
    <2>4. ~(c.prefix <= MaxPrefix(c.ip.af)) \/ Twins(cs, ls, d) # {}
      BY <1>2, <2>1, <2>3 DEF Free, Twins
    <2>5. PICK r : r = client_add(cs, ls, c)
      OBVIOUS
    <2>6. PICK ok : ok = (/\ c.prefix <= MaxPrefix(c.ip.af)
                          /\ \A i \in Twins(cs, ls, d) : \A f \in {"secret", "client_server", "lifetime"} : cs[i][f] = d[f])
      OBVIOUS
    <2>7. r = [ok |-> ok, cs |-> cs, ls |-> ls]
      BY ONLY <2>1, <2>3, <2>4, <2>5, <2>6 DEF client_add
    <2>8. r = [ok |-> r.ok, cs |-> r.cs, ls |-> r.ls] /\ r.cs = cs /\ r.ls = ls
      BY ONLY <2>7
    <2> QED
      BY <2>5, <2>8 DEF Added
  <1> QED
    BY <1>1, <1>2

----------------------------------------------------------------------------
(* Deletion of a client.                                                    *)

\* A client n is freed at the time.
IsFreed(cs, ls, n) == n \notin ls.trees /\ cs[n].created + HoldTime < clock

FreedFrom(cs, ls, f) ==
  /\ Kept(cs, f, clock) /\ f.trees = ls.trees
  /\ \A m \in f.freed \ ls.freed : IsFreed(cs, f, m)

\* deleted_clients after the client was pushed, or lost.
Pushed(cs, ls, q) ==
  /\ q \in Seq(Nat) /\ Len(q) \in 1 .. MaxDeleted
  /\ \A i \in 1 .. Len(q) : q[i] \in 1 .. Len(cs) /\ q[i] \notin ls.trees \cup ls.freed
  /\ \A i, j \in 1 .. Len(q) : q[i] = q[j] => i = j

LEMMA PushLemma ==
  ASSUME NEW cs, NEW ls, Kept(cs, ls, clock), NEW n \in 1 .. Len(cs), n \notin ls.trees \cup ls.freed,
         \A i \in 1 .. Len(ls.deleted) : ls.deleted[i] # n
  PROVE  Pushed(cs, ls, IF Len(ls.deleted) = MaxDeleted THEN ls.deleted ELSE Append(ls.deleted, n))
  <1>1. PICK q \in Seq(Nat) : q = ls.deleted
    BY DEF Kept, TreesOK, Lists
  <1>2. /\ Len(q) \in Nat /\ Len(q) <= MaxDeleted
        /\ \A i \in 1 .. Len(q) : q[i] \in 1 .. Len(cs) /\ q[i] \notin ls.trees \cup ls.freed /\ q[i] # n
        /\ \A i, j \in 1 .. Len(q) : q[i] = q[j] => i = j
    BY <1>1 DEF Kept, QueueOK
  <1>3. MaxDeleted \in Nat \ {0, 1}
    BY ClientsAssumption
  <1>4. CASE Len(q) = MaxDeleted
    BY <1>1, <1>2, <1>3, <1>4 DEF Pushed
  <1>5. CASE Len(q) # MaxDeleted
    <2>1. n \in Nat
      BY DEF Kept, TreesOK
    <2>2. PICK a : a = Append(q, n)
      OBVIOUS
    <2>3. a \in Seq(Nat) /\ Len(a) = Len(q) + 1 /\ a[Len(q) + 1] = n /\ \A i \in 1 .. Len(q) : a[i] = q[i]
      BY <1>1, <2>1, <2>2, AppendProperties
    <2>4. \A i \in 1 .. Len(a) : i \in 1 .. Len(q) \/ i = Len(q) + 1
      BY <1>2, <2>3
    <2>5. Len(a) \in 1 .. MaxDeleted
      BY <1>2, <1>3, <1>5, <2>3
    <2>6. \A i \in 1 .. Len(a) : a[i] \in 1 .. Len(cs) /\ a[i] \notin ls.trees \cup ls.freed
      BY <1>2, <2>3, <2>4
    <2>7. \A i, j \in 1 .. Len(a) : a[i] = a[j] => i = j
      BY <1>2, <2>3, <2>4
    <2>8. Pushed(cs, ls, a)
      BY <2>3, <2>5, <2>6, <2>7 DEF Pushed
    <2> QED
      BY <1>1, <1>5, <2>2, <2>8
  <1> QED
    BY <1>4, <1>5

LEMMA FreeLemma ==
  ASSUME NEW cs, NEW ls, clock \in Nat, Kept(cs, ls, clock), NEW n \in 1 .. Len(cs), n \notin ls.trees \cup ls.freed,
         \A i \in 1 .. Len(ls.deleted) : ls.deleted[i] # n
  PROVE  FreedFrom(cs, ls, client_free(cs, ls, n))
  <1>1. PICK q : q = IF Len(ls.deleted) = MaxDeleted THEN ls.deleted ELSE Append(ls.deleted, n)
    OBVIOUS
  <1>2. Pushed(cs, ls, q)
    BY <1>1, PushLemma
  <1>3. PICK f : f = client_free(cs, ls, n)
    OBVIOUS
  <1>4. ls \in Lists /\ TreesOK(cs, ls) /\ Len(cs) \in Nat
    BY DEF Kept, TreesOK
  <1>5. ASSUME NEW g \in Lists, g.trees = ls.trees, g.tree_num = ls.tree_num, g.min_prefix = ls.min_prefix,
               g.freed \subseteq 1 .. Len(cs), g.freed \cap ls.trees = {}, QueueOK(cs, g)
        PROVE  Kept(cs, g, clock)
    <2>1. TreesOK(cs, g)
      BY <1>4, <1>5 DEF TreesOK
    <2> QED
      BY <1>5, <2>1 DEF Kept
  <1>6. CASE cs[q[1]].created + HoldTime < clock
    <2>1. PICK t : t = Tail(q)
      OBVIOUS
    <2>2. PICK h \in Nat : h = q[1] /\ h \in 1 .. Len(cs) /\ h \notin ls.trees \cup ls.freed
      <3>1. 1 \in 1 .. Len(q)
        BY <1>2 DEF Pushed
      <3> QED
        BY <1>2, <1>4, <3>1 DEF Pushed
    <2>3. PICK fr \in SUBSET Nat : fr = ls.freed \cup {h}
      BY <1>4 DEF Lists
    <2>4. t \in Seq(Nat) /\ Len(t) = Len(q) - 1 /\ \A i \in 1 .. Len(t) : t[i] = q[i + 1]
      <3>1. q \in Seq(Nat) /\ q # <<>>
        BY <1>2 DEF Pushed
      <3> QED
        BY <2>1, <3>1, HeadTailProperties
    <2>5. f = [ls EXCEPT !.deleted = t, !.freed = fr]
      BY <1>1, <1>3, <1>6, <2>1, <2>2, <2>3 DEF client_free
    <2>6. /\ f \in Lists /\ f.trees = ls.trees /\ f.tree_num = ls.tree_num /\ f.min_prefix = ls.min_prefix
          /\ f.deleted = t /\ f.freed = fr
      BY <1>4, <2>3, <2>4, <2>5 DEF Lists
    <2>7. f.freed \subseteq 1 .. Len(cs) /\ f.freed \cap ls.trees = {}
      BY <2>2, <2>3, <2>6 DEF Kept
    <2>8. QueueOK(cs, f)
      <3>1. Len(q) \in Nat /\ Len(t) <= MaxDeleted /\ \A i \in 1 .. Len(t) : i + 1 \in 1 .. Len(q) /\ i + 1 # 1 /\ 1 \in 1 .. Len(q)
        BY <1>2, <2>4, ClientsAssumption DEF Pushed
      <3>2. \A i \in 1 .. Len(t) : t[i] \in 1 .. Len(cs) /\ t[i] \notin ls.trees \cup ls.freed /\ t[i] # h
        BY <1>2, <2>2, <2>4, <3>1 DEF Pushed
      <3>3. \A i, j \in 1 .. Len(t) : t[i] = t[j] => i = j
        <4> SUFFICES ASSUME NEW i \in 1 .. Len(t), NEW j \in 1 .. Len(t), t[i] = t[j] PROVE i = j
          OBVIOUS
        <4>1. i + 1 = j + 1
          BY <1>2, <2>4, <3>1 DEF Pushed
        <4> QED
          BY <4>1
      <3> QED
        BY <2>3, <2>6, <3>1, <3>2, <3>3 DEF QueueOK
    <2>9. Kept(cs, f, clock)
      BY <1>5, <2>6, <2>7, <2>8
    <2>10. \A m \in f.freed \ ls.freed : IsFreed(cs, f, m)
      BY <1>6, <2>2, <2>3, <2>6 DEF IsFreed
    <2> QED
      BY <1>3, <2>6, <2>9, <2>10 DEF FreedFrom
  <1>7. CASE ~(cs[q[1]].created + HoldTime < clock)
    <2>1. f = [ls EXCEPT !.deleted = q]
      BY <1>1, <1>3, <1>7 DEF client_free
    <2>2. /\ f \in Lists /\ f.trees = ls.trees /\ f.tree_num = ls.tree_num /\ f.min_prefix = ls.min_prefix
          /\ f.deleted = q /\ f.freed = ls.freed
      BY <1>2, <1>4, <2>1 DEF Lists, Pushed
    <2>3. f.freed \subseteq 1 .. Len(cs) /\ f.freed \cap ls.trees = {}
      BY <2>2 DEF Kept
    <2>4. QueueOK(cs, f)
      BY <1>2, <2>2, ClientsAssumption DEF QueueOK, Pushed
    <2>5. Kept(cs, f, clock)
      BY <1>5, <2>2, <2>3, <2>4
    <2> QED
      BY <1>3, <2>2, <2>5 DEF FreedFrom
  <1> QED
    BY <1>6, <1>7

\* What is left after client_delete().
Left(cs, ls, n, d) ==
  /\ Kept(d.cs, d.ls, clock) /\ Len(d.cs) = Len(cs) /\ d.ls.trees = ls.trees \ {n}
  /\ \A k \in 1 .. Len(cs) : k # n => d.cs[k] = cs[k]
  /\ d.cs[n].created = clock
  /\ d.cs[n].rate_limit = cs[n].rate_limit /\ d.cs[n].last_new_client = cs[n].last_new_client
  /\ \A m \in d.ls.freed \ ls.freed : IsFreed(d.cs, d.ls, m)

LEMMA DeleteLemma ==
  ASSUME NEW cs, NEW ls, clock \in Nat, Kept(cs, ls, clock), NEW n \in ls.trees
  PROVE  Left(cs, ls, n, client_delete(cs, ls, n))
  <1>1. cs \in Seq(RadClient) /\ ls \in Lists /\ n \in 1 .. Len(cs) /\ Len(cs) \in Nat
    BY DEF Kept, TreesOK
  <1>2. PICK c \in RadClient : c = cs[n]
    BY <1>1
  <1>3. PICK d \in RadClient : d = [c EXCEPT !.dynamic = 3, !.created = clock]
    <2>1. PICK e : e = [c EXCEPT !.dynamic = 3, !.created = clock]
      OBVIOUS
    <2>2. 3 \in 0..3
      OBVIOUS
    <2>3. e \in RadClient
      BY ONLY <2>1, <2>2, c \in RadClient, clock \in Nat DEF RadClient
    <2> QED
      BY <2>1, <2>3
  <1>4. /\ d.dynamic = 3 /\ d.created = clock /\ d.ip = c.ip /\ d.prefix = c.prefix /\ d.client_server = c.client_server
        /\ d.rate_limit = c.rate_limit /\ d.last_new_client = c.last_new_client
    BY <1>3 DEF RadClient
  <1>5. PICK m : m = [cs EXCEPT ![n] = d]
    OBVIOUS
  <1>6. m \in Seq(RadClient) /\ Len(m) = Len(cs) /\ m[n] = d /\ \A k \in 1 .. Len(cs) : k # n => m[k] = cs[k]
    BY <1>1, <1>5, ExceptSeq
  <1>7. PICK o : o = [ls EXCEPT !.trees = ls.trees \ {n}, !.tree_num = ls.tree_num \ {n}]
    OBVIOUS
  <1>8. /\ o \in Lists /\ o.trees = ls.trees \ {n} /\ o.tree_num = ls.tree_num \ {n} /\ o.min_prefix = ls.min_prefix
        /\ o.deleted = ls.deleted /\ o.freed = ls.freed
    <2>1. ls.trees \ {n} \in SUBSET Nat /\ ls.tree_num \ {n} \in SUBSET Nat
      BY <1>1 DEF Lists
    <2> QED
      BY <1>1, <1>7, <2>1 DEF Lists
  <1>9. client_delete(cs, ls, n) = [cs |-> m, ls |-> client_free(m, o, n)]
    <2>1. [cs EXCEPT ![n].dynamic = 3, ![n].created = clock] = m
      BY <1>1, <1>2, <1>3, <1>5, <1>6
    <2> QED
      BY <1>7, <2>1 DEF client_delete
  <1>10. Kept(m, o, clock)
    <2>1. \A k \in 1 .. Len(cs) : m[k].ip = cs[k].ip /\ m[k].prefix = cs[k].prefix
      BY <1>2, <1>4, <1>6
    <2>2. TreesOK(cs, ls) /\ QueueOK(cs, ls) /\ ls.trees \subseteq 1 .. Len(cs)
      BY DEF Kept, TreesOK
    <2>3. \A k \in 1 .. Len(cs) : Canonical(m[k])
      BY <2>1, <2>2 DEF TreesOK, Canonical
    <2>4. \A k \in o.trees : o.min_prefix <= m[k].prefix
      BY <1>8, <2>1, <2>2 DEF TreesOK
    <2>5. \A j, k \in o.trees : m[j].prefix = m[k].prefix /\ m[j].ip = m[k].ip => j = k
      BY <1>8, <2>1, <2>2 DEF TreesOK
    <2>6. TreesOK(m, o)
      BY <1>6, <1>8, <2>2, <2>3, <2>4, <2>5 DEF TreesOK
    <2>7. QueueOK(m, o)
      BY <1>6, <1>8, <2>2 DEF QueueOK
    <2>8. o.tree_num = o.trees /\ o.freed \subseteq 1 .. Len(m) /\ o.freed \cap o.trees = {}
      BY <1>6, <1>8 DEF Kept
    <2>9. ASSUME NEW k \in 1 .. Len(m) PROVE ClientOK(m[k], k \in o.trees, clock)
      <3>1. ClientOK(cs[k], k \in ls.trees, clock)
        BY <1>6 DEF Kept
      <3>2. CASE k = n
        BY <1>2, <1>4, <1>6, <1>8, <3>1, <3>2 DEF ClientOK
      <3>3. CASE k # n
        BY <1>6, <1>8, <3>1, <3>3 DEF ClientOK
      <3> QED
        BY <3>2, <3>3
    <2> QED
      BY <2>6, <2>7, <2>8, <2>9 DEF Kept
  <1>11. n \in 1 .. Len(m) /\ n \notin o.trees \cup o.freed /\ \A i \in 1 .. Len(o.deleted) : o.deleted[i] # n
    <2>1. ls.freed \cap ls.trees = {} /\ QueueOK(cs, ls)
      BY DEF Kept
    <2> QED
      BY <1>1, <1>6, <1>8, <2>1 DEF QueueOK
  <1>12. PICK f : f = client_free(m, o, n)
    OBVIOUS
  <1>13. FreedFrom(m, o, f)
    BY <1>10, <1>11, <1>12, FreeLemma
  <1>14. PICK x : x = client_delete(cs, ls, n)
    OBVIOUS
  <1>15. x.cs = m /\ x.ls = f
    BY <1>9, <1>12, <1>14
  <1>16. Left(cs, ls, n, x)
    BY <1>2, <1>4, <1>6, <1>8, <1>13, <1>15 DEF Left, FreedFrom
  <1> QED
    BY <1>14, <1>16

----------------------------------------------------------------------------
(* Who uses a client, and how often a network was asked.                    *)

UsedOne(c, in, freed, u, now) ==
  /\ u \in Nat /\ u <= now + RequestLife
  /\ ~in => u <= c.created + RequestLife
  /\ freed => u < now

UsedOK(cs, ls, us, now) ==
  /\ DOMAIN us = 1 .. Len(cs)
  /\ \A n \in 1 .. Len(cs) : UsedOne(cs[n], n \in ls.trees, n \in ls.freed, us[n], now)

AskedOne(c, a, now) == a \in 0..2 /\ (c.rate_limit /\ a # 0 => a = 1 /\ c.last_new_client = now)

AskedOK(cs, as, now) ==
  /\ DOMAIN as = 1 .. Len(cs)
  /\ \A n \in 1 .. Len(cs) : AskedOne(cs[n], as[n], now)

\* The clients later in the same second.
Follows(cs, cs1) ==
  /\ Len(cs) \in Nat /\ Len(cs1) \in Nat /\ Len(cs) <= Len(cs1)
  /\ \A n \in 1 .. Len(cs) : /\ cs1[n].rate_limit = cs[n].rate_limit
                             /\ cs1[n].last_new_client \in {cs[n].last_new_client, clock}

LEMMA FollowsTransitive ==
  ASSUME NEW a, NEW b, NEW c, Follows(a, b), Follows(b, c)
  PROVE  Follows(a, c)
  <1>1. \A n \in 1 .. Len(a) : n \in 1 .. Len(b)
    BY DEF Follows
  <1> QED
    BY <1>1 DEF Follows

LEMMA FollowsSelf ==
  ASSUME NEW a \in Seq(RadClient)
  PROVE  Follows(a, a)
  BY DEF Follows

LEMMA UsedAfterDelete ==
  ASSUME NEW cs, NEW ls, clock \in Nat, Kept(cs, ls, clock), NEW n \in ls.trees, NEW d, Left(cs, ls, n, d),
         NEW us, UsedOK(cs, ls, us, clock)
  PROVE  UsedOK(d.cs, d.ls, us, clock) /\ Follows(cs, d.cs)
  <1>1. RequestLife \in Nat /\ HoldTime \in Nat /\ RequestLife <= HoldTime
    BY ClientsAssumption
  <1>2. n \in 1 .. Len(cs) /\ Len(cs) \in Nat /\ Len(d.cs) = Len(cs) /\ d.ls.trees = ls.trees \ {n}
    BY DEF Kept, TreesOK, Left
  <1>3. ASSUME NEW k \in 1 .. Len(cs) PROVE UsedOne(d.cs[k], k \in d.ls.trees, k \in d.ls.freed, us[k], clock)
    <2>1. UsedOne(cs[k], k \in ls.trees, k \in ls.freed, us[k], clock)
      BY DEF UsedOK
    <2>2. d.cs[k] \in RadClient
      BY <1>2 DEF Left, Kept, TreesOK
    <2>3. d.cs[k].created \in Nat
      BY <2>2 DEF RadClient
    <2>4. k \notin d.ls.trees => us[k] <= d.cs[k].created + RequestLife
      <3>1. CASE k = n
        BY <2>1, <3>1 DEF Left, UsedOne
      <3>2. CASE k # n
        BY <1>2, <2>1, <3>2 DEF Left, UsedOne
      <3> QED
        BY <3>1, <3>2
    <2>5. ASSUME k \in d.ls.freed PROVE us[k] < clock
      <3>1. CASE k \in ls.freed
        BY <2>1, <3>1 DEF UsedOne
      <3>2. CASE k \notin ls.freed
        <4>1. IsFreed(d.cs, d.ls, k)
          BY <2>5, <3>2 DEF Left
        <4>2. k \notin d.ls.trees /\ d.cs[k].created + HoldTime < clock
          BY <4>1 DEF IsFreed
        <4>3. us[k] <= d.cs[k].created + RequestLife /\ us[k] \in Nat
          BY <2>1, <2>4, <4>2 DEF UsedOne
        <4> QED
          BY <1>1, <2>3, <4>2, <4>3
      <3> QED
        BY <3>1, <3>2
    <2> QED
      BY <2>1, <2>4, <2>5 DEF UsedOne
  <1>4. UsedOK(d.cs, d.ls, us, clock)
    BY <1>2, <1>3 DEF UsedOK
  <1>5. ASSUME NEW k \in 1 .. Len(cs)
        PROVE  d.cs[k].rate_limit = cs[k].rate_limit /\ d.cs[k].last_new_client = cs[k].last_new_client
    <2>1. CASE k = n
      BY <2>1 DEF Left
    <2>2. CASE k # n
      BY <2>2 DEF Left
    <2> QED
      BY <2>1, <2>2
  <1> QED
    BY <1>2, <1>4, <1>5 DEF Follows

\* A network is marked.
LEMMA MarkLemma ==
  ASSUME NEW cs, NEW ls, clock \in Nat, Kept(cs, ls, clock), NEW net \in ls.trees, NEW us, UsedOK(cs, ls, us, clock),
         NEW m, m = [cs EXCEPT ![net].last_new_client = clock]
  PROVE  /\ Touched(cs, m, net) /\ Kept(m, ls, clock) /\ UsedOK(m, ls, us, clock) /\ Follows(cs, m)
         /\ m[net].last_new_client = clock
  <1>1. cs \in Seq(RadClient) /\ net \in 1 .. Len(cs) /\ Len(cs) \in Nat
    BY DEF Kept, TreesOK
  <1>2. PICK c \in RadClient : c = cs[net]
    BY <1>1
  <1>3. PICK d : d = [c EXCEPT !.last_new_client = clock]
    OBVIOUS
  <1>4. /\ d \in RadClient /\ d.last_new_client = clock /\ d.ip = c.ip /\ d.prefix = c.prefix
        /\ d.client_server = c.client_server /\ d.rate_limit = c.rate_limit /\ d.dynamic = c.dynamic
        /\ d.created = c.created
    BY <1>3 DEF RadClient
  <1>5. m = [cs EXCEPT ![net] = d]
    BY <1>1, <1>2, <1>3
  <1>6. m \in Seq(RadClient) /\ Len(m) = Len(cs) /\ m[net] = d /\ \A k \in 1 .. Len(cs) : k # net => m[k] = cs[k]
    BY <1>1, <1>4, <1>5, ExceptSeq
  <1>7. Touched(cs, m, net)
    BY <1>2, <1>4, <1>6 DEF Touched
  <1>8. ClientOK(c, TRUE, clock)
    BY <1>1, <1>2 DEF Kept, ClientOK
  <1>9. Kept(m, ls, clock)
    <2>1. m[net].created <= clock /\ (m[net].dynamic = 3 <=> cs[net].dynamic = 3)
      BY <1>2, <1>4, <1>6, <1>8 DEF ClientOK
    <2> QED
      BY <1>1, <1>7, <2>1, TouchLemma
  <1>10. ASSUME NEW k \in 1 .. Len(cs) PROVE UsedOne(m[k], k \in ls.trees, k \in ls.freed, us[k], clock)
    <2>1. UsedOne(cs[k], k \in ls.trees, k \in ls.freed, us[k], clock)
      BY DEF UsedOK
    <2>2. CASE k = net
      BY <1>2, <1>4, <1>6, <2>1, <2>2 DEF UsedOne
    <2>3. CASE k # net
      BY <1>6, <2>1, <2>3
    <2> QED
      BY <2>2, <2>3
  <1>11. UsedOK(m, ls, us, clock)
    BY <1>6, <1>10 DEF UsedOK
  <1>12. ASSUME NEW k \in 1 .. Len(cs)
         PROVE  /\ m[k].rate_limit = cs[k].rate_limit
                /\ m[k].last_new_client \in {cs[k].last_new_client, clock}
    <2>1. CASE k = net
      BY <1>2, <1>4, <1>6, <2>1
    <2>2. CASE k # net
      BY <1>6, <2>2
    <2> QED
      BY <2>1, <2>2
  <1>13. Follows(cs, m)
    BY <1>1, <1>6, <1>12 DEF Follows
  <1> QED
    BY <1>4, <1>6, <1>7, <1>9, <1>11, <1>13

\* A request takes the client n of the lists.
LEMMA TakenLemma ==
  ASSUME NEW cs, NEW ls, clock \in Nat, Kept(cs, ls, clock), NEW n \in ls.trees,
         NEW k \in Nat, k <= Len(cs), DOMAIN used = 1 .. k,
         \A i \in 1 .. k : UsedOne(cs[i], i \in ls.trees, i \in ls.freed, used[i], clock),
         \A i \in 1 .. Len(cs) : i > k => i \in ls.trees,
         Taken(cs, ls, n)
  PROVE  Kept(radclients', lists', clock) /\ UsedOK(radclients', lists', used', clock)
  <1>1. cs \in Seq(RadClient) /\ DOMAIN cs = 1 .. Len(cs) /\ Len(cs) \in Nat /\ ls.trees \cap ls.freed = {}
    BY LenProperties DEF Kept, TreesOK
  <1>2. radclients' = cs /\ lists' = ls /\ RequestLife \in Nat
    BY ClientsAssumption DEF Taken
  <1>3. PICK us : us = used'
    OBVIOUS
  <1>4. us = [i \in 1 .. Len(cs) |-> IF i = n THEN clock + RequestLife
                                     ELSE IF i \in 1 .. k THEN used[i] ELSE 0]
    BY <1>1, <1>3 DEF Taken
  <1>5. ASSUME NEW i \in 1 .. Len(cs) PROVE UsedOne(cs[i], i \in ls.trees, i \in ls.freed, us[i], clock)
    <2>1. CASE i = n
      <3>1. us[i] = clock + RequestLife /\ i \in ls.trees /\ i \notin ls.freed
        BY <1>1, <1>4, <2>1
      <3> QED
        BY <1>2, <3>1 DEF UsedOne
    <2>2. CASE i # n /\ i \in 1 .. k
      <3>1. us[i] = used[i]
        BY <1>4, <2>2
      <3> QED
        BY <2>2, <3>1
    <2>3. CASE i # n /\ i \notin 1 .. k
      <3>1. us[i] = 0 /\ i \in ls.trees /\ i \notin ls.freed
        BY <1>1, <1>4, <2>3
      <3> QED
        BY <1>2, <3>1 DEF UsedOne
    <2> QED
      BY <2>1, <2>2, <2>3
  <1>6. DOMAIN us = 1 .. Len(cs)
    BY <1>4
  <1> QED
    BY <1>2, <1>3, <1>5, <1>6 DEF UsedOK

LEMMA UnknownLemma ==
  ASSUME NEW cs, NEW ls, Kept(cs, ls, clock), UsedOK(cs, ls, used, clock), Unknown(cs, ls)
  PROVE  Kept(radclients', lists', clock) /\ UsedOK(radclients', lists', used', clock) /\ radclients' = cs
  BY DEF Unknown

\* What a network that is asked leaves.
AfterAsk(cs, net) ==
  /\ Kept(radclients', lists', clock) /\ UsedOK(radclients', lists', used', clock)
  /\ Len(radclients') <= MaxClients /\ Follows(cs, radclients')
  /\ radclients'[net].last_new_client = clock

\* The client that was created gets its lifetime.
IsLived(v, r, all, in, n, life) ==
  /\ r = [ok |-> TRUE, cs |-> all, ls |-> in]
  /\ v = [r EXCEPT !.cs = [all EXCEPT ![n] = [all[n] EXCEPT !.dynamic = 1, !.lifetime = life, !.created = clock]]]

Lived(v, all, in, n) ==
  /\ v.ok = TRUE /\ v.ls = in /\ Touched(all, v.cs, n) /\ Kept(v.cs, in, clock)
  /\ v.cs[n].rate_limit = all[n].rate_limit /\ v.cs[n].last_new_client = all[n].last_new_client

LEMMA LifetimeLemma ==
  ASSUME clock \in Nat, NEW all, NEW in, Kept(all, in, clock), NEW n \in 1 .. Len(all), NEW life \in Nat, all[n].dynamic # 3,
         NEW r, NEW v, IsLived(v, r, all, in, n, life)
  PROVE  Lived(v, all, in, n)
  <1>1. all \in Seq(RadClient) /\ Len(all) \in Nat /\ DOMAIN all = 1 .. Len(all)
    BY LenProperties DEF Kept, TreesOK
  <1>2. PICK c \in RadClient : c = all[n]
    BY <1>1
  <1>3. PICK d : d = [c EXCEPT !.dynamic = 1, !.lifetime = life, !.created = clock]
    OBVIOUS
  <1>4. /\ d \in RadClient /\ d.ip = c.ip /\ d.prefix = c.prefix /\ d.client_server = c.client_server
        /\ d.rate_limit = c.rate_limit /\ d.last_new_client = c.last_new_client /\ d.dynamic = 1 /\ d.created = clock
    <2>1. 1 \in 0..3
      OBVIOUS
    <2> QED
      BY <1>3, <2>1 DEF RadClient
  <1>5. PICK m : m = [all EXCEPT ![n] = d]
    OBVIOUS
  <1>6. m \in Seq(RadClient) /\ Len(m) = Len(all) /\ m[n] = d /\ \A k \in 1 .. Len(all) : k # n => m[k] = all[k]
    BY <1>1, <1>4, <1>5, ExceptSeq
  <1>7. v = [ok |-> TRUE, cs |-> m, ls |-> in]
    BY ONLY <1>2, <1>3, <1>5, IsLived(v, r, all, in, n, life) DEF IsLived
  <1>8. v.ok = TRUE /\ v.cs = m /\ v.ls = in
    BY <1>7
  <1>9. Touched(all, m, n)
    BY <1>2, <1>4, <1>6 DEF Touched
  <1>10. Kept(m, in, clock)
    <2>1. m[n].created <= clock /\ (m[n].dynamic = 3 <=> all[n].dynamic = 3)
      BY <1>4, <1>6
    <2> QED
      BY <1>9, <2>1, TouchLemma
  <1> QED
    BY <1>2, <1>4, <1>6, <1>8, <1>9, <1>10 DEF Lived

LEMMA CreatedLemma ==
  ASSUME clock \in Nat, NEW ip \in Address
  PROVE  /\ Created(ip) \in RadClient /\ ClientOK(Created(ip), TRUE, clock)
         /\ Created(ip).prefix = MaxPrefix(ip.af) /\ Created(ip).ip = ip /\ Created(ip).dynamic = 0
         /\ MaxPrefix(ip.af) \in Nat
  <1>1. ip.af \in {"v4", "v6"}
    BY AddressParts
  <1>2. MaxPrefix(ip.af) \in 0 .. 4 * WordBits /\ MaxPrefix(ip.af) \in Nat
    BY <1>1, WordsLemma
  <1>3. PICK p \in 0 .. 4 * WordBits : p = MaxPrefix(ip.af)
    BY <1>2
  <1>4. PICK c : c = Created(ip)
    OBVIOUS
  <1>5. c = [ip |-> ip, prefix |-> p, secret |-> 1, client_server |-> FALSE,
             lifetime |-> 0, rate_limit |-> FALSE, dynamic |-> 0, created |-> 0, last_new_client |-> 0]
    BY <1>3, <1>4 DEF Created
  <1>6. c \in RadClient
    BY <1>5 DEF RadClient
  <1>7. c.prefix = p /\ c.ip = ip /\ c.dynamic = 0 /\ c.created = 0 /\ c.client_server = FALSE
    BY <1>5
  <1>8. ClientOK(c, TRUE, clock)
    BY <1>7 DEF ClientOK
  <1> QED
    BY <1>2, <1>3, <1>4, <1>6, <1>7, <1>8

LEMMA AskLemma ==
  ASSUME NEW cs, NEW ls, clock \in Nat, Kept(cs, ls, clock), UsedOK(cs, ls, used, clock), Len(cs) <= MaxClients,
         NEW ip \in Address, NEW net \in ls.trees, Nearest(cs, ls, ip, net), cs[net].client_server,
         NEW yes, Ask(cs, ls, net, ip, yes)
  PROVE  AfterAsk(cs, net)
  <1>1. PICK m : m = [cs EXCEPT ![net].last_new_client = clock]
    OBVIOUS
  <1>2. /\ Touched(cs, m, net) /\ Kept(m, ls, clock) /\ UsedOK(m, ls, used, clock) /\ Follows(cs, m)
        /\ m[net].last_new_client = clock
    BY <1>1, MarkLemma
  <1>3. net \in 1 .. Len(cs) /\ ls.trees \subseteq 1 .. Len(cs) /\ Len(cs) \in Nat /\ Len(m) = Len(cs)
        /\ MaxClients \in Nat /\ net # 0
    BY <1>2, ClientsAssumption DEF Kept, TreesOK, Touched
  <1>4. PICK c \in RadClient : c = Created(ip) /\ ClientOK(c, TRUE, clock) /\ c.prefix = MaxPrefix(ip.af) /\ c.ip = ip
                               /\ c.dynamic = 0 /\ MaxPrefix(ip.af) \in Nat
    BY CreatedLemma
  <1>5. Free(m, ls, c)
    <2> SUFFICES ASSUME NEW i \in ls.trees, m[i].prefix = c.prefix, m[i].ip = client_sane(c.ip, c.prefix) PROVE FALSE
      BY DEF Free
    <2>1. cs[i].prefix = MaxPrefix(ip.af) /\ cs[i].ip = client_sane(ip, MaxPrefix(ip.af))
      <3>1. m[i].prefix = cs[i].prefix /\ m[i].ip = cs[i].ip
        BY <1>2, <1>3 DEF Touched
      <3> QED
        BY <1>4, <3>1
    <2>2. Match(cs[i], ip)
      BY <1>4, <2>1 DEF Match
    <2>3. Match(cs[net], ip)
      BY <1>3 DEF Nearest
    <2>4. CASE i = net
      <3>1. cs[net].ip = ip
        BY <2>1, <2>4, SaneWhole
      <3>2. ClientOK(cs[net], TRUE, clock)
        BY <1>3 DEF Kept, ClientOK
      <3> QED
        BY <2>1, <2>4, <3>1, <3>2 DEF ClientOK
    <2>5. CASE i # net
      <3>1. cs[i].prefix < cs[net].prefix
        BY <1>3, <2>2, <2>5 DEF Nearest
      <3>2. cs[net].prefix <= MaxPrefix(ip.af)
        BY <2>3 DEF Match
      <3>3. cs[net] \in RadClient
        BY <1>3 DEF Kept, TreesOK
      <3>4. cs[net].prefix \in Int
        BY <3>3 DEF RadClient
      <3> QED
        BY <1>4, <2>1, <3>1, <3>2, <3>4
    <2> QED
      BY <2>4, <2>5
  <1>6. PICK r : r = client_add(m, ls, c)
    OBVIOUS
  <1>7. /\ r = [ok |-> TRUE, cs |-> r.cs, ls |-> r.ls]
        /\ \E s : AsAdded(s, c) /\ Entered(m, ls, s, r.cs, r.ls, clock)
    <2>1. c.prefix <= MaxPrefix(c.ip.af)
      BY <1>4
    <2>2. /\ r.ok = TRUE /\ Added(m, ls, c, r, clock)
          /\ \E s : AsAdded(s, c) /\ Entered(m, ls, s, r.cs, r.ls, clock)
      BY <1>2, <1>4, <1>5, <1>6, <2>1, AddEnters
    <2> QED
      BY <2>2 DEF Added
  <1>8. PICK s : AsAdded(s, c) /\ Entered(m, ls, s, r.cs, r.ls, clock)
    BY <1>7
  <1>9. PICK n \in Nat : n = Len(m) + 1
    BY <1>3
  <1>10. /\ Kept(r.cs, r.ls, clock) /\ Len(r.cs) = n /\ n \in 1 .. Len(r.cs) /\ r.cs[n] = s
         /\ \A i \in 1 .. Len(m) : r.cs[i] = m[i]
         /\ r.ls.trees = ls.trees \cup {n} /\ r.ls.freed = ls.freed /\ s.dynamic = 0
    BY <1>3, <1>4, <1>8, <1>9 DEF Entered, AsAdded
  <1>11. PICK life \in Nat : life = m[net].lifetime
    <2>1. m[net] \in RadClient
      BY <1>2, <1>3 DEF Touched
    <2> QED
      BY <2>1 DEF RadClient
  <1>12. PICK v : v = client_validate(m, ls, c, net)
    OBVIOUS
  <1>13. v = [r EXCEPT !.cs = [r.cs EXCEPT ![n] = [r.cs[n] EXCEPT !.dynamic = 1, !.lifetime = life, !.created = clock]]]
    <2>1. r.ok = TRUE
      BY <1>7
    <2>2. Len(r.cs) = n
      BY <1>10
    <2> QED
      BY ONLY <1>6, <1>11, <1>12, <2>1, <2>2 DEF client_validate
  <1>14. /\ v.ok = TRUE /\ v.ls = r.ls /\ Touched(r.cs, v.cs, n) /\ Kept(v.cs, r.ls, clock)
         /\ v.cs[n].rate_limit = r.cs[n].rate_limit /\ v.cs[n].last_new_client = r.cs[n].last_new_client
    <2>1. PICK all : all = r.cs
      OBVIOUS
    <2>2. PICK in : in = r.ls
      OBVIOUS
    <2>3. IsLived(v, r, all, in, n, life)
      BY <1>7, <1>13, <2>1, <2>2 DEF IsLived
    <2>4. Kept(all, in, clock) /\ n \in 1 .. Len(all) /\ all[n].dynamic # 3
      BY <1>10, <2>1, <2>2
    <2>5. Lived(v, all, in, n)
      BY ONLY <2>3, <2>4, clock \in Nat, life \in Nat, LifetimeLemma
    <2> QED
      BY <2>1, <2>2, <2>5 DEF Lived
  <1>15. Len(v.cs) = n /\ \A i \in 1 .. Len(m) : v.cs[i] = m[i]
    <2>1. \A i \in 1 .. Len(m) : i # n /\ i \in 1 .. Len(r.cs)
      BY <1>3, <1>9, <1>10
    <2> QED
      BY <1>10, <1>14, <2>1 DEF Touched
  <1>16. Follows(cs, v.cs) /\ v.cs[net].last_new_client = clock
    <2>1. Follows(m, v.cs)
      BY <1>3, <1>9, <1>15 DEF Follows
    <2> QED
      BY <1>2, <1>3, <1>15, <2>1, FollowsTransitive
  <1>17. CASE yes
    <2>1. Len(m) < MaxClients /\ Taken(v.cs, v.ls, Len(v.cs))
      BY <1>1, <1>4, <1>12, <1>14, <1>17 DEF Ask
    <2>2. DOMAIN used = 1 .. Len(m)
      BY <1>2 DEF UsedOK
    <2>3. ASSUME NEW i \in 1 .. Len(m)
          PROVE  UsedOne(v.cs[i], i \in r.ls.trees, i \in r.ls.freed, used[i], clock)
      <3>1. UsedOne(m[i], i \in ls.trees, i \in ls.freed, used[i], clock)
        BY <1>2 DEF UsedOK
      <3>2. i \in r.ls.trees <=> i \in ls.trees
        BY <1>3, <1>9, <1>10
      <3> QED
        BY <1>10, <1>15, <3>1, <3>2 DEF UsedOne
    <2>4. \A i \in 1 .. Len(v.cs) : i > Len(m) => i \in r.ls.trees
      BY <1>3, <1>9, <1>10, <1>15
    <2>5. n \in r.ls.trees /\ Taken(v.cs, r.ls, n) /\ Len(m) <= Len(v.cs) /\ Len(m) \in Nat
      BY <1>3, <1>9, <1>10, <1>14, <1>15, <2>1
    <2>6. Kept(radclients', lists', clock) /\ UsedOK(radclients', lists', used', clock)
      BY <1>14, <2>2, <2>3, <2>4, <2>5, TakenLemma
    <2>7. radclients' = v.cs /\ Len(v.cs) <= MaxClients
      BY <1>3, <1>9, <1>15, <2>1 DEF Taken
    <2> QED
      BY <1>16, <2>6, <2>7 DEF AfterAsk
  <1>18. CASE ~yes
    <2>1. Unknown(m, ls)
      BY <1>1, <1>18 DEF Ask
    <2>2. Kept(radclients', lists', clock) /\ UsedOK(radclients', lists', used', clock) /\ radclients' = m
      BY <1>2, <2>1, UnknownLemma
    <2> QED
      BY <1>2, <1>3, <2>2 DEF AfterAsk
  <1> QED
    BY <1>17, <1>18

LEMMA NotAskedLemma ==
  ASSUME clock \in Nat, AskedOK(radclients, asked, clock), Follows(radclients, radclients'),
         DOMAIN used' = 1 .. Len(radclients'), NotAsked
  PROVE  AskedOK(radclients', asked', clock)
  <1>1. PICK cs : cs = radclients'
    OBVIOUS
  <1>2. PICK as : as = asked'
    OBVIOUS
  <1>3. as = [i \in 1 .. Len(cs) |-> IF i \in 1 .. Len(radclients) THEN asked[i] ELSE 0]
    BY <1>1, <1>2 DEF NotAsked, AskedOK
  <1>4. ASSUME NEW i \in 1 .. Len(cs) PROVE AskedOne(cs[i], as[i], clock)
    <2>1. CASE i \in 1 .. Len(radclients)
      <3>1. AskedOne(radclients[i], asked[i], clock)
        BY <2>1 DEF AskedOK
      <3>2. /\ cs[i].rate_limit = radclients[i].rate_limit
            /\ cs[i].last_new_client \in {radclients[i].last_new_client, clock}
        BY <1>1, <2>1 DEF Follows
      <3> QED
        BY <1>3, <2>1, <3>1, <3>2 DEF AskedOne
    <2>2. CASE i \notin 1 .. Len(radclients)
      BY <1>3, <2>2 DEF AskedOne
    <2> QED
      BY <2>1, <2>2
  <1>5. DOMAIN as = 1 .. Len(cs)
    BY <1>3
  <1> QED
    BY <1>1, <1>2, <1>4, <1>5 DEF AskedOK

LEMMA AskedLemma ==
  ASSUME clock \in Nat, AskedOK(radclients, asked, clock), Follows(radclients, radclients'),
         DOMAIN used' = 1 .. Len(radclients'), NEW net \in 1 .. Len(radclients),
         ~(radclients[net].rate_limit /\ clock = radclients[net].last_new_client),
         radclients'[net].last_new_client = clock, Asked(net)
  PROVE  AskedOK(radclients', asked', clock)
  <1>1. PICK cs : cs = radclients'
    OBVIOUS
  <1>2. PICK as : as = asked'
    OBVIOUS
  <1>3. asked[net] \in 0..2 /\ (radclients[net].rate_limit => asked[net] = 0)
    <2>1. AskedOne(radclients[net], asked[net], clock)
      BY DEF AskedOK
    <2> QED
      BY <2>1 DEF AskedOne
  <1>4. PICK a : a = Min({2, asked[net] + 1})
    OBVIOUS
  <1>5. a \in 0..2 /\ (asked[net] = 0 => a = 1)
    <2>1. PICK x \in 0..2 : x = asked[net]
      BY <1>3
    <2>2. PICK y \in {2, x + 1} : \A z \in {2, x + 1} : y <= z
      <3>1. CASE x = 0
        BY <3>1
      <3>2. CASE x # 0
        BY <3>2
      <3> QED
        BY <3>1, <3>2
    <2>3. a \in {2, x + 1} /\ \A z \in {2, x + 1} : a <= z
      BY <1>4, <2>1, <2>2 DEF Min
    <2> QED
      BY <2>1, <2>3
  <1>6. as = [i \in 1 .. Len(cs) |-> IF i \notin 1 .. Len(radclients) THEN 0 ELSE IF i = net THEN a ELSE asked[i]]
    BY <1>1, <1>2, <1>4 DEF Asked, AskedOK
  <1>7. ASSUME NEW i \in 1 .. Len(cs) PROVE AskedOne(cs[i], as[i], clock)
    <2>1. CASE i \in 1 .. Len(radclients) /\ i # net
      <3>1. AskedOne(radclients[i], asked[i], clock)
        BY <2>1 DEF AskedOK
      <3>2. /\ cs[i].rate_limit = radclients[i].rate_limit
            /\ cs[i].last_new_client \in {radclients[i].last_new_client, clock}
        BY <1>1, <2>1 DEF Follows
      <3> QED
        BY <1>6, <2>1, <3>1, <3>2 DEF AskedOne
    <2>2. CASE i = net
      <3>1. cs[i].rate_limit = radclients[i].rate_limit /\ cs[i].last_new_client = clock /\ as[i] = a
        BY <1>1, <1>6, <2>2 DEF Follows
      <3> QED
        BY <1>3, <1>5, <2>2, <3>1 DEF AskedOne
    <2>3. CASE i \notin 1 .. Len(radclients)
      BY <1>6, <2>3 DEF AskedOne
    <2> QED
      BY <2>1, <2>2, <2>3
  <1>8. DOMAIN as = 1 .. Len(cs)
    BY <1>6
  <1> QED
    BY <1>1, <1>2, <1>7, <1>8 DEF AskedOK

----------------------------------------------------------------------------
(* The invariant.                                                           *)

ClientsInv ==
  /\ clock \in Nat \ {0} /\ todo \in Seq(Section)
  /\ \A i \in 1 .. Len(todo) : todo[i].sql => ~todo[i].client_server
  /\ Len(radclients) <= MaxClients
  /\ started = "reading" => Len(radclients) + Len(todo) <= MaxClients
  /\ Kept(radclients, lists, clock)
  /\ UsedOK(radclients, lists, used, clock)
  /\ AskedOK(radclients, asked, clock)

LEMMA ClientsInitLemma == ASSUME ClientsInit PROVE ClientsInv
  <1>1. /\ todo \in ClientConfs /\ started = "reading" /\ clock = 1 /\ radclients = <<>>
        /\ lists = [trees |-> {}, tree_num |-> {}, min_prefix |-> 4 * WordBits, deleted |-> <<>>, freed |-> {}]
        /\ used = <<>> /\ asked = <<>>
    BY DEF ClientsInit
  <1>2. /\ todo \in Seq(Section) /\ Len(todo) <= MaxClients
        /\ \A i \in 1 .. Len(todo) : todo[i].sql => ~todo[i].client_server
    BY <1>1, ClientsAssumption
  <1>3. /\ WordBits \in Nat /\ MaxDeleted \in Nat /\ MaxClients \in Nat
    BY ClientsAssumption
  <1>4. radclients \in Seq(RadClient) /\ Len(radclients) = 0 /\ 1 .. Len(radclients) = {}
        /\ DOMAIN used = {} /\ DOMAIN asked = {}
    BY <1>1
  <1>5. /\ lists \in Lists /\ lists.trees = {} /\ lists.tree_num = {} /\ lists.deleted = <<>> /\ lists.freed = {}
        /\ Len(lists.deleted) = 0 /\ 1 .. Len(lists.deleted) = {}
    <2>1. 4 * WordBits \in 0 .. 4 * WordBits /\ <<>> \in Seq(Nat)
      BY <1>3
    <2>2. lists \in Lists
      BY <1>1, <2>1 DEF Lists
    <2> QED
      BY <1>1, <2>2
  <1>6. Kept(radclients, lists, clock)
    BY <1>3, <1>4, <1>5 DEF Kept, TreesOK, QueueOK
  <1>7. UsedOK(radclients, lists, used, clock) /\ AskedOK(radclients, asked, clock)
    BY <1>4 DEF UsedOK, AskedOK
  <1>8. Len(radclients) <= MaxClients /\ Len(radclients) + Len(todo) <= MaxClients /\ clock \in Nat \ {0}
    <2>1. Len(todo) \in Nat
      BY <1>2
    <2> QED
      BY <1>1, <1>2, <1>3, <1>4, <2>1
  <1> QED
    BY <1>2, <1>6, <1>7, <1>8 DEF ClientsInv

LEMMA SectionLemma ==
  ASSUME NEW s \in Section, clock \in Nat, Parses(s), s.sql => ~s.client_server
  PROVE  FromSection(s) \in RadClient /\ ClientOK(FromSection(s), TRUE, clock)
  <1>1. /\ s.ip \in Address /\ s.prefix \in 0 .. 4 * WordBits /\ s.secret \in {1, 2} /\ s.client_server \in BOOLEAN
        /\ s.lifetime \in Nat /\ s.rate_limit \in BOOLEAN /\ s.sql \in BOOLEAN
    BY DEF Section
  <1>2. PICK c : c = FromSection(s)
    OBVIOUS
  <1>3. PICK y \in 0..3 : y = (IF s.sql THEN 1 ELSE 0) /\ y # 3
    OBVIOUS
  <1>4. c = [ip |-> s.ip, prefix |-> s.prefix, secret |-> s.secret, client_server |-> s.client_server,
             lifetime |-> s.lifetime, rate_limit |-> s.rate_limit,
             dynamic |-> y, created |-> 0, last_new_client |-> 0]
    BY <1>2, <1>3 DEF FromSection
  <1>5. c \in RadClient
    BY <1>1, <1>4 DEF RadClient
  <1>6. c.ip = s.ip /\ c.prefix = s.prefix /\ c.client_server = s.client_server /\ c.dynamic = y /\ c.created = 0
    BY <1>4
  <1>7. s.client_server => s.prefix # MaxPrefix(s.ip.af)
    BY DEF Parses
  <1>8. ClientOK(c, TRUE, clock)
    BY <1>3, <1>6, <1>7 DEF ClientOK
  <1> QED
    BY <1>2, <1>5, <1>8

LEMMA ReadLemma == ASSUME ClientsInv, ReadClient PROVE ClientsInv'
  <1>1. /\ clock \in Nat \ {0} /\ todo \in Seq(Section) /\ todo # <<>> /\ started = "reading"
        /\ Kept(radclients, lists, clock) /\ Len(radclients) <= MaxClients /\ MaxClients \in Nat
        /\ Len(radclients) + Len(todo) <= MaxClients /\ Len(radclients) \in Nat /\ Len(todo) \in Nat
        /\ \A i \in 1 .. Len(todo) : todo[i].sql => ~todo[i].client_server
    BY ClientsAssumption DEF ClientsInv, ReadClient, Kept, TreesOK
  <1>2. PICK s \in Section : s = Head(todo) /\ (s.sql => ~s.client_server)
    <2>1. 1 \in 1 .. Len(todo) /\ Head(todo) = todo[1] /\ Head(todo) \in Section
      BY <1>1, HeadTailProperties
    <2> QED
      BY <1>1, <2>1
  <1>3. /\ todo' = Tail(todo) /\ clock' = clock
    BY DEF ReadClient
  <1>4. /\ todo' \in Seq(Section) /\ Len(todo') = Len(todo) - 1 /\ Len(todo') \in Nat
        /\ \A i \in 1 .. Len(todo') : todo'[i].sql => ~todo'[i].client_server
    <2>1. PICK t : t = Tail(todo)
      OBVIOUS
    <2>2. t \in Seq(Section) /\ Len(t) = Len(todo) - 1 /\ \A i \in 1 .. Len(t) : t[i] = todo[i + 1]
      BY <1>1, <2>1, HeadTailProperties
    <2>3. Len(t) \in Nat /\ \A i \in 1 .. Len(t) : i + 1 \in 1 .. Len(todo)
      BY <1>1, <2>2
    <2>4. \A i \in 1 .. Len(t) : t[i].sql => ~t[i].client_server
      BY <1>1, <2>2, <2>3
    <2> QED
      BY <1>3, <2>1, <2>2, <2>3, <2>4
  <1>5. PICK r : r = client_add(radclients, lists, FromSection(s))
    OBVIOUS
  <1>6. CASE Parses(s) /\ r.ok
    <2>1. /\ radclients' = r.cs /\ lists' = r.ls /\ used' = [i \in DOMAIN r.cs |-> 0] /\ asked' = used' /\ started' = started
      BY <1>2, <1>5, <1>6 DEF ReadClient
    <2>2. FromSection(s) \in RadClient /\ ClientOK(FromSection(s), TRUE, clock)
      BY <1>1, <1>2, <1>6, SectionLemma
    <2>3. Added(radclients, lists, FromSection(s), r, clock)
      <3>1. clock \in Nat
        BY <1>1
      <3> QED
        BY <1>1, <1>5, <2>2, <3>1, AddLemma
    <2>4. Kept(r.cs, r.ls, clock) /\ Len(r.cs) <= Len(radclients) + 1
      <3>1. CASE r.cs = radclients /\ r.ls = lists
        BY <1>1, <3>1
      <3>2. CASE \E c : AsAdded(c, FromSection(s)) /\ Entered(radclients, lists, c, r.cs, r.ls, clock)
        BY <1>1, <3>2 DEF Entered
      <3> QED
        BY <2>3, <3>1, <3>2 DEF Added
    <2>5. PICK u : u = [i \in DOMAIN r.cs |-> 0]
      OBVIOUS
    <2>6. DOMAIN u = 1 .. Len(r.cs) /\ (\A i \in 1 .. Len(r.cs) : u[i] = 0) /\ Len(r.cs) \in Nat /\ r.cs \in Seq(RadClient)
      BY <2>4, <2>5, LenProperties DEF Kept, TreesOK
    <2>7. UsedOK(r.cs, r.ls, u, clock)
      <3>1. ASSUME NEW i \in 1 .. Len(r.cs) PROVE UsedOne(r.cs[i], i \in r.ls.trees, i \in r.ls.freed, u[i], clock)
        <4>1. PICK c \in RadClient : c = r.cs[i]
          BY <2>6
        <4>2. c.created \in Nat
          BY ONLY c \in RadClient DEF RadClient
        <4>3. u[i] = 0 /\ RequestLife \in Nat
          BY <2>6, ClientsAssumption
        <4> QED
          BY <1>1, <4>1, <4>2, <4>3 DEF UsedOne
      <3> QED
        BY <2>6, <3>1 DEF UsedOK
    <2>8. AskedOK(r.cs, u, clock)
      BY <2>6 DEF AskedOK, AskedOne
    <2>9. Len(r.cs) <= MaxClients /\ Len(r.cs) + Len(todo') <= MaxClients
      <3>1. Len(todo) # 0
        BY <1>1, EmptySeq
      <3> QED
        BY <1>1, <1>4, <2>4, <2>6, <3>1
    <2> QED
      BY <1>1, <1>3, <1>4, <2>1, <2>4, <2>5, <2>7, <2>8, <2>9 DEF ClientsInv
  <1>7. CASE ~(Parses(s) /\ r.ok)
    <2>1. started' = "failed" /\ UNCHANGED <<radclients, lists, used, asked>>
      BY <1>2, <1>5, <1>7 DEF ReadClient
    <2> QED
      BY <1>1, <1>3, <1>4, <2>1 DEF ClientsInv
  <1> QED
    BY <1>6, <1>7

LEMMA SecondLemma == ASSUME ClientsInv, Second PROVE ClientsInv'
  <1>1. /\ clock \in Nat \ {0} /\ clock' = clock + 1 /\ asked' = [i \in DOMAIN asked |-> 0]
        /\ UNCHANGED <<todo, started, radclients, lists, used>> /\ RequestLife \in Nat
    BY ClientsAssumption DEF ClientsInv, Second
  <1>2. PICK now \in Nat \ {0} : now = clock + 1
    BY <1>1
  <1>3. /\ Kept(radclients, lists, clock) /\ UsedOK(radclients, lists, used, clock) /\ AskedOK(radclients, asked, clock)
        /\ radclients \in Seq(RadClient)
    BY DEF ClientsInv, Kept, TreesOK
  <1>4. ASSUME NEW n \in 1 .. Len(radclients) PROVE radclients[n].created \in Nat
    <2>1. radclients[n] \in RadClient
      BY <1>3
    <2> QED
      BY <2>1 DEF RadClient
  <1>5. Kept(radclients, lists, now)
    <2>1. ASSUME NEW n \in 1 .. Len(radclients) PROVE ClientOK(radclients[n], n \in lists.trees, now)
      <3>1. ClientOK(radclients[n], n \in lists.trees, clock)
        BY <1>3 DEF Kept
      <3> QED
        BY <1>1, <1>2, <1>4, <3>1 DEF ClientOK
    <2> QED
      BY <1>3, <2>1 DEF Kept
  <1>6. UsedOK(radclients, lists, used, now)
    <2>1. ASSUME NEW n \in 1 .. Len(radclients)
          PROVE  UsedOne(radclients[n], n \in lists.trees, n \in lists.freed, used[n], now)
      <3>1. UsedOne(radclients[n], n \in lists.trees, n \in lists.freed, used[n], clock)
        BY <1>3 DEF UsedOK
      <3> QED
        BY <1>1, <1>2, <3>1 DEF UsedOne
    <2> QED
      BY <1>3, <2>1 DEF UsedOK
  <1>7. PICK a : a = [i \in DOMAIN asked |-> 0]
    OBVIOUS
  <1>8. AskedOK(radclients, a, now)
    <2>1. DOMAIN asked = 1 .. Len(radclients)
      BY <1>3 DEF AskedOK
    <2> QED
      BY <1>7, <2>1 DEF AskedOK, AskedOne
  <1> QED
    BY <1>1, <1>2, <1>5, <1>6, <1>7, <1>8 DEF ClientsInv

\* A packet leaves the invariant when it leaves the lists, the users and the counts.
LEMMA PacketLemma ==
  ASSUME ClientsInv, UNCHANGED <<todo, started, clock>>, started = "up",
         Kept(radclients', lists', clock), UsedOK(radclients', lists', used', clock),
         AskedOK(radclients', asked', clock), Len(radclients') <= MaxClients
  PROVE  ClientsInv'
  BY DEF ClientsInv

LEMMA ExpiredLemma ==
  ASSUME ClientsInv, NEW ip \in Address, NEW n \in lists.trees, NEW yes, Expired(n, ip, yes)
  PROVE  /\ Kept(radclients', lists', clock) /\ UsedOK(radclients', lists', used', clock)
         /\ AskedOK(radclients', asked', clock) /\ Len(radclients') <= MaxClients
  <1>1. /\ clock \in Nat /\ Kept(radclients, lists, clock) /\ UsedOK(radclients, lists, used, clock)
        /\ AskedOK(radclients, asked, clock) /\ Len(radclients) <= MaxClients
    BY DEF ClientsInv
  <1>2. PICK d : d = client_delete(radclients, lists, n)
    OBVIOUS
  <1>3. Left(radclients, lists, n, d)
    BY <1>1, <1>2, DeleteLemma
  <1>4. /\ Kept(d.cs, d.ls, clock) /\ UsedOK(d.cs, d.ls, used, clock) /\ Follows(radclients, d.cs)
        /\ Len(d.cs) <= MaxClients
    BY <1>1, <1>3, UsedAfterDelete DEF Left
  <1>5. PICK net : net = client_find(d.cs, d.ls, ip)
    OBVIOUS
  <1>6. Nearest(d.cs, d.ls, ip, net)
    BY <1>4, <1>5, FindLemma DEF Kept
  <1>7. NotAsked
    BY DEF Expired
  <1>8. /\ Kept(radclients', lists', clock) /\ UsedOK(radclients', lists', used', clock)
        /\ Follows(radclients, radclients') /\ Len(radclients') <= MaxClients
    <2>1. CASE net = 0 \/ ~d.cs[net].client_server
      <3>1. Unknown(d.cs, d.ls)
        BY <1>2, <1>5, <2>1 DEF Expired
      <3>2. Kept(radclients', lists', clock) /\ UsedOK(radclients', lists', used', clock) /\ radclients' = d.cs
        BY <1>4, <3>1, UnknownLemma
      <3> QED
        BY <1>4, <3>2
    <2>2. CASE ~(net = 0 \/ ~d.cs[net].client_server)
      <3>1. Ask(d.cs, d.ls, net, ip, yes)
        BY <1>2, <1>5, <2>2 DEF Expired
      <3>2. net \in d.ls.trees /\ d.cs[net].client_server
        BY <1>6, <2>2 DEF Nearest
      <3>3. AfterAsk(d.cs, net)
        BY <1>1, <1>4, <1>6, <3>1, <3>2, AskLemma
      <3> QED
        BY <1>4, <3>3, FollowsTransitive DEF AfterAsk
    <2> QED
      BY <2>1, <2>2
  <1>9. AskedOK(radclients', asked', clock)
    <2>1. DOMAIN used' = 1 .. Len(radclients')
      BY <1>8 DEF UsedOK
    <2> QED
      BY <1>1, <1>7, <1>8, <2>1, NotAskedLemma
  <1> QED
    BY <1>8, <1>9

LEMMA EnclosedLemma ==
  ASSUME ClientsInv, NEW ip \in Address, NEW net \in lists.trees, Nearest(radclients, lists, ip, net),
         radclients[net].client_server, NEW yes, Enclosed(net, ip, yes)
  PROVE  /\ Kept(radclients', lists', clock) /\ UsedOK(radclients', lists', used', clock)
         /\ AskedOK(radclients', asked', clock) /\ Len(radclients') <= MaxClients
  <1>1. /\ clock \in Nat /\ Kept(radclients, lists, clock) /\ UsedOK(radclients, lists, used, clock)
        /\ AskedOK(radclients, asked, clock) /\ Len(radclients) <= MaxClients /\ radclients \in Seq(RadClient)
        /\ net \in 1 .. Len(radclients)
    BY DEF ClientsInv, Kept, TreesOK
  <1>2. CASE radclients[net].rate_limit /\ clock = radclients[net].last_new_client
    <2>1. Unknown(radclients, lists) /\ NotAsked
      BY <1>2 DEF Enclosed
    <2>2. Kept(radclients', lists', clock) /\ UsedOK(radclients', lists', used', clock) /\ radclients' = radclients
      BY <1>1, <2>1, UnknownLemma
    <2>3. DOMAIN used' = 1 .. Len(radclients') /\ Follows(radclients, radclients')
      BY <1>1, <2>2, FollowsSelf DEF UsedOK
    <2>4. AskedOK(radclients', asked', clock)
      BY <1>1, <2>1, <2>3, NotAskedLemma
    <2> QED
      BY <1>1, <2>2, <2>4
  <1>3. CASE ~(radclients[net].rate_limit /\ clock = radclients[net].last_new_client)
    <2>1. Ask(radclients, lists, net, ip, yes) /\ Asked(net)
      BY <1>3 DEF Enclosed
    <2>2. AfterAsk(radclients, net)
      BY <1>1, <2>1, AskLemma
    <2>3. DOMAIN used' = 1 .. Len(radclients')
      BY <2>2 DEF AfterAsk, UsedOK
    <2>4. AskedOK(radclients', asked', clock)
      BY <1>1, <1>3, <2>1, <2>2, <2>3, AskedLemma DEF AfterAsk
    <2> QED
      BY <2>2, <2>4 DEF AfterAsk
  <1> QED
    BY <1>2, <1>3

LEMMA FindStepLemma ==
  ASSUME ClientsInv, NEW ip \in Senders, NEW yes \in BOOLEAN, client_listener_find(ip, yes)
  PROVE  ClientsInv'
  <1>1. /\ clock \in Nat /\ Kept(radclients, lists, clock) /\ UsedOK(radclients, lists, used, clock)
        /\ AskedOK(radclients, asked, clock) /\ Len(radclients) <= MaxClients /\ radclients \in Seq(RadClient)
        /\ lists.trees \subseteq 1 .. Len(radclients) /\ Len(radclients) \in Nat
    BY DEF ClientsInv, Kept, TreesOK
  <1>2. ip \in Address
    BY ClientsAssumption
  <1>3. PICK n : n = client_find(radclients, lists, ip)
    OBVIOUS
  <1>4. Nearest(radclients, lists, ip, n) /\ (n # 0 => n \in lists.trees)
    <2>1. Nearest(radclients, lists, ip, n)
      BY <1>1, <1>2, <1>3, FindLemma DEF Kept
    <2> QED
      BY <2>1 DEF Nearest
  <1>5. started = "up" /\ UNCHANGED <<todo, started, clock>>
    BY DEF client_listener_find
  <1>6. ASSUME Unknown(radclients, lists) \/ (n \in lists.trees /\ Taken(radclients, lists, n)), NotAsked
        PROVE  /\ Kept(radclients', lists', clock) /\ UsedOK(radclients', lists', used', clock)
               /\ AskedOK(radclients', asked', clock) /\ Len(radclients') <= MaxClients
    <2>1. Kept(radclients', lists', clock) /\ UsedOK(radclients', lists', used', clock) /\ radclients' = radclients
      <3>1. CASE Unknown(radclients, lists)
        BY <1>1, <3>1, UnknownLemma
      <3>2. CASE n \in lists.trees /\ Taken(radclients, lists, n)
        <4>1. PICK k \in Nat : k = Len(radclients)
          BY <1>1
        <4>2. DOMAIN used = 1 .. k /\ k <= Len(radclients)
          BY <1>1, <4>1 DEF UsedOK
        <4>3. \A i \in 1 .. k : UsedOne(radclients[i], i \in lists.trees, i \in lists.freed, used[i], clock)
          BY <1>1, <4>1 DEF UsedOK
        <4>4. \A i \in 1 .. Len(radclients) : i > k => i \in lists.trees
          BY <1>1, <4>1
        <4>5. Kept(radclients', lists', clock) /\ UsedOK(radclients', lists', used', clock)
          BY <1>1, <3>2, <4>2, <4>3, <4>4, TakenLemma
        <4> QED
          BY <3>2, <4>5 DEF Taken
      <3> QED
        BY <1>6, <3>1, <3>2
    <2>2. DOMAIN used' = 1 .. Len(radclients') /\ Follows(radclients, radclients')
      BY <1>1, <2>1, FollowsSelf DEF UsedOK
    <2>3. AskedOK(radclients', asked', clock)
      BY <1>1, <1>6, <2>2, NotAskedLemma
    <2> QED
      BY <1>1, <2>1, <2>3
  <1>7. CASE n = 0
    <2>1. Unknown(radclients, lists) /\ NotAsked
      BY <1>3, <1>7 DEF client_listener_find
    <2> QED
      BY <1>5, <1>6, <2>1, PacketLemma
  <1>8. CASE n # 0 /\ radclients[n].dynamic = 0 /\ ~radclients[n].client_server
    <2>1. Taken(radclients, lists, n) /\ NotAsked
      BY <1>3, <1>8 DEF client_listener_find
    <2> QED
      BY <1>4, <1>5, <1>6, <1>8, <2>1, PacketLemma
  <1>9. CASE n # 0 /\ radclients[n].dynamic = 0 /\ radclients[n].client_server
    <2>1. Enclosed(n, ip, yes)
      BY <1>3, <1>9 DEF client_listener_find
    <2>2. /\ Kept(radclients', lists', clock) /\ UsedOK(radclients', lists', used', clock)
          /\ AskedOK(radclients', asked', clock) /\ Len(radclients') <= MaxClients
      BY <1>2, <1>4, <1>9, <2>1, EnclosedLemma
    <2> QED
      BY <1>5, <2>2, PacketLemma
  <1>10. CASE n # 0 /\ radclients[n].dynamic # 0
    <2>1. \/ Taken(radclients, lists, n) /\ NotAsked
          \/ Expired(n, ip, yes)
      BY <1>3, <1>10 DEF client_listener_find
    <2>2. CASE Taken(radclients, lists, n) /\ NotAsked
      BY <1>4, <1>5, <1>6, <1>10, <2>2, PacketLemma
    <2>3. CASE Expired(n, ip, yes)
      <3>1. /\ Kept(radclients', lists', clock) /\ UsedOK(radclients', lists', used', clock)
            /\ AskedOK(radclients', asked', clock) /\ Len(radclients') <= MaxClients
        BY <1>2, <1>4, <1>10, <2>3, ExpiredLemma
      <3> QED
        BY <1>5, <3>1, PacketLemma
    <2> QED
      BY <2>1, <2>2, <2>3
  <1> QED
    BY <1>7, <1>8, <1>9, <1>10

LEMMA ClientsStepLemma == ASSUME ClientsInv, [ClientsNext]_clientVars PROVE ClientsInv'
  <1>1. CASE ReadClient
    BY <1>1, ReadLemma
  <1>2. CASE StartUp
    BY <1>2 DEF StartUp, ClientsInv
  <1>3. CASE Second
    BY <1>3, SecondLemma
  <1>4. CASE \E ip \in Senders, yes \in BOOLEAN : client_listener_find(ip, yes)
    BY <1>4, FindStepLemma
  <1>5. CASE UNCHANGED clientVars
    BY <1>5 DEF clientVars, ClientsInv
  <1> QED
    BY <1>1, <1>2, <1>3, <1>4, <1>5 DEF ClientsNext

LEMMA ClientsInvLemma == ASSUME ClientsInv PROVE ClientsAreRight
  <1>1. /\ clock \in Nat \ {0} /\ todo \in Seq(Section) /\ Len(radclients) <= MaxClients
        /\ Kept(radclients, lists, clock) /\ UsedOK(radclients, lists, used, clock) /\ AskedOK(radclients, asked, clock)
    BY DEF ClientsInv
  <1>2. /\ TreesOK(radclients, lists) /\ QueueOK(radclients, lists) /\ lists \in Lists
        /\ radclients \in Seq(RadClient) /\ lists.trees \subseteq 1 .. Len(radclients)
        /\ lists.tree_num = lists.trees /\ lists.freed \subseteq 1 .. Len(radclients) /\ lists.freed \cap lists.trees = {}
    BY <1>1 DEF Kept, TreesOK
  <1>3. DOMAIN radclients = 1 .. Len(radclients) /\ DOMAIN lists.deleted = 1 .. Len(lists.deleted)
    <2>1. PICK q \in Seq(Nat) : q = lists.deleted
      BY <1>2 DEF Lists
    <2> QED
      BY <1>2, <2>1, LenProperties
  <1>4. ClientsTypeOK
    <2>1. \A n \in 1 .. Len(radclients) : n \in lists.trees <=> radclients[n].dynamic # 3
      BY <1>1 DEF Kept, ClientOK
    <2>2. Len(lists.deleted) <= MaxDeleted
      BY <1>2 DEF QueueOK
    <2> QED
      BY <1>1, <1>2, <1>3, <2>1, <2>2 DEF ClientsTypeOK
  <1>5. NearestIsFound
    <2> SUFFICES ASSUME NEW ip \in Senders
                 PROVE  LET around == {n \in lists.trees : Agree(radclients[n].ip, ip, radclients[n].prefix)}
                            found == client_find(radclients, lists, ip)
                        IN  /\ found = 0 <=> around = {}
                            /\ found # 0 => /\ found \in around
                                            /\ \A n \in around \ {found} : radclients[n].prefix < radclients[found].prefix
      BY DEF NearestIsFound
    <2>1. ip \in Address
      BY ClientsAssumption
    <2> QED
      BY <1>2, <2>1, NearestLemma
  <1>6. UsedIsNotFreed
    BY <1>1, <1>2 DEF UsedIsNotFreed, UsedOK, UsedOne
  <1>7. NothingDangles
    <2>1. \A i \in 1 .. Len(lists.deleted) : lists.deleted[i] \notin lists.trees \cup lists.freed
      BY <1>2 DEF QueueOK
    <2>2. \A i, j \in DOMAIN lists.deleted : lists.deleted[i] = lists.deleted[j] => i = j
      BY <1>2, <1>3 DEF QueueOK
    <2>3. \A w \in {lists.deleted[i] : i \in DOMAIN lists.deleted} : w \notin lists.trees \cup lists.freed
      BY <1>3, <2>1
    <2> QED
      BY <1>2, <2>2, <2>3 DEF NothingDangles
  <1>8. NewIsLimited
    <2> SUFFICES ASSUME NEW n \in DOMAIN radclients, radclients[n].rate_limit PROVE asked[n] <= 1
      BY DEF NewIsLimited
    <2>1. AskedOne(radclients[n], asked[n], clock)
      BY <1>1, <1>3 DEF AskedOK
    <2> QED
      BY <2>1 DEF AskedOne
  <1> QED
    BY <1>4, <1>5, <1>6, <1>7, <1>8 DEF ClientsAreRight

(* For every address a listener finds the client with the longest prefix    *)
(* around it (client_find()); no client is freed while a tree,              *)
(* deleted_clients or a request points to it (client_free()); and with      *)
(* rate_limit a network is asked once in a second (client_listener_find()). *)
THEOREM ClientsAreAlwaysRight == ClientsSpec => []ClientsAreRight
  <1>1. ClientsInit => ClientsInv
    BY ClientsInitLemma
  <1>2. ClientsInv /\ [ClientsNext]_clientVars => ClientsInv'
    BY ClientsStepLemma
  <1>3. ClientsInv => ClientsAreRight
    BY ClientsInvLemma
  <1> QED
    BY <1>1, <1>2, <1>3, PTL DEF ClientsSpec

=============================================================================
