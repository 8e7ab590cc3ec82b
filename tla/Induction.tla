------------------------------ MODULE Induction ------------------------------
(***************************************************************************)
(* Induction and recursion over data, as facts about sets and functions:   *)
(* what the proofs use where the code has a loop or calls itself.          *)
(***************************************************************************)
EXTENDS Naturals, FiniteSetsExt, WellFoundedInduction, TLAPS

(* A set of natural numbers with an element has a least one.               *)
LEMMA HasLeast ==
  ASSUME NEW T, T \subseteq Nat, T # {}
  PROVE  \E x \in T : \A y \in T : x <= y
<1>1. PICK x \in T : \A y \in T : <<y, x>> \notin OpToRel(<, Nat)
  BY NatLessThanWellFounded, WFMin
<1>2. ASSUME NEW y \in T
      PROVE  x <= y
  <2>1. <<y, x>> \in Nat \X Nat
    OBVIOUS
  <2>2. ~(y < x)
    BY <1>1, <2>1, Zenon DEF OpToRel
  <2> QED
    BY <2>2
<1> QED
  BY <1>2

(* It is what Min chooses: what a loop that stops at its first hit finds.  *)
LEMMA MinIsLeast ==
  ASSUME NEW T, T \subseteq Nat, T # {}
  PROVE  Min(T) \in T /\ \A y \in T : Min(T) <= y
  BY HasLeast DEF Min

(* A set of numbers up to n with an element has a greatest one, which is   *)
(* what Max chooses: what a search from the end finds.                     *)
LEMMA MaxIsGreatest ==
  ASSUME NEW n \in Nat, NEW T, T \subseteq 0 .. n, T # {}
  PROVE  Max(T) \in T /\ \A y \in T : Max(T) >= y
<1> DEFINE Rest == {n - x : x \in T}
<1>1. Rest \subseteq Nat /\ Rest # {}
  <2>1. ASSUME NEW x \in T
        PROVE  n - x \in Nat
    <3>1. x \in 0 .. n
      OBVIOUS
    <3> QED
      BY <3>1
  <2>2. Rest \subseteq Nat
    BY <2>1, Zenon
  <2>3. Rest # {}
    BY Zenon
  <2> QED
    BY <2>2, <2>3
<1>2. PICK r \in Rest : \A y \in Rest : r <= y
  <2> HIDE DEF Rest
  <2> QED
    BY <1>1, HasLeast
<1>3. PICK x \in T : r = n - x
  BY <1>2
<1>4. \A y \in T : x >= y
  <2>1. ASSUME NEW y \in T
        PROVE  x >= y
    <3>1. n - y \in Rest /\ x \in Nat /\ y \in Nat
      BY <2>1
    <3>2. n - x <= n - y
      BY <1>2, <1>3, <3>1
    <3> QED
      BY <3>1, <3>2
  <2> QED
    BY <2>1
<1> QED
  BY <1>3, <1>4 DEF Max

(* What holds of 0 and goes from each number to the next holds up to n.    *)
LEMMA InductionUpTo ==
  ASSUME NEW n \in Nat, NEW S, 0 \in S,
         \A k \in 0 .. n : k \in S /\ k < n => k + 1 \in S
  PROVE  0 .. n \subseteq S
<1> DEFINE T == (0 .. n) \ S
<1>1. SUFFICES ASSUME T # {}
               PROVE  FALSE
  OBVIOUS
<1>2. PICK x \in T : \A y \in T : x <= y
  <2>1. T \subseteq Nat
    OBVIOUS
  <2> HIDE DEF T
  <2> QED
    BY <1>1, <2>1, HasLeast
<1>3. x \in 0 .. n /\ x \notin S /\ x # 0
  BY <1>2
<1>4. x - 1 \in 0 .. n /\ x - 1 < n /\ ~(x <= x - 1) /\ x - 1 + 1 = x
  BY <1>3
<1>5. x - 1 \in S
  BY <1>2, <1>4
<1> QED
  BY <1>3, <1>4, <1>5

(* What passes from all of lower rank to a place is so everywhere.         *)
Passes(S, D, rank, n) ==
  /\ n \in Nat /\ rank \in [D -> 0 .. n]
  /\ \A d \in D : (\A e \in D : rank[e] < rank[d] => e \in S) => d \in S

LEMMA InductionByRank ==
  ASSUME NEW n, NEW D, NEW rank, NEW S, Passes(S, D, rank, n)
  PROVE  D \subseteq S
<1> USE DEF Passes
<1> DEFINE T == {rank[d] : d \in D \ S}
<1>1. SUFFICES ASSUME T # {}
               PROVE  FALSE
  OBVIOUS
<1>2. T \subseteq Nat
  OBVIOUS
<1>3. PICK x \in T : \A y \in T : x <= y
  <2> HIDE DEF T
  <2> QED BY <1>1, <1>2, HasLeast
<1>4. PICK d \in D \ S : x = rank[d]
  BY <1>3
<1>5. PICK e \in D : rank[e] < rank[d] /\ e \notin S
  BY <1>4
<1>6. rank[e] \in T /\ rank[e] \in Nat /\ rank[d] \in Nat
  BY <1>5
<1> QED
  BY <1>3, <1>4, <1>5, <1>6

(* A function may be defined in terms of its values at places of lower     *)
(* rank: F says how.                                                       *)
ByRank(F, D, V, rank, n) ==
  /\ n \in Nat /\ rank \in [D -> 0 .. n] /\ V # {}
  /\ F \in [D \X [D -> V] -> V]
  /\ \A d \in D : \A g, h \in [D -> V] :
       (\A e \in D : rank[e] < rank[d] => g[e] = h[e]) => F[<<d, g>>] = F[<<d, h>>]

LEMMA RecursionByRank ==
  ASSUME NEW n, NEW D, NEW rank, NEW V, NEW F, ByRank(F, D, V, rank, n)
  PROVE  \E f \in [D -> V] : \A d \in D : f[d] = F[<<d, f>>]
<1> USE DEF ByRank
<1>0. PICK v \in V : TRUE
  OBVIOUS
<1> DEFINE Below(g, k) == \A d \in D : rank[d] < k => g[d] = F[<<d, g>>]
           S == {k \in Nat : \E g \in [D -> V] : Below(g, k)}
<1>1. 0 \in S
  <2>1. [d \in D |-> v] \in [D -> V]
    OBVIOUS
  <2>2. Below([d \in D |-> v], 0)
    OBVIOUS
  <2> QED
    BY <2>1, <2>2
<1>2. ASSUME NEW k \in Nat, k \in S
      PROVE  k + 1 \in S
  <2>1. PICK g \in [D -> V] : Below(g, k)
    BY <1>2
  <2> DEFINE h == [d \in D |-> IF rank[d] < k THEN g[d] ELSE F[<<d, g>>]]
  <2>2. h \in [D -> V]
    OBVIOUS
  <2>3. ASSUME NEW d \in D, rank[d] < k + 1
        PROVE  h[d] = F[<<d, h>>]
    <3>1. rank[d] \in Nat /\ rank[d] <= k
      BY <2>3
    <3>2. \A e \in D : rank[e] < rank[d] => g[e] = h[e]
      <4> SUFFICES ASSUME NEW e \in D, rank[e] < rank[d]
                   PROVE  g[e] = h[e]
        OBVIOUS
      <4>1. rank[e] \in Nat /\ rank[e] < k
        BY <3>1
      <4> QED
        BY <4>1
    <3>3. F[<<d, g>>] = F[<<d, h>>]
      <4> HIDE DEF h
      <4> QED
        BY <2>2, <3>2
    <3>4. h[d] = F[<<d, g>>]
      <4>1. rank[d] < k => g[d] = F[<<d, g>>]
        BY <2>1
      <4> QED
        BY <4>1
    <3> QED
      BY <3>3, <3>4
  <2> HIDE DEF h
  <2>4. Below(h, k + 1)
    BY <2>3
  <2> QED
    BY <2>2, <2>4
<1>3. n + 1 \in S
  <2>1. 0 .. n + 1 \subseteq S
    <3> HIDE DEF S
    <3> QED
      BY <1>1, <1>2, InductionUpTo
  <2> HIDE DEF S
  <2> QED
    BY <2>1
<1>4. PICK f \in [D -> V] : Below(f, n + 1)
  BY <1>3
<1>5. \A d \in D : f[d] = F[<<d, f>>]
  BY <1>4
<1> QED
  BY <1>5

(* A loop with a counter: the value after k rounds from that after k - 1.  *)
Looped(f, n, base, step) ==
  f = [k \in 0 .. n |-> IF k = 0 THEN base ELSE step[<<k, f[k - 1]>>]]

LEMMA LoopHasValues ==
  ASSUME NEW n \in Nat, NEW V, NEW base \in V, NEW step \in [(1 .. n) \X V -> V]
  PROVE  \E f \in [0 .. n -> V] : Looped(f, n, base, step)
<1> DEFINE D == 0 .. n
           rank == [k \in D |-> k]
           F == [e \in D \X [D -> V] |->
                   IF e[1] = 0 THEN base ELSE step[<<e[1], e[2][e[1] - 1]>>]]
<1>1. \A k \in D : k # 0 => k \in 1 .. n /\ k - 1 \in D /\ rank[k - 1] < rank[k]
  OBVIOUS
<1>2. rank \in [D -> 0 .. n] /\ V # {}
  OBVIOUS
<1>3. \A k \in D, g \in [D -> V] :
        F[<<k, g>>] = IF k = 0 THEN base ELSE step[<<k, g[k - 1]>>]
  <2> HIDE DEF D
  <2> QED OBVIOUS
<1>4. F \in [D \X [D -> V] -> V]
  <2> SUFFICES ASSUME NEW k \in D, NEW g \in [D -> V], k # 0
               PROVE  step[<<k, g[k - 1]>>] \in V
    <3> HIDE DEF D
    <3> QED OBVIOUS
  <2>1. <<k, g[k - 1]>> \in (1 .. n) \X V
    BY <1>1
  <2> QED BY <2>1
<1> HIDE DEF F, D, rank
<1>5. \A k \in D : \A g, h \in [D -> V] :
        (\A e \in D : rank[e] < rank[k] => g[e] = h[e]) => F[<<k, g>>] = F[<<k, h>>]
  <2> SUFFICES ASSUME NEW k \in D, NEW g \in [D -> V], NEW h \in [D -> V],
                      \A e \in D : rank[e] < rank[k] => g[e] = h[e]
               PROVE  F[<<k, g>>] = F[<<k, h>>]
    OBVIOUS
  <2>1. k # 0 => g[k - 1] = h[k - 1]
    BY <1>1
  <2> QED BY <1>3, <2>1
<1>6. PICK f \in [D -> V] : \A k \in D : f[k] = F[<<k, f>>]
  <2>1. ByRank(F, D, V, rank, n)
    BY <1>2, <1>4, <1>5 DEF ByRank
  <2> QED BY <2>1, RecursionByRank
<1>7. f = [k \in D |-> f[k]]
  OBVIOUS
<1>8. f = [k \in D |-> IF k = 0 THEN base ELSE step[<<k, f[k - 1]>>]]
  BY <1>3, <1>6, <1>7
<1> QED
  BY <1>8 DEF Looped, D

-----------------------------------------------------------------------------
(* Nodes 1 .. n that point to each other or to 0, the null pointer.  What  *)
(* hangs on a pointer is asked for recursively: `f' is an answer.          *)
HangsBelow(f, next, n) ==
  f = [p \in 0 .. n |-> IF p = 0 THEN {} ELSE {p} \cup UNION {f[k] : k \in next[p]}]

(* There is an answer, whether or not the nodes run in circles: the nodes  *)
(* that are in every set that has p and is closed under following.         *)
LEMMA HangingExists ==
  ASSUME NEW n \in Nat, NEW next, \A p \in 1 .. n : next[p] \subseteq 0 .. n
  PROVE  \E f : HangsBelow(f, next, n)
<1> DEFINE Closed(S) == \A q \in S : \A k \in next[q] : k = 0 \/ k \in S
           R(p) == IF p = 0 THEN {}
                   ELSE {q \in 1 .. n :
                           \A S \in SUBSET (1 .. n) : Closed(S) /\ p \in S => q \in S}
           Below(p) == {p} \cup UNION {R(k) : k \in next[p]}
<1>1. ASSUME NEW p \in 1 .. n
      PROVE  p \in R(p)
  OBVIOUS
<1>2. ASSUME NEW p \in 1 .. n, NEW q \in R(p), NEW k \in next[q], k # 0
      PROVE  k \in R(p)
  <2>1. q \in 1 .. n /\ k \in 1 .. n
    BY <1>2
  <2>2. ASSUME NEW S \in SUBSET (1 .. n), Closed(S), p \in S
        PROVE  k \in S
    BY <1>2, <2>2
  <2> QED
    BY <2>1, <2>2
<1>3. ASSUME NEW p \in 1 .. n
      PROVE  Below(p) \subseteq R(p)
  <2>1. ASSUME NEW k \in next[p], NEW q \in R(k)
        PROVE  q \in R(p)
    <3>1. k # 0 /\ q \in 1 .. n
      BY <2>1
    <3>2. ASSUME NEW S \in SUBSET (1 .. n), Closed(S), p \in S
          PROVE  q \in S
      BY <2>1, <3>1, <3>2
    <3> QED
      BY <3>1, <3>2
  <2> QED
    BY <1>1, <2>1
<1>4. ASSUME NEW p \in 1 .. n
      PROVE  R(p) \subseteq Below(p)
  <2>1. Below(p) \in SUBSET (1 .. n)
    OBVIOUS
  <2>2. ASSUME NEW q \in Below(p), NEW r \in next[q]
        PROVE  r = 0 \/ r \in Below(p)
    <3>1. CASE q = p
      <4>1. r = 0 \/ r \in 1 .. n
        BY <3>1
      <4>2. r = 0 \/ r \in R(r)
        BY <4>1, <1>1
      <4> QED
        BY <2>2, <3>1, <4>2
    <3>2. CASE q # p
      <4>1. PICK k \in next[p] : q \in R(k)
        BY <2>2, <3>2
      <4>2. k \in 1 .. n
        BY <4>1
      <4>3. r = 0 \/ r \in R(k)
        BY <2>2, <4>1, <4>2, <1>2
      <4> QED
        BY <4>1, <4>3
    <3> QED
      BY <3>1, <3>2
  <2>3. Closed(Below(p)) /\ p \in Below(p)
    BY <2>2
  <2> QED
    BY <2>1, <2>3
<1> DEFINE f == [p \in 0 .. n |-> R(p)]
<1>5. ASSUME NEW p \in 0 .. n
      PROVE  f[p] = IF p = 0 THEN {} ELSE {p} \cup UNION {f[k] : k \in next[p]}
  <2>1. CASE p = 0
    BY <2>1
  <2>2. CASE p # 0
    <3>1. p \in 1 .. n
      BY <2>2
    <3>2. next[p] \subseteq 0 .. n
      BY <3>1
    <3>3. {f[k] : k \in next[p]} = {R(k) : k \in next[p]}
      BY <3>2
    <3>4. R(p) = Below(p)
      BY <3>1, <1>3, <1>4
    <3> QED
      BY <2>2, <3>3, <3>4
  <2> QED
    BY <2>1, <2>2
<1>6. HangsBelow(f, next, n)
  <2>1. f = [p \in 0 .. n |-> f[p]]
    OBVIOUS
  <2> HIDE DEF f
  <2>2. [p \in 0 .. n |-> f[p]] =
          [p \in 0 .. n |-> IF p = 0 THEN {} ELSE {p} \cup UNION {f[k] : k \in next[p]}]
    BY <1>5
  <2> QED
    BY <2>1, <2>2 DEF HangsBelow
<1> QED
  BY <1>6

(* What hangs on a pointer into a set of nodes that point into the set,    *)
(* and to nodes of lower rank, is in the set: on these there is but one    *)
(* answer.                                                                 *)
LEMMA HangingStays ==
  ASSUME NEW n \in Nat, NEW next, NEW f, HangsBelow(f, next, n),
         NEW S \in SUBSET (1 .. n), NEW m \in Nat, NEW rank \in [S -> 0 .. m],
         \A p \in S : \A k \in next[p] : k = 0 \/ (k \in S /\ rank[k] < rank[p])
  PROVE  \A p \in S : f[p] \subseteq S
<1> DEFINE T == {p \in S : f[p] \subseteq S}
<1>1. ASSUME NEW p \in S, \A k \in S : rank[k] < rank[p] => k \in T
      PROVE  p \in T
  <2>1. p \in 0 .. n /\ p # 0 /\ 0 \in 0 .. n
    OBVIOUS
  <2>2. f[p] = {p} \cup UNION {f[k] : k \in next[p]} /\ f[0] = {}
    BY <2>1 DEF HangsBelow
  <2> QED
    BY <1>1, <2>2
<1> HIDE DEF T
<1>2. Passes(T, S, rank, m)
  BY <1>1 DEF Passes
<1>3. S \subseteq T
  BY <1>2, InductionByRank, Zenon
<1> QED
  BY <1>3 DEF T

(* It has what its nodes point to, and nothing that none of them points    *)
(* to but the first.                                                       *)
LEMMA HangingCloses ==
  ASSUME NEW n \in Nat, NEW next, NEW f, HangsBelow(f, next, n),
         NEW S \in SUBSET (1 .. n), NEW m \in Nat, NEW rank \in [S -> 0 .. m],
         \A p \in S : \A k \in next[p] : k = 0 \/ (k \in S /\ rank[k] < rank[p])
  PROVE  \A p \in S : /\ p \in f[p]
                      /\ \A q \in f[p] : \A k \in next[q] : k = 0 \/ k \in f[p]
                      /\ \A q \in f[p] : q = p \/ \E r \in f[p] : q \in next[r]
<1> DEFINE T == {p \in S : /\ \A q \in f[p] : \A k \in next[q] : k = 0 \/ k \in f[p]
                           /\ \A q \in f[p] : q = p \/ \E r \in f[p] : q \in next[r]}
<1>0. ASSUME NEW p \in S
      PROVE  f[p] = {p} \cup UNION {f[k] : k \in next[p]} /\ f[0] = {}
  <2>1. p \in 0 .. n /\ p # 0 /\ 0 \in 0 .. n
    OBVIOUS
  <2> QED BY <2>1 DEF HangsBelow
<1>1. ASSUME NEW p \in S, \A k \in S : rank[k] < rank[p] => k \in T
      PROVE  p \in T
  <2>1. \A k \in next[p] : k = 0 \/ (k \in T /\ k \in S)
    BY <1>1
  <2>2. \A k \in next[p] : k = 0 \/ k \in f[p]
    <3> SUFFICES ASSUME NEW k \in next[p], k # 0
                 PROVE  k \in f[p]
      OBVIOUS
    <3>1. k \in f[k]
      BY <1>0, <2>1
    <3> QED BY <1>0, <3>1
  <2>3. ASSUME NEW q \in f[p], NEW k \in next[q]
        PROVE  k = 0 \/ k \in f[p]
    <3>1. CASE q = p
      BY <2>2, <2>3, <3>1
    <3>2. CASE q # p
      <4>1. PICK c \in next[p] : q \in f[c]
        BY <1>0, <3>2
      <4>2. c \in T
        BY <1>0, <2>1, <4>1
      <4>3. k = 0 \/ k \in f[c]
        BY <2>3, <4>1, <4>2
      <4> QED BY <1>0, <4>1, <4>3
    <3> QED BY <3>1, <3>2
  <2>4. ASSUME NEW q \in f[p], q # p
        PROVE  \E r \in f[p] : q \in next[r]
    <3>1. PICK c \in next[p] : q \in f[c]
      BY <1>0, <2>4
    <3>2. c \in T
      BY <1>0, <2>1, <3>1
    <3>3. CASE q = c
      BY <1>0, <3>1, <3>3
    <3>4. CASE q # c
      <4>1. PICK r \in f[c] : q \in next[r]
        BY <3>1, <3>2, <3>4
      <4> QED BY <1>0, <3>1, <4>1
    <3> QED BY <3>3, <3>4
  <2> QED BY <2>3, <2>4
<1>2. S \subseteq T
  <2> HIDE DEF T
  <2>1. Passes(T, S, rank, m)
    BY <1>1 DEF Passes
  <2> QED BY <2>1, InductionByRank, Zenon
<1> QED
  BY <1>0, <1>2
=============================================================================
