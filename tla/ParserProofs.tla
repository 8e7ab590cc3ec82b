----------------------------- MODULE ParserProofs -----------------------------
(***************************************************************************)
(* The types of Parser, the ownership of its nodes, what an error costs,   *)
(* whose an else is and what build_ir gets, for programs of any length.    *)
(* The parser has its pointers in slots: 1 is yylval's, 2 the root's, and  *)
(* k + 2 that of the k-th entry of the stack; slot 0 is NULL.              *)
(***************************************************************************)
EXTENDS Parser, Induction, SequenceTheorems, FiniteSetTheorems, TLAPS

(* The types of nodes: those that the actions give, and the rest.          *)
NodeType ==
  {rule.action : rule \in Range(Rules)} \cup ListType
    \cup {"string", "EXP_INT", "DECLTOR_SIMPLE", "DECLTOR_ARRAY", "decl"}
AnyNode == [type : NodeType, to : Seq(Nat)]
Kids(h, q) == Range(h[q].to) \ {NULL}

(* append_expr has lost the cell: it has put another behind it, which is   *)
(* the list from then on.  Such a cell has its argument to itself only.    *)
Cut(h, q) == h[q].type = "expr_list" /\ h[q].to[2] # NULL
Owns(h, q) == IF Cut(h, q) THEN {h[q].to[1]} \ {NULL} ELSE Kids(h, q)

(* Pointers are to nodes, and a list goes on with a cell, that of another  *)
(* list than one of arguments not with an argument's.                      *)
Nodes(h) ==
  /\ h \in Seq(AnyNode) /\ \A q \in 1 .. Len(h) : Kids(h, q) \subseteq 1 .. Len(h)
  /\ \A q \in Cells(h) : /\ Len(h[q].to) = 2
                         /\ h[q].to[2] = NULL \/ h[q].to[2] \in Cells(h)
                         /\ h[q].type # "expr_list" /\ h[q].to[2] # NULL
                              => h[h[q].to[2]].type # "expr_list"

(* Each node hangs on one slot (par is negative) or one node in use (par   *)
(* is positive); on nothing if it has been freed, was a name lost in an    *)
(* error, or is a lost cell; which is never freed.                         *)
Rooted(h, hold, f, rep, par) ==
  /\ par \in [1 .. Len(h) -> Int]
  /\ \A k \in Nat : hold[k] # NULL => par[hold[k]] = -k
  /\ \A q \in (1 .. Len(h)) \ f : \A c \in Owns(h, q) : par[c] = q
  /\ \A p \in 1 .. Len(h) : par[p] < 0 => hold[-par[p]] = p
  /\ \A p \in 1 .. Len(h) : par[p] > 0 => par[p] \in (1 .. Len(h)) \ f /\ p \in Owns(h, par[p])
  /\ \A p \in 1 .. Len(h) : par[p] = 0 => p \in f \/ (rep /\ h[p].type = "string") \/ Cut(h, p)
  /\ \A p \in f : par[p] = 0
  /\ \A p \in 1 .. Len(h) : Cut(h, p) => par[p] = 0 /\ p \notin f

(* Nodes do not run in circles: what hangs on a slot is ranked.            *)
Ranked(h, hold, own, rank, m) ==
  /\ m \in Nat /\ own \in [1 .. Len(h) -> Nat] /\ rank \in [1 .. Len(h) -> 0 .. m]
  /\ \A k \in Nat : hold[k] # NULL => own[hold[k]] = k
  /\ \A q \in 1 .. Len(h) : \A c \in Kids(h, q) : own[c] = own[q] /\ rank[c] < rank[q]

Pool(h, hold, f, rep) ==
  /\ Nodes(h) /\ f \subseteq 1 .. Len(h) /\ rep \in BOOLEAN
  /\ hold \in [Nat -> 0 .. Len(h)] /\ hold[0] = NULL
  /\ \E par : Rooted(h, hold, f, rep, par)
  /\ \E own, rank, m : Ranked(h, hold, own, rank, m)

(* The slots K are emptied, and t gets v.                                  *)
Taken(hold, K, t, v) ==
  [k \in Nat |-> IF k = t THEN v ELSE IF k \in K THEN NULL ELSE hold[k]]

(* Nodes keep their types.                                                 *)
Grows(h, h2) ==
  Len(h) <= Len(h2) /\ \A p \in 1 .. Len(h) : h2[p].type = h[p].type

LEMMA OwnsIs ==
  ASSUME NEW h, Nodes(h), NEW q \in 1 .. Len(h)
  PROVE  Owns(h, q) \subseteq Kids(h, q) /\ Owns(h, q) \subseteq 1 .. Len(h)
<1>1. Kids(h, q) \subseteq 1 .. Len(h)
  BY DEF Nodes
<1>2. ASSUME Cut(h, q)
      PROVE  h[q].to[1] \in Range(h[q].to)
  <2>1. q \in Cells(h)
    BY <1>2 DEF Nodes, Cells, Cut, ListType
  <2>2. 1 \in DOMAIN h[q].to
    BY <2>1 DEF Nodes, AnyNode
  <2> QED BY <2>2 DEF Range
<1> QED
  BY <1>1, <1>2 DEF Owns, Kids
-----------------------------------------------------------------------------
(* A new node takes over what is in the slots K.                           *)

MayTake(n, hold, n2, t, v) ==
  /\ n \in Nat /\ hold \in [Nat -> 0 .. n] /\ hold[0] = NULL
  /\ n2 \in Nat /\ n <= n2 /\ t \in Nat /\ v \in 0 .. n2 /\ (t = 0 => v = NULL)

LEMMA TakenIs ==
  ASSUME NEW n, NEW hold, NEW K, NEW n2, NEW t, NEW v, MayTake(n, hold, n2, t, v)
  PROVE  /\ Taken(hold, K, t, v) \in [Nat -> 0 .. n2] /\ Taken(hold, K, t, v)[0] = NULL
         /\ \A k \in Nat : Taken(hold, K, t, v)[k] =
                             IF k = t THEN v ELSE IF k \in K THEN NULL ELSE hold[k]
<1>1. \A k \in Nat : hold[k] \in 0 .. n2
  BY DEF MayTake
<1> QED
  BY <1>1 DEF Taken, NULL, MayTake

LEMMA AppendedIs ==
  ASSUME NEW h, Nodes(h), NEW node \in AnyNode,
         Range(node.to) \subseteq 0 .. Len(h),
         node.type \in ListType => Len(node.to) = 2 /\ node.to[2] = NULL
  PROVE  LET h2 == Append(h, node)
             n == Len(h)
         IN  /\ n \in Nat /\ Nodes(h2) /\ Grows(h, h2) /\ Len(h2) = n + 1 /\ h2[n + 1] = node
             /\ \A q \in 1 .. n : h2[q] = h[q]
             /\ \A q \in 1 .. n : Kids(h2, q) = Kids(h, q)
             /\ Kids(h2, n + 1) = Range(node.to) \ {NULL}
             /\ Cells(h) \subseteq Cells(h2)
             /\ \A q \in 1 .. n : Cut(h2, q) = Cut(h, q) /\ Owns(h2, q) = Owns(h, q)
             /\ ~Cut(h2, n + 1) /\ Owns(h2, n + 1) = Range(node.to) \ {NULL}
<1> DEFINE h2 == Append(h, node)
           n == Len(h)
<1>1. /\ n \in Nat /\ h2 \in Seq(AnyNode) /\ Len(h2) = n + 1 /\ h2[n + 1] = node
      /\ \A q \in 1 .. n : h2[q] = h[q]
  BY DEF Nodes
<1> HIDE DEF h2
<1>2. DOMAIN h = 1 .. n /\ DOMAIN h2 = 1 .. n + 1
  BY <1>1 DEF Nodes
<1>3. /\ \A q \in 1 .. n : Kids(h2, q) = Kids(h, q)
      /\ Kids(h2, n + 1) = Range(node.to) \ {NULL}
  BY <1>1 DEF Kids
<1>4. Cells(h) \subseteq Cells(h2)
  BY <1>1, <1>2 DEF Cells
<1>8. /\ \A q \in 1 .. n : Cut(h2, q) = Cut(h, q) /\ Owns(h2, q) = Owns(h, q)
      /\ ~Cut(h2, n + 1) /\ Owns(h2, n + 1) = Range(node.to) \ {NULL}
  BY <1>1, <1>3 DEF Cut, Owns, ListType
<1>5. ASSUME NEW q \in Cells(h2)
      PROVE  /\ Len(h2[q].to) = 2
             /\ h2[q].to[2] = NULL \/ h2[q].to[2] \in Cells(h2)
             /\ h2[q].type # "expr_list" /\ h2[q].to[2] # NULL
                  => h2[h2[q].to[2]].type # "expr_list"
  <2>1. CASE q = n + 1
    BY <1>1, <1>5, <2>1 DEF Cells
  <2>2. CASE q # n + 1
    <3>1. q \in 1 .. n /\ q \in Cells(h)
      BY <1>1, <1>2, <1>5, <2>2 DEF Cells
    <3>2. h2[q] = h[q] /\ (h[q].to[2] # NULL => h[q].to[2] \in 1 .. n)
      BY <1>1, <1>2, <3>1 DEF Nodes, Cells
    <3> QED BY <1>1, <1>4, <3>1, <3>2 DEF Nodes
  <2> QED BY <2>1, <2>2
<1>6. \A q \in 1 .. Len(h2) : Kids(h2, q) \subseteq 1 .. Len(h2)
  <2>1. \A q \in 1 .. n : Kids(h2, q) \subseteq 1 .. n
    BY <1>3 DEF Nodes
  <2>2. Kids(h2, n + 1) \subseteq 1 .. n
    BY <1>3 DEF NULL
  <2> QED BY <1>1, <2>1, <2>2
<1>7. Nodes(h2) /\ Grows(h, h2)
  BY <1>1, <1>5, <1>6 DEF Nodes, Grows
<1> QED
  BY <1>1, <1>3, <1>4, <1>7, <1>8 DEF h2

MayMake(h, hold, node, K, t) ==
  /\ node \in AnyNode /\ K \in SUBSET Nat /\ t \in Nat \ {0} /\ (hold[t] = NULL \/ t \in K)
  /\ \A c \in Range(node.to) : c = NULL \/ \E k \in K : c = hold[k]
  /\ \A k \in K : hold[k] = NULL \/ hold[k] \in Range(node.to)
  /\ node.type \in ListType => Len(node.to) = 2 /\ node.to[2] = NULL

LEMMA Makes ==
  ASSUME NEW h, NEW hold, NEW f, NEW rep, Pool(h, hold, f, rep), NEW node, NEW K, NEW t,
         MayMake(h, hold, node, K, t)
  PROVE  LET h2 == Append(h, node)
         IN  Pool(h2, Taken(hold, K, t, Len(h) + 1), f, rep) /\ Grows(h, h2)
<1> DEFINE h2 == Append(h, node)
           n == Len(h)
           hold2 == Taken(hold, K, t, n + 1)
<1> K \in SUBSET Nat /\ t \in Nat /\ t # 0
  BY DEF MayMake
<1>a. /\ node \in AnyNode /\ \A c \in Range(node.to) : c = NULL \/ \E k \in K : c = hold[k]
      /\ \A k \in K : hold[k] = NULL \/ hold[k] \in Range(node.to)
      /\ node.type \in ListType => Len(node.to) = 2 /\ node.to[2] = NULL
      /\ hold[t] = NULL \/ t \in K
  BY DEF MayMake
<1>1. /\ Nodes(h) /\ f \subseteq 1 .. n /\ rep \in BOOLEAN
      /\ hold \in [Nat -> 0 .. n] /\ hold[0] = NULL
  BY DEF Pool
<1>2. Range(node.to) \subseteq 0 .. n
  <2>1. n \in Nat
    BY <1>1 DEF Nodes
  <2>2. ASSUME NEW c \in Range(node.to)
        PROVE  c \in 0 .. n
    <3>1. CASE c = NULL
      BY <2>1, <3>1 DEF NULL
    <3>2. CASE c # NULL
      <4>1. PICK k \in K : c = hold[k]
        BY <1>a, <3>2
      <4> QED BY <1>1, <4>1
    <3> QED BY <3>1, <3>2
  <2> QED BY <2>2
<1>3. /\ n \in Nat /\ Nodes(h2) /\ Grows(h, h2) /\ Len(h2) = n + 1
      /\ \A q \in 1 .. n : h2[q] = h[q]
      /\ \A q \in 1 .. n : Kids(h2, q) = Kids(h, q)
      /\ Kids(h2, n + 1) = Range(node.to) \ {NULL}
      /\ \A q \in 1 .. n : Cut(h2, q) = Cut(h, q) /\ Owns(h2, q) = Owns(h, q)
      /\ ~Cut(h2, n + 1) /\ Owns(h2, n + 1) = Kids(h2, n + 1)
  <2>1. /\ Nodes(h) /\ node \in AnyNode /\ Range(node.to) \subseteq 0 .. n
        /\ node.type \in ListType => Len(node.to) = 2 /\ node.to[2] = NULL
    BY <1>1, <1>2, <1>a
  <2>2. /\ n \in Nat /\ Nodes(h2) /\ Grows(h, h2) /\ Len(h2) = n + 1
        /\ \A q \in 1 .. n : h2[q] = h[q]
        /\ \A q \in 1 .. n : Kids(h2, q) = Kids(h, q)
        /\ Kids(h2, n + 1) = Range(node.to) \ {NULL}
        /\ \A q \in 1 .. n : Cut(h2, q) = Cut(h, q) /\ Owns(h2, q) = Owns(h, q)
        /\ ~Cut(h2, n + 1) /\ Owns(h2, n + 1) = Range(node.to) \ {NULL}
    BY <2>1, AppendedIs
  <2> QED BY <2>2
<1> HIDE DEF h2, n
<1>9. /\ \A c \in Kids(h2, n + 1) : c # NULL /\ \E k \in K : c = hold[k]
      /\ \A k \in K : hold[k] = NULL \/ hold[k] \in Kids(h2, n + 1)
  BY <1>3, <1>a
<1>10. ASSUME NEW k \in Nat, hold[k] # NULL
       PROVE  hold[k] \in 1 .. n /\ k # 0
  <2>1. hold[k] \in 0 .. n /\ n \in Nat
    BY <1>1, <1>3
  <2> QED BY <1>1, <1>10, <2>1 DEF NULL
<1>4. /\ hold2 \in [Nat -> 0 .. n + 1] /\ hold2[0] = NULL
      /\ \A k \in Nat : hold2[k] = IF k = t THEN n + 1 ELSE IF k \in K THEN NULL ELSE hold[k]
  <2>1. n \in Nat /\ n + 1 \in Nat /\ n <= n + 1 /\ n + 1 \in 0 .. n + 1
    BY <1>3
  <2>2. t \in Nat /\ t # 0 /\ hold \in [Nat -> 0 .. n] /\ hold[0] = NULL
    BY <1>1
  <2>3. MayTake(n, hold, n + 1, t, n + 1)
    BY <2>1, <2>2 DEF MayTake
  <2> QED BY <2>3, TakenIs
<1> HIDE DEF hold2
<1>5. \E par : Rooted(h2, hold2, f, rep, par)
  <2>1. PICK par : Rooted(h, hold, f, rep, par)
    BY DEF Pool
  <2> DEFINE par2 == [p \in 1 .. n + 1 |-> IF p = n + 1 THEN -t
                                           ELSE IF par[p] < 0 /\ -par[p] \in K THEN n + 1
                                           ELSE par[p]]
  <2>2. \A p \in 1 .. n : par[p] \in Int
    BY <2>1 DEF Rooted, n
  <2>3. /\ par2 \in [1 .. n + 1 -> Int] /\ par2[n + 1] = -t
        /\ \A p \in 1 .. n : par2[p] = IF par[p] < 0 /\ -par[p] \in K THEN n + 1 ELSE par[p]
    BY <1>3, <2>2
  <2> HIDE DEF par2
  <2>4. ASSUME NEW k \in Nat, hold2[k] # NULL
        PROVE  par2[hold2[k]] = -k
    <3>1. CASE k = t
      BY <1>4, <2>3, <3>1
    <3>2. CASE k # t
      <4>1. k \notin K /\ hold2[k] = hold[k] /\ hold[k] \in 1 .. n /\ k # 0
        BY <1>4, <1>10, <2>4, <3>2
      <4>2. par[hold[k]] = -k
        BY <2>1, <2>4, <4>1 DEF Rooted
      <4> QED BY <2>3, <4>1, <4>2
    <3> QED BY <3>1, <3>2
  <2>5. ASSUME NEW q \in (1 .. n + 1) \ f, NEW c \in Owns(h2, q)
        PROVE  par2[c] = q
    <3>1. CASE q = n + 1
      <4>1. PICK k \in K : c = hold[k] /\ c # NULL
        BY <1>3, <1>9, <3>1
      <4>2. c \in 1 .. n /\ k # 0 /\ k \in Nat
        BY <1>10, <4>1
      <4>3. par[c] = -k
        BY <2>1, <4>1, <4>2 DEF Rooted
      <4>4. par[c] < 0 /\ -par[c] = k
        BY <4>2, <4>3
      <4> QED BY <2>3, <3>1, <4>1, <4>2, <4>4
    <3>2. CASE q \in 1 .. n
      <4>1. c \in Owns(h, q) /\ c \in 1 .. n
        BY <1>1, <1>3, <2>5, <3>2, OwnsIs DEF n
      <4>2. par[c] = q
        BY <2>1, <3>2, <4>1 DEF Rooted, n
      <4> QED BY <2>3, <3>2, <4>1, <4>2
    <3> QED BY <1>3, <3>1, <3>2
  <2>6. ASSUME NEW p \in 1 .. n + 1, par2[p] < 0
        PROVE  hold2[-par2[p]] = p
    <3>1. CASE p = n + 1
      BY <1>4, <2>3, <3>1
    <3>2. CASE p \in 1 .. n
      <4>1. par2[p] = par[p] /\ -par[p] \notin K /\ -par[p] \in Nat
        BY <1>3, <2>2, <2>3, <2>6, <3>2
      <4>2. hold[-par[p]] = p
        BY <2>1, <2>6, <3>2, <4>1 DEF Rooted, n
      <4>3. -par[p] # t
        BY <1>a, <3>2, <4>1, <4>2 DEF NULL
      <4> QED BY <1>4, <4>1, <4>2, <4>3
    <3> QED BY <1>3, <3>1, <3>2
  <2>7. ASSUME NEW p \in 1 .. n + 1, par2[p] > 0
        PROVE  par2[p] \in (1 .. n + 1) \ f /\ p \in Owns(h2, par2[p])
    <3>1. p \in 1 .. n
      <4>1. p # n + 1
        BY <2>3, <2>7
      <4> QED BY <1>3, <4>1
    <3>2. CASE par[p] < 0 /\ -par[p] \in K
      <4>1. par2[p] = n + 1
        BY <2>3, <3>1, <3>2
      <4>2. hold[-par[p]] = p /\ p # NULL
        BY <2>1, <3>1, <3>2 DEF Rooted, n, NULL
      <4>3. p \in Owns(h2, n + 1)
        BY <1>3, <1>9, <3>2, <4>2
      <4>4. n + 1 \in 1 .. n + 1 /\ n + 1 \notin 1 .. n
        BY <1>3
      <4>5. n + 1 \in (1 .. n + 1) \ f
        BY <1>1, <4>4
      <4> QED BY <4>1, <4>3, <4>5
    <3>3. CASE ~(par[p] < 0 /\ -par[p] \in K)
      <4>1. par2[p] = par[p]
        BY <2>3, <3>1, <3>3
      <4>2. par[p] \in (1 .. n) \ f /\ p \in Owns(h, par[p])
        BY <2>1, <2>7, <3>1, <4>1 DEF Rooted, n
      <4>3. par[p] \in (1 .. n + 1) \ f /\ Owns(h2, par[p]) = Owns(h, par[p])
        BY <1>3, <4>2
      <4> QED BY <4>1, <4>2, <4>3
    <3> QED BY <3>2, <3>3
  <2>8. ASSUME NEW p \in 1 .. n + 1, par2[p] = 0
        PROVE  p \in f \/ (rep /\ h2[p].type = "string") \/ Cut(h2, p)
    <3>1. p \in 1 .. n /\ par[p] = 0
      BY <1>3, <2>2, <2>3, <2>8
    <3> QED BY <1>3, <2>1, <3>1 DEF Rooted, n
  <2>9. \A p \in f : par2[p] = 0
    <3>1. \A p \in f : p \in 1 .. n /\ par[p] = 0
      BY <1>1, <2>1 DEF Rooted, n
    <3> QED BY <2>3, <3>1
  <2>11. ASSUME NEW p \in 1 .. n + 1, Cut(h2, p)
         PROVE  par2[p] = 0 /\ p \notin f
    <3>1. p \in 1 .. n /\ Cut(h, p)
      <4>1. p # n + 1
        BY <1>3, <2>11
      <4> QED BY <1>3, <2>11, <4>1
    <3>2. par[p] = 0 /\ p \notin f
      BY <2>1, <3>1 DEF Rooted, n
    <3> QED BY <2>3, <3>1, <3>2
  <2>10. Rooted(h2, hold2, f, rep, par2)
    BY <1>3, <2>3, <2>4, <2>5, <2>6, <2>7, <2>8, <2>9, <2>11 DEF Rooted
  <2> QED BY <2>10
<1>6. \E own, rank, m : Ranked(h2, hold2, own, rank, m)
  <2>1. PICK own, rank, m : Ranked(h, hold, own, rank, m)
    BY DEF Pool
  <2> DEFINE own2 == [p \in 1 .. n + 1 |-> IF p = n + 1 \/ own[p] \in K THEN t ELSE own[p]]
             rank2 == [p \in 1 .. n + 1 |-> IF p = n + 1 THEN m + 1 ELSE rank[p]]
  <2>2. m \in Nat /\ \A p \in 1 .. n : own[p] \in Nat /\ rank[p] \in 0 .. m
    BY <2>1 DEF Ranked, n
  <2>3. /\ own2 \in [1 .. n + 1 -> Nat] /\ rank2 \in [1 .. n + 1 -> 0 .. m + 1]
        /\ own2[n + 1] = t /\ rank2[n + 1] = m + 1
        /\ \A p \in 1 .. n : own2[p] = (IF own[p] \in K THEN t ELSE own[p]) /\ rank2[p] = rank[p]
    BY <1>3, <2>2
  <2> HIDE DEF own2, rank2
  <2>4. ASSUME NEW k \in Nat, hold2[k] # NULL
        PROVE  own2[hold2[k]] = k
    <3>1. CASE k = t
      BY <1>4, <2>3, <3>1
    <3>2. CASE k # t
      <4>1. k \notin K /\ hold2[k] = hold[k] /\ hold[k] \in 1 .. n
        BY <1>4, <1>10, <2>4, <3>2
      <4>2. own[hold[k]] = k
        BY <2>1, <2>4, <4>1 DEF Ranked
      <4> QED BY <2>3, <4>1, <4>2
    <3> QED BY <3>1, <3>2
  <2>5. ASSUME NEW q \in 1 .. n + 1, NEW c \in Kids(h2, q)
        PROVE  own2[c] = own2[q] /\ rank2[c] < rank2[q]
    <3>1. CASE q = n + 1
      <4>1. PICK k \in K : c = hold[k] /\ c # NULL
        BY <1>9, <3>1
      <4>2. c \in 1 .. n
        BY <1>10, <4>1
      <4>3. own[c] = k
        BY <2>1, <4>1 DEF Ranked
      <4>4. rank[c] < m + 1
        BY <2>2, <4>2
      <4> QED BY <2>3, <3>1, <4>1, <4>2, <4>3, <4>4
    <3>2. CASE q \in 1 .. n
      <4>1. c \in Kids(h, q) /\ c \in 1 .. n
        BY <1>1, <1>3, <2>5, <3>2 DEF Nodes, n
      <4>2. own[c] = own[q] /\ rank[c] < rank[q]
        BY <2>1, <3>2, <4>1 DEF Ranked, n
      <4> QED BY <2>3, <3>2, <4>1, <4>2
    <3> QED BY <1>3, <3>1, <3>2
  <2>6. Ranked(h2, hold2, own2, rank2, m + 1)
    BY <1>3, <2>2, <2>3, <2>4, <2>5 DEF Ranked
  <2> QED BY <2>6
<1>7. f \subseteq 1 .. n + 1
  BY <1>1, <1>3 DEF n
<1>8. Pool(h2, hold2, f, rep)
  BY <1>1, <1>3, <1>4, <1>5, <1>6, <1>7 DEF Pool
<1> QED
  BY <1>3, <1>8 DEF h2, hold2, n
-----------------------------------------------------------------------------
(* What is in the slots K is freed with all that hangs on it, S.           *)

LEMMA Frees ==
  ASSUME NEW h, NEW hold, NEW f, NEW rep, Pool(h, hold, f, rep), NEW K \in SUBSET Nat, NEW S,
         S \subseteq (1 .. Len(h)) \ f, \A k \in K : hold[k] = NULL \/ hold[k] \in S,
         \A q \in S : ~Cut(h, q) /\ Kids(h, q) \subseteq S,
         \A p \in S : (\E k \in K : p = hold[k]) \/ \E r \in S : p \in Kids(h, r)
  PROVE  Pool(h, Taken(hold, K, 0, NULL), f \cup S, rep)
<1> DEFINE n == Len(h)
           hold2 == Taken(hold, K, 0, NULL)
<1>1. /\ Nodes(h) /\ f \subseteq 1 .. n /\ rep \in BOOLEAN
      /\ hold \in [Nat -> 0 .. n] /\ hold[0] = NULL
  BY DEF Pool
<1> n \in Nat
  BY <1>1 DEF Nodes
<1>2. /\ hold2 \in [Nat -> 0 .. n] /\ hold2[0] = NULL
      /\ \A k \in Nat : hold2[k] = IF k = 0 THEN NULL ELSE IF k \in K THEN NULL ELSE hold[k]
  <2>1. MayTake(n, hold, n, 0, NULL)
    BY <1>1 DEF MayTake, NULL
  <2> QED BY <2>1, TakenIs
<1> HIDE DEF hold2
<1>3. \A k \in Nat : hold2[k] # NULL => k \notin K /\ hold2[k] = hold[k] /\ hold[k] \in 1 .. n
  BY <1>1, <1>2 DEF NULL
<1>4. PICK par : Rooted(h, hold, f, rep, par)
  BY DEF Pool
<1> DEFINE par2 == [p \in 1 .. n |-> IF p \in S THEN 0 ELSE par[p]]
<1>5. \A p \in 1 .. n : par[p] \in Int
  BY <1>4 DEF Rooted
<1>6. /\ par2 \in [1 .. n -> Int]
      /\ \A p \in 1 .. n : par2[p] = IF p \in S THEN 0 ELSE par[p]
  BY <1>5
<1> HIDE DEF par2
<1>7. ASSUME NEW p \in S
      PROVE  /\ p \in 1 .. n /\ p \notin f
             /\ \/ \E k \in K : k # 0 /\ k \in Nat /\ p = hold[k] /\ par[p] = -k
                \/ par[p] \in S
  <2>1. p \in 1 .. n /\ p \notin f /\ p # NULL
    BY <1>1 DEF NULL
  <2>2. CASE \E k \in K : p = hold[k]
    <3>1. PICK k \in K : p = hold[k]
      BY <2>2
    <3>2. k # 0 /\ k \in Nat /\ par[p] = -k
      BY <1>1, <1>4, <2>1, <3>1 DEF Rooted
    <3> QED BY <2>1, <3>1, <3>2
  <2>3. CASE \E r \in S : p \in Kids(h, r)
    <3>1. PICK r \in S : p \in Kids(h, r)
      BY <2>3
    <3>2. r \in (1 .. n) \ f
      OBVIOUS
    <3>3. par[p] = r
      BY <1>4, <3>1, <3>2 DEF Rooted, Owns
    <3> QED BY <2>1, <3>1, <3>3
  <2> QED BY <2>2, <2>3
<1> HIDE DEF n
<1>8. ASSUME NEW k \in Nat, hold2[k] # NULL
      PROVE  par2[hold2[k]] = -k
  <2>1. PICK p \in 1 .. n : p = hold[k] /\ p = hold2[k] /\ k \notin K /\ p # NULL
    BY <1>3, <1>8
  <2>2. par[p] = -k
    BY <1>4, <2>1 DEF Rooted
  <2>3. p \notin S
    <3>1. SUFFICES ASSUME p \in S
                   PROVE  FALSE
      OBVIOUS
    <3>2. CASE \E j \in K : j # 0 /\ j \in Nat /\ p = hold[j] /\ par[p] = -j
      BY <2>1, <2>2, <3>2
    <3>3. CASE par[p] \in S
      BY <1>7, <2>2, <3>3
    <3> QED BY <1>7, <3>1, <3>2, <3>3
  <2> QED BY <1>6, <2>1, <2>2, <2>3
<1>9. ASSUME NEW q \in (1 .. n) \ (f \cup S), NEW c \in Owns(h, q)
      PROVE  par2[c] = q
  <2>1. c \in 1 .. n /\ par[c] = q
    BY <1>1, <1>4, <1>9, OwnsIs DEF Rooted, n
  <2>2. c \notin S
    <3>1. SUFFICES ASSUME c \in S
                   PROVE  FALSE
      OBVIOUS
    <3>2. CASE \E j \in K : j # 0 /\ j \in Nat /\ c = hold[j] /\ par[c] = -j
      BY <2>1, <3>2
    <3>3. CASE par[c] \in S
      BY <2>1, <3>3
    <3> QED BY <1>7, <3>1, <3>2, <3>3
  <2> QED BY <1>6, <2>1, <2>2
<1>10. ASSUME NEW p \in 1 .. n, par2[p] < 0
       PROVE  hold2[-par2[p]] = p
  <2>1. p \notin S /\ par2[p] = par[p] /\ par[p] \in Int
    BY <1>5, <1>6, <1>10
  <2>2. hold[-par[p]] = p /\ -par[p] \in Nat /\ -par[p] # 0 /\ p # NULL
    BY <1>4, <1>10, <2>1 DEF Rooted, n, NULL
  <2>3. -par[p] \notin K
    BY <2>1, <2>2
  <2> QED BY <1>2, <2>1, <2>2, <2>3
<1>11. ASSUME NEW p \in 1 .. n, par2[p] > 0
       PROVE  par2[p] \in (1 .. n) \ (f \cup S) /\ p \in Owns(h, par2[p])
  <2>1. p \notin S /\ par2[p] = par[p]
    BY <1>6, <1>11
  <2>2. par[p] \in (1 .. n) \ f /\ p \in Owns(h, par[p]) /\ p \in 1 .. n
    BY <1>4, <1>11, <2>1 DEF Rooted, n
  <2>3. par[p] \notin S
    <3>1. par[p] \in S => p \in S
      BY <2>2 DEF Owns
    <3> QED BY <2>1, <3>1
  <2> QED BY <2>1, <2>2, <2>3
<1>12. ASSUME NEW p \in 1 .. n, par2[p] = 0
       PROVE  p \in f \cup S \/ (rep /\ h[p].type = "string") \/ Cut(h, p)
  BY <1>4, <1>6, <1>12 DEF Rooted, n
<1>13. \A p \in f \cup S : p \in 1 .. n /\ par2[p] = 0
  <2>1. \A p \in f : p \in 1 .. n /\ par[p] = 0
    BY <1>1, <1>4 DEF Rooted, n
  <2> QED BY <1>6, <1>7, <2>1
<1>19. ASSUME NEW p \in 1 .. n, Cut(h, p)
       PROVE  par2[p] = 0 /\ p \notin f \cup S
  BY <1>4, <1>6, <1>19 DEF Rooted, n
<1>14. Rooted(h, hold2, f \cup S, rep, par2)
  BY <1>6, <1>8, <1>9, <1>10, <1>11, <1>12, <1>13, <1>19 DEF Rooted, n
<1>15. PICK own, rank, m : Ranked(h, hold, own, rank, m)
  BY DEF Pool
<1>16. Ranked(h, hold2, own, rank, m)
  BY <1>3, <1>15 DEF Ranked
<1>17. f \cup S \subseteq 1 .. n
  BY <1>13
<1>18. Pool(h, hold2, f \cup S, rep)
  BY <1>1, <1>2, <1>14, <1>16, <1>17 DEF Pool, n
<1> QED
  BY <1>18 DEF hold2

(* What hangs on a node in use is in use, unless it hangs on a lost cell.  *)
InUse(h, f) == {p \in (1 .. Len(h)) \ f : ~Cut(h, p)}
LEMMA HangsOn ==
  ASSUME NEW hold, NEW rep, Pool(heap, hold, freed, rep)
  PROVE  /\ Hanging(NULL) = {}
         /\ \A v \in InUse(heap, freed) :
              /\ v \in Hanging(v) /\ Hanging(v) \subseteq InUse(heap, freed)
              /\ \A q \in Hanging(v) : Kids(heap, q) \subseteq Hanging(v)
              /\ \A p \in Hanging(v) : p = v \/ \E r \in Hanging(v) : p \in Kids(heap, r)
<1>0. PICK n : n = Len(heap)
  OBVIOUS
<1> DEFINE next == [p \in 1 .. n |-> Range(heap[p].to)]
           Recursive(f1) ==
             f1 = [p \in 0 .. Len(heap) |->
                     IF p = NULL THEN {} ELSE {p} \cup UNION {f1[q] : q \in Follows(heap[p])}]
           below == CHOOSE f1 : Recursive(f1)
           S == InUse(heap, freed)
<1>1. \A v : Hanging(v) = below[v]
  BY Zenon DEF Hanging
<1>2. /\ n \in Nat /\ \A p \in 1 .. n : Kids(heap, p) \subseteq 1 .. n
      /\ freed \subseteq 1 .. n
  BY <1>0 DEF Pool, Nodes
<1>3. \A p \in 1 .. n : /\ next[p] = Range(heap[p].to) /\ next[p] \subseteq 0 .. n
                        /\ \A c \in next[p] : c = 0 \/ c \in Kids(heap, p)
                        /\ \A c \in Kids(heap, p) : c \in next[p] /\ c # 0
  BY <1>2 DEF Kids, NULL
<1>4. ASSUME NEW f1
      PROVE  Recursive(f1) <=> HangsBelow(f1, next, n)
  <2>1. [p \in 0 .. n |-> IF p = 0 THEN {} ELSE {p} \cup UNION {f1[q] : q \in next[p]}]
          = [p \in 0 .. n |->
               IF p = 0 THEN {} ELSE {p} \cup UNION {f1[q] : q \in Follows(heap[p])}]
    <3>1. ASSUME NEW p \in 0 .. n
          PROVE  (IF p = 0 THEN {} ELSE {p} \cup UNION {f1[q] : q \in next[p]})
                   = (IF p = 0 THEN {} ELSE {p} \cup UNION {f1[q] : q \in Follows(heap[p])})
      <4>1. p # 0 => p \in 1 .. n
        BY <1>2
      <4> HIDE DEF next
      <4> QED
        BY <1>3, <4>1 DEF Follows
    <3> QED
      BY <3>1
  <2> QED
    BY <1>0, <2>1 DEF HangsBelow, NULL
<1> HIDE DEF next
<1>5. \E f1 : Recursive(f1)
  <2> HIDE DEF Recursive
  <2>1. \E f1 : HangsBelow(f1, next, n)
    BY <1>2, <1>3, HangingExists
  <2> QED
    BY <1>4, <2>1, Zenon
<1>6. HangsBelow(below, next, n)
  <2> HIDE DEF Recursive
  <2>1. Recursive(below)
    BY <1>5, Zenon
  <2> HIDE DEF below
  <2> QED
    BY <1>4, <2>1
<1> HIDE DEF below, Recursive
<1>7. PICK par : Rooted(heap, hold, freed, rep, par)
  BY DEF Pool
<1>8. PICK own, rank, m : Ranked(heap, hold, own, rank, m)
  BY DEF Pool
<1> DEFINE rank2 == [p \in S |-> rank[p]]
<1>9. m \in Nat /\ rank2 \in [S -> 0 .. m] /\ \A p \in S : rank2[p] = rank[p]
  BY <1>8 DEF Ranked, InUse
<1> HIDE DEF rank2
<1>10. ASSUME NEW p \in S, NEW c \in next[p], c # 0
       PROVE  c \in S /\ rank2[c] < rank2[p]
  <2>1. /\ p \in (1 .. n) \ freed /\ ~Cut(heap, p)
        /\ c \in Kids(heap, p) /\ c \in 1 .. n
    BY <1>0, <1>2, <1>3, <1>10 DEF InUse
  <2>2. par[c] = p /\ rank[c] < rank[p]
    BY <1>0, <1>7, <1>8, <2>1 DEF Rooted, Ranked, Owns
  <2>3. par[c] # 0
    BY <2>1, <2>2
  <2>4. c \in S
    BY <1>0, <1>7, <2>1, <2>3 DEF Rooted, InUse
  <2> QED BY <1>9, <2>2, <2>4
<1>11. S \in SUBSET (1 .. n)
  BY <1>0 DEF InUse
<1> HIDE DEF S
<1>12. \A p \in S : below[p] \subseteq S
  BY <1>2, <1>6, <1>9, <1>10, <1>11, HangingStays
<1>13. \A p \in S : /\ p \in below[p]
                    /\ \A q \in below[p] : \A c \in next[q] : c = 0 \/ c \in below[p]
                    /\ \A q \in below[p] : q = p \/ \E r \in below[p] : q \in next[r]
  BY <1>2, <1>6, <1>9, <1>10, <1>11, HangingCloses
<1>14. Hanging(NULL) = {}
  <2>1. 0 \in 0 .. n
    BY <1>2
  <2>2. below[0] = {}
    BY <1>6, <2>1 DEF HangsBelow
  <2> QED BY <1>1, <2>2 DEF NULL
<1>15. ASSUME NEW v \in S
       PROVE  /\ v \in Hanging(v) /\ Hanging(v) \subseteq S
              /\ \A q \in Hanging(v) : Kids(heap, q) \subseteq Hanging(v)
              /\ \A p \in Hanging(v) : p = v \/ \E r \in Hanging(v) : p \in Kids(heap, r)
  <2>1. /\ v \in below[v] /\ below[v] \subseteq S /\ Hanging(v) = below[v]
        /\ \A q \in below[v] : q \in 1 .. n
    BY <1>1, <1>11, <1>12, <1>13
  <2>2. ASSUME NEW q \in below[v], NEW c \in Kids(heap, q)
        PROVE  c \in below[v]
    BY <1>3, <1>13, <2>1
  <2>3. ASSUME NEW p \in below[v], p # v
        PROVE  \E r \in below[v] : p \in Kids(heap, r)
    <3>1. PICK r \in below[v] : p \in next[r]
      BY <1>13, <2>3
    <3>2. p # 0
      BY <2>1
    <3> QED BY <1>3, <2>1, <3>1, <3>2
  <2> QED BY <2>1, <2>2, <2>3
<1> QED
  BY <1>0, <1>14, <1>15 DEF S
-----------------------------------------------------------------------------
(* A pointer is lost, or goes from one slot to another.                    *)

LEMMA Loses ==
  ASSUME NEW h, NEW hold, NEW f, NEW rep, Pool(h, hold, f, rep), NEW K \in SUBSET Nat,
         \A k \in K : hold[k] = NULL \/ (rep /\ h[hold[k]].type = "string")
  PROVE  Pool(h, Taken(hold, K, 0, NULL), f, rep)
<1> DEFINE n == Len(h)
           hold2 == Taken(hold, K, 0, NULL)
<1>1. /\ Nodes(h) /\ f \subseteq 1 .. n /\ rep \in BOOLEAN
      /\ hold \in [Nat -> 0 .. n] /\ hold[0] = NULL
  BY DEF Pool
<1> n \in Nat
  BY <1>1 DEF Nodes
<1>2. /\ hold2 \in [Nat -> 0 .. n] /\ hold2[0] = NULL
      /\ \A k \in Nat : hold2[k] = IF k = 0 THEN NULL ELSE IF k \in K THEN NULL ELSE hold[k]
  <2>1. MayTake(n, hold, n, 0, NULL)
    BY <1>1 DEF MayTake, NULL
  <2> QED BY <2>1, TakenIs
<1> HIDE DEF hold2
<1>3. \A k \in Nat : hold2[k] # NULL => k \notin K /\ hold2[k] = hold[k] /\ hold[k] \in 1 .. n
  BY <1>1, <1>2 DEF NULL
<1>4. PICK par : Rooted(h, hold, f, rep, par)
  BY DEF Pool
<1> DEFINE par2 == [p \in 1 .. n |-> IF par[p] < 0 /\ -par[p] \in K THEN 0 ELSE par[p]]
<1>5. \A p \in 1 .. n : par[p] \in Int
  BY <1>4 DEF Rooted
<1>6. /\ par2 \in [1 .. n -> Int]
      /\ \A p \in 1 .. n : par2[p] = IF par[p] < 0 /\ -par[p] \in K THEN 0 ELSE par[p]
  BY <1>5
<1> HIDE DEF par2, n
<1>8. ASSUME NEW k \in Nat, hold2[k] # NULL
      PROVE  par2[hold2[k]] = -k
  <2>1. hold[k] \in 1 .. n /\ hold2[k] = hold[k] /\ k \notin K /\ hold[k] # NULL
    BY <1>3, <1>8
  <2>2. par[hold[k]] = -k
    BY <1>4, <2>1 DEF Rooted
  <2> QED BY <1>6, <2>1, <2>2
<1>9. ASSUME NEW q \in (1 .. n) \ f, NEW c \in Owns(h, q)
      PROVE  par2[c] = q
  <2>1. c \in 1 .. n /\ par[c] = q
    BY <1>1, <1>4, <1>9, OwnsIs DEF Rooted, n
  <2> QED BY <1>6, <2>1
<1>10. ASSUME NEW p \in 1 .. n, par2[p] < 0
       PROVE  hold2[-par2[p]] = p
  <2>1. par2[p] = par[p] /\ par[p] \in Int /\ -par[p] \notin K /\ -par[p] \in Nat /\ -par[p] # 0
    BY <1>5, <1>6, <1>10
  <2>2. hold[-par[p]] = p
    BY <1>4, <1>10, <2>1 DEF Rooted, n
  <2> QED BY <1>2, <2>1, <2>2
<1>11. ASSUME NEW p \in 1 .. n, par2[p] > 0
       PROVE  par2[p] \in (1 .. n) \ f /\ p \in Owns(h, par2[p])
  BY <1>4, <1>6, <1>11 DEF Rooted, n
<1>12. ASSUME NEW p \in 1 .. n, par2[p] = 0
       PROVE  p \in f \/ (rep /\ h[p].type = "string") \/ Cut(h, p)
  <2>1. CASE par[p] < 0 /\ -par[p] \in K
    <3>1. hold[-par[p]] = p /\ p # NULL
      BY <1>4, <2>1 DEF Rooted, n, NULL
    <3> QED BY <2>1, <3>1
  <2>2. CASE ~(par[p] < 0 /\ -par[p] \in K)
    BY <1>4, <1>6, <1>12, <2>2 DEF Rooted, n
  <2> QED BY <2>1, <2>2
<1>13. \A p \in f : par2[p] = 0
  <2>1. \A p \in f : p \in 1 .. n /\ par[p] = 0
    BY <1>1, <1>4 DEF Rooted, n
  <2> QED BY <1>6, <2>1
<1>17. ASSUME NEW p \in 1 .. n, Cut(h, p)
       PROVE  par2[p] = 0 /\ p \notin f
  BY <1>4, <1>6, <1>17 DEF Rooted, n
<1>14. Rooted(h, hold2, f, rep, par2)
  BY <1>6, <1>8, <1>9, <1>10, <1>11, <1>12, <1>13, <1>17 DEF Rooted, n
<1>15. PICK own, rank, m : Ranked(h, hold, own, rank, m)
  BY DEF Pool
<1>16. Ranked(h, hold2, own, rank, m)
  BY <1>3, <1>15 DEF Ranked
<1>18. Pool(h, hold2, f, rep)
  BY <1>1, <1>2, <1>14, <1>16 DEF Pool, n
<1> QED
  BY <1>18 DEF hold2

LEMMA Moves ==
  ASSUME NEW h, NEW hold, NEW f, NEW rep, Pool(h, hold, f, rep),
         NEW i \in Nat \ {0}, NEW j \in Nat \ {0}, hold[j] = NULL \/ j = i,
         NEW v, v = hold[i]
  PROVE  Pool(h, Taken(hold, {i}, j, v), f, rep)
<1>0. PICK K : K = {i}
  OBVIOUS
<1> DEFINE n == Len(h)
           hold2 == Taken(hold, K, j, v)
<1>1. /\ Nodes(h) /\ f \subseteq 1 .. n /\ rep \in BOOLEAN
      /\ hold \in [Nat -> 0 .. n] /\ hold[0] = NULL
  BY DEF Pool
<1> n \in Nat
  BY <1>1 DEF Nodes
<1>2. /\ hold2 \in [Nat -> 0 .. n] /\ hold2[0] = NULL
      /\ \A k \in Nat : hold2[k] = IF k = j THEN v ELSE IF k = i THEN NULL ELSE hold[k]
  <2>0. n <= n /\ j # 0 /\ v \in 0 .. n
    BY <1>1
  <2>1. MayTake(n, hold, n, j, v)
    BY <1>1, <2>0 DEF MayTake
  <2> HIDE DEF n
  <2>2. \A k \in Nat : hold2[k] = IF k = j THEN v ELSE IF k \in K THEN NULL ELSE hold[k]
    BY <2>1, TakenIs
  <2>3. hold2 \in [Nat -> 0 .. n] /\ hold2[0] = NULL
    BY <2>1, TakenIs
  <2> HIDE DEF hold2
  <2> QED BY <1>0, <2>2, <2>3
<1> HIDE DEF hold2
<1>3. \A k \in Nat : hold2[k] # NULL =>
        /\ hold2[k] \in 1 .. n
        /\ \/ k = j /\ hold2[k] = v /\ v # NULL
           \/ k # i /\ k # j /\ hold2[k] = hold[k] /\ hold[k] # NULL
  <2> SUFFICES ASSUME NEW k \in Nat, hold2[k] # NULL
               PROVE  /\ hold2[k] \in 1 .. n
                      /\ \/ k = j /\ hold2[k] = v /\ v # NULL
                         \/ k # i /\ k # j /\ hold2[k] = hold[k] /\ hold[k] # NULL
    OBVIOUS
  <2>1. hold2[k] \in 1 .. n
    BY <1>2 DEF NULL
  <2> HIDE DEF n
  <2> QED BY <1>2, <2>1
<1>4. PICK par : Rooted(h, hold, f, rep, par)
  BY DEF Pool
<1> DEFINE par2 == [p \in 1 .. n |-> IF par[p] = -i THEN -j ELSE par[p]]
<1>5. \A p \in 1 .. n : par[p] \in Int
  BY <1>4 DEF Rooted
<1>6. /\ par2 \in [1 .. n -> Int]
      /\ \A p \in 1 .. n : par2[p] = IF par[p] = -i THEN -j ELSE par[p]
  BY <1>5
<1> HIDE DEF par2, n
<1>8. ASSUME NEW k \in Nat, hold2[k] # NULL
      PROVE  par2[hold2[k]] = -k
  <2>1. CASE k = j /\ hold2[k] = v /\ v # NULL
    <3>1. par[v] = -i
      BY <1>4, <2>1 DEF Rooted
    <3> QED BY <1>3, <1>6, <1>8, <2>1, <3>1
  <2>2. CASE k # i /\ k # j /\ hold2[k] = hold[k] /\ hold[k] # NULL
    <3>1. par[hold[k]] = -k
      BY <1>4, <2>2 DEF Rooted
    <3> QED BY <1>3, <1>6, <1>8, <2>2, <3>1
  <2> QED BY <1>3, <1>8, <2>1, <2>2
<1>9. ASSUME NEW q \in (1 .. n) \ f, NEW c \in Owns(h, q)
      PROVE  par2[c] = q
  <2>1. c \in 1 .. n /\ par[c] = q
    BY <1>1, <1>4, <1>9, OwnsIs DEF Rooted, n
  <2> QED BY <1>6, <2>1
<1>10. ASSUME NEW p \in 1 .. n, par2[p] < 0
       PROVE  hold2[-par2[p]] = p
  <2>1. par[p] < 0 /\ -par[p] \in Nat
    BY <1>5, <1>6, <1>10
  <2>2. hold[-par[p]] = p /\ p # NULL
    BY <1>4, <2>1 DEF Rooted, n, NULL
  <2>3. CASE par[p] = -i
    <3>1. -par[p] = i /\ par2[p] = -j /\ -par2[p] = j
      BY <1>6, <2>3
    <3> QED BY <1>2, <2>2, <3>1
  <2>4. CASE par[p] # -i
    <3>1. -par[p] # i /\ par2[p] = par[p]
      BY <1>5, <1>6, <2>4
    <3>2. -par[p] # j
      BY <2>2, <3>1
    <3> QED BY <1>2, <2>1, <2>2, <3>1, <3>2
  <2> QED BY <2>3, <2>4
<1>11. ASSUME NEW p \in 1 .. n, par2[p] > 0
       PROVE  par2[p] \in (1 .. n) \ f /\ p \in Owns(h, par2[p])
  <2>1. par2[p] = par[p]
    BY <1>6, <1>11
  <2> QED BY <1>4, <1>11, <2>1 DEF Rooted, n
<1>12. ASSUME NEW p \in 1 .. n, par2[p] = 0
       PROVE  p \in f \/ (rep /\ h[p].type = "string") \/ Cut(h, p)
  <2>1. par2[p] = par[p]
    BY <1>6, <1>12
  <2> QED BY <1>4, <1>12, <2>1 DEF Rooted, n
<1>13. \A p \in f : par2[p] = 0
  <2>1. \A p \in f : p \in 1 .. n /\ par[p] = 0
    BY <1>1, <1>4 DEF Rooted, n
  <2> QED BY <1>6, <2>1
<1>21. ASSUME NEW p \in 1 .. n, Cut(h, p)
       PROVE  par2[p] = 0 /\ p \notin f
  <2>1. par[p] = 0 /\ p \notin f
    BY <1>4, <1>21 DEF Rooted, n
  <2> QED BY <1>6, <2>1
<1>14. Rooted(h, hold2, f, rep, par2)
  BY <1>6, <1>8, <1>9, <1>10, <1>11, <1>12, <1>13, <1>21 DEF Rooted, n
<1>15. PICK own, rank, m : Ranked(h, hold, own, rank, m)
  BY DEF Pool
<1> DEFINE own2 == [p \in 1 .. n |-> IF own[p] = i THEN j ELSE own[p]]
<1>16. /\ own2 \in [1 .. n -> Nat] /\ m \in Nat /\ rank \in [1 .. n -> 0 .. m]
       /\ \A p \in 1 .. n : own2[p] = IF own[p] = i THEN j ELSE own[p]
  BY <1>15 DEF Ranked, n
<1> HIDE DEF own2
<1>17. ASSUME NEW k \in Nat, hold2[k] # NULL
       PROVE  own2[hold2[k]] = k
  <2>1. CASE k = j /\ hold2[k] = v /\ v # NULL
    <3>1. own[v] = i
      BY <1>15, <2>1 DEF Ranked
    <3> QED BY <1>3, <1>16, <1>17, <2>1, <3>1
  <2>2. CASE k # i /\ k # j /\ hold2[k] = hold[k] /\ hold[k] # NULL
    <3>1. own[hold[k]] = k
      BY <1>15, <2>2 DEF Ranked
    <3> QED BY <1>3, <1>16, <1>17, <2>2, <3>1
  <2> QED BY <1>3, <1>17, <2>1, <2>2
<1>18. ASSUME NEW q \in 1 .. n, NEW c \in Kids(h, q)
       PROVE  own2[c] = own2[q] /\ rank[c] < rank[q]
  <2>1. c \in 1 .. n
    BY <1>1 DEF Nodes, n
  <2> QED BY <1>15, <1>16, <2>1 DEF Ranked, n
<1>19. Ranked(h, hold2, own2, rank, m)
  BY <1>16, <1>17, <1>18 DEF Ranked, n
<1>20. Pool(h, hold2, f, rep)
  BY <1>1, <1>2, <1>14, <1>19 DEF Pool, n
<1> QED
  BY <1>0, <1>20 DEF hold2
-----------------------------------------------------------------------------
(* A list grows at its end.                                                *)

(* The same is so of all cells of a list.                                  *)
Alike(h, role) == \A c \in Cells(h) : h[c].to[2] # NULL => role[h[c].to[2]] = role[c]

LEMMA CellsAre ==
  ASSUME NEW h, NEW hold, NEW f, NEW rep, Pool(h, hold, f, rep), NEW c \in Cells(h)
  PROVE  c \in 1 .. Len(h) /\ (h[c].to[2] # NULL => h[c].to[2] \in Kids(h, c))
<1>1. h \in Seq(AnyNode) /\ Len(h[c].to) = 2
  BY DEF Pool, Nodes
<1>2. c \in 1 .. Len(h)
  BY <1>1 DEF Cells
<1>3. h[c] \in AnyNode
  BY <1>1, <1>2
<1>5. h[c].to \in Seq(Nat)
  BY <1>3 DEF AnyNode
<1>4. h[c].to[2] \in Range(h[c].to)
  BY <1>1, <1>5 DEF Range
<1> QED
  BY <1>2, <1>4 DEF Kids

(* The end of a list is that of what the cell goes on with.                *)
LEMMA LastCellIs ==
  ASSUME NEW h, NEW hold, NEW f, NEW rep, Pool(h, hold, f, rep), NEW list \in Cells(h)
  PROVE  \A c \in Cells(h) :
           LastCell(h, c) = IF h[c].to[2] = NULL THEN c ELSE LastCell(h, h[c].to[2])
<1> DEFINE D == Cells(h)
           Recursive(g) ==
             g = [cell \in D |-> IF h[cell].to[2] = NULL THEN cell ELSE g[h[cell].to[2]]]
           end == CHOOSE g : Recursive(g)
           F == [z \in D \X [D -> D] |->
                   IF h[z[1]].to[2] = NULL THEN z[1] ELSE z[2][h[z[1]].to[2]]]
<1>1. \A c : LastCell(h, c) = end[c]
  BY Zenon DEF LastCell
<1>3. PICK own, rank, m : Ranked(h, hold, own, rank, m)
  BY DEF Pool
<1>4. \A c \in D : c \in 1 .. Len(h)
  BY CellsAre
<1>5. \A c \in D : h[c].to[2] = NULL \/ h[c].to[2] \in D
  BY DEF Pool, Nodes
<1>6. \A c \in D : h[c].to[2] # NULL => h[c].to[2] \in Kids(h, c)
  BY CellsAre
<1> DEFINE rank2 == [c \in D |-> rank[c]]
<1>7. m \in Nat /\ rank2 \in [D -> 0 .. m] /\ \A c \in D : rank2[c] = rank[c]
  BY <1>3, <1>4 DEF Ranked
<1>2. D # {}
  OBVIOUS
<1> HIDE DEF rank2, D
<1>8. \A c \in D : h[c].to[2] # NULL => rank2[h[c].to[2]] < rank2[c]
  BY <1>3, <1>4, <1>5, <1>6, <1>7 DEF Ranked
<1>9. \A c \in D, g \in [D -> D] : F[<<c, g>>] = IF h[c].to[2] = NULL THEN c ELSE g[h[c].to[2]]
  OBVIOUS
<1>10. F \in [D \X [D -> D] -> D]
  BY <1>5
<1> HIDE DEF F
<1>11. ByRank(F, D, D, rank2, m)
  <2>1. ASSUME NEW d \in D, NEW g \in [D -> D], NEW k \in [D -> D],
               \A c \in D : rank2[c] < rank2[d] => g[c] = k[c]
        PROVE  F[<<d, g>>] = F[<<d, k>>]
    BY <1>5, <1>8, <1>9, <2>1
  <2> QED BY <1>2, <1>7, <1>10, <2>1 DEF ByRank
<1>12. PICK g \in [D -> D] : \A d \in D : g[d] = F[<<d, g>>]
  BY <1>11, RecursionByRank
<1>13. Recursive(g)
  <2>1. g = [c \in D |-> g[c]]
    OBVIOUS
  <2> QED BY <1>9, <1>12, <2>1
<1>14. Recursive(end)
  <2> HIDE DEF Recursive
  <2> QED BY <1>13, Zenon
<1> HIDE DEF end
<1>15. \A c \in D : end[c] = IF h[c].to[2] = NULL THEN c ELSE end[h[c].to[2]]
  BY <1>14
<1> QED
  BY <1>1, <1>15 DEF D

LEMMA LastIs ==
  ASSUME NEW h, NEW hold, NEW f, NEW rep, Pool(h, hold, f, rep),
         NEW list \in Cells(h), list \notin f, h[list].type # "expr_list"
  PROVE  LET e == LastCell(h, list)
         IN  /\ e \in Cells(h) /\ e \notin f /\ h[e].to[2] = NULL /\ h[e].type # "expr_list"
             /\ \A own, rank, m : Ranked(h, hold, own, rank, m) => own[e] = own[list]
             /\ \A role : Alike(h, role) => role[e] = role[list]
<1> DEFINE D == Cells(h)
           end == [c \in D |-> LastCell(h, c)]
<1>2. PICK par : Rooted(h, hold, f, rep, par)
  BY DEF Pool
<1>3. PICK own0, rank, m : Ranked(h, hold, own0, rank, m)
  BY DEF Pool
<1>4. \A c \in D : c \in 1 .. Len(h)
  BY CellsAre
<1>5. \A c \in D : h[c].to[2] = NULL \/ h[c].to[2] \in D
  BY DEF Pool, Nodes
<1>6. \A c \in D : h[c].to[2] # NULL => h[c].to[2] \in Kids(h, c) /\ h[c].to[2] \in D
  BY <1>5, CellsAre
<1>15. \A c \in D : end[c] = IF h[c].to[2] = NULL THEN c ELSE end[h[c].to[2]]
  BY <1>5, LastCellIs
<1>1. LastCell(h, list) = end[list]
  OBVIOUS
<1> DEFINE rank2 == [c \in D |-> rank[c]]
<1>7. m \in Nat /\ rank2 \in [D -> 0 .. m] /\ \A c \in D : rank2[c] = rank[c]
  BY <1>3, <1>4 DEF Ranked
<1> HIDE DEF rank2, D, end
<1>8. \A c \in D : h[c].to[2] # NULL => rank2[h[c].to[2]] < rank2[c]
  BY <1>3, <1>4, <1>6, <1>7 DEF Ranked
<1> DEFINE Kept(c) == c \notin f /\ h[c].type # "expr_list"
<1>16. \A c \in D : h[c].to[2] # NULL =>
         (Kept(c) => Kept(h[c].to[2])) /\ own0[h[c].to[2]] = own0[c]
  <2>1. ASSUME NEW c \in D, h[c].to[2] # NULL, Kept(c)
        PROVE  Kept(h[c].to[2])
    <3>1. h[c].to[2] \in Owns(h, c)
      BY <1>6, <2>1 DEF Owns, Cut
    <3>2. par[h[c].to[2]] = c /\ c # 0
      BY <1>2, <1>4, <2>1, <3>1 DEF Rooted
    <3>3. h[h[c].to[2]].type # "expr_list"
      BY <2>1 DEF Pool, Nodes, D
    <3> QED BY <1>2, <3>2, <3>3 DEF Rooted
  <2> HIDE DEF Kept
  <2> QED BY <1>3, <1>4, <1>6, <2>1 DEF Ranked
<1> HIDE DEF Kept
<1> DEFINE T == {c \in D : /\ end[c] \in D /\ h[end[c]].to[2] = NULL
                           /\ Kept(c) => Kept(end[c])
                           /\ \A own, r, k : Ranked(h, hold, own, r, k) => own[end[c]] = own[c]
                           /\ \A role : Alike(h, role) => role[end[c]] = role[c]}
<1>17. ASSUME NEW c \in D, \A d \in D : rank2[d] < rank2[c] => d \in T
       PROVE  c \in T
  <2>1. CASE h[c].to[2] = NULL
    BY <1>15, <2>1
  <2>2. CASE h[c].to[2] # NULL
    <3>1. PICK d : d = h[c].to[2]
      OBVIOUS
    <3>2. d \in T /\ d \in D /\ d \in Kids(h, c) /\ end[c] = end[d] /\ (Kept(c) => Kept(d))
      BY <1>6, <1>8, <1>15, <1>16, <1>17, <2>2, <3>1
    <3>3. ASSUME NEW own, NEW r, NEW k, Ranked(h, hold, own, r, k)
          PROVE  own[end[c]] = own[c]
      <4>1. own[d] = own[c]
        BY <1>4, <3>2, <3>3 DEF Ranked
      <4> QED BY <3>2, <3>3, <4>1
    <3>4. ASSUME NEW role, Alike(h, role)
          PROVE  role[end[c]] = role[c]
      <4>1. role[d] = role[c]
        BY <2>2, <3>1, <3>4 DEF Alike, D
      <4> QED BY <3>2, <3>4, <4>1
    <3> QED BY <3>2, <3>3, <3>4
  <2> QED BY <2>1, <2>2
<1> HIDE DEF T
<1>18. D \subseteq T
  <2>1. Passes(T, D, rank2, m)
    BY <1>7, <1>17 DEF Passes
  <2> QED BY <2>1, InductionByRank, Zenon
<1>19. list \in T
  BY <1>18 DEF D
<1> QED
  BY <1>1, <1>19 DEF T, D, Kept
(* A new cell is put behind the last.                                      *)
Linked(h, type, elem, e) ==
  [Append(h, [type |-> type, to |-> <<elem, NULL>>]) EXCEPT ![e].to[2] = Len(h) + 1]

MayLink(h, type, elem, e) ==
  /\ Nodes(h) /\ elem \in 0 .. Len(h) /\ e \in Cells(h) /\ h[e].to[2] = NULL
  /\ h[e].type # "expr_list" => type # "expr_list"

LEMMA LinkedIs ==
  ASSUME NEW h, NEW type \in ListType, NEW elem, NEW e, MayLink(h, type, elem, e)
  PROVE  LET h2 == Linked(h, type, elem, e)
             n == Len(h)
         IN  /\ n \in Nat /\ e \in 1 .. n /\ Nodes(h2) /\ Grows(h, h2) /\ Len(h2) = n + 1
             /\ \A q \in 1 .. n : h2[q].type = h[q].type
             /\ \A q \in 1 .. n : q # e => Kids(h2, q) = Kids(h, q)
             /\ Kids(h2, e) = Kids(h, e) \cup {n + 1} /\ Kids(h2, n + 1) = {elem} \ {NULL}
             /\ \A q \in 1 .. n : q # e => Cut(h2, q) = Cut(h, q) /\ Owns(h2, q) = Owns(h, q)
             /\ ~Cut(h2, n + 1) /\ Owns(h2, n + 1) = {elem} \ {NULL}
             /\ h2[e].to[2] = n + 1 /\ {h2[e].to[1]} \ {NULL} = Kids(h, e)
             /\ h2[n + 1].type = type
<1> DEFINE n == Len(h)
           node == [type |-> type, to |-> <<elem, NULL>>]
           h1 == Append(h, node)
           h2 == [h1 EXCEPT ![e].to[2] = n + 1]
<1>1. Nodes(h) /\ n \in Nat
  BY DEF MayLink, Nodes
<1> n \in Nat
  BY <1>1
<1>a. \A q \in Cells(h) : q \in 1 .. n /\ q # NULL
  <2>1. DOMAIN h = 1 .. n
    BY <1>1 DEF Nodes
  <2> QED BY <2>1 DEF Cells, NULL
<1>0. elem \in 0 .. n
  BY DEF MayLink
<1> HIDE DEF n
<1>6. e \in Cells(h) /\ e \in 1 .. n /\ h[e].to[2] = NULL
  BY <1>a DEF MayLink
<1>b. h[e].type # "expr_list" => type # "expr_list"
  BY DEF MayLink
<1>8. /\ h[e] \in AnyNode /\ h[e].type \in NodeType /\ h[e].to \in Seq(Nat) /\ Len(h[e].to) = 2
      /\ h[e].type \in ListType
  <2>1. h[e] \in AnyNode
    BY <1>1, <1>6 DEF Nodes, n
  <2> QED BY <1>1, <1>6, <2>1 DEF Nodes, AnyNode, Cells
<1>9. /\ node \in AnyNode /\ elem \in 0 .. n /\ elem \in Nat
      /\ Range(node.to) = {elem, NULL} /\ node.to[2] = NULL /\ Len(node.to) = 2
      /\ node.type = type
  <2>1. elem \in 0 .. n /\ elem \in Nat
    BY <1>0
  <2>2. Range(node.to) = {elem, NULL}
    BY DEF Range
  <2>3. type \in NodeType
    BY DEF NodeType
  <2> QED BY <2>1, <2>2, <2>3 DEF AnyNode, NULL
<1> HIDE DEF node
<1>10. /\ h1 \in Seq(AnyNode) /\ Len(h1) = n + 1 /\ h1[n + 1] = node
       /\ \A q \in 1 .. n : h1[q] = h[q]
  BY <1>1, <1>9 DEF Nodes, n
<1> HIDE DEF h1
<1> DEFINE x == [h[e] EXCEPT !.to = [h[e].to EXCEPT ![2] = n + 1]]
<1>11. /\ x \in AnyNode /\ x.type = h[e].type /\ Len(x.to) = 2 /\ x.to[2] = n + 1
       /\ x.to[1] = h[e].to[1] /\ Range(x.to) \ {NULL} = Kids(h, e) \cup {n + 1}
  <2> DEFINE y == [h[e].to EXCEPT ![2] = n + 1]
  <2>1. y \in Seq(Nat) /\ Len(y) = 2 /\ y[2] = n + 1 /\ y[1] = h[e].to[1]
    <3>1. PICK s \in Seq(Nat) : s = h[e].to /\ Len(s) = 2
      BY <1>8
    <3>2. n + 1 \in Nat /\ 2 \in 1 .. Len(s)
      BY <3>1
    <3>3. PICK k \in Nat : k = n + 1
      BY <3>2
    <3>4. PICK z : z = [s EXCEPT ![2] = k]
      OBVIOUS
    <3>5. z \in Seq(Nat) /\ Len(z) = 2 /\ z[2] = k /\ z[1] = s[1]
      BY <3>1, <3>2, <3>4, ExceptSeq
    <3> QED BY <3>1, <3>3, <3>4, <3>5
  <2>2. Range(y) = {y[1], y[2]} /\ Range(h[e].to) = {h[e].to[1], h[e].to[2]}
    BY <1>8, <2>1 DEF Range
  <2> HIDE DEF y
  <2>3. PICK r \in AnyNode : r = h[e]
    BY <1>8
  <2>4. x.to = y /\ x.type = h[e].type /\ x \in AnyNode
    <3>1. x = [r EXCEPT !.to = y]
      BY <2>3 DEF y
    <3> QED BY <2>1, <2>3, <3>1 DEF AnyNode
  <2> HIDE DEF x
  <2>5. Range(x.to) \ {NULL} = Kids(h, e) \cup {n + 1}
    BY <1>6, <2>1, <2>2, <2>4 DEF Kids, NULL
  <2> QED BY <2>1, <2>4, <2>5
<1> HIDE DEF x
<1>12. /\ h2 \in Seq(AnyNode) /\ Len(h2) = n + 1 /\ h2[n + 1] = node /\ h2[e] = x
       /\ \A q \in 1 .. n : q # e => h2[q] = h[q]
  <2>1. h1[e] = h[e] /\ e \in 1 .. Len(h1) /\ e # n + 1
    BY <1>6, <1>10
  <2>2. h2 = [h1 EXCEPT ![e] = x]
    BY <2>1 DEF x
  <2> HIDE DEF h2
  <2>3. /\ h2 \in Seq(AnyNode) /\ Len(h2) = n + 1 /\ h2[e] = x
        /\ \A q \in 1 .. n + 1 : q # e => h2[q] = h1[q]
    BY <1>10, <1>11, <2>1, <2>2, ExceptSeq
  <2> QED BY <1>10, <2>1, <2>3
<1> HIDE DEF h2
<1>13. /\ \A q \in 1 .. n : h2[q].type = h[q].type
       /\ \A q \in 1 .. n : q # e => Kids(h2, q) = Kids(h, q)
       /\ Kids(h2, e) = Kids(h, e) \cup {n + 1} /\ Kids(h2, n + 1) = {elem} \ {NULL}
  BY <1>9, <1>11, <1>12 DEF Kids
<1>14. /\ \A q \in 1 .. n : q \in Cells(h) <=> q \in Cells(h2)
       /\ n + 1 \in Cells(h2) /\ Cells(h2) \subseteq 1 .. n + 1
  <2>1. DOMAIN h = 1 .. n /\ DOMAIN h2 = 1 .. n + 1
    BY <1>1, <1>12 DEF Nodes, n
  <2> QED BY <1>9, <1>12, <1>13, <2>1 DEF Cells
<1>15. Nodes(h2) /\ Grows(h, h2)
  <2>1. ASSUME NEW q \in 1 .. n + 1
        PROVE  Kids(h2, q) \subseteq 1 .. n + 1
    <3>1. q \in 1 .. n => Kids(h, q) \subseteq 1 .. n
      BY <1>1 DEF Nodes, n
    <3> QED BY <1>9, <1>13, <3>1 DEF NULL
  <2>2. ASSUME NEW q \in Cells(h2)
        PROVE  /\ Len(h2[q].to) = 2
               /\ h2[q].to[2] = NULL \/ h2[q].to[2] \in Cells(h2)
               /\ h2[q].type # "expr_list" /\ h2[q].to[2] # NULL
                    => h2[h2[q].to[2]].type # "expr_list"
    <3>1. CASE q = n + 1
      BY <1>9, <1>12, <3>1
    <3>2. CASE q = e
      BY <1>b, <1>9, <1>11, <1>12, <1>14, <3>2
    <3>3. CASE q # e /\ q # n + 1
      <4>1. q \in Cells(h) /\ q \in 1 .. n /\ h2[q] = h[q]
        BY <1>12, <1>14, <3>3
      <4>2. /\ Len(h[q].to) = 2
            /\ h[q].to[2] = NULL \/ h[q].to[2] \in Cells(h)
            /\ h[q].type # "expr_list" /\ h[q].to[2] # NULL => h[h[q].to[2]].type # "expr_list"
        BY <1>1, <4>1 DEF Nodes
      <4> QED BY <1>13, <1>14, <1>a, <4>1, <4>2
    <3> QED BY <3>1, <3>2, <3>3
  <2> QED BY <1>12, <1>13, <2>1, <2>2 DEF Nodes, Grows, n
<1>16. /\ \A q \in 1 .. n : q # e => Cut(h2, q) = Cut(h, q) /\ Owns(h2, q) = Owns(h, q)
       /\ ~Cut(h2, n + 1) /\ Owns(h2, n + 1) = {elem} \ {NULL}
  BY <1>1, <1>9, <1>12, <1>13 DEF Cut, Owns
<1>18. h2[n + 1].type = type
  BY <1>9, <1>12
<1>17. h2[e].to[2] = n + 1 /\ {h2[e].to[1]} \ {NULL} = Kids(h, e)
  <2>1. Range(h[e].to) = {h[e].to[1], h[e].to[2]}
    BY <1>8 DEF Range
  <2> QED BY <1>6, <1>11, <1>12, <2>1 DEF Kids
<1> QED
  BY <1>1, <1>6, <1>12, <1>13, <1>15, <1>16, <1>17, <1>18 DEF Linked, h2, h1, node, n

(* What was in slots i and j, the list's and the element's, is in i.       *)
Joins(h, hold, i, list, j, elem, K) ==
  /\ i \in Nat \ {0} /\ j \in Nat \ {0} /\ j # i /\ K = {i, j}
  /\ list = hold[i] /\ list \in Cells(h) /\ elem = hold[j]

Joining(h, hold, f, rep, i, list, j, elem, K, par, own, rank, m) ==
  /\ Pool(h, hold, f, rep) /\ Joins(h, hold, i, list, j, elem, K)
  /\ Rooted(h, hold, f, rep, par) /\ Ranked(h, hold, own, rank, m)

LEMMA JoinsIs ==
  ASSUME NEW h, NEW hold, NEW f, NEW rep, NEW i, NEW list, NEW j, NEW elem, NEW K, NEW par,
         NEW own, NEW rank, NEW m, Joining(h, hold, f, rep, i, list, j, elem, K, par, own, rank, m)
  PROVE  LET n == Len(h)
         IN  /\ n \in Nat /\ Nodes(h) /\ f \subseteq 1 .. n /\ f \subseteq 1 .. n + 1
             /\ rep \in BOOLEAN /\ hold \in [Nat -> 0 .. n] /\ hold[0] = NULL
             /\ list # NULL /\ list \in 1 .. n /\ par[list] = -i /\ own[list] = i
             /\ list \notin f /\ ~Cut(h, list)
             /\ elem \in 0 .. n
             /\ elem # NULL => elem \in 1 .. n /\ par[elem] = -j /\ own[elem] = j
<1> DEFINE n == Len(h)
<1>1. /\ Nodes(h) /\ f \subseteq 1 .. n /\ rep \in BOOLEAN
      /\ hold \in [Nat -> 0 .. n] /\ hold[0] = NULL
  BY DEF Joining, Pool
<1> n \in Nat
  BY <1>1 DEF Nodes
<1>2. \A q \in Cells(h) : q \in 1 .. n /\ q # NULL
  <2>1. DOMAIN h = 1 .. n
    BY <1>1 DEF Nodes
  <2> QED BY <2>1 DEF Cells, NULL
<1> HIDE DEF n
<1>3. i \in Nat /\ i # 0 /\ j \in Nat /\ j # 0 /\ j # i
  BY DEF Joining, Joins
<1>4. Rooted(h, hold, f, rep, par) /\ Ranked(h, hold, own, rank, m)
  BY DEF Joining
<1>5. /\ list \in 0 .. n /\ list = hold[i] /\ elem \in 0 .. n /\ elem = hold[j]
      /\ list \in Cells(h)
  BY <1>1, <1>3 DEF Joining, Joins
<1>6. list # NULL /\ list \in 1 .. n /\ par[list] = -i /\ own[list] = i /\ list \notin f
  <2>1. list # NULL /\ list \in 1 .. n
    BY <1>2, <1>5
  <2>2. par[list] = -i /\ own[list] = i
    BY <1>3, <1>4, <1>5, <2>1 DEF Rooted, Ranked
  <2>3. list \notin f
    BY <1>3, <1>4, <2>2 DEF Rooted
  <2> QED BY <2>1, <2>2, <2>3
<1>7. ~Cut(h, list)
  BY <1>3, <1>4, <1>6 DEF Rooted, n
<1>8. elem # NULL => elem \in 1 .. n /\ par[elem] = -j /\ own[elem] = j
  <2>1. elem # NULL => par[elem] = -j /\ own[elem] = j
    BY <1>3, <1>4, <1>5 DEF Rooted, Ranked
  <2> QED BY <1>5, <2>1 DEF NULL
<1>9. f \subseteq 1 .. n + 1
  BY <1>1
<1> QED
  BY <1>1, <1>5, <1>6, <1>7, <1>8, <1>9 DEF n

Joined(h, hold, f, rep, i, list, j, elem, K, v, hold2) ==
  /\ Pool(h, hold, f, rep) /\ Joins(h, hold, i, list, j, elem, K)
  /\ v \in 0 .. Len(h) + 1 /\ hold2 = Taken(hold, K, i, v)

LEMMA JoinedIs ==
  ASSUME NEW h, NEW hold, NEW f, NEW rep, NEW i, NEW list, NEW j, NEW elem, NEW K, NEW v,
         NEW hold2, Joined(h, hold, f, rep, i, list, j, elem, K, v, hold2)
  PROVE  /\ hold2 \in [Nat -> 0 .. Len(h) + 1] /\ hold2[0] = NULL
         /\ \A k \in Nat : hold2[k] = IF k = i THEN v ELSE IF k = j THEN NULL ELSE hold[k]
<1>1. PICK n \in Nat : n = Len(h)
  BY DEF Joined, Pool, Nodes
<1>2. hold \in [Nat -> 0 .. n] /\ hold[0] = NULL /\ v \in 0 .. n + 1
  BY <1>1 DEF Joined, Pool
<1>3. i \in Nat /\ i # 0 /\ j \in Nat /\ j # 0 /\ j # i /\ K = {i, j}
  BY DEF Joined, Joins
<1>4. MayTake(n, hold, n + 1, i, v)
  <2>1. n \in Nat /\ n + 1 \in Nat /\ n <= n + 1
    BY <1>1
  <2>2. i \in Nat /\ (i = 0 => v = NULL)
    BY <1>3
  <2> QED BY <1>2, <2>1, <2>2 DEF MayTake
<1>5. /\ hold2 \in [Nat -> 0 .. n + 1] /\ hold2[0] = NULL
      /\ \A k \in Nat : hold2[k] = IF k = i THEN v ELSE IF k \in K THEN NULL ELSE hold[k]
  <2>1. hold2 = Taken(hold, K, i, v)
    BY DEF Joined
  <2>2. /\ Taken(hold, K, i, v) \in [Nat -> 0 .. n + 1] /\ Taken(hold, K, i, v)[0] = NULL
        /\ \A k \in Nat : Taken(hold, K, i, v)[k] =
                            IF k = i THEN v ELSE IF k \in K THEN NULL ELSE hold[k]
    BY <1>4, TakenIs
  <2> QED BY <2>1, <2>2
<1> QED
  BY <1>1, <1>3, <1>5

Linking(h, type, own, i, list, elem, e, v) ==
  /\ type \in ListType /\ MayLink(h, type, elem, e)
  /\ own[e] = i /\ v \in {list, Len(h) + 1}

LEMMA LinkRanks ==
  ASSUME NEW h, NEW hold, NEW f, NEW rep, NEW type,
         NEW i, NEW list, NEW j, NEW elem, NEW K,
         NEW par, NEW own, NEW rank, NEW m,
         Joining(h, hold, f, rep, i, list, j, elem, K, par, own, rank, m),
         NEW e, NEW v, Linking(h, type, own, i, list, elem, e, v)
  PROVE  \E own2, rank2, m2 :
           Ranked(Linked(h, type, elem, e), Taken(hold, K, i, v), own2, rank2, m2)
<1> DEFINE n == Len(h)
           hold2 == Taken(hold, K, i, v)
           h2 == Linked(h, type, elem, e)
<1>a. Joining(h, hold, f, rep, i, list, j, elem, K, par, own, rank, m)
  OBVIOUS
<1>0. n \in Nat /\ list \in 1 .. n /\ elem \in 0 .. n
  BY <1>a, JoinsIs
<1>b. v \in 0 .. n + 1
  BY <1>0 DEF Linking
<1>d. type \in ListType /\ MayLink(h, type, elem, e)
  BY DEF Linking
<1>c. Pool(h, hold, f, rep) /\ Joins(h, hold, i, list, j, elem, K)
  BY DEF Joining
<1>1. /\ Nodes(h) /\ hold \in [Nat -> 0 .. n] /\ own[list] = i
      /\ elem # NULL => elem \in 1 .. n /\ own[elem] = j
  BY <1>a, JoinsIs
<1>2. \A k \in Nat : hold2[k] = IF k = i THEN v ELSE IF k = j THEN NULL ELSE hold[k]
  <2>1. hold2 = Taken(hold, K, i, v)
    OBVIOUS
  <2> HIDE DEF hold2
  <2>2. Joined(h, hold, f, rep, i, list, j, elem, K, v, hold2)
    BY <1>b, <1>c, <2>1 DEF Joined
  <2> QED BY <2>2, JoinedIs
<1> i \in Nat /\ i # 0 /\ j \in Nat /\ j # 0 /\ j # i
  BY DEF Joining, Joins
<1>5. own \in [1 .. n -> Nat] /\ Ranked(h, hold, own, rank, m) /\ own[e] = i
  BY DEF Joining, Linking, Ranked
<1>7. n \in Nat /\ hold \in [Nat -> 0 .. n]
  BY <1>0, <1>1
<1>6. v = list \/ v = n + 1
  BY DEF Linking
<1> n \in Nat
  BY <1>0
<1>3. /\ e \in 1 .. n /\ Len(h2) = n + 1
      /\ \A q \in 1 .. n : q # e => Kids(h2, q) = Kids(h, q)
      /\ Kids(h2, e) = Kids(h, e) \cup {n + 1} /\ Kids(h2, n + 1) = {elem} \ {NULL}
  BY <1>d, LinkedIs
<1> HIDE DEF hold2, h2, n
<1>4. \E own2, rank2, m2 : Ranked(h2, hold2, own2, rank2, m2)
  <2> DEFINE own2 == [p \in 1 .. n + 1 |-> IF p = n + 1 \/ own[p] = j THEN i ELSE own[p]]
             rank2 == [p \in 1 .. n + 1 |-> IF p = n + 1 THEN m + 1
                                            ELSE IF own[p] = i THEN rank[p] + m + 2 ELSE rank[p]]
  <2>1. m \in Nat /\ \A p \in 1 .. n : own[p] \in Nat /\ rank[p] \in 0 .. m
    BY <1>5 DEF Ranked, n
  <2>2. /\ own2 \in [1 .. n + 1 -> Nat] /\ rank2 \in [1 .. n + 1 -> 0 .. 2 * m + 2]
        /\ own2[n + 1] = i /\ rank2[n + 1] = m + 1
        /\ \A p \in 1 .. n :
             /\ own2[p] = IF own[p] = j THEN i ELSE own[p]
             /\ rank2[p] = IF own[p] = i THEN rank[p] + m + 2 ELSE rank[p]
    BY <2>1
  <2>6. /\ own2[n + 1] = i /\ rank2[n + 1] = m + 1
        /\ \A p \in 1 .. n :
             /\ own2[p] = IF own[p] = j THEN i ELSE own[p]
             /\ rank2[p] = IF own[p] = i THEN rank[p] + m + 2 ELSE rank[p]
    BY <2>2
  <2> HIDE DEF own2, rank2
  <2>3. ASSUME NEW k \in Nat, hold2[k] # NULL
        PROVE  own2[hold2[k]] = k
    <3>1. CASE k = i
      BY <1>0, <1>1, <1>2, <1>6, <2>6, <3>1
    <3>2. CASE k # i
      <4>1. k # j /\ hold2[k] = hold[k] /\ hold[k] # NULL /\ hold[k] \in 1 .. n
        BY <1>2, <1>7, <2>3, <3>2 DEF NULL
      <4>2. own[hold[k]] = k
        BY <1>5, <4>1 DEF Ranked
      <4> QED BY <2>6, <4>1, <4>2
    <3> QED BY <3>1, <3>2
  <2>4. ASSUME NEW q \in 1 .. n + 1, NEW c \in Kids(h2, q)
        PROVE  own2[c] = own2[q] /\ rank2[c] < rank2[q]
    <3>1. CASE q = n + 1
      <4>1. c = elem /\ elem \in 1 .. n /\ own[elem] = j
        BY <1>3, <1>1, <2>4, <3>1
      <4> QED BY <2>1, <2>6, <3>1, <4>1
    <3>2. CASE q = e /\ c = n + 1
      <4>1. own2[e] = i /\ rank2[e] = rank[e] + m + 2 /\ rank[e] \in 0 .. m
        BY <1>3, <1>5, <2>1, <2>6
      <4> QED BY <2>1, <2>6, <3>2, <4>1
    <3>3. CASE q # n + 1 /\ ~(q = e /\ c = n + 1)
      <4>1. q \in 1 .. n /\ c \in Kids(h, q)
        BY <1>3, <2>4, <3>3
      <4>2. c \in 1 .. n /\ own[c] = own[q] /\ rank[c] < rank[q]
        BY <1>1, <1>5, <4>1 DEF Nodes, Ranked, n
      <4>3. own2[c] = own2[q] /\ rank[c] \in 0 .. m /\ rank[q] \in 0 .. m
        <5>1. /\ own2[c] = IF own[c] = j THEN i ELSE own[c]
              /\ own2[q] = IF own[q] = j THEN i ELSE own[q]
          BY <2>6, <4>1, <4>2
        <5>2. rank[c] \in 0 .. m /\ rank[q] \in 0 .. m
          BY <2>1, <4>1, <4>2
        <5> QED BY <4>2, <5>1, <5>2
      <4>4. CASE own[q] = i
        <5>1. rank2[c] = rank[c] + m + 2 /\ rank2[q] = rank[q] + m + 2
          BY <2>6, <4>1, <4>2, <4>4
        <5> QED BY <2>1, <4>2, <4>3, <5>1
      <4>5. CASE own[q] # i
        <5>1. rank2[c] = rank[c] /\ rank2[q] = rank[q]
          BY <2>6, <4>1, <4>2, <4>5
        <5> QED BY <4>2, <4>3, <5>1
      <4> QED BY <4>4, <4>5
    <3> QED BY <3>1, <3>2, <3>3
  <2>5. Ranked(h2, hold2, own2, rank2, 2 * m + 2)
    BY <1>3, <2>1, <2>2, <2>3, <2>4 DEF Ranked
  <2> QED BY <2>5
<1> QED
  BY <1>4 DEF h2, hold2

MayAppend(h, type, list) ==
  type \in ListType \ {"expr_list"} /\ h[list].type # "expr_list"

LEMMA Appends ==
  ASSUME NEW h, NEW hold, NEW f, NEW rep, Pool(h, hold, f, rep),
         NEW type, NEW i, NEW list, NEW j, NEW elem, NEW K,
         Joins(h, hold, i, list, j, elem, K), MayAppend(h, type, list)
  PROVE  LET h2 == append(h, type, list, elem).heap
         IN  /\ append(h, type, list, elem).val = list
             /\ Pool(h2, Taken(hold, K, i, list), f, rep) /\ Grows(h, h2)
<1> DEFINE n == Len(h)
           hold2 == Taken(hold, K, i, list)
           e == LastCell(h, list)
           h2 == Linked(h, type, elem, e)
<1>3. PICK par : Rooted(h, hold, f, rep, par)
  BY DEF Pool
<1>4. PICK own, rank, m : Ranked(h, hold, own, rank, m)
  BY DEF Pool
<1>0. list \in Cells(h) /\ list = hold[i] /\ elem = hold[j]
  BY DEF Joins
<1>a. Joining(h, hold, f, rep, i, list, j, elem, K, par, own, rank, m)
  BY <1>3, <1>4 DEF Joining
<1>11. /\ Nodes(h) /\ f \subseteq 1 .. n /\ f \subseteq 1 .. n + 1 /\ rep \in BOOLEAN
       /\ \A k \in Nat : hold[k] \in 0 .. n
  BY <1>a, JoinsIs
<1>1. /\ par[list] = -i /\ own[list] = i /\ elem \in 0 .. n
      /\ elem # NULL => elem \in 1 .. n /\ par[elem] = -j
      /\ list # NULL
  BY <1>a, JoinsIs
<1>5. n \in Nat /\ list \in 1 .. n /\ list \notin f
  BY <1>a, JoinsIs
<1>2. /\ hold2 \in [Nat -> 0 .. n + 1] /\ hold2[0] = NULL
      /\ \A k \in Nat : hold2[k] = IF k = i THEN list ELSE IF k = j THEN NULL ELSE hold[k]
  <2>1. list \in 0 .. n + 1
    BY <1>5
  <2>2. hold2 = Taken(hold, K, i, list)
    OBVIOUS
  <2> HIDE DEF hold2
  <2>3. Joined(h, hold, f, rep, i, list, j, elem, K, list, hold2)
    BY <2>1, <2>2 DEF Joined
  <2>4. \A k \in Nat : hold2[k] = IF k = i THEN list ELSE IF k = j THEN NULL ELSE hold[k]
    BY <2>3, JoinedIs
  <2>5. hold2 \in [Nat -> 0 .. n + 1] /\ hold2[0] = NULL
    BY <2>3, JoinedIs
  <2> QED BY <2>4, <2>5
<1>6. /\ e \in Cells(h) /\ e \notin f /\ h[e].to[2] = NULL /\ own[e] = i
      /\ h[e].type # "expr_list"
  <2>1. /\ e \in Cells(h) /\ e \notin f /\ h[e].to[2] = NULL /\ h[e].type # "expr_list"
        /\ own[e] = own[list]
    BY <1>0, <1>4, <1>5, LastIs DEF MayAppend
  <2> QED BY <1>1, <2>1
<1> n \in Nat
  BY <1>5
<1> i \in Nat /\ i # 0 /\ j \in Nat /\ j # 0 /\ j # i
  BY DEF Joins
<1>7. append(h, type, list, elem).heap = h2 /\ append(h, type, list, elem).val = list
  <2> DEFINE h1 == Append(h, [type |-> type, to |-> <<elem, NULL>>])
             cell == [heap |-> h1, val |-> n + 1]
             grown == [cell EXCEPT !.heap[e].to[2] = cell.val, !.val = list]
  <2>1. append(h, type, list, elem) = grown
    BY <1>1 DEF append, Made
  <2>2. grown.heap = h2 /\ grown.val = list
    BY DEF Linked
  <2> QED BY <2>1, <2>2
<1> HIDE DEF e
<1>c. type \in ListType /\ MayLink(h, type, elem, e)
  BY <1>1, <1>6, <1>11 DEF MayLink, MayAppend
<1>d. Linking(h, type, own, i, list, elem, e, list)
  BY <1>6, <1>c DEF Linking
<1>18. \E own2, rank2, m2 : Ranked(h2, hold2, own2, rank2, m2)
  BY <1>a, <1>d, LinkRanks
<1>8. /\ e \in 1 .. n /\ Nodes(h2) /\ Grows(h, h2) /\ Len(h2) = n + 1
      /\ \A q \in 1 .. n : h2[q].type = h[q].type
      /\ \A q \in 1 .. n : q # e => Cut(h2, q) = Cut(h, q) /\ Owns(h2, q) = Owns(h, q)
      /\ ~Cut(h2, n + 1) /\ Owns(h2, n + 1) = {elem} \ {NULL}
      /\ Kids(h2, e) = Kids(h, e) \cup {n + 1}
  BY <1>c, LinkedIs
<1> HIDE DEF hold2, h2, n
<1>9. ~Cut(h, e) /\ ~Cut(h2, e) /\ Owns(h2, e) = Owns(h, e) \cup {n + 1}
  BY <1>6, <1>8 DEF Cut, Owns
<1>10. e \in 1 .. n /\ e > 0
  BY <1>5, <1>8
<1>12. \A k \in Nat : hold2[k] = IF k = i THEN list ELSE IF k = j THEN NULL ELSE hold[k]
  BY <1>2
<1>13. /\ \A q \in 1 .. n : q # e => Owns(h2, q) = Owns(h, q)
       /\ \A q \in 1 .. n + 1 : Cut(h2, q) => q \in 1 .. n /\ Cut(h, q)
       /\ \A q \in 1 .. n : Cut(h, q) => Cut(h2, q)
       /\ \A q \in 1 .. n : h2[q].type = h[q].type
  <2>1. ASSUME NEW q \in 1 .. n + 1, Cut(h2, q)
        PROVE  q \in 1 .. n /\ Cut(h, q)
    <3>1. q \in 1 .. n
      BY <1>5, <1>8, <2>1
    <3> QED BY <1>8, <1>9, <2>1, <3>1
  <2> QED BY <1>8, <1>9, <2>1
<1>17. \E par2 : Rooted(h2, hold2, f, rep, par2)
  <2> DEFINE par2 == [p \in 1 .. n + 1 |-> IF p = n + 1 THEN e
                                           ELSE IF par[p] = -j THEN n + 1 ELSE par[p]]
  <2>1. \A p \in 1 .. n : par[p] \in Int
    BY <1>3 DEF Rooted, n
  <2>2. /\ par2 \in [1 .. n + 1 -> Int] /\ par2[n + 1] = e
        /\ \A p \in 1 .. n : par2[p] = IF par[p] = -j THEN n + 1 ELSE par[p]
    BY <1>8, <2>1
  <2>11. /\ par2[n + 1] = e
         /\ \A p \in 1 .. n : par2[p] = IF par[p] = -j THEN n + 1 ELSE par[p]
    BY <2>2
  <2> HIDE DEF par2
  <2>3. ASSUME NEW k \in Nat, hold2[k] # NULL
        PROVE  par2[hold2[k]] = -k
    <3>1. CASE k = i
      <4>1. -i # -j
        OBVIOUS
      <4> QED BY <1>1, <1>12, <1>5, <2>11, <3>1, <4>1
    <3>2. CASE k # i
      <4>1. k # j /\ hold2[k] = hold[k] /\ hold[k] # NULL /\ hold[k] \in 1 .. n
        BY <1>12, <1>11, <2>3, <3>2 DEF NULL
      <4>2. par[hold[k]] = -k
        BY <1>3, <4>1 DEF Rooted
      <4> QED BY <2>11, <4>1, <4>2
    <3> QED BY <3>1, <3>2
  <2>4. ASSUME NEW q \in (1 .. n + 1) \ f, NEW c \in Owns(h2, q)
        PROVE  par2[c] = q
    <3>1. CASE q = n + 1
      BY <1>1, <1>8, <2>11, <2>4, <3>1
    <3>2. CASE q = e /\ c = n + 1
      BY <2>11, <3>2
    <3>3. CASE q # n + 1 /\ ~(q = e /\ c = n + 1)
      <4>1. q \in 1 .. n /\ c \in Owns(h, q)
        BY <1>5, <1>8, <1>9, <2>4, <3>3
      <4>2. c \in 1 .. n /\ par[c] = q
        BY <1>11, <1>3, <2>4, <4>1, OwnsIs DEF Rooted, n
      <4> QED BY <2>11, <4>1, <4>2
    <3> QED BY <3>1, <3>2, <3>3
  <2>5. ASSUME NEW p \in 1 .. n + 1, par2[p] < 0
        PROVE  hold2[-par2[p]] = p
    <3>0. p # n + 1 /\ p \in 1 .. n
      BY <1>10, <2>11, <2>5
    <3>4. par[p] \in Int /\ par[p] # -j /\ par2[p] = par[p] /\ par[p] < 0
      BY <2>1, <2>11, <2>5, <3>0
    <3>1. -par[p] # j /\ -par[p] \in Nat
      BY <3>4
    <3>2. hold[-par[p]] = p
      BY <1>3, <3>0, <3>4 DEF Rooted, n
    <3>3. -par[p] = i => p = list
      BY <1>0, <3>2
    <3> QED BY <1>12, <3>1, <3>2, <3>3, <3>4
  <2>6. ASSUME NEW p \in 1 .. n + 1, par2[p] > 0
        PROVE  par2[p] \in (1 .. n + 1) \ f /\ p \in Owns(h2, par2[p])
    <3>1. CASE p = n + 1
      BY <1>5, <1>6, <1>8, <1>9, <2>11, <3>1
    <3>2. CASE p # n + 1 /\ par[p] = -j
      <4>1. p \in 1 .. n /\ -par[p] = j /\ par2[p] = n + 1 /\ par[p] < 0
        BY <2>11, <3>2
      <4>2. p = elem /\ elem # NULL
        <5>1. hold[-par[p]] = p
          BY <1>3, <4>1 DEF Rooted, n
        <5> QED BY <1>0, <4>1, <5>1 DEF NULL
      <4>3. n + 1 \notin f
        BY <1>5, <1>11
      <4>4. n + 1 \in 1 .. n + 1
        BY <1>5
      <4> QED BY <1>8, <4>1, <4>2, <4>3, <4>4
    <3>3. CASE p # n + 1 /\ par[p] # -j
      <4>1. p \in 1 .. n /\ par2[p] = par[p]
        BY <2>11, <3>3
      <4>2. par[p] \in (1 .. n) \ f /\ p \in Owns(h, par[p])
        BY <1>3, <2>6, <4>1 DEF Rooted, n
      <4>3. p \in Owns(h2, par[p])
        BY <1>8, <1>9, <4>2
      <4> QED BY <4>1, <4>2, <4>3
    <3> QED BY <3>1, <3>2, <3>3
  <2>7. ASSUME NEW p \in 1 .. n + 1, par2[p] = 0
        PROVE  p \in f \/ (rep /\ h2[p].type = "string") \/ Cut(h2, p)
    <3>1. p \in 1 .. n /\ par[p] = 0
      BY <1>8, <2>1, <2>11, <2>7
    <3> QED BY <1>3, <1>13, <3>1 DEF Rooted, n
  <2>8. \A p \in f : par2[p] = 0
    <3>1. \A p \in f : p \in 1 .. n /\ par[p] = 0
      BY <1>3, <1>11 DEF Rooted, n
    <3> QED BY <2>11, <3>1
  <2>10. ASSUME NEW p \in 1 .. n + 1, Cut(h2, p)
         PROVE  par2[p] = 0 /\ p \notin f
    <3>1. p \in 1 .. n /\ Cut(h, p)
      BY <1>13, <2>10
    <3>2. par[p] = 0 /\ p \notin f
      BY <1>3, <3>1 DEF Rooted, n
    <3> QED BY <2>11, <3>1, <3>2
  <2>9. Rooted(h2, hold2, f, rep, par2)
    BY <1>8, <2>2, <2>3, <2>4, <2>5, <2>6, <2>7, <2>8, <2>10 DEF Rooted
  <2> QED BY <2>9
<1>20. Pool(h2, hold2, f, rep)
  BY <1>2, <1>8, <1>11, <1>17, <1>18 DEF Pool
<1> QED
  BY <1>7, <1>8, <1>20 DEF hold2

(* An argument's cell goes behind the last and is handed on in its place.  *)
LEMMA Hands ==
  ASSUME NEW h, NEW hold, NEW f, NEW rep, Pool(h, hold, f, rep),
         NEW i, NEW list, NEW j, NEW elem, NEW K,
         Joins(h, hold, i, list, j, elem, K), h[list].type = "expr_list"
  PROVE  LET h2 == append_expr(h, list, elem).heap
         IN  /\ append_expr(h, list, elem).val = Len(h) + 1
             /\ Pool(h2, Taken(hold, K, i, Len(h) + 1), f, rep) /\ Grows(h, h2)
             /\ Len(h2) = Len(h) + 1 /\ h2[Len(h) + 1].type = "expr_list"
<1> DEFINE n == Len(h)
           hold2 == Taken(hold, K, i, n + 1)
           h2 == Linked(h, "expr_list", elem, list)
<1>3. PICK par : Rooted(h, hold, f, rep, par)
  BY DEF Pool
<1>4. PICK own, rank, m : Ranked(h, hold, own, rank, m)
  BY DEF Pool
<1>0. list \in Cells(h) /\ list = hold[i] /\ elem = hold[j]
  BY DEF Joins
<1>a. Joining(h, hold, f, rep, i, list, j, elem, K, par, own, rank, m)
  BY <1>3, <1>4 DEF Joining
<1>11. /\ Nodes(h) /\ f \subseteq 1 .. n /\ f \subseteq 1 .. n + 1 /\ rep \in BOOLEAN
       /\ \A k \in Nat : hold[k] \in 0 .. n
  <2>1. /\ Nodes(h) /\ f \subseteq 1 .. n /\ f \subseteq 1 .. n + 1 /\ rep \in BOOLEAN
        /\ hold \in [Nat -> 0 .. n]
    BY <1>a, JoinsIs
  <2> QED BY <2>1
<1>1. /\ par[list] = -i /\ own[list] = i /\ elem \in 0 .. n
      /\ elem # NULL => elem \in 1 .. n /\ par[elem] = -j
      /\ list # NULL
  BY <1>a, JoinsIs
<1>5. n \in Nat /\ list \in 1 .. n /\ list \notin f /\ ~Cut(h, list)
  BY <1>a, JoinsIs
<1> n \in Nat
  BY <1>5
<1>2. /\ hold2 \in [Nat -> 0 .. n + 1] /\ hold2[0] = NULL
      /\ \A k \in Nat : hold2[k] = IF k = i THEN n + 1 ELSE IF k = j THEN NULL ELSE hold[k]
  <2>1. n + 1 \in 0 .. n + 1
    BY <1>5
  <2>2. hold2 = Taken(hold, K, i, n + 1)
    OBVIOUS
  <2> HIDE DEF hold2
  <2>3. Joined(h, hold, f, rep, i, list, j, elem, K, n + 1, hold2)
    BY <2>1, <2>2 DEF Joined
  <2>4. \A k \in Nat : hold2[k] = IF k = i THEN n + 1 ELSE IF k = j THEN NULL ELSE hold[k]
    BY <2>3, JoinedIs
  <2>5. hold2 \in [Nat -> 0 .. n + 1] /\ hold2[0] = NULL
    BY <2>3, JoinedIs
  <2> QED BY <2>4, <2>5
<1>6. h[list].to[2] = NULL /\ LastCell(h, list) = list
  <2>1. h[list].to[2] = NULL
    BY <1>5 DEF Cut
  <2> QED BY <1>0, <2>1, LastCellIs
<1> i \in Nat /\ i # 0 /\ j \in Nat /\ j # 0 /\ j # i
  BY DEF Joins
<1>7. append_expr(h, list, elem).heap = h2 /\ append_expr(h, list, elem).val = n + 1
  <2> DEFINE h1 == Append(h, [type |-> "expr_list", to |-> <<elem, NULL>>])
             cell == [heap |-> h1, val |-> n + 1]
             grown == [cell EXCEPT !.heap[list].to[2] = cell.val, !.val = list]
  <2>1. append(h, "expr_list", list, elem) = grown
    BY <1>1, <1>6 DEF append, Made
  <2>2. grown.heap = h2
    BY DEF Linked
  <2>3. append_expr(h, list, elem) = [grown EXCEPT !.val = n + 1]
    BY <2>1 DEF append_expr
  <2> QED BY <2>2, <2>3
<1>c. "expr_list" \in ListType /\ MayLink(h, "expr_list", elem, list)
  BY <1>0, <1>1, <1>6, <1>11 DEF MayLink, ListType
<1>d. Linking(h, "expr_list", own, i, list, elem, list, n + 1)
  BY <1>1, <1>c DEF Linking
<1>18. \E own2, rank2, m2 : Ranked(h2, hold2, own2, rank2, m2)
  BY <1>a, <1>d, LinkRanks
<1>8. /\ Nodes(h2) /\ Grows(h, h2) /\ Len(h2) = n + 1
      /\ \A q \in 1 .. n : h2[q].type = h[q].type
      /\ \A q \in 1 .. n : q # list => Cut(h2, q) = Cut(h, q) /\ Owns(h2, q) = Owns(h, q)
      /\ ~Cut(h2, n + 1) /\ Owns(h2, n + 1) = {elem} \ {NULL}
      /\ h2[list].to[2] = n + 1 /\ {h2[list].to[1]} \ {NULL} = Kids(h, list)
      /\ h2[n + 1].type = "expr_list"
  BY <1>c, LinkedIs
<1> HIDE DEF hold2, h2, n
<1>9. Cut(h2, list) /\ Owns(h2, list) = Owns(h, list)
  <2>1. h2[list].type = "expr_list" /\ h2[list].to[2] # NULL
    BY <1>5, <1>8 DEF NULL
  <2> QED BY <1>5, <1>8, <2>1 DEF Cut, Owns
<1>12. \A k \in Nat : hold2[k] = IF k = i THEN n + 1 ELSE IF k = j THEN NULL ELSE hold[k]
  BY <1>2
<1>13. /\ \A q \in 1 .. n : Owns(h2, q) = Owns(h, q)
       /\ \A q \in 1 .. n + 1 : Cut(h2, q) => q \in 1 .. n /\ (q = list \/ Cut(h, q))
       /\ \A q \in 1 .. n : Cut(h, q) => Cut(h2, q)
       /\ \A q \in 1 .. n : h2[q].type = h[q].type
  <2>1. ASSUME NEW q \in 1 .. n + 1, Cut(h2, q)
        PROVE  q \in 1 .. n /\ (q = list \/ Cut(h, q))
    <3>1. q \in 1 .. n
      BY <1>5, <1>8, <2>1
    <3> QED BY <1>8, <1>9, <2>1, <3>1
  <2> QED BY <1>8, <1>9, <2>1
<1>17. \E par2 : Rooted(h2, hold2, f, rep, par2)
  <2> DEFINE par2 == [p \in 1 .. n + 1 |-> IF p = n + 1 THEN -i
                                           ELSE IF p = list THEN 0
                                           ELSE IF par[p] = -j THEN n + 1 ELSE par[p]]
  <2>1. \A p \in 1 .. n : par[p] \in Int
    BY <1>3 DEF Rooted, n
  <2>11. /\ par2[n + 1] = -i /\ par2[list] = 0
         /\ \A p \in 1 .. n : p # list => par2[p] = IF par[p] = -j THEN n + 1 ELSE par[p]
    BY <1>5, <1>8
  <2>2. par2 \in [1 .. n + 1 -> Int]
    BY <1>8, <2>1
  <2> HIDE DEF par2
  <2>3. ASSUME NEW k \in Nat, hold2[k] # NULL
        PROVE  par2[hold2[k]] = -k
    <3>1. CASE k = i
      BY <1>12, <2>11, <3>1
    <3>2. CASE k # i
      <4>1. k # j /\ hold2[k] = hold[k] /\ hold[k] # NULL /\ hold[k] \in 1 .. n
        BY <1>12, <1>11, <2>3, <3>2 DEF NULL
      <4>2. par[hold[k]] = -k
        BY <1>3, <4>1 DEF Rooted
      <4>3. hold[k] # list /\ -k # -j
        BY <1>1, <3>2, <4>1, <4>2
      <4> QED BY <2>11, <4>1, <4>2, <4>3
    <3> QED BY <3>1, <3>2
  <2>4. ASSUME NEW q \in (1 .. n + 1) \ f, NEW c \in Owns(h2, q)
        PROVE  par2[c] = q
    <3>1. CASE q = n + 1
      <4>1. c = elem /\ elem \in 1 .. n /\ par[elem] = -j
        BY <1>1, <1>8, <2>4, <3>1
      <4>2. elem # list
        BY <1>1, <4>1
      <4> QED BY <2>11, <3>1, <4>1, <4>2
    <3>2. CASE q # n + 1
      <4>1. q \in 1 .. n /\ c \in Owns(h, q)
        BY <1>5, <1>13, <2>4, <3>2
      <4>2. c \in 1 .. n /\ par[c] = q
        BY <1>11, <1>3, <2>4, <4>1, OwnsIs DEF Rooted, n
      <4>3. c # list /\ par[c] # -j
        BY <1>1, <4>1, <4>2
      <4> QED BY <2>11, <4>2, <4>3
    <3> QED BY <3>1, <3>2
  <2>5. ASSUME NEW p \in 1 .. n + 1, par2[p] < 0
        PROVE  hold2[-par2[p]] = p
    <3>1. CASE p = n + 1
      BY <1>12, <2>11, <3>1
    <3>2. CASE p # n + 1
      <4>1. p \in 1 .. n /\ p # list
        BY <2>11, <2>5, <3>2
      <4>2. par[p] \in Int /\ par[p] # -j /\ par2[p] = par[p] /\ par[p] < 0
        BY <1>5, <2>1, <2>11, <2>5, <4>1
      <4>3. -par[p] # j /\ -par[p] \in Nat
        BY <4>2
      <4>4. hold[-par[p]] = p
        BY <1>3, <4>1, <4>2 DEF Rooted, n
      <4>5. -par[p] # i
        BY <1>0, <4>1, <4>4
      <4> QED BY <1>12, <4>2, <4>3, <4>4, <4>5
    <3> QED BY <3>1, <3>2
  <2>6. ASSUME NEW p \in 1 .. n + 1, par2[p] > 0
        PROVE  par2[p] \in (1 .. n + 1) \ f /\ p \in Owns(h2, par2[p])
    <3>0. p \in 1 .. n /\ p # list
      BY <2>11, <2>6
    <3>2. CASE par[p] = -j
      <4>1. -par[p] = j /\ par2[p] = n + 1 /\ par[p] < 0
        BY <2>11, <3>0, <3>2
      <4>2. p = elem /\ elem # NULL
        <5>1. hold[-par[p]] = p
          BY <1>3, <3>0, <4>1 DEF Rooted, n
        <5> QED BY <1>0, <3>0, <4>1, <5>1 DEF NULL
      <4>3. n + 1 \notin f /\ n + 1 \in 1 .. n + 1
        BY <1>5, <1>11
      <4> QED BY <1>8, <4>1, <4>2, <4>3
    <3>3. CASE par[p] # -j
      <4>1. par2[p] = par[p]
        BY <2>11, <3>0, <3>3
      <4>2. par[p] \in (1 .. n) \ f /\ p \in Owns(h, par[p])
        BY <1>3, <2>6, <3>0, <4>1 DEF Rooted, n
      <4>3. p \in Owns(h2, par[p])
        BY <1>13, <4>2
      <4> QED BY <4>1, <4>2, <4>3
    <3> QED BY <3>2, <3>3
  <2>7. ASSUME NEW p \in 1 .. n + 1, par2[p] = 0
        PROVE  p \in f \/ (rep /\ h2[p].type = "string") \/ Cut(h2, p)
    <3>1. CASE p = list
      BY <1>9, <3>1
    <3>2. CASE p # list
      <4>1. p \in 1 .. n /\ par[p] = 0
        BY <1>5, <2>1, <2>11, <2>7, <3>2
      <4> QED BY <1>3, <1>13, <4>1 DEF Rooted, n
    <3> QED BY <3>1, <3>2
  <2>8. \A p \in f : par2[p] = 0
    <3>1. \A p \in f : p \in 1 .. n /\ par[p] = 0
      BY <1>3, <1>11 DEF Rooted, n
    <3> QED BY <2>11, <3>1
  <2>10. ASSUME NEW p \in 1 .. n + 1, Cut(h2, p)
         PROVE  par2[p] = 0 /\ p \notin f
    <3>1. CASE p = list
      BY <1>5, <2>11, <3>1
    <3>2. CASE p # list
      <4>1. p \in 1 .. n /\ Cut(h, p)
        BY <1>13, <2>10, <3>2
      <4>2. par[p] = 0 /\ p \notin f
        BY <1>3, <4>1 DEF Rooted, n
      <4> QED BY <2>11, <3>2, <4>1, <4>2
    <3> QED BY <3>1, <3>2
  <2>9. Rooted(h2, hold2, f, rep, par2)
    BY <1>8, <2>2, <2>3, <2>4, <2>5, <2>6, <2>7, <2>8, <2>10 DEF Rooted
  <2> QED BY <2>9
<1>20. Pool(h2, hold2, f, rep)
  BY <1>2, <1>8, <1>11, <1>17, <1>18 DEF Pool
<1> QED
  BY <1>7, <1>8, <1>20 DEF hold2, n
-----------------------------------------------------------------------------
(* The actions.  What is done takes over the slots K and is put into t.    *)

Done(h, hold, f, rep, K, t, done) ==
  /\ Pool(done.heap, Taken(hold, K, t, done.val), f, rep)
  /\ Grows(h, done.heap)

(* The pointers `to' are those in the slots sl.                            *)
Given(h, hold, f, rep, sl, K, t, to) ==
  /\ Pool(h, hold, f, rep) /\ sl \in Seq(Nat) /\ K = Range(sl) \cup {0}
  /\ to = [k \in 1 .. Len(sl) |-> hold[sl[k]]]
  /\ t \in Nat \ {0} /\ (hold[t] = NULL \/ t \in K)

LEMMA MadeFrom ==
  ASSUME NEW h, NEW hold, NEW f, NEW rep, NEW sl, NEW K, NEW t, NEW to,
         Given(h, hold, f, rep, sl, K, t, to), NEW type \in NodeType,
         type \in ListType => Len(to) = 2 /\ to[2] = NULL
  PROVE  /\ Done(h, hold, f, rep, K, t, Made(h, type, to))
         /\ Made(h, type, to).val = Len(h) + 1
         /\ Made(h, type, to).heap[Len(h) + 1].type = type
         /\ type \in ListType => Len(h) + 1 \in Cells(Made(h, type, to).heap)
<1> DEFINE n == Len(h)
           node == [type |-> type, to |-> to]
           h2 == Append(h, node)
<1>1. n \in Nat /\ h \in Seq(AnyNode) /\ hold \in [Nat -> 0 .. n]
  <2>1. Pool(h, hold, f, rep)
    BY DEF Given
  <2>2. h \in Seq(AnyNode) /\ hold \in [Nat -> 0 .. n]
    BY <2>1 DEF Pool, Nodes
  <2> QED BY <2>2, LenProperties
<1>2. /\ sl \in Seq(Nat) /\ K = Range(sl) \cup {0} /\ hold[0] = NULL
      /\ t \in Nat \ {0} /\ (hold[t] = NULL \/ t \in K)
      /\ to = [k \in 1 .. Len(sl) |-> hold[sl[k]]]
  BY DEF Given, Pool
<1>3. Len(sl) \in Nat /\ \A k \in 1 .. Len(sl) : sl[k] \in Nat /\ sl[k] \in K
  BY <1>2 DEF Range
<1>4. \A k \in K : k \in Nat /\ (k = 0 \/ \E l \in 1 .. Len(sl) : k = sl[l])
  BY <1>2 DEF Range
<1> HIDE DEF n
<1>5. to \in Seq(Nat) /\ DOMAIN to = 1 .. Len(sl)
  <2>0. \A k \in Nat : hold[k] \in Nat
    BY <1>1
  <2>1. \A k \in 1 .. Len(sl) : hold[sl[k]] \in Nat
    BY <1>3, <2>0
  <2> QED BY <1>2, <1>3, <2>1
<1>6. /\ \A c \in Range(to) : \E k \in K : c = hold[k]
      /\ \A k \in K : hold[k] = NULL \/ hold[k] \in Range(to)
  BY <1>2, <1>3, <1>4, <1>5 DEF Range
<1>7. node \in AnyNode /\ node.type = type /\ node.to = to
  BY <1>5 DEF AnyNode
<1>8. Pool(h2, Taken(hold, K, t, n + 1), f, rep) /\ Grows(h, h2)
  <2>1. K \in SUBSET Nat
    BY <1>4
  <2>2. Pool(h, hold, f, rep)
    BY DEF Given
  <2> HIDE DEF node
  <2>3. MayMake(h, hold, node, K, t)
    BY <1>2, <1>6, <1>7, <2>1 DEF MayMake
  <2> QED BY <2>2, <2>3, Makes DEF n
<1>9. Made(h, type, to) = [heap |-> h2, val |-> n + 1]
  BY DEF Made, n
<1>10. Len(h2) = n + 1 /\ h2[n + 1] = node /\ DOMAIN h2 = 1 .. n + 1 /\ n + 1 \in 1 .. n + 1
  BY <1>1, <1>7 DEF n
<1> HIDE DEF h2, node
<1>11. h2[n + 1].type = type /\ (type \in ListType => n + 1 \in Cells(h2))
  BY <1>7, <1>10 DEF Cells
<1> QED
  BY <1>8, <1>9, <1>10, <1>11 DEF Done, n

(* Two steps that go through t, or through t and an empty slot u.          *)
LEMMA TakenTwice ==
  ASSUME NEW hold, NEW K, 0 \in K, NEW t \in Nat \ {0}, NEW v, NEW w, NEW T, T = {t, 0}
  PROVE  Taken(Taken(hold, K, t, v), T, t, w) = Taken(hold, K, t, w)
  BY DEF Taken

LEMMA TakenThrough ==
  ASSUME NEW hold, NEW i \in Nat, NEW K, K = {i, 0}, NEW t \in Nat \ {0},
         NEW u \in Nat \ {0}, u # t, hold[u] = NULL,
         NEW v, NEW w, NEW U, U = {i, u, 0}, NEW E, E = {0}
  PROVE  Taken(Taken(hold, E, u, v), U, t, w) = Taken(hold, K, t, w)
  BY DEF Taken

LEMMA DoneTwice ==
  ASSUME NEW h \in Seq(AnyNode), NEW hold, NEW f, NEW rep, NEW K, 0 \in K, NEW t \in Nat \ {0},
         NEW one, NEW two, NEW T, T = {t, 0},
         Done(h, hold, f, rep, K, t, one),
         Done(one.heap, Taken(hold, K, t, one.val), f, rep, T, t, two)
  PROVE  Done(h, hold, f, rep, K, t, two)
<1>1. Grows(h, two.heap)
  <2>1. Grows(h, one.heap) /\ Grows(one.heap, two.heap)
    BY DEF Done
  <2>2. one.heap \in Seq(AnyNode) /\ two.heap \in Seq(AnyNode)
    BY DEF Done, Pool, Nodes
  <2>3. Len(h) \in Nat /\ Len(one.heap) \in Nat /\ Len(two.heap) \in Nat
    BY <2>2, LenProperties
  <2> QED BY <2>1, <2>3 DEF Grows
<1>2. Taken(Taken(hold, K, t, one.val), T, t, two.val) = Taken(hold, K, t, two.val)
  BY TakenTwice
<1> QED
  BY <1>1, <1>2 DEF Done
(* An action with one argument, from slot i.                               *)
One(h, hold, f, rep, i, K, t, d) ==
  /\ Pool(h, hold, f, rep) /\ i \in Nat /\ K = {i, 0} /\ d = hold[i]
  /\ t \in Nat \ {0} /\ (hold[t] = NULL \/ t = i)

LEMMA OneMade ==
  ASSUME NEW h, NEW hold, NEW f, NEW rep, NEW i, NEW K, NEW t, NEW d,
         One(h, hold, f, rep, i, K, t, d), NEW type \in NodeType \ ListType
  PROVE  Done(h, hold, f, rep, K, t, Made(h, type, <<d>>))
<1>1. PICK sl : sl = <<i>>
  OBVIOUS
<1>2. PICK to : to = <<d>>
  OBVIOUS
<1>3. sl \in Seq(Nat) /\ K = Range(sl) \cup {0} /\ to = [k \in 1 .. Len(sl) |-> hold[sl[k]]]
  BY <1>1, <1>2 DEF One, Range
<1>4. Given(h, hold, f, rep, sl, K, t, to)
  BY <1>3 DEF One, Given
<1> QED
  BY <1>2, <1>4, MadeFrom

LEMMA OneAgain ==
  ASSUME NEW h, NEW hold, NEW f, NEW rep, NEW i, NEW K, NEW t, NEW d,
         One(h, hold, f, rep, i, K, t, d), NEW one, Done(h, hold, f, rep, K, t, one),
         NEW T, T = {t, 0}, NEW two,
         LET hold1 == Taken(hold, K, t, one.val)
         IN  One(one.heap, hold1, f, rep, t, T, t, one.val)
               => Done(one.heap, hold1, f, rep, T, t, two)
  PROVE  Done(h, hold, f, rep, K, t, two)
<1>1. /\ t \in Nat \ {0} /\ 0 \in K /\ h \in Seq(AnyNode)
      /\ Pool(one.heap, Taken(hold, K, t, one.val), f, rep)
  BY DEF One, Done, Pool, Nodes
<1>2. one.val = Taken(hold, K, t, one.val)[t]
  BY <1>1 DEF Taken
<1>3. One(one.heap, Taken(hold, K, t, one.val), f, rep, t, T, t, one.val)
  BY <1>1, <1>2 DEF One
<1> QED
  BY <1>1, <1>3, DoneTwice

LEMMA SingularDone ==
  ASSUME NEW h, NEW hold, NEW f, NEW rep, NEW i, NEW K, NEW t, NEW d,
         One(h, hold, f, rep, i, K, t, d)
  PROVE  Done(h, hold, f, rep, K, t, make_singular_decl(h, d))
<1>1. PICK sl : sl = <<i, 0>>
  OBVIOUS
<1>2. PICK to : to = <<d, NULL>>
  OBVIOUS
<1>3. sl \in Seq(Nat) /\ K = Range(sl) \cup {0} /\ to = [k \in 1 .. Len(sl) |-> hold[sl[k]]]
  <2>1. i \in Nat /\ K = {i, 0} /\ d = hold[i] /\ hold[0] = NULL
    BY DEF One, Pool
  <2>2. Range(sl) = {i, 0} /\ sl \in Seq(Nat) /\ Len(sl) = 2 /\ sl[1] = i /\ sl[2] = 0
    BY <1>1, <2>1 DEF Range
  <2> QED BY <1>2, <2>1, <2>2
<1>4. Given(h, hold, f, rep, sl, K, t, to)
  BY <1>3 DEF One, Given
<1>5. "decltor_list" \in ListType /\ "decltor_list" \in NodeType
      /\ "decl" \in NodeType \ ListType
  BY DEF ListType, NodeType
<1>6. PICK one : one = Made(h, "decltor_list", to)
  OBVIOUS
<1>7. Done(h, hold, f, rep, K, t, one)
  <2>1. Len(to) = 2 /\ to[2] = NULL
    BY <1>2
  <2> QED BY <1>4, <1>5, <1>6, <2>1, MadeFrom
<1>8. PICK T : T = {t, 0}
  OBVIOUS
<1>9. PICK two : two = Made(one.heap, "decl", <<one.val>>)
  OBVIOUS
<1>10. ASSUME NEW hold1, One(one.heap, hold1, f, rep, t, T, t, one.val)
       PROVE  Done(one.heap, hold1, f, rep, T, t, two)
  BY <1>5, <1>9, <1>10, OneMade
<1>11. Done(h, hold, f, rep, K, t, two)
  BY <1>7, <1>8, <1>10, OneAgain
<1> QED
  BY <1>2, <1>6, <1>9, <1>11 DEF make_singular_decl, make_decl

LEMMA ArrayDone ==
  ASSUME NEW h, NEW hold, NEW f, NEW rep, NEW i, NEW K, NEW t, NEW d,
         One(h, hold, f, rep, i, K, t, d),
         NEW u \in Nat \ {0}, u # t, u # i, hold[u] = NULL
  PROVE  Done(h, hold, f, rep, K, t, make_decltor_array(h, d))
<1>1. PICK E, U, none, size : E = {0} /\ U = {i, u, 0} /\ none = << >>
                              /\ size = Made(h, "EXP_INT", none)
  OBVIOUS
<1>2. PICK hold1 : hold1 = Taken(hold, E, u, size.val)
  OBVIOUS
<1>3. "EXP_INT" \in NodeType \ ListType /\ "DECLTOR_ARRAY" \in NodeType \ ListType
  BY DEF ListType, NodeType
<1>4. Pool(size.heap, hold1, f, rep) /\ Grows(h, size.heap)
  <2>1. /\ none \in Seq(Nat) /\ E = Range(none) \cup {0}
        /\ none = [k \in 1 .. Len(none) |-> hold[none[k]]]
    BY <1>1 DEF Range
  <2>2. Given(h, hold, f, rep, none, E, u, none)
    BY <2>1 DEF One, Given
  <2> QED BY <1>1, <1>2, <1>3, <2>2, MadeFrom DEF Done
<1>5. PICK sl, to : sl = <<i, u>> /\ to = <<d, size.val>>
  OBVIOUS
<1>6. PICK two : two = Made(size.heap, "DECLTOR_ARRAY", to)
  OBVIOUS
<1>7. /\ i \in Nat /\ K = {i, 0} /\ d = hold[i] /\ t \in Nat \ {0} /\ (hold[t] = NULL \/ t = i)
      /\ hold[0] = NULL /\ h \in Seq(AnyNode)
  BY DEF One, Pool, Nodes
<1>8. Done(size.heap, hold1, f, rep, U, t, two)
  <2>1. hold1[i] = d /\ hold1[u] = size.val /\ hold1[t] = hold[t]
    BY <1>1, <1>2, <1>7 DEF Taken, NULL
  <2>2. sl \in Seq(Nat) /\ U = Range(sl) \cup {0} /\ to = [k \in 1 .. Len(sl) |-> hold1[sl[k]]]
    BY <1>1, <1>5, <1>7, <2>1 DEF Range
  <2>3. Given(size.heap, hold1, f, rep, sl, U, t, to)
    BY <1>1, <1>4, <1>7, <2>1, <2>2 DEF Given
  <2> QED BY <1>3, <1>6, <2>3, MadeFrom
<1>9. Taken(hold1, U, t, two.val) = Taken(hold, K, t, two.val)
  BY <1>1, <1>2, <1>7, TakenThrough
<1>10. Grows(h, two.heap)
  <2>1. Grows(h, size.heap) /\ Grows(size.heap, two.heap)
    BY <1>4, <1>8 DEF Done
  <2>2. size.heap \in Seq(AnyNode) /\ two.heap \in Seq(AnyNode)
    BY <1>4, <1>8 DEF Done, Pool, Nodes
  <2>3. Len(h) \in Nat /\ Len(size.heap) \in Nat /\ Len(two.heap) \in Nat
    BY <1>7, <2>2, LenProperties
  <2> QED BY <2>1, <2>3 DEF Grows
<1>11. Done(h, hold, f, rep, K, t, two)
  BY <1>8, <1>9, <1>10 DEF Done
<1> QED
  BY <1>1, <1>5, <1>6, <1>11 DEF make_decltor_array
LEMMA ValueDone ==
  ASSUME NEW h, NEW hold, NEW f, NEW rep, NEW i, NEW K, NEW t, NEW d,
         One(h, hold, f, rep, i, K, t, d)
  PROVE  Done(h, hold, f, rep, K, t, [heap |-> h, val |-> d])
<1>1. /\ Pool(h, hold, f, rep) /\ i \in Nat /\ K = {i, 0} /\ d = hold[i]
      /\ t \in Nat \ {0} /\ (hold[t] = NULL \/ t = i) /\ hold[0] = NULL
      /\ hold \in [Nat -> 0 .. Len(h)]
  BY DEF One, Pool
<1>2. Grows(h, h)
  <2>1. Len(h) \in Nat
    BY <1>1 DEF Pool, Nodes
  <2> QED BY <2>1 DEF Grows
<1>3. Pool(h, Taken(hold, K, t, d), f, rep)
  <2>1. CASE i = 0
    <3>1. \A k \in Nat : Taken(hold, K, t, d)[k] = hold[k]
      BY <1>1, <2>1 DEF Taken, NULL
    <3>2. Taken(hold, K, t, d) = hold
      BY <1>1, <3>1 DEF Taken
    <3> QED BY <1>1, <3>2
  <2>2. CASE i # 0
    <3>1. PICK I : I = {i}
      OBVIOUS
    <3>2. Pool(h, Taken(hold, I, t, d), f, rep)
      BY <1>1, <2>2, <3>1, Moves
    <3>3. Taken(hold, I, t, d) = Taken(hold, K, t, d)
      BY <1>1, <3>1 DEF Taken
    <3> QED BY <3>2, <3>3
  <2> QED BY <2>1, <2>2
<1> QED
  BY <1>2, <1>3 DEF Done

LEMMA CellsStay ==
  ASSUME NEW h \in Seq(AnyNode), NEW h2 \in Seq(AnyNode), Grows(h, h2)
  PROVE  Cells(h) \subseteq Cells(h2)
<1>1. Len(h) \in Nat /\ Len(h2) \in Nat /\ DOMAIN h = 1 .. Len(h) /\ DOMAIN h2 = 1 .. Len(h2)
  OBVIOUS
<1> QED
  BY <1>1 DEF Grows, Cells

(* A list of arguments, and any other.                                     *)
ArgumentsOK(v, h) == v = NULL \/ (v \in Cells(h) /\ h[v].type = "expr_list")
ListOK(v, h) == v = NULL \/ (v \in Cells(h) /\ h[v].type # "expr_list")

LEMMA ListsStay ==
  ASSUME NEW h \in Seq(AnyNode), NEW h2 \in Seq(AnyNode), Grows(h, h2), NEW v
  PROVE  (ListOK(v, h) => ListOK(v, h2)) /\ (ArgumentsOK(v, h) => ArgumentsOK(v, h2))
<1>1. v \in Cells(h) => v \in Cells(h2) /\ h2[v].type = h[v].type
  <2>1. DOMAIN h = 1 .. Len(h)
    OBVIOUS
  <2> QED BY <2>1, CellsStay DEF Grows, Cells
<1> QED
  BY <1>1 DEF ListOK, ArgumentsOK

(* A list has its first element: what was in slot j.                       *)
Begins(h, hold, f, rep, t, j, elem, K) ==
  /\ Pool(h, hold, f, rep) /\ t \in Nat \ {0} /\ j \in Nat \ {0} /\ j # t /\ K = {t, j, 0}
  /\ hold[t] = NULL /\ elem = hold[j]

LEMMA BeginDone ==
  ASSUME NEW h, NEW hold, NEW f, NEW rep, NEW t, NEW j, NEW elem, NEW K,
         Begins(h, hold, f, rep, t, j, elem, K), NEW type \in ListType
  PROVE  LET done == Made(h, type, <<elem, NULL>>)
         IN  /\ Done(h, hold, f, rep, K, t, done) /\ done.val = Len(h) + 1
             /\ done.val \in Cells(done.heap) /\ done.heap[done.val].type = type
<1>1. /\ Pool(h, hold, f, rep) /\ t \in Nat \ {0} /\ j \in Nat \ {0} /\ j # t /\ K = {t, j, 0}
      /\ hold[t] = NULL /\ elem = hold[j] /\ hold[0] = NULL /\ type \in NodeType
  BY DEF Begins, Pool, NodeType
<1>2. PICK sl, to, J, done : /\ sl = <<j, 0>> /\ to = <<elem, NULL>> /\ J = {j, 0}
                             /\ done = Made(h, type, to)
  OBVIOUS
<1>3. /\ Range(sl) = J /\ sl \in Seq(Nat) /\ Len(sl) = 2 /\ sl[1] = j /\ sl[2] = 0
      /\ Len(to) = 2 /\ to[2] = NULL
  BY <1>1, <1>2 DEF Range
<1>4. to = [k \in 1 .. Len(sl) |-> hold[sl[k]]]
  BY <1>1, <1>2, <1>3
<1>5. J = Range(sl) \cup {0}
  BY <1>2, <1>3
<1>6. Given(h, hold, f, rep, sl, J, t, to)
  BY <1>1, <1>3, <1>4, <1>5 DEF Given
<1>7. /\ Done(h, hold, f, rep, J, t, done) /\ done.val = Len(h) + 1
      /\ done.val \in Cells(done.heap) /\ done.heap[done.val].type = type
  BY <1>1, <1>2, <1>3, <1>6, MadeFrom
<1>8. Taken(hold, J, t, done.val) = Taken(hold, K, t, done.val)
  BY <1>1, <1>2 DEF Taken
<1> QED
  BY <1>2, <1>7, <1>8 DEF Done

(* A list, in slot t, gets an element.                                     *)
Appendix(h, hold, f, rep, t, list, j, elem, K) ==
  /\ Pool(h, hold, f, rep) /\ t \in Nat \ {0} /\ j \in Nat \ {0} /\ j # t /\ K = {t, j, 0}
  /\ list = hold[t] /\ elem = hold[j]

LEMMA AppendDone ==
  ASSUME NEW h, NEW hold, NEW f, NEW rep, NEW t, NEW list, NEW j, NEW elem, NEW K,
         Appendix(h, hold, f, rep, t, list, j, elem, K), ListOK(list, h),
         NEW type \in ListType \ {"expr_list"}, NEW done, done = append(h, type, list, elem)
  PROVE  Done(h, hold, f, rep, K, t, done) /\ ListOK(done.val, done.heap)
<1>1. /\ Pool(h, hold, f, rep) /\ t \in Nat \ {0} /\ j \in Nat \ {0} /\ j # t /\ K = {t, j, 0}
      /\ list = hold[t] /\ elem = hold[j] /\ hold[0] = NULL /\ h \in Seq(AnyNode)
  BY DEF Appendix, Pool, Nodes
<1>2. CASE list = NULL
  <2>1. Begins(h, hold, f, rep, t, j, elem, K)
    BY <1>1, <1>2 DEF Begins
  <2>2. done = Made(h, type, <<elem, NULL>>)
    BY <1>2 DEF append
  <2> QED BY <2>1, <2>2, BeginDone DEF ListOK
<1>3. CASE list # NULL
  <2>1. PICK J : J = {t, j}
    OBVIOUS
  <2>2. Joins(h, hold, t, list, j, elem, J) /\ MayAppend(h, type, list)
    BY <1>1, <1>3, <2>1 DEF Joins, MayAppend, ListOK
  <2>3. Pool(done.heap, Taken(hold, J, t, list), f, rep) /\ Grows(h, done.heap) /\ done.val = list
    BY <1>1, <2>2, Appends
  <2>4. Taken(hold, J, t, list) = Taken(hold, K, t, list)
    BY <1>1, <2>1 DEF Taken
  <2>5. done.heap \in Seq(AnyNode)
    BY <2>3 DEF Pool, Nodes
  <2>6. ListOK(list, done.heap)
    BY <1>1, <2>3, <2>5, ListsStay
  <2> QED BY <2>3, <2>4, <2>6 DEF Done
<1> QED
  BY <1>2, <1>3

LEMMA HandDone ==
  ASSUME NEW h, NEW hold, NEW f, NEW rep, NEW t, NEW list, NEW j, NEW elem, NEW K,
         Appendix(h, hold, f, rep, t, list, j, elem, K), ArgumentsOK(list, h),
         NEW done, done = append_expr(h, list, elem)
  PROVE  Done(h, hold, f, rep, K, t, done) /\ ArgumentsOK(done.val, done.heap)
<1>1. /\ Pool(h, hold, f, rep) /\ t \in Nat \ {0} /\ j \in Nat \ {0} /\ j # t /\ K = {t, j, 0}
      /\ list = hold[t] /\ elem = hold[j] /\ hold[0] = NULL /\ h \in Seq(AnyNode)
  BY DEF Appendix, Pool, Nodes
<1>2. CASE list = NULL
  <2>1. Begins(h, hold, f, rep, t, j, elem, K)
    BY <1>1, <1>2 DEF Begins
  <2>2. PICK cell : cell = Made(h, "expr_list", <<elem, NULL>>)
    OBVIOUS
  <2>3. cell.val = Len(h) + 1 /\ cell = [heap |-> cell.heap, val |-> cell.val]
    BY <2>2 DEF Made
  <2>4. done = [cell EXCEPT !.val = Len(h) + 1]
    BY <1>2, <2>2 DEF append_expr, append
  <2>5. done.heap = cell.heap /\ done.val = cell.val
    BY <2>3, <2>4
  <2>6. "expr_list" \in ListType
    BY DEF ListType
  <2> QED BY <2>1, <2>2, <2>5, <2>6, BeginDone DEF ArgumentsOK, Done
<1>3. CASE list # NULL
  <2>1. PICK J : J = {t, j}
    OBVIOUS
  <2>2. Joins(h, hold, t, list, j, elem, J) /\ h[list].type = "expr_list"
    BY <1>1, <1>3, <2>1 DEF Joins, ArgumentsOK
  <2>3. /\ Pool(done.heap, Taken(hold, J, t, done.val), f, rep) /\ Grows(h, done.heap)
        /\ done.val = Len(h) + 1 /\ Len(done.heap) = Len(h) + 1
        /\ done.heap[done.val].type = "expr_list"
    BY <1>1, <2>2, Hands
  <2>4. Taken(hold, J, t, done.val) = Taken(hold, K, t, done.val)
    BY <1>1, <2>1 DEF Taken
  <2>5. done.val \in Cells(done.heap)
    <3>1. done.heap \in Seq(AnyNode)
      BY <2>3 DEF Pool, Nodes
    <3>2. Len(h) \in Nat
      BY <1>1
    <3>3. DOMAIN done.heap = 1 .. Len(done.heap)
      BY <3>1
    <3>4. done.val \in DOMAIN done.heap
      BY <2>3, <3>2, <3>3
    <3> QED BY <2>3, <3>4 DEF Cells, ListType
  <2> QED BY <2>3, <2>4, <2>5 DEF Done, ArgumentsOK
<1> QED
  BY <1>2, <1>3
(* Whatever the rule, its action takes over its arguments.                 *)
Applies(rule, h, hold, f, rep, sl, K, t, a, u) ==
  /\ rule \in Range(Rules) /\ rule.action # "program_root"
  /\ Given(h, hold, f, rep, sl, K, t, a) /\ Len(sl) = Len(rule.args)
  /\ \A k \in 1 .. Len(sl) : /\ rule.args[k] = 0 => sl[k] = 0
                             /\ rule.args[k] = 1 => sl[k] = t
                             /\ rule.args[k] > 1 => sl[k] # t /\ sl[k] # 0
  /\ u \in Nat \ {0} /\ u \notin K /\ u # t /\ hold[u] = NULL
  /\ rule.action \in Appending => ListOK(hold[t], h)
  /\ rule.action = "append_expr" => ArgumentsOK(hold[t], h)

(* An action that makes a list or a cell yields a list.                    *)
Yields(rule, done) ==
  /\ rule.action \in Appending \cup (ListType \ {"expr_list"}) => ListOK(done.val, done.heap)
  /\ rule.action \in {"expr_list", "append_expr"} => ArgumentsOK(done.val, done.heap)

LEMMA DoGood ==
  ASSUME NEW rule, NEW h, NEW hold, NEW f, NEW rep, NEW sl, NEW K, NEW t, NEW a, NEW u,
         Applies(rule, h, hold, f, rep, sl, K, t, a, u)
  PROVE  LET done == Do(rule.action, h, a)
         IN  /\ Done(h, hold, f, rep, K, t, done)
             /\ Yields(rule, done)
<1> DEFINE done == Do(rule.action, h, a)
<1>1. PICK action : action = rule.action
  OBVIOUS
<1>2. /\ Given(h, hold, f, rep, sl, K, t, a) /\ Len(sl) = Len(rule.args)
      /\ u \in Nat \ {0} /\ u \notin K /\ u # t /\ hold[u] = NULL
      /\ action # "program_root" /\ rule \in Range(Rules)
  BY <1>1 DEF Applies
<1>3. /\ Pool(h, hold, f, rep) /\ sl \in Seq(Nat) /\ K = Range(sl) \cup {0}
      /\ a = [k \in 1 .. Len(sl) |-> hold[sl[k]]]
      /\ t \in Nat \ {0} /\ (hold[t] = NULL \/ t \in K) /\ hold[0] = NULL
  BY <1>2 DEF Given, Pool
<1>4. /\ action \in Unary => Len(rule.args) = 1
      /\ action = "DECLTOR_FUN" => Len(rule.args) = 2
      /\ action = "fun_def" => Len(rule.args) = 3
      /\ action \in ListType => Len(rule.args) = 2 /\ rule.args[2] = 0
      /\ action \in Appending \cup {"append_expr"} =>
           Len(rule.args) = 2 /\ rule.args[1] = 1 /\ rule.args[2] > 1
  BY <1>1, <1>2, ActionsAssumption DEF WellTyped
<1>5. action \in NodeType
  BY <1>1, <1>2 DEF NodeType
<1>6. CASE action \in Unary
  <2>1. PICK i, d : i = sl[1] /\ d = a[1]
    OBVIOUS
  <2>2. Len(sl) = 1 /\ i \in Nat /\ Range(sl) = {i} /\ d = hold[i]
    BY <1>2, <1>3, <1>4, <1>6, <2>1 DEF Range
  <2>3. One(h, hold, f, rep, i, K, t, d) /\ u # i
    BY <1>2, <1>3, <2>2 DEF One
  <2>4. PICK T : T = {t, 0}
    OBVIOUS
  <2>5. action \notin Appending \cup (ListType \ {"expr_list"}) \cup {"expr_list", "append_expr"}
    BY <1>6 DEF Unary, Appending, ListType
  <2>6. CASE action = "value"
    <3>1. done = [heap |-> h, val |-> d]
      BY <1>1, <2>1, <2>6 DEF Do
    <3> QED BY <1>1, <2>3, <2>5, <3>1, ValueDone DEF Yields
  <2>7. CASE action \in {"decl", "DECLTOR_SIMPLE"}
    <3>1. done = Made(h, action, <<d>>)
      BY <1>1, <2>1, <2>7 DEF Do, make_decl, make_decltor_id
    <3> QED BY <1>1, <1>5, <2>3, <2>5, <3>1, OneMade DEF Yields
  <2>8. CASE action = "make_singular_decl"
    <3>1. done = make_singular_decl(h, d)
      BY <1>1, <2>1, <2>8 DEF Do
    <3> QED BY <1>1, <2>3, <2>5, <3>1, SingularDone DEF Yields
  <2>9. CASE action = "make_decltor_array"
    <3>1. done = make_decltor_array(h, d)
      BY <1>1, <2>1, <2>9 DEF Do
    <3> QED BY <1>1, <1>2, <2>3, <2>5, <3>1, ArrayDone DEF Yields
  <2>10. ASSUME NEW one, Done(h, hold, f, rep, K, t, one),
                done = make_singular_decl(one.heap, one.val)
         PROVE  Done(h, hold, f, rep, K, t, done)
    <3>1. PICK two : two = make_singular_decl(one.heap, one.val)
      OBVIOUS
    <3>2. ASSUME NEW hold1, One(one.heap, hold1, f, rep, t, T, t, one.val)
          PROVE  Done(one.heap, hold1, f, rep, T, t, two)
      BY <3>1, <3>2, SingularDone
    <3>3. Done(h, hold, f, rep, K, t, two)
      BY <2>3, <2>4, <2>10, <3>2, OneAgain
    <3> QED BY <2>10, <3>1, <3>3
  <2>11. CASE action = "singular_id"
    <3>1. PICK one : one = Made(h, "DECLTOR_SIMPLE", <<d>>)
      OBVIOUS
    <3>2. done = make_singular_decl(one.heap, one.val)
      BY <1>1, <2>1, <2>11, <3>1 DEF Do, make_decltor_id
    <3>3. "DECLTOR_SIMPLE" \in NodeType \ ListType
      BY DEF NodeType, ListType
    <3>4. Done(h, hold, f, rep, K, t, one)
      BY <2>3, <3>1, <3>3, OneMade
    <3> HIDE DEF done
    <3>5. Done(h, hold, f, rep, K, t, done)
      BY <2>10, <3>2, <3>4
    <3> QED BY <1>1, <2>5, <3>5 DEF done, Yields
  <2>12. CASE action = "singular_array"
    <3>1. PICK one : one = make_decltor_array(h, d)
      OBVIOUS
    <3>2. done = make_singular_decl(one.heap, one.val)
      BY <1>1, <2>1, <2>12, <3>1 DEF Do
    <3>4. Done(h, hold, f, rep, K, t, one)
      BY <1>2, <2>3, <3>1, ArrayDone
    <3> HIDE DEF done
    <3>5. Done(h, hold, f, rep, K, t, done)
      BY <2>10, <3>2, <3>4
    <3> QED BY <1>1, <2>5, <3>5 DEF done, Yields
  <2> QED BY <1>6, <2>6, <2>7, <2>8, <2>9, <2>11, <2>12 DEF Unary
<1>7. CASE action \in Appending
  <2>1. PICK type \in ListType \ {"expr_list"} : done = append(h, type, a[1], a[2])
    <3>1. {"NODE_FUN", "NODE_DECL", "decl_list", "decltor_list", "stmt_list"}
            \subseteq ListType \ {"expr_list"}
      BY DEF ListType
    <3> QED BY <1>1, <1>7, <3>1 DEF Do, Appending, append_fun_node, append_decl_node, append_decl,
                                      append_decltor, append_stmt
  <2>2. PICK j, list, elem : j = sl[2] /\ list = a[1] /\ elem = a[2]
    OBVIOUS
  <2>3. Len(sl) = 2 /\ sl[1] = t /\ j # t /\ j # 0 /\ j \in Nat
    BY <1>1, <1>2, <1>3, <1>4, <1>7, <2>2 DEF Applies
  <2>4. K = {t, j, 0} /\ list = hold[t] /\ elem = hold[j]
    BY <1>3, <2>2, <2>3 DEF Range
  <2>5. ListOK(list, h)
    BY <1>1, <1>7, <2>4 DEF Applies
  <2>6. PICK x : x = done
    OBVIOUS
  <2>7. Done(h, hold, f, rep, K, t, x) /\ ListOK(x.val, x.heap)
    <3>1. x = append(h, type, list, elem)
      BY <2>1, <2>2, <2>6
    <3> HIDE DEF done
    <3>2. Appendix(h, hold, f, rep, t, list, j, elem, K)
      BY <1>3, <2>3, <2>4 DEF Appendix
    <3> QED BY <2>5, <3>1, <3>2, AppendDone
  <2>8. action \notin {"expr_list", "append_expr"}
    BY <1>7 DEF Appending
  <2> QED BY <1>1, <2>6, <2>7, <2>8 DEF Yields
<1>9. CASE action = "append_expr"
  <2>1. done = append_expr(h, a[1], a[2])
    BY <1>1, <1>9 DEF Do
  <2>2. PICK j, list, elem : j = sl[2] /\ list = a[1] /\ elem = a[2]
    OBVIOUS
  <2>3. Len(sl) = 2 /\ sl[1] = t /\ j # t /\ j # 0 /\ j \in Nat
    BY <1>1, <1>2, <1>3, <1>4, <1>9, <2>2 DEF Applies
  <2>4. K = {t, j, 0} /\ list = hold[t] /\ elem = hold[j]
    BY <1>3, <2>2, <2>3 DEF Range
  <2>5. ArgumentsOK(list, h)
    BY <1>1, <1>9, <2>4 DEF Applies
  <2>6. PICK x : x = done
    OBVIOUS
  <2>7. Done(h, hold, f, rep, K, t, x) /\ ArgumentsOK(x.val, x.heap)
    <3>1. x = append_expr(h, list, elem)
      BY <2>1, <2>2, <2>6
    <3> HIDE DEF done
    <3>2. Appendix(h, hold, f, rep, t, list, j, elem, K)
      BY <1>3, <2>3, <2>4 DEF Appendix
    <3> QED BY <2>5, <3>1, <3>2, HandDone
  <2>8. action \notin Appending \cup (ListType \ {"expr_list"})
    BY <1>9 DEF Appending, ListType
  <2> QED BY <1>1, <2>6, <2>7, <2>8 DEF Yields
<1>8. CASE action \notin Unary \cup Appending \cup {"append_expr"}
  <2>1. done = Made(h, action, a)
    <3>1. CASE action = "fun_def"
      <4>1. Len(sl) = 3
        BY <1>2, <1>4, <3>1
      <4>2. a = <<a[1], a[2], a[3]>>
        BY <1>3, <4>1
      <4> QED BY <1>1, <3>1, <4>2 DEF Do, make_function
    <3>2. CASE action = "DECLTOR_FUN"
      <4>1. Len(sl) = 2
        BY <1>2, <1>4, <3>2
      <4>2. a = <<a[1], a[2]>>
        BY <1>3, <4>1
      <4> QED BY <1>1, <3>2, <4>2 DEF Do, make_decltor_fun
    <3>3. CASE action \notin {"fun_def", "DECLTOR_FUN"}
      BY <1>1, <1>2, <1>8, <3>3 DEF Do, Unary, Appending
    <3> QED BY <3>1, <3>2, <3>3
  <2>2. action \in ListType => Len(a) = 2 /\ a[2] = NULL
    <3> SUFFICES ASSUME action \in ListType
                 PROVE  Len(a) = 2 /\ a[2] = NULL
      OBVIOUS
    <3>1. Len(sl) = 2 /\ rule.args[2] = 0
      BY <1>2, <1>4
    <3>2. sl[2] = 0
      BY <3>1 DEF Applies
    <3> QED BY <1>3, <3>1, <3>2
  <2>3. PICK x : x = done
    OBVIOUS
  <2>4. /\ Done(h, hold, f, rep, K, t, x)
        /\ x.val = Len(h) + 1 /\ x.heap[x.val].type = action
        /\ action \in ListType => x.val \in Cells(x.heap)
    BY <1>2, <1>5, <2>1, <2>2, <2>3, MadeFrom
  <2>6. "expr_list" \in ListType /\ action \notin Appending /\ action # "append_expr"
    BY <1>8 DEF ListType
  <2>7. action \in ListType \ {"expr_list"} => ListOK(x.val, x.heap)
    BY <2>4 DEF ListOK
  <2>8. action = "expr_list" => ArgumentsOK(x.val, x.heap)
    BY <2>4, <2>6 DEF ArgumentsOK
  <2> QED BY <1>1, <2>3, <2>4, <2>6, <2>7, <2>8 DEF Yields
<1> QED
  BY <1>6, <1>7, <1>8, <1>9
-----------------------------------------------------------------------------
(* The stack: each entry is where a symbol led from the entry below, with  *)
(* a value of the symbol's type.                                           *)

ValueOK(X, v, h, rep) ==
  /\ X \in Valueless => v = NULL
  /\ X \in ListSymbol \ ArgumentSymbol => ListOK(v, h)
  /\ X \in ArgumentSymbol => ArgumentsOK(v, h)
  /\ X = "ID" => v = NULL \/ h[v].type = "string"
  /\ X = "error" => rep

Sits(s, k, h, rep) ==
  \E X \in DOMAIN Goto[s[k - 1].state] :
    s[k].state = Goto[s[k - 1].state][X] /\ ValueOK(X, s[k].val, h, rep)

Entry == [state : DOMAIN Kernel, val : Nat]
StackOK(s, h, rep) ==
  /\ s \in Seq(Entry) /\ s # << >> /\ s[1].state = Start /\ s[1].val = NULL
  /\ \A k \in 2 .. Len(s) : Sits(s, k, h, rep)

LEMMA StackStays ==
  ASSUME NEW s, NEW h \in Seq(AnyNode), NEW rep, StackOK(s, h, rep),
         NEW h2 \in Seq(AnyNode), Grows(h, h2), NEW rep2, rep => rep2,
         \A k \in 1 .. Len(s) : s[k].val \in 0 .. Len(h)
  PROVE  StackOK(s, h2, rep2)
<1>1. \A v : (ListOK(v, h) => ListOK(v, h2)) /\ (ArgumentsOK(v, h) => ArgumentsOK(v, h2))
  BY ListsStay
<1>2. \A v \in 0 .. Len(h) : v # NULL => h2[v].type = h[v].type
  <2>1. Len(h) \in Nat
    OBVIOUS
  <2> QED BY <2>1 DEF Grows, NULL
<1>3. ASSUME NEW k \in 2 .. Len(s)
      PROVE  Sits(s, k, h2, rep2)
  <2>1. PICK X \in DOMAIN Goto[s[k - 1].state] :
          s[k].state = Goto[s[k - 1].state][X] /\ ValueOK(X, s[k].val, h, rep)
    BY DEF StackOK, Sits
  <2>2. s[k].val \in 0 .. Len(h)
    BY DEF StackOK
  <2>3. ValueOK(X, s[k].val, h2, rep2)
    BY <1>1, <1>2, <2>1, <2>2 DEF ValueOK
  <2> QED BY <2>1, <2>3 DEF Sits
<1> QED
  BY <1>3 DEF StackOK

LEMMA StackCut ==
  ASSUME NEW s, NEW h, NEW rep, StackOK(s, h, rep), NEW b \in 1 .. Len(s)
  PROVE  /\ StackOK(SubSeq(s, 1, b), h, rep) /\ Len(SubSeq(s, 1, b)) = b
         /\ \A k \in 1 .. b : SubSeq(s, 1, b)[k] = s[k]
<1> DEFINE c == SubSeq(s, 1, b)
<1>1. s \in Seq(Entry) /\ Len(s) \in Nat
  BY DEF StackOK
<1>2. c \in Seq(Entry) /\ Len(c) = b /\ \A k \in 1 .. b : c[k] = s[k]
  BY <1>1
<1> HIDE DEF c
<1>3. ASSUME NEW k \in 2 .. Len(c)
      PROVE  Sits(c, k, h, rep)
  <2>1. c[k] = s[k] /\ c[k - 1] = s[k - 1] /\ k \in 2 .. Len(s)
    BY <1>1, <1>2
  <2>2. Sits(s, k, h, rep)
    BY <2>1 DEF StackOK
  <2> QED BY <2>1, <2>2 DEF Sits
<1>4. c[1] = s[1] /\ c # << >>
  BY <1>2
<1> QED
  BY <1>2, <1>3, <1>4 DEF StackOK, c

LEMMA StackPush ==
  ASSUME NEW s, NEW h, NEW rep, StackOK(s, h, rep), NEW from, from = s[Len(s)].state,
         NEW X \in DOMAIN Goto[from], NEW v \in Nat, ValueOK(X, v, h, rep)
  PROVE  LET s2 == Append(s, [state |-> Goto[from][X], val |-> v])
         IN  /\ StackOK(s2, h, rep) /\ Len(s2) = Len(s) + 1 /\ s2[Len(s) + 1].val = v
             /\ \A k \in 1 .. Len(s) : s2[k] = s[k]
<1> DEFINE e == [state |-> Goto[from][X], val |-> v]
           s2 == Append(s, e)
<1>1. s \in Seq(Entry) /\ Len(s) \in Nat /\ Len(s) # 0
  BY DEF StackOK
<1>2. from \in DOMAIN Kernel
  <2>1. s[Len(s)] \in Entry
    BY <1>1
  <2> QED BY <2>1 DEF Entry
<1>3. Goto[from][X] \in DOMAIN Kernel
  BY <1>2, AutomatonAssumption DEF Retraceable
<1>4. e \in Entry /\ e.val = v /\ e.state = Goto[from][X]
  BY <1>3 DEF Entry
<1> HIDE DEF e
<1>5. /\ s2 \in Seq(Entry) /\ Len(s2) = Len(s) + 1 /\ s2[Len(s) + 1] = e
      /\ \A k \in 1 .. Len(s) : s2[k] = s[k]
  BY <1>1, <1>4
<1> HIDE DEF s2
<1>6. ASSUME NEW k \in 2 .. Len(s2)
      PROVE  Sits(s2, k, h, rep)
  <2>1. CASE k = Len(s) + 1
    <3>1. k - 1 = Len(s) /\ s2[k - 1] = s[Len(s)]
      BY <1>1, <1>5, <2>1
    <3> QED BY <1>4, <1>5, <2>1, <3>1 DEF Sits
  <2>2. CASE k # Len(s) + 1
    <3>1. s2[k] = s[k] /\ s2[k - 1] = s[k - 1] /\ k \in 2 .. Len(s)
      BY <1>1, <1>5, <2>2
    <3>2. Sits(s, k, h, rep)
      BY <3>1 DEF StackOK
    <3> QED BY <3>1, <3>2 DEF Sits
  <2> QED BY <2>1, <2>2
<1>7. s2[1] = s[1] /\ s2 # << >>
  BY <1>1, <1>5
<1>8. StackOK(s2, h, rep)
  BY <1>5, <1>6, <1>7 DEF StackOK
<1> QED
  BY <1>4, <1>5, <1>8 DEF s2, e
LEMMA Arrives ==
  ASSUME NEW from \in DOMAIN Kernel, NEW X \in DOMAIN Goto[from],
         NEW i \in Items[Goto[from][X]], i.dot > 1
  PROVE  /\ i.rule.rhs[i.dot - 1] = X
         /\ [rule |-> i.rule, dot |-> i.dot - 1] \in Items[from]
BY AutomatonAssumption DEF Retraceable

(* n symbols of the rule are behind the b-th entry.                        *)
Begun(s, rule, b, n) == \E i \in Items[s[b + n].state] : i.rule = rule /\ i.dot = n + 1

(* Behind the dot of an item are the symbols on the top of the stack, and  *)
(* below them is the state where the rule was begun.                       *)
LEMMA Walks ==
  ASSUME NEW s, NEW h, NEW rep, StackOK(s, h, rep), NEW from, from = s[Len(s)].state,
         NEW item \in Items[from], NEW rhs, rhs = item.rule.rhs,
         NEW b, b = Len(s) - (item.dot - 1)
  PROVE  /\ item.dot \in Nat /\ b \in 1 .. Len(s) /\ item.rule \in Range(Rules)
         /\ item.rule.lhs \in DOMAIN Goto[s[b].state] \cup {"full_program"}
         /\ \A n \in 1 .. item.dot - 1 : ValueOK(rhs[n], s[b + n].val, h, rep)
         /\ \A n \in 0 .. item.dot - 1 : Begun(s, item.rule, b, n)
<1> DEFINE len == Len(s)
           d == item.dot
           Behind(j) ==
             /\ len - j >= 1
             /\ \E i \in Items[s[len - j].state] : i.rule = item.rule /\ i.dot = d - j
           At(n) == ValueOK(rhs[n], s[b + n].val, h, rep)
           S == {j \in Nat : j < d => Behind(j) /\ \A n \in d - j .. d - 1 : At(n)}
<1>1. s \in Seq(Entry) /\ len \in Nat /\ len >= 1 /\ s[1].state = Start
  BY DEF StackOK
<1>2. \A k \in 1 .. len : s[k].state \in DOMAIN Kernel
  <2>1. \A k \in 1 .. len : s[k] \in Entry
    BY <1>1
  <2> QED BY <2>1 DEF Entry
<1>3. item.rule \in Range(Rules) /\ d \in Nat /\ d >= 1
  <2>1. from \in DOMAIN Kernel
    BY <1>1, <1>2
  <2>2. Len(rhs) \in Nat /\ item.rule \in Range(Rules) /\ d \in 1 .. Len(rhs) + 1
    BY <2>1, AutomatonAssumption DEF Retraceable
  <2> QED BY <2>2
<1> HIDE DEF At
<1>4. 0 \in S
  <2>1. Behind(0)
    <3>1. len - 0 = len /\ d - 0 = d
      BY <1>1, <1>3
    <3> QED BY <1>1, <3>1
  <2>2. d - 0 .. d - 1 = {}
    BY <1>3
  <2> QED BY <2>1, <2>2
<1>5. ASSUME NEW j \in 0 .. d, j \in S, j < d
      PROVE  j + 1 \in S
  <2>1. Behind(j) /\ \A n \in d - j .. d - 1 : At(n)
    BY <1>5
  <2> SUFFICES ASSUME j + 1 < d
               PROVE  Behind(j + 1) /\ \A n \in d - (j + 1) .. d - 1 : At(n)
    BY <1>3
  <2>2. PICK k : k = len - j
    OBVIOUS
  <2>3. PICK i \in Items[s[k].state] : i.rule = item.rule /\ i.dot = d - j
    BY <2>1, <2>2
  <2>4. k \in 1 .. len /\ i.dot > 1
    BY <1>1, <1>3, <2>1, <2>2, <2>3
  <2>5. k # 1
    <3>1. ~(i.dot = 1)
      BY <1>3, <2>4, <2>3
    <3> QED BY <1>1, <2>3, <3>1, AutomatonAssumption DEF Retraceable
  <2>6. k \in 2 .. len /\ k - 1 \in 1 .. len
    BY <1>1, <2>4, <2>5
  <2>7. PICK X \in DOMAIN Goto[s[k - 1].state] :
          s[k].state = Goto[s[k - 1].state][X] /\ ValueOK(X, s[k].val, h, rep)
    BY <2>6 DEF StackOK, Sits
  <2>8. /\ i.rule.rhs[i.dot - 1] = X
        /\ [rule |-> i.rule, dot |-> i.dot - 1] \in Items[s[k - 1].state]
    <3>1. PICK under : under = s[k - 1].state
      OBVIOUS
    <3>2. under \in DOMAIN Kernel /\ X \in DOMAIN Goto[under]
      BY <1>2, <2>6, <2>7, <3>1
    <3>3. i \in Items[Goto[under][X]]
      BY <2>3, <2>7, <3>1
    <3>4. i.rule.rhs[i.dot - 1] = X /\ [rule |-> i.rule, dot |-> i.dot - 1] \in Items[under]
      BY <2>4, <3>2, <3>3, AutomatonAssumption DEF Retraceable
    <3> QED BY <3>1, <3>4
  <2>9. k - 1 = len - (j + 1) /\ i.dot - 1 = d - (j + 1)
    <3>1. len \in Int /\ d \in Int /\ j \in Int /\ k = len - j /\ i.dot = d - j
      BY <1>1, <1>3, <2>2, <2>3
    <3> QED BY ONLY <3>1
  <2>10. Behind(j + 1)
    <3>1. [rule |-> i.rule, dot |-> i.dot - 1].rule = item.rule
      BY <2>3
    <3>2. [rule |-> i.rule, dot |-> i.dot - 1].dot = d - (j + 1)
      BY <2>9
    <3>3. len - (j + 1) >= 1
      <4>1. k - 1 >= 1
        BY <2>6
      <4> QED BY <2>9, <4>1
    <3>4. [rule |-> i.rule, dot |-> i.dot - 1] \in Items[s[len - (j + 1)].state]
      BY <2>8, <2>9
    <3> QED BY <3>1, <3>2, <3>3, <3>4
  <2>11. At(d - (j + 1))
    <3>1. b + (d - (j + 1)) = k
      <4>1. b = len - (d - 1) /\ j \in Nat
        BY <1>3
      <4> HIDE DEF d, len
      <4> QED BY <1>1, <1>3, <2>2, <4>1
    <3>2. rhs[d - (j + 1)] = X
      BY <2>3, <2>8, <2>9
    <3> QED BY <2>7, <3>1, <3>2 DEF At
  <2>12. \A n \in d - (j + 1) .. d - 1 : n = d - (j + 1) \/ n \in d - j .. d - 1
    BY <1>3
  <2> QED BY <2>1, <2>10, <2>11, <2>12
<1>6. 0 .. d \subseteq S
  <2> HIDE DEF S, d
  <2> QED BY <1>3, <1>4, <1>5, InductionUpTo
<1>7. Behind(d - 1) /\ \A n \in 1 .. d - 1 : At(n)
  <2>1. d - 1 \in 0 .. d /\ d - 1 < d /\ d - (d - 1) = 1
    BY <1>3
  <2> HIDE DEF d, Behind
  <2> QED BY <1>6, <2>1
<1>8. b = len - (d - 1) /\ b \in 1 .. len
  BY <1>1, <1>3, <1>7
<1>9. item.rule.lhs \in DOMAIN Goto[s[b].state] \cup {"full_program"}
  <2>1. PICK i \in Items[s[b].state] : i.rule = item.rule /\ i.dot = 1
    BY <1>3, <1>7, <1>8
  <2>2. s[b].state \in DOMAIN Kernel
    BY <1>2, <1>8
  <2> QED BY <2>1, <2>2, AutomatonAssumption DEF Retraceable
<1>10. ASSUME NEW n \in 0 .. d - 1
       PROVE  Begun(s, item.rule, b, n)
  <2>1. PICK j : j = d - 1 - n
    OBVIOUS
  <2>2. len \in Nat /\ d \in Nat /\ d >= 1 /\ b = len - (d - 1)
    BY <1>1, <1>3, <1>8
  <2>3. j \in 0 .. d /\ j < d /\ len - j = b + n /\ d - j = n + 1
    <3> HIDE DEF d, len
    <3> QED BY <2>1, <2>2
  <2>4. Behind(j)
    <3> HIDE DEF d, len, Behind
    <3> QED BY <1>6, <2>3
  <2> QED BY <2>3, <2>4 DEF Begun
<1> QED
  BY <1>3, <1>7, <1>8, <1>9, <1>10 DEF At
-----------------------------------------------------------------------------
(* The invariant                                                           *)

Holding(s, lval, root) ==
  [k \in Nat |-> IF k = 1 THEN lval ELSE IF k = 2 THEN root
                 ELSE IF k - 2 \in 1 .. Len(s) THEN s[k - 2].val ELSE NULL]
Holds == Holding(stack, yylval, program_root)

Scalars ==
  /\ ahead \in Seq(Token) /\ la \in Token \cup {"none", "end"}
  /\ la = "ID" => yylval = NULL \/ heap[yylval].type = "string"
  /\ la # "ID" => yylval = NULL
  /\ yyerrstatus \in 0 .. 3 /\ reported \in BOOLEAN /\ (yyerrstatus > 0 => reported)
  /\ status \in {"parsing", "accepted", "aborted"}
  /\ status = "parsing" => program_root = NULL
  /\ emptied \in BOOLEAN

IInv == Scalars /\ StackOK(stack, heap, reported) /\ Pool(heap, Holds, freed, reported)

(* What the slots hold.                                                    *)
LEMMA HoldsIs ==
  ASSUME IInv
  PROVE  /\ Len(stack) \in Nat /\ Len(stack) >= 1 /\ stack \in Seq(Entry)
         /\ heap \in Seq(AnyNode) /\ Len(heap) \in Nat
         /\ Holds \in [Nat -> 0 .. Len(heap)] /\ Holds[0] = NULL
         /\ Holds[1] = yylval /\ Holds[2] = program_root
         /\ \A k \in 1 .. Len(stack) : Holds[k + 2] = stack[k].val
         /\ \A k \in Nat : k > Len(stack) + 2 => Holds[k] = NULL
         /\ \A k \in 1 .. Len(stack) : stack[k].val \in 0 .. Len(heap)
<1>1. stack \in Seq(Entry) /\ Len(stack) \in Nat /\ Len(stack) >= 1
  BY DEF IInv, StackOK
<1>2. heap \in Seq(AnyNode) /\ Holds \in [Nat -> 0 .. Len(heap)] /\ Holds[0] = NULL
  BY DEF IInv, Pool, Nodes
<1>3. /\ Holds[1] = yylval /\ Holds[2] = program_root
      /\ \A k \in 1 .. Len(stack) : Holds[k + 2] = stack[k].val
      /\ \A k \in Nat : k > Len(stack) + 2 => Holds[k] = NULL
  BY <1>1 DEF Holds, Holding
<1>4. \A k \in 1 .. Len(stack) : stack[k].val \in 0 .. Len(heap)
  <2> SUFFICES ASSUME NEW k \in 1 .. Len(stack)
               PROVE  stack[k].val \in 0 .. Len(heap)
    OBVIOUS
  <2>1. k + 2 \in Nat /\ Holds[k + 2] = stack[k].val
    BY <1>1, <1>3
  <2> QED BY <1>2, <2>1
<1>5. Len(heap) \in Nat
  BY <1>2, LenProperties
<1> QED
  BY <1>1, <1>2, <1>3, <1>4, <1>5

(* To lose no name, and more of them when an error has been reported.      *)
LEMMA PoolReported ==
  ASSUME NEW h, NEW hold, NEW f, NEW rep, Pool(h, hold, f, rep)
  PROVE  Pool(h, hold, f, TRUE)
<1>1. PICK par : Rooted(h, hold, f, rep, par)
  BY DEF Pool
<1>3. \A p \in 1 .. Len(h) : par[p] = 0 => p \in f \/ h[p].type = "string" \/ Cut(h, p)
  BY <1>1 DEF Rooted
<1>2. Rooted(h, hold, f, TRUE, par)
  BY <1>1, <1>3, Zenon DEF Rooted
<1> QED
  BY <1>2 DEF Pool

(* What is in the slots K is freed.                                        *)
LEMMA Destroys ==
  ASSUME NEW hold, NEW rep, Pool(heap, hold, freed, rep), NEW K \in SUBSET Nat,
         NEW S, \A p : p \in S <=> \E k \in K : p \in Hanging(hold[k])
  PROVE  Pool(heap, Taken(hold, K, 0, NULL), freed \cup S, rep)
<1> DEFINE U == InUse(heap, freed)
<1>1. PICK par : Rooted(heap, hold, freed, rep, par)
  BY DEF Pool
<1>2. ASSUME NEW k \in Nat, hold[k] # NULL
      PROVE  hold[k] \in U
  <2>1. hold[k] \in 0 .. Len(heap) /\ Len(heap) \in Nat /\ k # 0
    <3>1. hold \in [Nat -> 0 .. Len(heap)] /\ hold[0] = NULL /\ heap \in Seq(AnyNode)
      BY DEF Pool, Nodes
    <3> QED BY <1>2, <3>1
  <2>2. par[hold[k]] = -k
    BY <1>1, <1>2 DEF Rooted
  <2>4. hold[k] \in 1 .. Len(heap) /\ par[hold[k]] # 0
    BY <1>2, <2>1, <2>2 DEF NULL
  <2>3. hold[k] \notin freed /\ ~Cut(heap, hold[k])
    BY <1>1, <2>4 DEF Rooted
  <2> QED BY <2>3, <2>4 DEF InUse
<1>3. /\ Hanging(NULL) = {}
      /\ \A v \in U :
           /\ v \in Hanging(v) /\ Hanging(v) \subseteq U
           /\ \A q \in Hanging(v) : Kids(heap, q) \subseteq Hanging(v)
           /\ \A p \in Hanging(v) : p = v \/ \E r \in Hanging(v) : p \in Kids(heap, r)
  BY HangsOn
<1> HIDE DEF U
<1>4. ASSUME NEW p \in S
      PROVE  /\ p \in U /\ Kids(heap, p) \subseteq S
             /\ (\E k \in K : p = hold[k]) \/ \E r \in S : p \in Kids(heap, r)
  <2>1. PICK k \in K : p \in Hanging(hold[k])
    OBVIOUS
  <2>2. hold[k] \in U
    BY <1>2, <1>3, <2>1
  <2>3. /\ p \in U /\ Kids(heap, p) \subseteq Hanging(hold[k])
        /\ p = hold[k] \/ \E r \in Hanging(hold[k]) : p \in Kids(heap, r)
    BY <1>3, <2>1, <2>2
  <2>4. Hanging(hold[k]) \subseteq S
    OBVIOUS
  <2> QED BY <2>3, <2>4
<1>5. \A k \in K : hold[k] = NULL \/ hold[k] \in S
  BY <1>2, <1>3
<1>6. /\ S \subseteq (1 .. Len(heap)) \ freed
      /\ \A q \in S : ~Cut(heap, q) /\ Kids(heap, q) \subseteq S
  BY <1>4 DEF U, InUse
<1> QED
  BY <1>4, <1>5, <1>6, Frees

(* Where there is no action for the token a state below shifts an error.   *)
LEMMA ErrorStateIs ==
  ASSUME IInv, NoAction
  PROVE  /\ ErrorState \in 1 .. Len(stack)
         /\ "error" \in DOMAIN Goto[stack[ErrorState].state]
         /\ \A k \in 1 .. Len(stack) : Shifts(stack[k].state, "error") => k <= ErrorState
<1> DEFINE I == {k \in 1 .. Len(stack) : Shifts(stack[k].state, "error")}
<1>1. Len(stack) \in Nat /\ Len(stack) >= 1 /\ stack[1].state = Start
  BY HoldsIs DEF IInv, StackOK
<1>2. Len(stack) # 1
  <2>1. la \in Token \cup {"end"}
    BY DEF IInv, Scalars, NoAction
  <2>2. Reductions(Start, la) # {}
    BY <2>1, AutomatonAssumption DEF Retraceable
  <2> QED BY <1>1, <2>2 DEF NoAction, Top, Last
<1>3. 2 \in I
  <2>1. 2 \in 2 .. Len(stack) /\ 2 - 1 = 1
    <3>1. PICK n : n = Len(stack)
      OBVIOUS
    <3>2. n \in Nat /\ n >= 1 /\ n # 1
      BY <1>1, <1>2, <3>1
    <3>3. 2 \in 2 .. n /\ 2 - 1 = 1
      BY <3>2
    <3> QED BY <3>1, <3>3
  <2>2. Sits(stack, 2, heap, reported)
    BY <2>1 DEF IInv, StackOK
  <2>3. PICK X \in DOMAIN Goto[Start] : stack[2].state = Goto[Start][X]
    BY <1>1, <2>1, <2>2 DEF Sits
  <2>4. Shifts(stack[2].state, "error")
    BY <2>3, AutomatonAssumption DEF Retraceable
  <2> QED BY <2>1, <2>4
<1>4. ErrorState = Max(I)
  BY <1>3 DEF ErrorState, SelectLastInSeq
<1>5. Max(I) \in I /\ \A k \in I : k <= Max(I)
  <2>1. I \subseteq 0 .. Len(stack)
    OBVIOUS
  <2> HIDE DEF I
  <2> QED BY <1>1, <1>3, <2>1, MaxIsGreatest
<1> QED
  BY <1>4, <1>5 DEF Shifts
-----------------------------------------------------------------------------
LEMMA InitHolds == Init => IInv
<1> SUFFICES ASSUME Init
             PROVE  IInv
  OBVIOUS
<1> USE DEF Init
<1>1. Scalars
  <2>1. ahead \in Seq(Token)
    BY PrologueAssumption
  <2>2. yyerrstatus \in 0 .. 3 /\ ~(yyerrstatus > 0)
    OBVIOUS
  <2>3. la \in Token \cup {"none", "end"} /\ la # "ID" /\ yylval = NULL /\ program_root = NULL
    OBVIOUS
  <2>4. status \in {"parsing", "accepted", "aborted"} /\ reported \in BOOLEAN /\ emptied \in BOOLEAN
    OBVIOUS
  <2> HIDE DEF Init
  <2> QED BY <2>1, <2>2, <2>3, <2>4 DEF Scalars
<1>2. StackOK(stack, heap, reported)
  <2>1. Start \in DOMAIN Kernel
    BY AutomatonAssumption DEF Retraceable
  <2>2. [state |-> Start, val |-> NULL] \in Entry
    BY <2>1 DEF Entry, NULL
  <2>3. Len(stack) = 1 /\ 2 .. Len(stack) = {}
    OBVIOUS
  <2> QED BY <2>2, <2>3 DEF StackOK
<1>3. \A k \in Nat : Holds[k] = NULL
  <2>1. Len(stack) = 1 /\ stack[1].val = NULL
    OBVIOUS
  <2> QED BY <2>1 DEF Holds, Holding
<1>4. Len(heap) = 0 /\ 1 .. Len(heap) = {} /\ heap \in Seq(AnyNode) /\ Cells(heap) = {}
  BY DEF Cells
<1>5. Holds \in [Nat -> 0 .. Len(heap)]
  <2>1. Holds = [k \in Nat |-> Holds[k]]
    BY DEF Holds, Holding
  <2> QED BY <1>3, <1>4, <2>1 DEF NULL
<1>6. PICK g : g = [p \in 1 .. Len(heap) |-> 0]
  OBVIOUS
<1>12. freed = {} /\ g \in [1 .. Len(heap) -> Int]
  BY <1>4, <1>6
<1>7. Rooted(heap, Holds, freed, reported, g)
  <2> HIDE DEF Init
  <2> QED BY <1>3, <1>4, <1>12 DEF Rooted
<1>8. Ranked(heap, Holds, g, g, 0)
  BY <1>3, <1>4, <1>6 DEF Ranked
<1>9. Nodes(heap)
  BY <1>4 DEF Nodes
<1>10. Holds[0] = NULL /\ freed \subseteq 1 .. Len(heap) /\ reported \in BOOLEAN
  BY <1>3
<1>11. Pool(heap, Holds, freed, reported)
  <2> USE DEF Pool
  <2> HIDE DEF Init
  <2> QED BY <1>5, <1>7, <1>8, <1>9, <1>10
<1> QED
  BY <1>1, <1>2, <1>11 DEF IInv

LEMMA LexKeeps == IInv /\ yylex => IInv'
<1> SUFFICES ASSUME IInv, yylex
             PROVE  IInv'
  OBVIOUS
<1>1. yylval = NULL /\ stack' = stack /\ freed' = freed /\ reported' = reported
      /\ program_root' = program_root
  BY DEF yylex, IInv, Scalars
<1>2. /\ ahead' \in Seq(Token) /\ la' \in Token \cup {"end"}
      /\ yyerrstatus' = yyerrstatus /\ status' = status /\ emptied' = emptied
  <2>1. ahead \in Seq(Token)
    BY DEF IInv, Scalars
  <2>2. CASE ahead # << >>
    <3>1. Head(ahead) \in Token /\ Tail(ahead) \in Seq(Token)
      BY <2>1, <2>2
    <3> QED BY <2>2, <3>1 DEF yylex
  <2>3. CASE ahead = << >>
    BY <2>1, <2>3 DEF yylex
  <2> QED BY <2>2, <2>3 DEF yylex
<1>3. StackOK(stack, heap, reported) /\ Pool(heap, Holds, freed, reported)
  BY DEF IInv
<1>4. CASE la' = "ID"
  <2>1. PICK none, E, name : none = << >> /\ E = {0} /\ name = Made(heap, "string", none)
    OBVIOUS
  <2>2. heap' = name.heap /\ yylval' = name.val
    BY <1>4, <2>1 DEF yylex
  <2>3. Holds[1] = NULL
    BY <1>1, HoldsIs
  <2>4. /\ none \in Seq(Nat) /\ E = Range(none) \cup {0}
        /\ none = [k \in 1 .. Len(none) |-> Holds[none[k]]]
    BY <2>1 DEF Range
  <2>5. Given(heap, Holds, freed, reported, none, E, 1, none)
    BY <1>3, <2>3, <2>4 DEF Given
  <2>6. "string" \in NodeType /\ "string" \notin ListType
    BY DEF NodeType, ListType
  <2>7. Done(heap, Holds, freed, reported, E, 1, name) /\ name.val = Len(heap) + 1
    BY <2>1, <2>5, <2>6, MadeFrom
  <2>8. Pool(heap', Taken(Holds, E, 1, yylval'), freed, reported) /\ Grows(heap, heap')
    BY <2>2, <2>7 DEF Done
  <2>9. Holds' = Taken(Holds, E, 1, yylval')
    BY <1>1, <2>1 DEF Holds, Holding, Taken, NULL
  <2>10. StackOK(stack, heap', reported)
    <3>1. heap \in Seq(AnyNode) /\ heap' \in Seq(AnyNode)
      BY <1>3, <2>8 DEF Pool, Nodes
    <3>2. \A k \in 1 .. Len(stack) : stack[k].val \in 0 .. Len(heap)
      BY HoldsIs
    <3> QED BY <1>3, <2>8, <3>1, <3>2, StackStays
  <2>11. heap'[yylval'].type = "string"
    <3>1. heap \in Seq(AnyNode)
      BY <1>3 DEF Pool, Nodes
    <3> QED BY <2>1, <2>2, <3>1 DEF Made
  <2>12. Scalars'
    BY <1>1, <1>2, <1>4, <2>11 DEF Scalars, IInv
  <2> QED BY <1>1, <2>8, <2>9, <2>10, <2>12 DEF IInv
<1>5. CASE la' # "ID"
  <2>1. heap' = heap /\ yylval' = NULL
    BY <1>5 DEF yylex
  <2>2. Holds' = Holds
    BY <1>1, <2>1 DEF Holds
  <2>3. Scalars'
    BY <1>1, <1>2, <1>5, <2>1 DEF Scalars, IInv
  <2> QED BY <1>1, <1>3, <2>1, <2>2, <2>3 DEF IInv
<1> QED
  BY <1>4, <1>5

LEMMA ShiftKeeps == IInv /\ Shift => IInv'
<1> SUFFICES ASSUME IInv, Shift
             PROVE  IInv'
  OBVIOUS
<1>1. /\ heap' = heap /\ freed' = freed /\ reported' = reported /\ yylval' = NULL
      /\ program_root' = program_root /\ la' = "none" /\ ahead' = ahead /\ status' = status
      /\ emptied' = emptied
  BY DEF Shift
<1>2. /\ StackOK(stack, heap, reported) /\ Pool(heap, Holds, freed, reported)
      /\ Len(stack) \in Nat /\ Len(stack) >= 1 /\ yylval \in Nat
  <2>1. Holds[1] = yylval /\ Holds \in [Nat -> 0 .. Len(heap)] /\ Len(heap) \in Nat
    BY HoldsIs
  <2>2. Holds[1] \in 0 .. Len(heap)
    BY <2>1
  <2>3. yylval \in Nat
    BY <2>1, <2>2
  <2> QED BY <2>3, HoldsIs DEF IInv
<1>3. PICK from : from = stack[Len(stack)].state
  OBVIOUS
<1>4. la \in DOMAIN Goto[from] /\ stack' = Append(stack, [state |-> Goto[from][la], val |-> yylval])
  BY <1>3 DEF Shift, Shifts, Top, Last
<1>5. la \in Token
  <2>1. from \in DOMAIN Kernel
    <3>1. stack[Len(stack)] \in Entry
      BY <1>2 DEF StackOK
    <3> QED BY <1>3, <3>1 DEF Entry
  <2>2. la \in Symbol
    BY <1>4, <2>1, AutomatonAssumption DEF Retraceable
  <2> QED BY <2>2, AutomatonAssumption DEF Retraceable, IInv, Scalars
<1>6. ValueOK(la, yylval, heap, reported)
  <2>1. la # "ID" => yylval = NULL
    BY DEF IInv, Scalars
  <2>2. "ID" \notin Valueless /\ "ID" \notin ListSymbol /\ "ID" \notin ArgumentSymbol
    BY DEF Valueless, ListSymbol, ArgumentSymbol
  <2>3. la # "error"
    BY <1>5 DEF Token
  <2>4. la = "ID" => yylval = NULL \/ heap[yylval].type = "string"
    BY DEF IInv, Scalars
  <2> QED BY <2>1, <2>2, <2>3, <2>4 DEF ValueOK, ListOK, ArgumentsOK
<1>7. /\ StackOK(stack', heap, reported) /\ Len(stack') = Len(stack) + 1
      /\ stack'[Len(stack) + 1].val = yylval /\ \A k \in 1 .. Len(stack) : stack'[k] = stack[k]
  BY <1>2, <1>3, <1>4, <1>6, StackPush
<1>8. PICK i, j, I : i = 1 /\ j = Len(stack) + 3 /\ I = {1}
  OBVIOUS
<1>9. Pool(heap, Taken(Holds, I, j, yylval), freed, reported)
  <2>0. j \in Nat /\ j # 0 /\ j > Len(stack) + 2
    BY <1>2, <1>8
  <2>1. Holds[j] = NULL /\ yylval = Holds[i]
    BY <1>8, <2>0, HoldsIs
  <2>2. i \in Nat \ {0}
    BY <1>8
  <2>3. Pool(heap, Taken(Holds, {i}, j, yylval), freed, reported)
    BY <1>2, <2>0, <2>1, <2>2, Moves
  <2> QED BY <1>8, <2>3
<1>10. Holds' = Taken(Holds, I, j, yylval)
  <2>1. ASSUME NEW k \in Nat
        PROVE  Holds'[k] = Taken(Holds, I, j, yylval)[k]
    <3>1. CASE k = j
      BY <1>1, <1>2, <1>7, <1>8, <3>1 DEF Holds, Holding, Taken
    <3>2. CASE k # j
      <4>1. k - 2 \in 1 .. Len(stack') <=> k - 2 \in 1 .. Len(stack)
        BY <1>2, <1>7, <1>8, <3>2
      <4> QED BY <1>1, <1>7, <1>8, <3>2, <4>1 DEF Holds, Holding, Taken
    <3> QED BY <3>1, <3>2
  <2> QED BY <2>1 DEF Holds, Holding, Taken
<1>11. Scalars'
  <2>1. yyerrstatus' \in 0 .. 3 /\ (yyerrstatus' > 0 => yyerrstatus > 0)
    BY DEF Shift, IInv, Scalars
  <2> QED BY <1>1, <2>1 DEF Scalars, IInv
<1> QED
  BY <1>1, <1>7, <1>9, <1>10, <1>11 DEF IInv
(* What is destroyed is what hangs on the slots above.                     *)
LEMMA DestroyedIs ==
  ASSUME IInv, NEW e \in 0 .. Len(stack), NEW c, c = SubSeq(stack, e + 1, Len(stack)),
         NEW K, \A k : k \in K <=> k \in Nat /\ k > e + 2
  PROVE  /\ \A p : p \in Destroyed(c) <=> \E k \in K : p \in Hanging(Holds[k])
         /\ Hanging(NULL) = {}
<1>1. PICK n : n = Len(stack)
  OBVIOUS
<1>2. /\ n \in Nat /\ stack \in Seq(Entry) /\ \A k \in 1 .. n : Holds[k + 2] = stack[k].val
      /\ \A k \in Nat : k > n + 2 => Holds[k] = NULL
  BY <1>1, HoldsIs
<1>3. Hanging(NULL) = {}
  <2>1. Pool(heap, Holds, freed, reported)
    BY DEF IInv
  <2> QED BY <2>1, HangsOn
<1>4. e \in Nat /\ e <= n
  BY <1>1, <1>2
<1>5. DOMAIN c = 1 .. n - e /\ \A m \in 1 .. n - e : c[m] = stack[e + m]
  <2>1. \A i \in e + 1 .. n : stack[i] \in Entry
    BY <1>1, <1>2, <1>4
  <2>2. e + 1 \in Int /\ n \in Int
    BY <1>2, <1>4
  <2>3. /\ c \in Seq(Entry) /\ Len(c) = IF e + 1 <= n THEN n - (e + 1) + 1 ELSE 0
        /\ \A i \in 1 .. n - (e + 1) + 1 : c[i] = stack[e + 1 + i - 1]
    BY <1>1, <2>1, <2>2, SubSeqProperties
  <2>4. /\ n - e \in Nat /\ Len(c) = n - e /\ n - (e + 1) + 1 = n - e
        /\ \A i \in 1 .. n - e : e + 1 + i - 1 = e + i
    BY <1>2, <1>4, <2>3
  <2>5. DOMAIN c = 1 .. n - e
    BY <2>3, <2>4
  <2>6. ASSUME NEW m \in 1 .. n - e
        PROVE  c[m] = stack[e + m]
    <3>1. m \in 1 .. n - (e + 1) + 1 /\ e + 1 + m - 1 = e + m
      BY <2>4
    <3> QED BY <2>3, <3>1
  <2> QED BY <2>5, <2>6
<1>6. ASSUME NEW p, p \in Destroyed(c)
      PROVE  \E k \in K : p \in Hanging(Holds[k])
  <2>1. PICK m \in 1 .. n - e : p \in Hanging(c[m].val)
    BY <1>5, <1>6 DEF Destroyed
  <2>2. e + m \in 1 .. n /\ e + m + 2 \in K
    BY <1>2, <1>4
  <2>3. Holds[e + m + 2] = c[m].val
    BY <1>2, <1>5, <2>2
  <2> QED BY <2>1, <2>2, <2>3
<1>7. ASSUME NEW p, NEW k \in K, p \in Hanging(Holds[k])
      PROVE  p \in Destroyed(c)
  <2>1. k \in Nat /\ k > e + 2
    OBVIOUS
  <2>2. ~(k > n + 2)
    BY <1>2, <1>3, <1>7, <2>1
  <2>3. PICK m : m = k - 2 - e
    OBVIOUS
  <2>4. m \in 1 .. n - e /\ e + m \in 1 .. n /\ e + m + 2 = k
    BY <1>2, <1>4, <2>1, <2>2, <2>3
  <2>5. c[m].val = Holds[k]
    BY <1>2, <1>5, <2>4
  <2> QED BY <1>5, <1>7, <2>4, <2>5 DEF Destroyed
<1> QED
  BY <1>3, <1>6, <1>7

LEMMA PushesError ==
  ASSUME IInv, NoAction, PushError, NEW n, n = ErrorState
  PROVE  /\ n \in 1 .. Len(stack) /\ StackOK(stack', heap, TRUE) /\ Len(stack') = n + 1
         /\ stack'[n + 1].val = NULL /\ \A k \in 1 .. n : stack'[k] = stack[k]
<1>1. n \in 1 .. Len(stack) /\ "error" \in DOMAIN Goto[stack[n].state]
  BY ErrorStateIs
<1>2. StackOK(stack, heap, TRUE)
  <2>1. StackOK(stack, heap, reported) /\ heap \in Seq(AnyNode) /\ Len(heap) \in Nat
        /\ \A k \in 1 .. Len(stack) : stack[k].val \in 0 .. Len(heap)
    BY HoldsIs DEF IInv
  <2>2. Grows(heap, heap)
    BY <2>1 DEF Grows
  <2> QED BY <2>1, <2>2, StackStays
<1>3. PICK s : s = SubSeq(stack, 1, n)
  OBVIOUS
<1>4. StackOK(s, heap, TRUE) /\ Len(s) = n /\ \A k \in 1 .. n : s[k] = stack[k]
  BY <1>1, <1>2, <1>3, StackCut
<1>5. ValueOK("error", NULL, heap, TRUE)
  BY DEF ValueOK, NULL, Valueless, ListOK, ArgumentsOK
<1>6. PICK from : from = stack[n].state
  OBVIOUS
<1>7. from = s[Len(s)].state /\ n \in Nat
  <2>1. Len(stack) \in Nat
    BY HoldsIs
  <2> QED BY <1>1, <1>4, <1>6, <2>1
<1>8. stack' = Append(s, [state |-> Goto[from]["error"], val |-> NULL])
  BY <1>3, <1>6 DEF PushError
<1>9. "error" \in DOMAIN Goto[from] /\ NULL \in Nat
  BY <1>1, <1>6 DEF NULL
<1>10. /\ StackOK(stack', heap, TRUE) /\ Len(stack') = Len(s) + 1
       /\ stack'[Len(s) + 1].val = NULL /\ \A k \in 1 .. Len(s) : stack'[k] = s[k]
  <2>1. PICK X, v, rep : X = "error" /\ v = NULL /\ rep = TRUE
    OBVIOUS
  <2>2. X \in DOMAIN Goto[from] /\ v \in Nat /\ ValueOK(X, v, heap, rep)
    BY <1>5, <1>9, <2>1
  <2>3. stack' = Append(s, [state |-> Goto[from][X], val |-> v])
    BY <1>8, <2>1
  <2>4. StackOK(s, heap, rep) /\ from = s[Len(s)].state
    BY <1>4, <1>7, <2>1
  <2>5. /\ StackOK(stack', heap, rep) /\ Len(stack') = Len(s) + 1
        /\ stack'[Len(s) + 1].val = v /\ \A k \in 1 .. Len(s) : stack'[k] = s[k]
    <3> HIDE DEF PushError
    <3> QED BY ONLY <2>2, <2>3, <2>4, StackPush
  <2> QED BY <2>1, <2>5
<1> QED
  BY <1>1, <1>4, <1>10

LEMMA RecoverKeeps == IInv /\ (Recover \/ Discard) => IInv'
<1> SUFFICES ASSUME IInv, Recover \/ Discard
             PROVE  IInv'
  OBVIOUS
<1>1. /\ heap' = heap /\ program_root' = program_root /\ ahead' = ahead
      /\ status' = status /\ emptied' = emptied
      /\ NoAction /\ PushError /\ reported' = TRUE /\ yyerrstatus' = 3
  BY DEF Recover, Discard, IInv, Scalars
<1>2. PICK n : n = ErrorState
  OBVIOUS
<1>3. /\ n \in 1 .. Len(stack) /\ StackOK(stack', heap, TRUE) /\ Len(stack') = n + 1
      /\ stack'[n + 1].val = NULL /\ \A k \in 1 .. n : stack'[k] = stack[k]
  BY <1>1, <1>2, PushesError
<1>4. Len(stack) \in Nat /\ n \in Nat /\ n >= 1
  <2>1. Len(stack) \in Nat
    BY HoldsIs
  <2> QED BY <1>3, <2>1
<1>5. PICK K : \A k : k \in K <=> k \in Nat /\ k > n + 2
  <2>1. \A k : k \in {k2 \in Nat : k2 > n + 2} <=> k \in Nat /\ k > n + 2
    OBVIOUS
  <2> QED BY <2>1
<1>6. /\ \A p : p \in Destroyed(Popped) <=> \E k \in K : p \in Hanging(Holds[k])
      /\ Hanging(NULL) = {}
  <2>1. n \in 0 .. Len(stack)
    BY <1>3, <1>4
  <2> QED BY <1>2, <1>5, <2>1, DestroyedIs DEF Popped
<1>7. PICK L, S :
        /\ freed' = freed \cup S /\ L \in SUBSET Nat
        /\ \A p : p \in S <=> \E k \in L : p \in Hanging(Holds[k])
        /\ \/ L = K /\ yylval' = yylval /\ la' = la
           \/ L = K \cup {1} /\ yylval' = NULL /\ la' = "none"
  <2>1. CASE Recover
    BY <1>5, <1>6, <2>1 DEF Recover
  <2>2. CASE Discard
    <3>1. PICK S : S = Destroyed(Popped) \cup Hanging(yylval)
      OBVIOUS
    <3>2. freed' = freed \cup S /\ yylval' = NULL /\ la' = "none"
      BY <2>2, <3>1 DEF Discard
    <3>3. Holds[1] = yylval
      BY HoldsIs
    <3>4. PICK L : L = K \cup {1}
      OBVIOUS
    <3>5. \A k : k \in L <=> k \in K \/ k = 1
      BY <3>4
    <3>6. L \in SUBSET Nat
      BY <1>5, <3>5
    <3>7. \A p : p \in S <=> \E k \in L : p \in Hanging(Holds[k])
      BY <1>6, <3>1, <3>3, <3>5
    <3> QED BY <3>2, <3>4, <3>6, <3>7
  <2> QED BY <2>1, <2>2
<1>8. Pool(heap, Taken(Holds, L, 0, NULL), freed', TRUE)
  <2>1. Pool(heap, Holds, freed, reported)
    BY DEF IInv
  <2>2. Pool(heap, Holds, freed, TRUE)
    BY <2>1, PoolReported
  <2> QED BY <1>7, <2>2, Destroys
<1>9. Holds' = Taken(Holds, L, 0, NULL)
  <2>1. ASSUME NEW k \in Nat
        PROVE  Holds'[k] = Taken(Holds, L, 0, NULL)[k]
    <3>1. CASE k \in {0, 1, 2}
      BY <1>1, <1>4, <1>5, <1>7, <3>1 DEF Holds, Holding, Taken
    <3>2. CASE k > n + 2
      <4>1. k \in L
        BY <1>5, <1>7, <3>2
      <4>2. k - 2 \in 1 .. Len(stack') => k - 2 = n + 1
        BY <1>3, <1>4, <3>2
      <4> QED BY <1>3, <1>4, <3>2, <4>1, <4>2 DEF Holds, Holding, Taken
    <3>3. CASE k > 2 /\ k <= n + 2
      <4>1. k \notin L /\ k - 2 \in 1 .. n
        BY <1>4, <1>5, <1>7, <3>3
      <4>2. k - 2 \in 1 .. Len(stack) /\ k - 2 \in 1 .. Len(stack')
        BY <1>3, <1>4, <4>1
      <4> QED BY <1>3, <3>3, <4>1, <4>2 DEF Holds, Holding, Taken
    <3> QED BY <1>4, <3>1, <3>2, <3>3
  <2> QED BY <2>1 DEF Holds, Holding, Taken
<1>10. Scalars'
  BY <1>1, <1>7 DEF Scalars, IInv
<1> QED
  BY <1>1, <1>3, <1>8, <1>9, <1>10 DEF IInv

LEMMA AbortKeeps == IInv /\ Abort => IInv'
<1> SUFFICES ASSUME IInv, Abort
             PROVE  IInv'
  OBVIOUS
<1>1. /\ heap' = heap /\ program_root' = program_root /\ ahead' = ahead
      /\ status' = "aborted" /\ emptied' = emptied
      /\ reported' = reported /\ yyerrstatus' = yyerrstatus /\ la' = la /\ yylval' = yylval
      /\ stack' = SubSeq(stack, 1, 1) /\ freed' = freed \cup Destroyed(stack)
  BY DEF Abort
<1>2. /\ stack \in Seq(Entry) /\ Len(stack) \in Nat /\ 1 \in 1 .. Len(stack) /\ stack[1].val = NULL
      /\ StackOK(stack, heap, reported)
  BY HoldsIs DEF IInv, StackOK
<1>3. StackOK(stack', heap, reported) /\ Len(stack') = 1 /\ stack'[1] = stack[1]
  BY <1>1, <1>2, StackCut
<1>4. PICK K : \A k : k \in K <=> k \in Nat /\ k > 0 + 2
  <2>1. \A k : k \in {k2 \in Nat : k2 > 0 + 2} <=> k \in Nat /\ k > 0 + 2
    OBVIOUS
  <2> QED BY <2>1
<1>5. \A p : p \in Destroyed(stack) <=> \E k \in K : p \in Hanging(Holds[k])
  <2>1. stack = SubSeq(stack, 0 + 1, Len(stack))
    BY <1>2, SubSeqFull
  <2>2. 0 \in 0 .. Len(stack)
    BY <1>2
  <2> QED BY <1>4, <2>1, <2>2, DestroyedIs
<1>6. Pool(heap, Taken(Holds, K, 0, NULL), freed', reported)
  <2>1. Pool(heap, Holds, freed, reported) /\ K \in SUBSET Nat
    BY <1>4 DEF IInv
  <2>2. PICK S : S = Destroyed(stack)
    OBVIOUS
  <2> QED BY <1>1, <1>5, <2>1, <2>2, Destroys
<1>7. Holds' = Taken(Holds, K, 0, NULL)
  <2>1. ASSUME NEW k \in Nat
        PROVE  Holds'[k] = Taken(Holds, K, 0, NULL)[k]
    <3>1. CASE k \in {0, 1, 2}
      BY <1>1, <1>2, <1>4, <3>1 DEF Holds, Holding, Taken
    <3>2. CASE k > 2
      <4>1. k - 2 \in 1 .. Len(stack') => k - 2 = 1
        BY <1>3
      <4> QED BY <1>2, <1>3, <1>4, <3>2, <4>1 DEF Holds, Holding, Taken
    <3> QED BY <3>1, <3>2
  <2> QED BY <2>1 DEF Holds, Holding, Taken
<1>8. Scalars'
  BY <1>1 DEF Scalars, IInv
<1> QED
  BY <1>1, <1>3, <1>6, <1>7, <1>8 DEF IInv
-----------------------------------------------------------------------------
(* A rule is reduced where it is complete: below its right side is a state *)
(* from which its left side leads on.                                      *)

Popping(rule, b) ==
  /\ rule \in Range(Rules) /\ Len(rule.rhs) \in Nat
  /\ b = Len(stack) - Len(rule.rhs) /\ b \in 1 .. Len(stack)
  /\ rule.lhs \in DOMAIN Goto[stack[b].state] \cup {"full_program"}
  /\ \A n \in 1 .. Len(rule.rhs) :
       ValueOK(rule.rhs[n], stack[b + n].val, heap, reported)
  /\ \A n \in 0 .. Len(rule.rhs) : Begun(stack, rule, b, n)

LEMMA Pops ==
  ASSUME IInv, NEW rule \in Reductions(Top, la)
  PROVE  Popping(rule, Len(stack) - Len(rule.rhs))
<1>1. PICK from : from = stack[Len(stack)].state
  OBVIOUS
<1>2. from \in DOMAIN Kernel
  <2>1. stack[Len(stack)] \in Entry
    BY HoldsIs
  <2> QED BY <1>1, <2>1 DEF Entry
<1>3. rule \in Complete[from]
  BY <1>1 DEF Reductions, Defaults, Top, Last
<1>4. Complete[from] = Completed(Items[from])
  <2>1. DOMAIN Items = DOMAIN Kernel
    BY DEF Items
  <2> QED BY <1>2, <2>1 DEF Complete
<1>5. PICK item \in Items[from] : item.rule = rule /\ item \notin Remaining(Items[from])
  BY <1>3, <1>4 DEF Completed
<1>6. rule \in Range(Rules) /\ item.dot \in 1 .. Len(rule.rhs) + 1 /\ Len(rule.rhs) \in Nat
  <2>1. rule \in Range(Rules) /\ item.dot \in 1 .. Len(rule.rhs) + 1
    BY <1>2, <1>5, AutomatonAssumption DEF Retraceable
  <2>2. rule.rhs \in Seq(Symbol)
    BY <2>1, AutomatonAssumption DEF Retraceable
  <2> QED BY <2>1, <2>2, LenProperties
<1>7. item.dot = Len(rule.rhs) + 1
  <2>1. ~(item.dot <= Len(rule.rhs))
    BY <1>5 DEF Remaining
  <2> QED BY <1>6, <2>1
<1>8. PICK b, rhs : b = Len(stack) - Len(rule.rhs) /\ rhs = item.rule.rhs
  OBVIOUS
<1>9. b = Len(stack) - (item.dot - 1)
  <2>1. item.dot - 1 = Len(rule.rhs)
    BY <1>6, <1>7
  <2> QED BY <1>8, <2>1
<1>10. StackOK(stack, heap, reported)
  BY DEF IInv
<1>11. /\ b \in 1 .. Len(stack)
       /\ item.rule.lhs \in DOMAIN Goto[stack[b].state] \cup {"full_program"}
       /\ \A n \in 1 .. item.dot - 1 : ValueOK(rhs[n], stack[b + n].val, heap, reported)
       /\ \A n \in 0 .. item.dot - 1 : Begun(stack, item.rule, b, n)
  BY <1>1, <1>8, <1>9, <1>10, Walks
<1>12. item.dot - 1 = Len(rule.rhs)
  BY <1>6, <1>7
<1>13. \A n \in 1 .. Len(rule.rhs) : ValueOK(rule.rhs[n], stack[b + n].val, heap, reported)
  BY <1>5, <1>8, <1>11, <1>12
<1>14. rule.lhs \in DOMAIN Goto[stack[b].state] \cup {"full_program"} /\ b \in 1 .. Len(stack)
  BY <1>5, <1>11
<1>15. \A n \in 0 .. Len(rule.rhs) : Begun(stack, rule, b, n)
  BY <1>5, <1>11, <1>12
<1>16. Popping(rule, b)
  BY <1>6, <1>8, <1>13, <1>14, <1>15 DEF Popping
<1> QED
  BY <1>8, <1>16

Arguments(rule, b) ==
  [k \in DOMAIN rule.args |-> IF rule.args[k] = 0 THEN NULL ELSE stack[b + rule.args[k]].val]

(* The values that the action takes are those of the right side, the rest  *)
(* are NULL or names lost in an error; its result is in the first's place. *)
LEMMA Acts ==
  ASSUME IInv, NEW rule, NEW b, Popping(rule, b), rule.action # "program_root",
         NEW a, a = Arguments(rule, b),
         NEW done, done = Do(rule.action, heap, a),
         NEW s2, Len(s2) = b + 1, s2[b + 1].val = done.val, \A k \in 1 .. b : s2[k] = stack[k]
  PROVE  /\ Pool(done.heap, Holding(s2, yylval, program_root), freed, reported)
         /\ Grows(heap, done.heap) /\ Yields(rule, done)
<1>1. PICK args, rhs, m : args = rule.args /\ rhs = rule.rhs /\ m = Len(rhs)
  OBVIOUS
<1>2. /\ m \in Nat /\ b \in Nat /\ b >= 1 /\ Len(stack) \in Nat /\ b + m = Len(stack)
      /\ rule \in Range(Rules)
      /\ \A n \in 1 .. m : ValueOK(rhs[n], stack[b + n].val, heap, reported)
  <2>1. Len(stack) \in Nat
    BY HoldsIs
  <2>2. m \in Nat /\ rule \in Range(Rules) /\ b = Len(stack) - m /\ b \in 1 .. Len(stack)
    BY <1>1 DEF Popping
  <2>3. b \in Nat /\ b >= 1 /\ b + m = Len(stack)
    BY <2>1, <2>2
  <2>4. \A n \in 1 .. m : ValueOK(rhs[n], stack[b + n].val, heap, reported)
    BY <1>1 DEF Popping
  <2> QED BY <2>1, <2>2, <2>3, <2>4
<1>3. /\ args \in Seq(0 .. m) /\ Len(args) \in Nat /\ DOMAIN args = 1 .. Len(args)
      /\ DOMAIN rhs = 1 .. m /\ rhs \in Seq(Symbol)
  <2>1. args \in Seq(0 .. m)
    BY <1>1, <1>2, ActionsAssumption DEF WellTyped
  <2>2. rhs \in Seq(Symbol)
    BY <1>1, <1>2, AutomatonAssumption DEF Retraceable
  <2> QED BY <1>1, <2>1, <2>2, LenProperties
<1>4. \A n \in 1 .. m : \/ n \in Range(args) \/ rhs[n] \in Valueless
                        \/ rhs[n] = "ID" /\ "error" \in Range(rhs)
  BY <1>1, <1>2, <1>3, ActionsAssumption DEF WellTyped
<1>5. /\ Holds \in [Nat -> 0 .. Len(heap)] /\ Holds[0] = NULL /\ Holds[1] = yylval
      /\ Holds[2] = program_root /\ \A k \in 1 .. Len(stack) : Holds[k + 2] = stack[k].val
      /\ \A k \in Nat : k > Len(stack) + 2 => Holds[k] = NULL
  BY HoldsIs
<1>6. PICK K0 : K0 = {k \in Nat : \E n \in 1 .. m : n \notin Range(args) /\ k = b + n + 2}
  OBVIOUS
<1>7. \A k \in K0 : Holds[k] = NULL \/ (reported /\ heap[Holds[k]].type = "string")
  <2> SUFFICES ASSUME NEW k \in K0, Holds[k] # NULL
               PROVE  reported /\ heap[Holds[k]].type = "string"
    OBVIOUS
  <2>1. PICK n \in 1 .. m : n \notin Range(args) /\ k = b + n + 2
    BY <1>6
  <2>2. Holds[k] = stack[b + n].val
    <3>1. b + n \in 1 .. Len(stack) /\ k = (b + n) + 2
      BY <1>2, <2>1
    <3> QED BY <1>5, <3>1
  <2>3. rhs[n] = "ID" /\ "error" \in Range(rhs)
    BY <1>2, <1>4, <2>1, <2>2 DEF ValueOK
  <2>4. PICK e \in 1 .. m : rhs[e] = "error"
    BY <1>3, <2>3 DEF Range
  <2>5. reported
    BY <1>2, <2>4 DEF ValueOK
  <2> QED BY <1>2, <2>2, <2>3, <2>5 DEF ValueOK
<1>8. PICK hold1 : hold1 = Taken(Holds, K0, 0, NULL)
  OBVIOUS
<1>9. Pool(heap, hold1, freed, reported)
  <2>1. Pool(heap, Holds, freed, reported) /\ K0 \in SUBSET Nat
    BY <1>6 DEF IInv
  <2> QED BY <1>7, <1>8, <2>1, Loses
<1>10. \A k \in Nat : hold1[k] = IF k \in K0 THEN NULL ELSE Holds[k]
  BY <1>5, <1>8 DEF Taken
<1>11. PICK t, u : t = b + 3 /\ u = Len(stack) + 10
  OBVIOUS
<1>11a. PICK sl : sl = [k \in 1 .. Len(args) |-> IF args[k] = 0 THEN 0 ELSE b + args[k] + 2]
  OBVIOUS
<1>11b. PICK K : K = Range(sl) \cup {0}
  OBVIOUS
<1>12. /\ t \in Nat \ {0} /\ u \in Nat \ {0} /\ u # t /\ sl \in Seq(Nat) /\ Len(sl) = Len(args)
       /\ DOMAIN sl = 1 .. Len(args)
  BY <1>2, <1>3, <1>11, <1>11a
<1>13. \A k \in 1 .. Len(args) :
         /\ args[k] \in 0 .. m
         /\ args[k] = 0 => sl[k] = 0
         /\ args[k] # 0 => sl[k] = b + args[k] + 2 /\ b + args[k] \in 1 .. Len(stack)
  BY <1>2, <1>3, <1>11a
<1>14. \A k \in Nat : k \in K <=> k = 0 \/ \E n \in 1 .. m : n \in Range(args) /\ k = b + n + 2
  <2>1. ASSUME NEW k \in K, k # 0
        PROVE  \E n \in 1 .. m : n \in Range(args) /\ k = b + n + 2
    <3>1. PICK j \in 1 .. Len(args) : k = sl[j]
      BY <1>11b, <1>12, <2>1 DEF Range
    <3>2. args[j] # 0 /\ args[j] \in 1 .. m /\ k = b + args[j] + 2
      BY <1>2, <1>13, <2>1, <3>1
    <3> QED BY <1>3, <3>2 DEF Range
  <2>2. ASSUME NEW n \in 1 .. m, n \in Range(args)
        PROVE  b + n + 2 \in K
    <3>1. PICK j \in 1 .. Len(args) : n = args[j]
      BY <1>3, <2>2 DEF Range
    <3>2. sl[j] = b + n + 2
      BY <1>2, <1>13, <3>1
    <3> QED BY <1>11b, <1>12, <3>2 DEF Range
  <2> QED BY <1>11b, <2>1, <2>2
<1>15. \A n \in 1 .. m : n \in Range(args) => b + n + 2 \notin K0
  BY <1>2, <1>6
<1>16. a = [k \in 1 .. Len(sl) |-> hold1[sl[k]]]
  <2>1. ASSUME NEW k \in 1 .. Len(args)
        PROVE  hold1[sl[k]] = IF args[k] = 0 THEN NULL ELSE stack[b + args[k]].val
    <3>1. CASE args[k] = 0
      <4>1. sl[k] = 0
        BY <1>3, <1>13, <3>1
      <4>2. hold1[0] = IF 0 \in K0 THEN NULL ELSE Holds[0]
        BY <1>10
      <4> QED BY <1>5, <3>1, <4>1, <4>2
    <3>2. CASE args[k] # 0
      <4>1. args[k] \in 1 .. m /\ args[k] \in Range(args)
        <5>1. args[k] \in 0 .. m
          BY <1>13
        <5>2. args[k] \in 1 .. m
          BY ONLY <1>2, <3>2, <5>1
        <5> QED BY <1>3, <5>2 DEF Range
      <4>2. sl[k] \in Nat /\ sl[k] \notin K0 /\ sl[k] = (b + args[k]) + 2
        BY <1>2, <1>13, <1>15, <3>2, <4>1
      <4>3. b + args[k] \in 1 .. Len(stack)
        BY <1>13, <3>2
      <4>4. Holds[(b + args[k]) + 2] = stack[b + args[k]].val
        BY <1>5, <4>3
      <4>5. hold1[sl[k]] = Holds[sl[k]]
        BY <1>10, <4>2
      <4> QED BY <3>2, <4>2, <4>4, <4>5
    <3> QED BY <3>1, <3>2
  <2> QED BY <1>1, <1>3, <1>12, <2>1 DEF Arguments
<1>17. hold1[t] = NULL \/ t \in K
  <2>1. CASE m = 0
    <3>1. t \in Nat /\ t > Len(stack) + 2
      BY <1>2, <1>11, <2>1
    <3>2. Holds[t] = NULL
      BY <1>5, <3>1
    <3>3. hold1[t] = IF t \in K0 THEN NULL ELSE Holds[t]
      BY <1>10, <3>1
    <3> QED BY <3>2, <3>3
  <2>2. CASE m # 0 /\ 1 \in Range(args)
    <3>1. 1 \in 1 .. m /\ t = b + 1 + 2 /\ t \in Nat
      BY <1>2, <1>11, <2>2
    <3> QED BY <1>14, <2>2, <3>1
  <2>3. CASE m # 0 /\ 1 \notin Range(args)
    <3>1. 1 \in 1 .. m /\ t = b + 1 + 2 /\ t \in Nat
      BY <1>2, <1>11, <2>3
    <3>2. t \in K0
      BY <1>6, <2>3, <3>1
    <3> QED BY <1>10, <3>1, <3>2
  <2> QED BY <2>1, <2>2, <2>3
<1>18. u \notin K /\ hold1[u] = NULL
  <2>1. u \notin K
    BY <1>2, <1>11, <1>12, <1>14
  <2>2. u \in Nat /\ u > Len(stack) + 2
    BY <1>2, <1>11
  <2>3. Holds[u] = NULL
    BY <1>5, <2>2
  <2>4. hold1[u] = IF u \in K0 THEN NULL ELSE Holds[u]
    BY <1>10, <2>2
  <2> QED BY <2>1, <2>3, <2>4
<1>19. /\ rule.action \in Appending => ListOK(hold1[t], heap)
       /\ rule.action = "append_expr" => ArgumentsOK(hold1[t], heap)
  <2> SUFFICES ASSUME rule.action \in Appending \cup {"append_expr"}
               PROVE  /\ rule.action \in Appending => ListOK(hold1[t], heap)
                      /\ rule.action = "append_expr" => ArgumentsOK(hold1[t], heap)
    OBVIOUS
  <2>1. /\ Len(args) = 2 /\ args[1] = 1
        /\ rule.action \in Appending => rhs[1] \in ListSymbol \ ArgumentSymbol
        /\ rule.action = "append_expr" => rhs[1] \in ArgumentSymbol
    BY <1>1, <1>2, ActionsAssumption DEF WellTyped
  <2>2. 1 \in 1 .. m /\ 1 \in Range(args)
    BY <1>2, <1>3, <1>13, <2>1 DEF Range
  <2>3. hold1[t] = stack[b + 1].val
    <3>1. t \notin K0 /\ t = (b + 1) + 2 /\ b + 1 \in 1 .. Len(stack)
      BY <1>2, <1>11, <1>15, <2>2
    <3> QED BY <1>5, <1>10, <1>12, <3>1
  <2> QED BY <1>2, <2>1, <2>2, <2>3 DEF ValueOK
<1>20. Applies(rule, heap, hold1, freed, reported, sl, K, t, a, u)
  <2>1. Given(heap, hold1, freed, reported, sl, K, t, a)
    BY <1>9, <1>11b, <1>12, <1>16, <1>17 DEF Given
  <2>2. \A k \in 1 .. Len(sl) : /\ rule.args[k] = 0 => sl[k] = 0
                                /\ rule.args[k] = 1 => sl[k] = t
                                /\ rule.args[k] > 1 => sl[k] # t /\ sl[k] # 0
    <3> SUFFICES ASSUME NEW k \in 1 .. Len(args)
                 PROVE  /\ args[k] = 0 => sl[k] = 0
                        /\ args[k] = 1 => sl[k] = t
                        /\ args[k] > 1 => sl[k] # t /\ sl[k] # 0
      BY <1>1, <1>12
    <3>1. args[k] \in Nat /\ (args[k] = 0 => sl[k] = 0) /\ (args[k] # 0 => sl[k] = b + args[k] + 2)
      BY <1>13
    <3> QED BY <1>2, <1>11, <3>1
  <2> QED BY <1>1, <1>2, <1>12, <1>18, <1>19, <2>1, <2>2 DEF Applies
<1>21. Done(heap, hold1, freed, reported, K, t, done) /\ Yields(rule, done)
  BY <1>20, DoGood
<1>22. Taken(hold1, K, t, done.val) = Holding(s2, yylval, program_root)
  <2>1. ASSUME NEW k \in Nat
        PROVE  Taken(hold1, K, t, done.val)[k] = Holding(s2, yylval, program_root)[k]
    <3>1. CASE k = 0
      BY <1>2, <1>5, <1>10, <1>11, <1>14, <3>1 DEF Taken, Holding
    <3>2. CASE k = 1 \/ k = 2
      <4>1. k \notin K /\ k \notin K0 /\ k # t
        BY <1>2, <1>6, <1>11, <1>14, <3>2
      <4> QED BY <1>5, <1>10, <3>2, <4>1 DEF Taken, Holding
    <3>3. CASE k = t
      <4>1. k - 2 = b + 1 /\ k # 1 /\ k # 2
        BY <1>2, <1>11, <3>3
      <4> QED BY <1>2, <3>3, <4>1 DEF Taken, Holding
    <3>4. CASE k > 2 /\ k < t
      <4>1. k - 2 \in 1 .. b /\ k - 2 \in 1 .. Len(s2) /\ k - 2 \in 1 .. Len(stack)
        BY <1>2, <1>11, <3>4
      <4>2. k \notin K /\ k \notin K0 /\ k # t
        BY <1>2, <1>6, <1>11, <1>14, <3>4
      <4>3. Holds[k] = stack[k - 2].val
        <5>1. (k - 2) + 2 = k
          OBVIOUS
        <5> QED BY <1>5, <4>1, <5>1
      <4> QED BY <1>10, <3>4, <4>1, <4>2, <4>3 DEF Taken, Holding
    <3>5. CASE k > t
      <4>1. k - 2 \notin 1 .. Len(s2) /\ k # 1 /\ k # 2
        BY <1>2, <1>11, <3>5
      <4>2. k \in K \/ hold1[k] = NULL
        <5>1. CASE k > Len(stack) + 2
          BY <1>5, <1>10, <5>1
        <5>2. CASE k <= Len(stack) + 2
          <6>1. PICK n : n = k - b - 2
            OBVIOUS
          <6>2. n \in 1 .. m /\ k = b + n + 2
            BY <1>2, <1>11, <3>5, <5>2, <6>1
          <6> QED BY <1>6, <1>10, <1>14, <6>2
        <5> QED BY <1>2, <5>1, <5>2
      <4> QED BY <3>5, <4>1, <4>2 DEF Taken, Holding
    <3> QED BY <1>2, <1>11, <3>1, <3>2, <3>3, <3>4, <3>5
  <2> QED BY <2>1 DEF Taken, Holding
<1> QED
  BY <1>21, <1>22 DEF Done
(* The value of a reduction has the type of the rule's left side.          *)
LEMMA Typed ==
  ASSUME NEW rule \in Range(Rules), NEW h, NEW b, NEW rep,
         NEW a, a = Arguments(rule, b), NEW done, done = Do(rule.action, h, a),
         Yields(rule, done), rule.rhs = <<"nonempty_expr_list">> => ArgumentsOK(stack[b + 1].val, h)
  PROVE  ValueOK(rule.lhs, done.val, done.heap, rep)
<1>1. PICK lhs, null : lhs = rule.lhs /\ null = (rule.action = "value" /\ rule.args = <<0>>)
  OBVIOUS
<1>2. /\ lhs # "ID" /\ lhs # "error" /\ (lhs \in Valueless => null)
      /\ lhs \in ListSymbol \ ArgumentSymbol =>
           null \/ rule.action \in Appending \cup (ListType \ {"expr_list"})
      /\ lhs \in ArgumentSymbol =>
           \/ null \/ rule.action \in {"expr_list", "append_expr"}
           \/ rule.action = "value" /\ rule.args = <<1>> /\ rule.rhs = <<"nonempty_expr_list">>
  BY <1>1, ActionsAssumption DEF WellTyped
<1>3. null => done.val = NULL
  <2> SUFFICES ASSUME null
               PROVE  done.val = NULL
    OBVIOUS
  <2>1. rule.action = "value" /\ rule.args = <<0>>
    BY <1>1
  <2>2. a[1] = NULL
    BY <2>1 DEF Arguments
  <2>3. PICK action : action = rule.action
    OBVIOUS
  <2>4. Do(action, h, a) = [heap |-> h, val |-> a[1]]
    BY <2>1, <2>3 DEF Do
  <2> QED BY <2>2, <2>3, <2>4
<1>5. ASSUME rule.action = "value", rule.args = << 1 >>, rule.rhs = <<"nonempty_expr_list">>
      PROVE  ArgumentsOK(done.val, done.heap)
  <2>1. a[1] = stack[b + 1].val
    BY <1>5 DEF Arguments
  <2>2. PICK action : action = rule.action
    OBVIOUS
  <2>3. Do(action, h, a) = [heap |-> h, val |-> a[1]]
    BY <1>5, <2>2 DEF Do
  <2> QED BY <1>5, <2>1, <2>2, <2>3
<1>4. /\ lhs \in Valueless => done.val = NULL
      /\ lhs \in ListSymbol \ ArgumentSymbol => ListOK(done.val, done.heap)
      /\ lhs \in ArgumentSymbol => ArgumentsOK(done.val, done.heap)
  BY <1>2, <1>3, <1>5 DEF ListOK, ArgumentsOK, Yields
<1> QED
  BY <1>1, <1>2, <1>4 DEF ValueOK

(* The program's list becomes the tree.                                    *)
LEMMA RootMoves ==
  ASSUME IInv, status = "parsing", NEW b, b \in 1 .. Len(stack), Len(stack) = b + 1,
         NEW root, root = stack[b + 1].val
  PROVE  Pool(heap, Holding(SubSeq(stack, 1, b), yylval, root), freed, reported)
<1>1. PICK s : s = SubSeq(stack, 1, b)
  OBVIOUS
<1>2. Len(s) = b /\ \A k \in 1 .. b : s[k] = stack[k]
  <2>1. StackOK(stack, heap, reported)
    BY DEF IInv
  <2> QED BY <1>1, <2>1, StackCut
<1>3. b \in Nat /\ b >= 1 /\ Len(stack) \in Nat
  BY HoldsIs
<1>4. /\ Holds[2] = NULL /\ Holds[0] = NULL /\ Holds[b + 3] = root
      /\ \A k \in Nat : k > b + 3 => Holds[k] = NULL
  <2>1. Holds[2] = NULL
    BY HoldsIs DEF IInv, Scalars
  <2>2. b + 1 \in 1 .. Len(stack) /\ (b + 1) + 2 = b + 3 /\ Len(stack) + 2 = b + 3
    BY <1>3
  <2>3. Holds[(b + 1) + 2] = stack[b + 1].val
    BY <2>2, HoldsIs
  <2> QED BY <2>1, <2>2, <2>3, HoldsIs
<1>5. PICK i, j, I : i = b + 3 /\ j = 2 /\ I = {i}
  OBVIOUS
<1>6. Pool(heap, Taken(Holds, I, j, root), freed, reported)
  <2>1. i \in Nat \ {0} /\ j \in Nat \ {0} /\ Holds[j] = NULL /\ root = Holds[i]
    BY <1>3, <1>4, <1>5
  <2>2. Pool(heap, Holds, freed, reported)
    BY DEF IInv
  <2>3. Pool(heap, Taken(Holds, {i}, j, root), freed, reported)
    BY <2>1, <2>2, Moves
  <2> QED BY <1>5, <2>3
<1>7. Taken(Holds, I, j, root) = Holding(s, yylval, root)
  <2>1. ASSUME NEW k \in Nat
        PROVE  Taken(Holds, I, j, root)[k] = Holding(s, yylval, root)[k]
    <3>1. CASE k \in {0, 1, 2}
      <4>1. Holds[1] = yylval
        BY HoldsIs
      <4>2. k # i /\ k - 2 \notin 1 .. Len(s)
        BY <1>2, <1>3, <1>5, <3>1
      <4>3. k \notin I
        BY <1>5, <4>2
      <4> QED BY <1>4, <1>5, <3>1, <4>1, <4>2, <4>3 DEF Taken, Holding
    <3>2. CASE k > 2 /\ k < b + 3
      <4>1. k - 2 \in 1 .. b /\ k - 2 \in 1 .. Len(stack) /\ (k - 2) + 2 = k /\ k # i /\ k # j
        BY <1>3, <1>5, <3>2
      <4>2. Holds[k] = stack[k - 2].val
        <5>1. Holds[(k - 2) + 2] = stack[k - 2].val
          BY <4>1, HoldsIs
        <5> QED BY <4>1, <5>1
      <4> QED BY <1>2, <1>5, <3>2, <4>1, <4>2 DEF Taken, Holding
    <3>3. CASE k >= b + 3
      <4>1. k - 2 \notin 1 .. Len(s) /\ k # 1 /\ k # 2
        BY <1>2, <1>3, <3>3
      <4>2. k \in I \/ Holds[k] = NULL
        BY <1>3, <1>4, <1>5, <3>3
      <4> QED BY <1>5, <4>1, <4>2 DEF Taken, Holding
    <3> QED BY <1>3, <3>1, <3>2, <3>3
  <2> QED BY <2>1 DEF Taken, Holding
<1> QED
  BY <1>1, <1>6, <1>7

LEMMA ReduceKeeps == IInv /\ Reduce => IInv'
<1> SUFFICES ASSUME IInv, Reduce
             PROVE  IInv'
  OBVIOUS
<1>1. /\ ahead' = ahead /\ la' = la /\ yylval' = yylval /\ freed' = freed
      /\ yyerrstatus' = yyerrstatus /\ reported' = reported /\ status = "parsing"
      /\ program_root = NULL /\ emptied' \in BOOLEAN
  BY DEF Reduce, IInv, Scalars
<1>2. PICK rule, below, a, done :
        /\ rule \in Reductions(Top, la)
        /\ below = SubSeq(stack, 1, Len(stack) - Len(rule.rhs))
        /\ a = [k \in DOMAIN rule.args |-> IF rule.args[k] = 0 THEN NULL
                                           ELSE stack[Len(below) + rule.args[k]].val]
        /\ done = Do(rule.action, heap, a)
        /\ heap' = done.heap
        /\ program_root' = IF rule.action = "program_root" THEN a[1] ELSE program_root
        /\ IF rule.lhs = "full_program"
             THEN status' = "accepted" /\ stack' = below
             ELSE /\ UNCHANGED status
                  /\ stack' = Append(below, [state |-> Goto[Last(below).state][rule.lhs],
                                             val |-> done.val])
  <2> HIDE DEF Do
  <2> QED BY DEF Reduce
<1>3. PICK b : b = Len(stack) - Len(rule.rhs)
  OBVIOUS
<1>4. Popping(rule, b)
  <2>1. rule \in Reductions(Top, la)
    BY <1>2
  <2> QED BY <1>3, <2>1, Pops
<1>5. rule \in Range(Rules) /\ b \in 1 .. Len(stack) /\ b \in Nat /\ b >= 1
  <2>1. rule \in Range(Rules) /\ b \in 1 .. Len(stack)
    BY <1>4 DEF Popping
  <2> QED BY <2>1, HoldsIs
<1>6. /\ StackOK(below, heap, reported) /\ Len(below) = b
      /\ \A k \in 1 .. b : below[k] = stack[k]
  <2>1. StackOK(stack, heap, reported)
    BY DEF IInv
  <2> QED BY <1>2, <1>3, <1>5, <2>1, StackCut
<1>7. a = Arguments(rule, b)
  BY <1>2, <1>6 DEF Arguments
<1>8. rule.lhs = "full_program" <=> rule.action = "program_root"
  BY <1>5, ActionsAssumption DEF WellTyped
<1>9. CASE rule.lhs = "full_program"
  <2>1. rule.action = "program_root" /\ rule.args = <<1>> /\ rule.rhs = <<"program">>
    BY <1>5, <1>8, <1>9, ActionsAssumption DEF WellTyped
  <2>2. heap' = heap
    <3>1. PICK action : action = rule.action
      OBVIOUS
    <3>2. Do(action, heap, a) = [heap |-> heap, val |-> NULL]
      BY <2>1, <3>1 DEF Do
    <3>3. heap' = Do(action, heap, a).heap
      BY <1>2, <3>1
    <3> QED BY <3>2, <3>3
  <2>3. Len(stack) = b + 1
    <3>1. Len(rule.rhs) = 1
      BY <2>1
    <3> QED BY <1>3, <3>1, HoldsIs
  <2>4. program_root' = stack[b + 1].val
    BY <1>2, <1>7, <2>1 DEF Arguments
  <2>5. stack' = SubSeq(stack, 1, b) /\ status' = "accepted"
    BY <1>2, <1>3, <1>9
  <2>6. Pool(heap, Holding(SubSeq(stack, 1, b), yylval, program_root'), freed, reported)
    BY <1>1, <1>5, <2>3, <2>4, RootMoves
  <2>7. Holds' = Holding(SubSeq(stack, 1, b), yylval, program_root')
    BY <1>1, <2>5 DEF Holds
  <2>8. Scalars'
    BY <1>1, <2>2, <2>5 DEF Scalars, IInv
  <2>9. StackOK(stack', heap, reported)
    BY <1>2, <1>6, <1>9
  <2> QED BY <1>1, <2>2, <2>6, <2>7, <2>8, <2>9 DEF IInv
<1>10. CASE rule.lhs # "full_program"
  <2>1. /\ rule.action # "program_root" /\ program_root' = program_root /\ status' = status
        /\ stack' = Append(below, [state |-> Goto[Last(below).state][rule.lhs],
                                   val |-> done.val])
    BY <1>2, <1>8, <1>10
  <2>2. /\ Len(stack') = b + 1 /\ stack'[b + 1].val = done.val
        /\ \A k \in 1 .. b : stack'[k] = stack[k]
    <3>1. below \in Seq(Entry)
      BY <1>6 DEF StackOK
    <3> QED BY <1>5, <1>6, <2>1, <3>1
  <2>3. PICK s2 : s2 = stack'
    OBVIOUS
  <2>4. /\ Pool(done.heap, Holding(s2, yylval, program_root), freed, reported)
        /\ Grows(heap, done.heap) /\ Yields(rule, done)
    <3>1. done = Do(rule.action, heap, a)
      BY <1>2
    <3>2. Len(s2) = b + 1 /\ s2[b + 1].val = done.val /\ \A k \in 1 .. b : s2[k] = stack[k]
      BY <2>2, <2>3
    <3>3. rule.action # "program_root"
      BY <2>1
    <3> HIDE DEF Reduce
    <3> QED BY <1>4, <1>7, <3>1, <3>2, <3>3, Acts
  <2>5. ValueOK(rule.lhs, done.val, done.heap, reported)
    <3>1. done = Do(rule.action, heap, a)
      BY <1>2
    <3>2. ASSUME rule.rhs = <<"nonempty_expr_list">>
          PROVE  ArgumentsOK(stack[b + 1].val, heap)
      <4>1. Len(rule.rhs) = 1 /\ rule.rhs[1] = "nonempty_expr_list"
        BY <3>2
      <4>2. ValueOK(rule.rhs[1], stack[b + 1].val, heap, reported)
        BY <1>4, <4>1 DEF Popping
      <4>3. "nonempty_expr_list" \in ArgumentSymbol
        BY DEF ArgumentSymbol
      <4> QED BY <4>1, <4>2, <4>3 DEF ValueOK
    <3> QED BY <1>5, <1>7, <2>4, <3>1, <3>2, Typed
  <2>6. heap \in Seq(AnyNode) /\ done.heap \in Seq(AnyNode)
    BY <2>4, HoldsIs DEF Pool, Nodes
  <2>7. StackOK(below, done.heap, reported)
    <3>1. \A k \in 1 .. Len(below) : below[k].val \in 0 .. Len(heap)
      <4>1. \A k \in 1 .. b : k \in 1 .. Len(stack)
        BY <1>5, HoldsIs
      <4> QED BY <1>6, <4>1, HoldsIs
    <3> QED BY <1>6, <2>4, <2>6, <3>1, StackStays
  <2>8. done.val \in Nat
    <3>1. Holding(s2, yylval, program_root) \in [Nat -> 0 .. Len(done.heap)]
      BY <2>4 DEF Pool
    <3>2. b + 3 \in Nat /\ b + 3 # 1 /\ b + 3 # 2 /\ (b + 3) - 2 = b + 1 /\ b + 1 \in 1 .. Len(s2)
      BY <1>5, <2>2, <2>3
    <3>3. Holding(s2, yylval, program_root)[b + 3] = done.val
      BY <2>2, <2>3, <3>2 DEF Holding
    <3>4. Holding(s2, yylval, program_root)[b + 3] \in 0 .. Len(done.heap)
      BY <3>1, <3>2
    <3>5. done.val \in 0 .. Len(done.heap)
      BY <3>3, <3>4
    <3> QED BY <3>5
  <2>9. PICK X, from, v, h : /\ X = rule.lhs /\ from = below[Len(below)].state /\ v = done.val
                             /\ h = done.heap
    OBVIOUS
  <2>10. X \in DOMAIN Goto[from]
    <3>1. from = stack[b].state
      BY <1>5, <1>6, <2>9
    <3> QED BY <1>4, <1>10, <2>9, <3>1 DEF Popping
  <2>11. stack' = Append(below, [state |-> Goto[from][X], val |-> v])
    BY <2>1, <2>9 DEF Last
  <2>12. StackOK(below, h, reported) /\ v \in Nat /\ ValueOK(X, v, h, reported)
    BY <2>5, <2>7, <2>8, <2>9
  <2>13. StackOK(stack', h, reported)
    BY <2>9, <2>10, <2>11, <2>12, StackPush
  <2>14. heap' = h
    BY <1>2, <2>9
  <2>15. Holds' = Holding(s2, yylval, program_root)
    BY <1>1, <2>1, <2>3 DEF Holds
  <2>16. Scalars'
    <3>1. la = "ID" => yylval = NULL \/ h[yylval].type = "string"
      <4> SUFFICES ASSUME la = "ID", yylval # NULL
                   PROVE  h[yylval].type = "string"
        OBVIOUS
      <4>1. heap[yylval].type = "string"
        BY DEF IInv, Scalars
      <4>2. yylval \in 1 .. Len(heap)
        <5>1. Holds[1] = yylval /\ Holds[1] \in 0 .. Len(heap) /\ Len(heap) \in Nat
          BY HoldsIs
        <5> QED BY <5>1 DEF NULL
      <4> QED BY <2>4, <2>9, <4>1, <4>2 DEF Grows
    <3> QED BY <1>1, <2>1, <2>14, <3>1 DEF Scalars, IInv
  <2> QED BY <1>1, <2>4, <2>9, <2>13, <2>14, <2>15, <2>16 DEF IInv
<1> QED
  BY <1>9, <1>10
-----------------------------------------------------------------------------
LEMMA StepKeeps == IInv /\ [Step \/ Stopped]_vars => IInv'
<1> SUFFICES ASSUME IInv, [Step \/ Stopped]_vars
             PROVE  IInv'
  OBVIOUS
<1>1. CASE Step
  BY <1>1, LexKeeps, ShiftKeeps, ReduceKeeps, RecoverKeeps, AbortKeeps DEF Step
<1>2. CASE UNCHANGED vars
  BY <1>2 DEF vars, IInv, Scalars, Holds
<1> QED
  BY <1>1, <1>2 DEF Stopped

LEMMA Invariance == Spec => []IInv
<1>1. Init => IInv
  BY InitHolds
<1>2. IInv /\ [Step \/ Stopped]_vars => IInv'
  BY StepKeeps
<1> QED
  BY <1>1, <1>2, PTL DEF Spec

LEMMA TypesFollow == IInv => TypeOK
<1> SUFFICES ASSUME IInv
             PROVE  TypeOK
  OBVIOUS
<1>1. /\ Holds[1] = yylval /\ Holds[2] = program_root /\ Holds \in [Nat -> 0 .. Len(heap)]
      /\ heap \in Seq(AnyNode) /\ stack \in Seq(Entry)
      /\ \A k \in 1 .. Len(stack) : stack[k].val \in 0 .. Len(heap)
  BY HoldsIs
<1>2. yylval \in 0 .. Len(heap) /\ program_root \in 0 .. Len(heap)
  BY <1>1
<1>3. stack # << >> /\ stack[1].state = Start
  BY DEF IInv, StackOK
<1>4. \A k \in DOMAIN stack :
        stack[k].state \in DOMAIN Kernel /\ stack[k].val \in 0 .. Len(heap)
  <2> TAKE k \in DOMAIN stack
  <2>0. stack \in Seq(Entry)
    BY <1>1
  <2>1. k \in 1 .. Len(stack) /\ stack[k] \in Entry
    BY <2>0
  <2> QED BY <1>1, <2>1 DEF Entry
<1>5. Nodes(heap) /\ freed \subseteq DOMAIN heap
  <2>1. Nodes(heap) /\ freed \subseteq 1 .. Len(heap)
    BY DEF IInv, Pool
  <2> QED BY <1>1, <2>1
<1>6. ASSUME NEW p \in DOMAIN heap, NEW q \in Range(heap[p].to)
      PROVE  q \in 0 .. Len(heap)
  <2>0. heap \in Seq(AnyNode)
    BY <1>1
  <2>1. Len(heap) \in Nat /\ p \in 1 .. Len(heap)
    BY <2>0, LenProperties
  <2>2a. Kids(heap, p) \subseteq 1 .. Len(heap)
    BY <1>5, <2>1 DEF Nodes
  <2>2. q = 0 \/ q \in 1 .. Len(heap)
    BY <2>2a DEF Kids, NULL
  <2> QED BY <2>1, <2>2
<1>7. /\ la \in Token \cup {"none", "end"} /\ yyerrstatus \in 0 .. 3 /\ reported \in BOOLEAN
      /\ status \in {"parsing", "accepted", "aborted"} /\ emptied \in BOOLEAN
  BY DEF IInv, Scalars
<1> QED
  BY <1>2, <1>3, <1>4, <1>5, <1>6, <1>7 DEF TypeOK

(* The slot of a pointer that the parser holds.                            *)
Slot(k) == IF k <= Len(stack) THEN k + 2 ELSE IF k = Len(stack) + 1 THEN 1 ELSE 2

LEMMA HeldIs ==
  ASSUME IInv
  PROVE  /\ \A k \in DOMAIN Held : Slot(k) \in Nat \ {0} /\ Held[k] = Holds[Slot(k)]
         /\ \A k, l \in DOMAIN Held : Slot(k) = Slot(l) => k = l
         /\ \A j \in Nat : Holds[j] # NULL => \E k \in DOMAIN Held : Slot(k) = j
<1>1. PICK n, values, others :
        /\ n = Len(stack) /\ values = [k \in DOMAIN stack |-> stack[k].val]
        /\ others = <<yylval, program_root>>
  OBVIOUS
<1>2. /\ n \in Nat /\ stack \in Seq(Entry) /\ Holds[0] = NULL
      /\ Holds[1] = yylval /\ Holds[2] = program_root
      /\ \A k \in 1 .. n : Holds[k + 2] = stack[k].val
      /\ \A k \in Nat : k > n + 2 => Holds[k] = NULL
  BY <1>1, HoldsIs
<1>3. /\ values \in Seq(Nat) /\ Len(values) = n
      /\ \A k \in 1 .. n : values[k] = stack[k].val
  <2>1. DOMAIN stack = 1 .. n
    BY <1>1, <1>2
  <2>2. \A k \in 1 .. n : stack[k].val \in Nat
    <3> TAKE k \in 1 .. n
    <3>1. stack[k] \in Entry
      BY <1>2, <2>1
    <3> QED BY <3>1 DEF Entry
  <2>3. values = [k \in 1 .. n |-> stack[k].val]
    BY <1>1, <2>1
  <2> QED BY <1>2, <2>2, <2>3
<1>4. /\ others \in Seq({yylval, program_root}) /\ Len(others) = 2
      /\ others[1] = yylval /\ others[2] = program_root
  BY <1>1
<1>5. /\ DOMAIN Held = 1 .. n + 2 /\ \A k \in 1 .. n : Held[k] = stack[k].val
      /\ Held[n + 1] = yylval /\ Held[n + 2] = program_root
  <2>1. Held = values \o others
    BY <1>1 DEF Held
  <2>2. /\ DOMAIN (values \o others) = 1 .. n + 2
        /\ \A k \in 1 .. n : (values \o others)[k] = values[k]
        /\ (values \o others)[n + 1] = others[1] /\ (values \o others)[n + 2] = others[2]
    <3>1. PICK S : S = Nat \cup {yylval, program_root}
      OBVIOUS
    <3>2. values \in Seq(S) /\ others \in Seq(S)
      BY <1>1, <1>3, <3>1
    <3>3. /\ Len(values \o others) = n + 2 /\ values \o others \in Seq(S)
          /\ \A k \in 1 .. n + 2 : (values \o others)[k] =
                                    IF k <= n THEN values[k] ELSE others[k - n]
      <4>1. /\ values \o others \in Seq(S)
            /\ Len(values \o others) = Len(values) + Len(others)
            /\ \A k \in 1 .. Len(values) + Len(others) : (values \o others)[k] =
                 IF k <= Len(values) THEN values[k] ELSE others[k - Len(values)]
        BY <3>2, ConcatProperties
      <4>2. Len(values) = n /\ Len(others) = 2
        BY <1>3, <1>4
      <4> QED BY <4>1, <4>2
    <3>4. DOMAIN (values \o others) = 1 .. n + 2
      BY <3>3
    <3>5. /\ n + 1 \in 1 .. n + 2 /\ n + 2 \in 1 .. n + 2 /\ (n + 1) - n = 1 /\ (n + 2) - n = 2
          /\ ~(n + 1 <= n) /\ ~(n + 2 <= n) /\ \A k \in 1 .. n : k \in 1 .. n + 2 /\ k <= n
      BY <1>2
    <3> QED BY <3>3, <3>4, <3>5
  <2> QED BY <1>3, <1>4, <2>1, <2>2
<1>6. \A k \in 1 .. n + 2 :
        Slot(k) = IF k <= n THEN k + 2 ELSE IF k = n + 1 THEN 1 ELSE 2
  BY <1>1 DEF Slot
<1>7. \A k \in 1 .. n + 2 : Slot(k) \in Nat \ {0} /\ Held[k] = Holds[Slot(k)]
  <2> TAKE k \in 1 .. n + 2
  <2>1. CASE k \in 1 .. n
    BY <1>2, <1>5, <1>6, <2>1
  <2>2. CASE k = n + 1
    BY <1>2, <1>5, <1>6, <2>2
  <2>3. CASE k = n + 2
    BY <1>2, <1>5, <1>6, <2>3
  <2> QED BY <1>2, <2>1, <2>2, <2>3
<1>8. \A k, l \in 1 .. n + 2 : Slot(k) = Slot(l) => k = l
  BY <1>2, <1>6
<1>9. ASSUME NEW j \in Nat, Holds[j] # NULL
      PROVE  \E k \in 1 .. n + 2 : Slot(k) = j
  <2>1. j # 0 /\ j <= n + 2
    BY <1>2, <1>9
  <2>2. CASE j = 1
    <3>1. n + 1 \in 1 .. n + 2 /\ Slot(n + 1) = 1
      BY <1>2, <1>6
    <3> QED BY <2>2, <3>1
  <2>3. CASE j = 2
    <3>1. n + 2 \in 1 .. n + 2 /\ Slot(n + 2) = 2
      BY <1>2, <1>6
    <3> QED BY <2>3, <3>1
  <2>4. CASE j > 2
    <3>1. j - 2 \in 1 .. n + 2 /\ j - 2 <= n
      BY <1>2, <2>1, <2>4
    <3>2. Slot(j - 2) = (j - 2) + 2 /\ (j - 2) + 2 = j
      BY <1>6, <3>1
    <3> QED BY <3>1, <3>2
  <2> QED BY <2>1, <2>2, <2>3, <2>4
<1> QED
  BY <1>5, <1>7, <1>8, <1>9

LEMMA OwnersFollow == IInv => OwnedOnce
<1> SUFFICES ASSUME IInv, NEW p \in DOMAIN heap, NEW held, NEW linked,
                    held = {k \in DOMAIN Held : Held[k] = p},
                    linked = {q \in DOMAIN heap \ freed : p \in Owned(q)}
             PROVE  LET owners == Cardinality(held) + Cardinality(linked)
                    IN  /\ p \notin freed \cap Lost
                        /\ IF p \in freed \cup Lost THEN owners = 0
                           ELSE owners = 1 \/ (owners = 0 /\ heap[p].type = "string" /\ reported)
  BY DEF OwnedOnce
<1>1. heap \in Seq(AnyNode) /\ DOMAIN heap = 1 .. Len(heap) /\ p # NULL
  <2>1. heap \in Seq(AnyNode) /\ Len(heap) \in Nat
    BY HoldsIs
  <2> QED BY <2>1 DEF NULL
<1>10. \A q \in DOMAIN heap : /\ q \in Lost <=> Cut(heap, q)
                              /\ p \in Owned(q) <=> p \in Owns(heap, q)
  BY <1>1 DEF Lost, Owned, Cut, Owns, Kids
<1>2. PICK par : Rooted(heap, Holds, freed, reported, par)
  BY DEF IInv, Pool
<1>3. /\ par[p] \in Int /\ (p \in Lost => par[p] = 0 /\ p \notin freed)
      /\ p \in freed => par[p] = 0
  BY <1>1, <1>2, <1>10 DEF Rooted
<1>4. \A k \in held : par[p] = -Slot(k) /\ Slot(k) \in Nat \ {0}
  <2> TAKE k \in held
  <2>1. k \in DOMAIN Held /\ Held[k] = p
    OBVIOUS
  <2>2. Slot(k) \in Nat \ {0} /\ Holds[Slot(k)] = p
    BY <2>1, HeldIs
  <2> QED BY <1>1, <1>2, <2>2 DEF Rooted
<1>5. \A q \in linked : par[p] = q /\ q > 0
  <2> TAKE q \in linked
  <2>1. q \in (1 .. Len(heap)) \ freed /\ p \in Owns(heap, q)
    BY <1>1, <1>10
  <2> QED BY <1>2, <2>1 DEF Rooted
<1>6. Cardinality({}) = 0 /\ \A x : Cardinality({x}) = 1
  BY FS_EmptySet, FS_Singleton
<1>7. CASE par[p] < 0
  <2>1. Holds[-par[p]] = p /\ -par[p] \in Nat
    BY <1>1, <1>2, <1>3, <1>7 DEF Rooted
  <2>2. PICK k \in DOMAIN Held : Slot(k) = -par[p]
    BY <1>1, <2>1, HeldIs
  <2>3. k \in held
    BY <2>1, <2>2, HeldIs
  <2>4. \A l \in held : l = k
    <3> TAKE l \in held
    <3>1. Slot(l) = Slot(k) /\ l \in DOMAIN Held
      BY <1>3, <1>4, <2>2
    <3> QED BY <3>1, HeldIs
  <2>5. held = {k} /\ linked = {}
    BY <1>3, <1>5, <1>7, <2>3, <2>4
  <2>6. Cardinality(held) = 1 /\ Cardinality(linked) = 0
    BY <1>6, <2>5
  <2>7. p \notin freed /\ p \notin Lost
    BY <1>3, <1>7
  <2> QED BY <1>3, <1>7, <2>6, <2>7
<1>8. CASE par[p] > 0
  <2>1. par[p] \in linked
    BY <1>1, <1>2, <1>8, <1>10 DEF Rooted
  <2>2. linked = {par[p]} /\ held = {}
    BY <1>3, <1>4, <1>5, <1>8, <2>1
  <2>3. Cardinality(held) = 0 /\ Cardinality(linked) = 1
    BY <1>6, <2>2
  <2>4. p \notin freed /\ p \notin Lost
    BY <1>3, <1>8
  <2> QED BY <1>3, <1>8, <2>3, <2>4
<1>9. CASE par[p] = 0
  <2>1. linked = {} /\ held = {}
    BY <1>3, <1>4, <1>5, <1>9
  <2>2. Cardinality(held) = 0 /\ Cardinality(linked) = 0
    BY <1>6, <2>1
  <2>3. p \in freed \/ (reported /\ heap[p].type = "string") \/ p \in Lost
    BY <1>1, <1>2, <1>9, <1>10 DEF Rooted
  <2> QED BY <1>3, <2>2, <2>3
<1> QED
  BY <1>3, <1>7, <1>8, <1>9
-----------------------------------------------------------------------------
(* The body of a function                                                  *)

FirstBody(s, b) ==
  /\ b \in 1 .. Len(s) /\ InBody(s[b].state)
  /\ \A k \in 1 .. Len(s) : InBody(s[k].state) => b <= k

LEMMA BodyIs ==
  ASSUME NEW s \in Seq(Entry), NEW n, n = BodyOf(s)
  PROVE  /\ n # 0 => FirstBody(s, n)
         /\ \A b : FirstBody(s, b) => n = b
<1> DEFINE I == {k \in 1 .. Len(s) : InBody(s[k].state)}
<1>1. I \subseteq Nat
  OBVIOUS
<1>2. n = IF I # {} THEN Min(I) ELSE 0
  BY DEF BodyOf, SelectInSeq
<1>3. I # {} => Min(I) \in I /\ \A k \in I : Min(I) <= k
  <2> HIDE DEF I
  <2> QED BY <1>1, MinIsLeast
<1>4. n # 0 => FirstBody(s, n)
  BY <1>2, <1>3 DEF FirstBody
<1>5. ASSUME NEW b, FirstBody(s, b)
      PROVE  n = b
  <2>1. b \in I /\ b \in Nat /\ \A k \in I : b <= k
    BY <1>5 DEF FirstBody
  <2>2. n \in I /\ n <= b /\ b <= n /\ n \in Nat
    <3> HIDE DEF I
    <3> QED BY <1>1, <1>2, <1>3, <2>1
  <2> QED BY <2>1, <2>2
<1> QED
  BY <1>4, <1>5

(* The entries below the b-th are as they were, and it has its state.      *)
Keeps(s, t, b) ==
  /\ t \in Seq(Entry) /\ b <= Len(t) /\ t[b].state = s[b].state
  /\ \A k \in 1 .. b - 1 : t[k] = s[k]

LEMMA BodyStays ==
  ASSUME NEW s \in Seq(Entry), NEW t, NEW b, FirstBody(s, b), Keeps(s, t, b)
  PROVE  BodyOf(t) = b /\ SubSeq(t, 1, b - 1) = SubSeq(s, 1, b - 1)
<1>1. /\ t \in Seq(Entry) /\ b \in Nat /\ b >= 1 /\ b <= Len(t) /\ b <= Len(s)
      /\ Len(t) \in Nat /\ Len(s) \in Nat
  BY DEF FirstBody, Keeps
<1>2. FirstBody(t, b)
  <2>1. \A k \in 1 .. b : t[k].state = s[k].state
    <3> TAKE k \in 1 .. b
    <3>1. k = b \/ k \in 1 .. b - 1
      BY <1>1
    <3> QED BY <3>1 DEF Keeps
  <2>2. ASSUME NEW k \in 1 .. Len(t), InBody(t[k].state)
        PROVE  b <= k
    <3>1. CASE k <= b
      <4>1. k \in 1 .. b /\ k \in 1 .. Len(s)
        BY <1>1, <3>1
      <4> QED BY <2>1, <2>2, <4>1 DEF FirstBody
    <3>2. CASE ~(k <= b)
      BY <1>1, <3>2
    <3> QED BY <3>1, <3>2
  <2>3. b \in 1 .. Len(t) /\ b \in 1 .. b
    BY <1>1
  <2>4. InBody(t[b].state)
    BY <2>1, <2>3 DEF FirstBody
  <2> QED BY <2>2, <2>3, <2>4 DEF FirstBody
<1>3. BodyOf(t) = b
  BY <1>1, <1>2, BodyIs
<1>4. SubSeq(t, 1, b - 1) = SubSeq(s, 1, b - 1)
  <2>1. \A k \in 1 .. b - 1 : t[k] = s[k]
    BY DEF Keeps
  <2>2. b - 1 \in 0 .. Len(s) /\ b - 1 \in 0 .. Len(t)
    BY <1>1
  <2>3. /\ SubSeq(t, 1, b - 1) = [k \in 1 .. b - 1 |-> t[k]]
        /\ SubSeq(s, 1, b - 1) = [k \in 1 .. b - 1 |-> s[k]]
    BY <1>1, <2>2
  <2> QED BY <2>1, <2>3
<1> QED
  BY <1>3, <1>4

(* What a reduction is, in terms of the entries.                           *)
Reduced(rule, b, a, done) ==
  /\ rule \in Reductions(Top, la) /\ rule \in Range(Rules) /\ Popping(rule, b)
  /\ b \in 1 .. Len(stack) /\ Len(rule.rhs) \in Nat /\ b + Len(rule.rhs) = Len(stack)
  /\ a = Arguments(rule, b) /\ done = Do(rule.action, heap, a)
  /\ \A k \in 1 .. b : stack'[k] = stack[k]
  /\ heap' = done.heap /\ status = "parsing" /\ (la # "none" \/ Consistent(Top))
  /\ UNCHANGED <<ahead, tokens, la, yylval, freed, yyerrstatus, reported>>
  /\ emptied' = (emptied \/ Empties(rule))
Ended(rule, b) ==
  /\ rule.lhs = "full_program" /\ rule.action = "program_root" /\ rule.rhs = <<"program">>
  /\ Len(stack') = b /\ status' = "accepted" /\ program_root' = stack[b + 1].val
WentOn(rule, b, done) ==
  /\ rule.lhs # "full_program" /\ rule.action # "program_root"
  /\ rule.lhs \in DOMAIN Goto[stack[b].state]
  /\ Len(stack') = b + 1 /\ stack'[b + 1].val = done.val
  /\ stack'[b + 1].state = Goto[stack[b].state][rule.lhs]
  /\ status' = "parsing" /\ program_root' = program_root

LEMMA ReduceIs ==
  ASSUME IInv, Reduce
  PROVE  \E rule, b, a, done :
           Reduced(rule, b, a, done) /\ (Ended(rule, b) \/ WentOn(rule, b, done))
<1>1. /\ status = "parsing" /\ (la # "none" \/ Consistent(Top))
      /\ UNCHANGED <<ahead, tokens, la, yylval, freed, yyerrstatus, reported>>
  BY DEF Reduce
<1>2. PICK rule, below, a, done :
        /\ rule \in Reductions(Top, la)
        /\ below = SubSeq(stack, 1, Len(stack) - Len(rule.rhs))
        /\ a = [k \in DOMAIN rule.args |-> IF rule.args[k] = 0 THEN NULL
                                           ELSE stack[Len(below) + rule.args[k]].val]
        /\ done = Do(rule.action, heap, a)
        /\ heap' = done.heap
        /\ program_root' = IF rule.action = "program_root" THEN a[1] ELSE program_root
        /\ IF rule.lhs = "full_program"
             THEN status' = "accepted" /\ stack' = below
             ELSE /\ UNCHANGED status
                  /\ stack' = Append(below, [state |-> Goto[Last(below).state][rule.lhs],
                                             val |-> done.val])
        /\ emptied' = (emptied \/ Empties(rule))
  <2> HIDE DEF Do
  <2> QED BY DEF Reduce
<1>3. PICK b : b = Len(stack) - Len(rule.rhs)
  OBVIOUS
<1>4. Popping(rule, b)
  <2>1. rule \in Reductions(Top, la)
    BY <1>2
  <2> QED BY <1>3, <2>1, Pops
<1>5. /\ rule \in Range(Rules) /\ b \in 1 .. Len(stack) /\ b \in Nat /\ b >= 1
      /\ Len(stack) \in Nat /\ Len(rule.rhs) \in Nat /\ b + Len(rule.rhs) = Len(stack)
  <2>1. rule \in Range(Rules) /\ b \in 1 .. Len(stack) /\ Len(rule.rhs) \in Nat
    BY <1>4 DEF Popping
  <2>2. Len(stack) \in Nat
    BY HoldsIs
  <2>3. b \in Nat /\ b >= 1 /\ b + Len(rule.rhs) = Len(stack)
    BY <1>3, <2>1, <2>2
  <2> QED BY <2>1, <2>2, <2>3
<1>6. below \in Seq(Entry) /\ Len(below) = b /\ \A k \in 1 .. b : below[k] = stack[k]
  <2>1. StackOK(stack, heap, reported)
    BY DEF IInv
  <2>2. StackOK(below, heap, reported) /\ Len(below) = b /\ \A k \in 1 .. b : below[k] = stack[k]
    BY <1>2, <1>3, <1>5, <2>1, StackCut
  <2> QED BY <2>2 DEF StackOK
<1>7. a = Arguments(rule, b)
  BY <1>2, <1>6 DEF Arguments
<1>8. rule.lhs = "full_program" <=> rule.action = "program_root"
  BY <1>5, ActionsAssumption DEF WellTyped
<1>9. CASE rule.lhs = "full_program"
  <2>1. stack' = below /\ status' = "accepted"
    BY <1>2, <1>9
  <2>2. rule.args = <<1>> /\ rule.rhs = <<"program">>
    BY <1>5, <1>8, <1>9, ActionsAssumption DEF WellTyped
  <2>3. program_root' = stack[b + 1].val
    BY <1>2, <1>7, <1>8, <1>9, <2>2 DEF Arguments
  <2>4. Reduced(rule, b, a, done)
    BY <1>1, <1>2, <1>4, <1>5, <1>6, <1>7, <2>1 DEF Reduced
  <2>5. Ended(rule, b)
    BY <1>6, <1>8, <1>9, <2>1, <2>2, <2>3 DEF Ended
  <2> QED BY <2>4, <2>5
<1>10. CASE rule.lhs # "full_program"
  <2>1. PICK e : e = [state |-> Goto[Last(below).state][rule.lhs], val |-> done.val]
    OBVIOUS
  <2>2. stack' = Append(below, e) /\ status' = status /\ program_root' = program_root
    BY <1>2, <1>8, <1>10, <2>1
  <2>3. Len(stack') = b + 1 /\ stack'[b + 1] = e /\ \A k \in 1 .. b : stack'[k] = stack[k]
    BY <1>5, <1>6, <2>2
  <2>4. Last(below) = stack[b]
    BY <1>5, <1>6 DEF Last
  <2>5. e.val = done.val /\ e.state = Goto[stack[b].state][rule.lhs]
    BY <2>1, <2>4
  <2>6. Reduced(rule, b, a, done)
    BY <1>1, <1>2, <1>4, <1>5, <1>7, <2>3 DEF Reduced
  <2>7. rule.lhs \in DOMAIN Goto[stack[b].state]
    BY <1>4, <1>10 DEF Popping
  <2>8. WentOn(rule, b, done)
    BY <1>1, <1>8, <1>10, <2>2, <2>3, <2>5, <2>7 DEF WentOn
  <2> QED BY <2>6, <2>8
<1> QED
  BY <1>9, <1>10

(* A reduction within the body leaves what is below it, and the body where *)
(* it is: but for the function's rule none has begun below it that does    *)
(* not go on with the list of statements itself.                           *)
LEMMA ReduceKeepsBody ==
  ASSUME IInv, Reduce, NEW b, FirstBody(stack, b),
         \A rule \in Complete[Top] : rule.lhs # "function"
  PROVE  Keeps(stack, stack', b)
<1>1. PICK rule, c, a, done :
        Reduced(rule, c, a, done) /\ (Ended(rule, c) \/ WentOn(rule, c, done))
  BY ReduceIs
<1>2. PICK m : m = Len(rule.rhs)
  OBVIOUS
<1>3. Popping(rule, c) /\ \A k \in 1 .. c : stack'[k] = stack[k]
  BY <1>1 DEF Reduced
<1>4. /\ Len(stack) \in Nat /\ m \in Nat /\ c + m = Len(stack) /\ c \in Nat /\ c >= 1
      /\ b \in Nat /\ b >= 1 /\ b <= Len(stack) /\ stack \in Seq(Entry)
  <2>1. Len(stack) \in Nat /\ stack \in Seq(Entry)
    BY HoldsIs
  <2>2. m \in Nat /\ c \in 1 .. Len(stack) /\ c + m = Len(stack)
    BY <1>1, <1>2 DEF Reduced
  <2>3. b \in 1 .. Len(stack)
    BY DEF FirstBody
  <2> QED BY <2>1, <2>2, <2>3
<1>5. Len(stack') >= c
  BY <1>1, <1>4 DEF Ended, WentOn
<1>6. rule.lhs # "function"
  BY <1>1 DEF Reduced, Reductions, Defaults
<1>7. IInv'
  BY ReduceKeeps
<1>8. stack' \in Seq(Entry)
  BY <1>7 DEF IInv, StackOK
<1>9. CASE b <= c
  <2>1. b \in 1 .. c /\ b <= Len(stack') /\ \A k \in 1 .. b - 1 : k \in 1 .. c
    BY <1>4, <1>5, <1>9
  <2> QED BY <1>3, <1>8, <2>1 DEF Keeps
<1>10. CASE c < b
  <2>1. PICK n : n = b - c
    OBVIOUS
  <2>2. n \in 0 .. m /\ c + n = b /\ n + 1 > 1
    BY <1>4, <1>10, <2>1
  <2>3. PICK i \in Items[stack[b].state] : i.rule = rule /\ i.dot = n + 1
    BY <1>2, <1>3, <2>2 DEF Popping, Begun
  <2>4. PICK s : s = stack[b].state
    OBVIOUS
  <2>5. s \in DOMAIN Kernel /\ InBody(s)
    <3>1. stack[b] \in Entry
      BY <1>4
    <3> QED BY <2>4, <3>1 DEF Entry, FirstBody
  <2>6. i.dot = 2 /\ rule.lhs = rule.rhs[1]
    BY <1>6, <2>2, <2>3, <2>4, <2>5, BodyAssumption DEF Shelters
  <2>7. c = b - 1 /\ b \in 2 .. Len(stack)
    BY <1>4, <2>2, <2>3, <2>6
  <2>8. s = Goto[stack[c].state][rule.lhs]
    <3>1. PICK from : from = stack[c].state
      OBVIOUS
    <3>2. PICK X \in DOMAIN Goto[from] : s = Goto[from][X]
      BY <2>4, <2>7, <3>1 DEF IInv, StackOK, Sits
    <3>3. from \in DOMAIN Kernel
      <4>1. stack[c] \in Entry
        BY <1>4
      <4> QED BY <3>1, <4>1 DEF Entry
    <3>4. /\ X \in DOMAIN Goto[from] /\ i \in Items[Goto[from][X]]
          /\ i.dot > 1
      BY <2>3, <2>4, <2>6, <3>2
    <3>5. i.rule.rhs[i.dot - 1] = X
      BY ONLY <3>3, <3>4, Arrives
    <3>6. i.dot - 1 = 1
      BY <2>6
    <3> QED BY <2>3, <2>6, <3>1, <3>2, <3>5, <3>6
  <2>9. rule.lhs # "full_program"
    <3>1. Ended(rule, c) => rule.rhs[1] = "program"
      BY DEF Ended
    <3>2. WentOn(rule, c, done) => rule.lhs # "full_program"
      BY DEF WentOn
    <3> QED BY <1>1, <2>6, <3>1, <3>2
  <2>10. Len(stack') = b /\ stack'[b].state = s
    BY <1>1, <1>4, <2>7, <2>8, <2>9 DEF Ended, WentOn
  <2> QED BY <1>3, <1>4, <1>8, <2>4, <2>7, <2>10 DEF Keeps
<1> QED
  BY <1>4, <1>9, <1>10

LEMMA BodyStep ==
  ASSUME IInv, [Step \/ Stopped]_vars, NEW b, b = BodyOf(stack), b # 0,
         status' # "aborted", \A rule \in Complete[Top] : rule.lhs # "function"
  PROVE  BodyOf(stack') = b /\ SubSeq(stack', 1, b - 1) = SubSeq(stack, 1, b - 1)
<1>1. stack \in Seq(Entry) /\ Len(stack) \in Nat
  BY HoldsIs
<1>2. FirstBody(stack, b) /\ b \in 1 .. Len(stack)
  BY <1>1, BodyIs DEF FirstBody
<1>3. stack' \in Seq(Entry)
  <2>1. IInv'
    BY StepKeeps
  <2> QED BY <2>1 DEF IInv, StackOK
<1>4. CASE stack' = stack
  BY <1>4
<1>5. CASE Shift
  <2>1. PICK e : stack' = Append(stack, e)
    BY <1>5 DEF Shift
  <2>2. Len(stack') = Len(stack) + 1 /\ \A k \in 1 .. Len(stack) : stack'[k] = stack[k]
    BY <1>1, <2>1
  <2>3. b <= Len(stack') /\ \A k \in 1 .. b : k \in 1 .. Len(stack)
    BY <1>1, <1>2, <2>2
  <2>4. b \in 1 .. b /\ \A k \in 1 .. b - 1 : k \in 1 .. b
    BY <1>1, <1>2
  <2>5. Keeps(stack, stack', b)
    BY <1>3, <2>2, <2>3, <2>4 DEF Keeps
  <2> QED BY <1>1, <1>2, <2>5, BodyStays
<1>6. CASE Recover \/ Discard
  <2>1. NoAction /\ PushError
    BY <1>6 DEF Recover, Discard
  <2>2. PICK n : n = ErrorState
    OBVIOUS
  <2>3. n \in 1 .. Len(stack) /\ Len(stack') = n + 1 /\ \A k \in 1 .. n : stack'[k] = stack[k]
    BY <2>1, <2>2, PushesError
  <2>4. b <= n
    <3>1. stack[b].state \in DOMAIN Kernel
      <4>1. stack[b] \in Entry
        BY <1>1, <1>2
      <4> QED BY <4>1 DEF Entry
    <3>2. Shifts(stack[b].state, "error")
      BY <1>2, <3>1, BodyAssumption DEF Shelters, FirstBody
    <3> QED BY <1>2, <2>2, <3>2, <2>1, ErrorStateIs
  <2>5. b \in 1 .. n /\ b <= Len(stack') /\ \A k \in 1 .. b - 1 : k \in 1 .. n
    BY <1>1, <1>2, <2>3, <2>4
  <2>6. Keeps(stack, stack', b)
    BY <1>3, <2>3, <2>5 DEF Keeps
  <2> QED BY <1>1, <1>2, <2>6, BodyStays
<1>7. CASE Reduce
  <2>1. Keeps(stack, stack', b)
    BY <1>2, <1>7, ReduceKeepsBody
  <2> QED BY <1>1, <1>2, <2>1, BodyStays
<1>8. yylex \/ Stopped \/ UNCHANGED vars => stack' = stack
  BY DEF yylex, Stopped, vars
<1>9. ~Abort
  BY DEF Abort
<1> QED
  BY <1>4, <1>5, <1>6, <1>7, <1>8, <1>9 DEF Step

LEMMA BodyKeeps == IInv /\ [Step \/ Stopped]_vars =>
  [BodyOf(stack) # 0 /\ status' # "aborted"
     /\ (\A rule \in Complete[Top] : rule.lhs # "function")
   => LET below == BodyOf(stack) - 1
      IN  BodyOf(stack') = below + 1 /\ SubSeq(stack', 1, below) = SubSeq(stack, 1, below)]_vars
<1> SUFFICES ASSUME IInv, [Step \/ Stopped]_vars, NEW b, b = BodyOf(stack), b # 0,
                    status' # "aborted", \A rule \in Complete[Top] : rule.lhs # "function"
             PROVE  /\ BodyOf(stack') = (b - 1) + 1
                    /\ SubSeq(stack', 1, b - 1) = SubSeq(stack, 1, b - 1)
  OBVIOUS
<1>1. BodyOf(stack') = b /\ SubSeq(stack', 1, b - 1) = SubSeq(stack, 1, b - 1)
  BY BodyStep
<1>2. (b - 1) + 1 = b
  <2>1. FirstBody(stack, b) /\ stack \in Seq(Entry)
    BY HoldsIs, BodyIs
  <2> QED BY <2>1 DEF FirstBody
<1> QED
  BY <1>1, <1>2
-----------------------------------------------------------------------------
(* What the actions do to the heap                                         *)

(* Nodes stay as they are, but for where a list goes on; new ones are of   *)
(* the types T.                                                            *)
Grown(h, h2, T) ==
  /\ Len(h) \in Nat /\ Len(h2) \in Nat /\ Len(h) <= Len(h2)
  /\ \A p \in 1 .. Len(h) :
       h2[p].type = h[p].type /\ (h[p].type \notin ListType => h2[p] = h[p])
  /\ \A p \in 1 .. Len(h2) : p \in 1 .. Len(h) \/ h2[p].type \in T

(* A sequence, of whatever.                                                *)
Listed(h) == \E S : h \in Seq(S)

LEMMA MadeIs ==
  ASSUME NEW h, Listed(h), NEW type, NEW to, NEW d, d = Made(h, type, to),
         NEW h2, h2 = d.heap, NEW n, n = Len(h) + 1, NEW T, type \in T
  PROVE  /\ Listed(h2) /\ Len(h) \in Nat /\ n \in Nat /\ Len(h2) = n /\ d.val = n
         /\ h2[n].type = type /\ h2[n].to = to
         /\ \A p \in 1 .. Len(h) : h2[p] = h[p]
         /\ Grown(h, h2, T)
<1>1. PICK S : h \in Seq(S)
  BY DEF Listed
<1>2. PICK node : node = [type |-> type, to |-> to]
  OBVIOUS
<1>3. h2 = Append(h, node) /\ d.val = n /\ node.type = type /\ node.to = to
  BY <1>2 DEF Made
<1>4. PICK U : U = S \cup {node}
  OBVIOUS
<1>5. h \in Seq(U) /\ node \in U
  BY <1>1, <1>4
<1>6. /\ h2 \in Seq(U) /\ Len(h) \in Nat /\ n \in Nat /\ Len(h2) = n
      /\ h2[n] = node /\ \A p \in 1 .. Len(h) : h2[p] = h[p]
  BY <1>3, <1>5
<1>7. Grown(h, h2, T)
  <2>1. \A p \in 1 .. Len(h2) : p \in 1 .. Len(h) \/ p = n
    BY <1>6
  <2> QED BY <1>3, <1>6, <2>1 DEF Grown
<1> QED
  BY <1>2, <1>3, <1>6, <1>7 DEF Listed

LEMMA GrownTwice ==
  ASSUME NEW h, NEW h1, NEW h2, NEW T, NEW T1, NEW T2, Grown(h, h1, T1), Grown(h1, h2, T2),
         T1 \subseteq T, T2 \subseteq T
  PROVE  Grown(h, h2, T)
<1>1. /\ Len(h) \in Nat /\ Len(h1) \in Nat /\ Len(h2) \in Nat
      /\ Len(h) <= Len(h1) /\ Len(h1) <= Len(h2)
  BY DEF Grown
<1>2. \A p \in 1 .. Len(h) :
        p \in 1 .. Len(h1) /\ h2[p].type = h[p].type /\ (h[p].type \notin ListType => h2[p] = h[p])
  <2>1. \A p \in 1 .. Len(h) : p \in 1 .. Len(h1)
    BY <1>1
  <2> QED BY <2>1 DEF Grown
<1>3. ASSUME NEW p \in 1 .. Len(h2), p \notin 1 .. Len(h)
      PROVE  h2[p].type \in T
  <2>1. CASE p \in 1 .. Len(h1)
    <3>1. h1[p].type \in T1 /\ h2[p].type = h1[p].type
      BY <1>3, <2>1 DEF Grown
    <3> QED BY <3>1
  <2>2. CASE p \notin 1 .. Len(h1)
    BY <2>2 DEF Grown
  <2> QED BY <2>1, <2>2
<1> QED
  BY <1>1, <1>2, <1>3 DEF Grown

(* A new cell, and the old ones as they were but for the last of the list. *)
LEMMA AppendIs ==
  ASSUME NEW h, Listed(h), NEW type \in ListType, NEW list, NEW elem,
         list # NULL => LastCell(h, list) \in Cells(h),
         NEW done, done = append(h, type, list, elem),
         NEW h2, h2 = done.heap, NEW n, n = Len(h) + 1, NEW T, type \in T
  PROVE  /\ Listed(h2) /\ Grown(h, h2, T) /\ n \in Nat /\ Len(h2) = n
         /\ h2[n].type = type
         /\ list = NULL => done.val = n
         /\ list # NULL => done.val = list
<1>1. PICK to, cell, h1 : to = <<elem, NULL>> /\ cell = Made(h, type, to) /\ h1 = cell.heap
  OBVIOUS
<1>2. /\ Listed(h1) /\ Len(h) \in Nat /\ Len(h1) = n /\ cell.val = n
      /\ h1[n].type = type
      /\ \A p \in 1 .. Len(h) : h1[p] = h[p]
      /\ Grown(h, h1, T)
  BY <1>1, MadeIs
<1>3. CASE list = NULL
  <2>1. done = cell
    BY <1>1, <1>3 DEF append
  <2> QED BY <1>1, <1>2, <1>3, <2>1
<1>4. CASE list # NULL
  <2>1. PICK last : last = LastCell(h, list)
    OBVIOUS
  <2>2. done = [cell EXCEPT !.heap[last].to[2] = cell.val, !.val = list]
    BY <1>1, <1>4, <2>1 DEF append
  <2>3. h2 = [h1 EXCEPT ![last].to[2] = n] /\ done.val = list
    <3>1. cell = [heap |-> h1, val |-> n]
      BY <1>1, <1>2 DEF Made
    <3> QED BY <1>2, <2>2, <3>1
  <2>4. PICK S : h1 \in Seq(S)
    BY <1>2 DEF Listed
  <2>5. PICK changed : changed = [h1[last] EXCEPT !.to[2] = n]
    OBVIOUS
  <2>6. PICK U : U = S \cup {changed}
    OBVIOUS
  <2>7. h1 \in Seq(U) /\ changed \in U /\ DOMAIN h1 = 1 .. Len(h1)
    BY <2>4, <2>6
  <2>8. last \in 1 .. Len(h) /\ h[last].type \in ListType
    <3>1. DOMAIN h = 1 .. Len(h)
      BY DEF Listed
    <3> QED BY <1>4, <2>1, <3>1 DEF Cells
  <2>9. h2 = [h1 EXCEPT ![last] = changed]
    BY <2>3, <2>5
  <2>10. h2 \in Seq(U) /\ Len(h2) = Len(h1) /\ h2[last] = changed
         /\ \A p \in 1 .. Len(h1) : p # last => h2[p] = h1[p]
    <3>1. last \in 1 .. Len(h1)
      BY <1>2, <2>8
    <3> QED BY <2>7, <2>9, <3>1
  <2>11. changed = [h[last] EXCEPT !.to[2] = n] /\ h1[last] = h[last]
    BY <1>2, <2>5, <2>8
  <2>12. changed.type = h[last].type
    BY <2>11
  <2>13. /\ n \notin 1 .. Len(h) /\ n \in 1 .. Len(h1) /\ n \in Nat
         /\ \A p \in 1 .. Len(h) : p \in 1 .. Len(h1)
    BY <1>2
  <2>14. h2[n].type = type
    BY <1>2, <2>8, <2>10, <2>13
  <2>15. \A p \in 1 .. Len(h) : p # last => h2[p] = h[p]
    BY <1>2, <2>10, <2>13
  <2>16. Grown(h, h2, T)
    <3>1. \A p \in 1 .. Len(h2) : p \in 1 .. Len(h) \/ p = n
      BY <1>2, <2>10
    <3> QED BY <1>2, <2>8, <2>10, <2>12, <2>13, <2>14, <2>15, <3>1 DEF Grown
  <2> QED BY <1>2, <1>4, <2>1, <2>3, <2>10, <2>11, <2>13, <2>14, <2>16 DEF Listed
<1> QED
  BY <1>3, <1>4

(* The types of the nodes that an action makes.                            *)
Kinds(action) ==
  ListType \cup {"DECLTOR_SIMPLE", "DECLTOR_ARRAY", "EXP_INT", "decl", "DECLTOR_FUN", "fun_def"}
    \cup {action}

(* A node is made, and others before it that hang on it.                   *)
Good(h, d, T) ==
  /\ Listed(d.heap) /\ Grown(h, d.heap, T)
  /\ d.val \in 1 .. Len(d.heap) /\ d.heap[d.val].type \in T

LEMMA MakesGood ==
  ASSUME NEW h, Listed(h), NEW T, NEW type \in T, NEW to
  PROVE  Good(h, Made(h, type, to), T)
<1>1. PICK d, h2, n : d = Made(h, type, to) /\ h2 = d.heap /\ n = Len(h) + 1
  OBVIOUS
<1>2. /\ Listed(h2) /\ n \in Nat /\ Len(h2) = n /\ d.val = n /\ Len(h) \in Nat
      /\ h2[n].type = type /\ Grown(h, h2, T)
  BY <1>1, MadeIs
<1>3. n \in 1 .. n
  BY <1>1, <1>2
<1> QED BY <1>1, <1>2, <1>3 DEF Good

LEMMA MakesAgain ==
  ASSUME NEW h, NEW T, NEW d, Good(h, d, T), NEW type \in T, NEW to
  PROVE  Good(h, Made(d.heap, type, to), T)
<1>1. PICK h1, e, h2, n : /\ h1 = d.heap /\ e = Made(h1, type, to)
                          /\ h2 = e.heap /\ n = Len(h1) + 1
  OBVIOUS
<1>2. Listed(h1) /\ Grown(h, h1, T)
  BY <1>1 DEF Good
<1>3. Good(h1, e, T)
  BY <1>1, <1>2, MakesGood
<1>4. Grown(h, h2, T)
  <2>1. Grown(h1, h2, T) /\ T \subseteq T
    BY <1>1, <1>3 DEF Good
  <2> QED BY <1>2, <2>1, GrownTwice
<1> QED BY <1>1, <1>3, <1>4 DEF Good

(* The action can be carried out: where it appends to a list this has a    *)
(* last cell.                                                              *)
Doable(rule, h, a) ==
  /\ rule \in Range(Rules) /\ rule.action # "program_root" /\ Listed(h)
  /\ rule.action \in Appending \cup {"append_expr"} /\ a[1] # NULL =>
       LastCell(h, a[1]) \in Cells(h)

LEMMA DoGrows ==
  ASSUME NEW rule, NEW h, NEW a, Doable(rule, h, a), NEW action, action = rule.action,
         NEW done, done = Do(action, h, a), NEW T, T = Kinds(action)
  PROVE  /\ Listed(done.heap) /\ Grown(h, done.heap, T)
         /\ \/ action = "value" /\ done = [heap |-> h, val |-> a[1]]
            \/ action \in Appending /\ a[1] # NULL /\ done.val = a[1]
            \/ done.val \in 1 .. Len(done.heap) /\ done.heap[done.val].type \in T
<1>1. Listed(h) /\ \A type \in T : \A to : Good(h, Made(h, type, to), T)
  BY MakesGood, Zenon DEF Doable
<1>2. \A d : Good(h, d, T) => \A type \in T : \A to : Good(h, Made(d.heap, type, to), T)
  BY MakesAgain, Zenon
<1>3. /\ "DECLTOR_SIMPLE" \in T /\ "DECLTOR_ARRAY" \in T /\ "EXP_INT" \in T /\ "decl" \in T
      /\ "decltor_list" \in T /\ "DECLTOR_FUN" \in T /\ "fun_def" \in T /\ action \in T
      /\ ListType \subseteq T
  BY DEF Kinds, ListType
<1>4. ASSUME NEW d, NEW x, d.heap = h \/ Good(h, d, T)
      PROVE  Good(h, make_singular_decl(d.heap, x), T)
  <2>1. PICK list : list = Made(d.heap, "decltor_list", <<x, NULL>>)
    OBVIOUS
  <2>2. Good(h, list, T)
    BY <1>1, <1>2, <1>3, <1>4, <2>1
  <2>3. make_singular_decl(d.heap, x) = Made(list.heap, "decl", <<list.val>>)
    BY <2>1 DEF make_singular_decl, make_decl
  <2> QED BY <1>2, <1>3, <2>2, <2>3
<1>5. ASSUME NEW x
      PROVE  Good(h, make_decltor_array(h, x), T)
  <2>1. PICK size : size = Made(h, "EXP_INT", << >>)
    OBVIOUS
  <2>2. make_decltor_array(h, x) = Made(size.heap, "DECLTOR_ARRAY", <<x, size.val>>)
    BY <2>1 DEF make_decltor_array
  <2> QED BY <1>1, <1>2, <1>3, <2>1, <2>2
<1>6. CASE action = "value"
  <2>1. done = [heap |-> h, val |-> a[1]]
    BY <1>6 DEF Do
  <2>2. Listed(done.heap)
    BY <2>1 DEF Doable
  <2>3. Grown(h, done.heap, T)
    <3>1. Len(h) \in Nat
      BY DEF Doable, Listed
    <3> QED BY <2>1, <3>1 DEF Grown
  <2> QED BY <1>6, <2>1, <2>2, <2>3
<1>7. CASE action \in Appending
  <2>1. PICK type : type \in ListType /\ done = append(h, type, a[1], a[2])
    BY <1>7 DEF Do, Appending, ListType, append_fun_node, append_decl_node, append_decl,
                append_decltor, append_stmt
  <2>2. PICK list, elem, h2, n : list = a[1] /\ elem = a[2] /\ h2 = done.heap /\ n = Len(h) + 1
    OBVIOUS
  <2>3. Listed(h) /\ (list # NULL => LastCell(h, list) \in Cells(h))
    BY <1>7, <2>2 DEF Doable
  <2>4. /\ Listed(h2) /\ Grown(h, h2, T) /\ n \in Nat /\ Len(h2) = n
        /\ h2[n].type = type
        /\ list = NULL => done.val = n
        /\ list # NULL => done.val = list
    <3>1. Len(h) \in Nat
      BY <2>3 DEF Listed
    <3>2. type \in T
      BY <1>3, <2>1
    <3> QED BY <2>1, <2>2, <2>3, <3>1, <3>2, AppendIs
  <2>5. n \in 1 .. Len(h2) /\ h2[n].type \in T
    <3>1. h2[n].type = type
      BY <2>4
    <3> QED BY <1>3, <2>1, <2>2, <2>4, <3>1
  <2> QED BY <1>7, <2>2, <2>4, <2>5
<1>8. CASE action = "append_expr"
  <2>1. PICK list, elem, cell, h2, n : /\ list = a[1] /\ elem = a[2] /\ n = Len(h) + 1
                                       /\ cell = append(h, "expr_list", list, elem)
                                       /\ h2 = cell.heap
    OBVIOUS
  <2>2. done = append_expr(h, list, elem)
    BY <1>8, <2>1 DEF Do
  <2>3. done = [cell EXCEPT !.val = n]
    BY <2>1, <2>2 DEF append_expr
  <2>4. Listed(h) /\ (list # NULL => LastCell(h, list) \in Cells(h))
    BY <1>8, <2>1 DEF Doable
  <2>5. "expr_list" \in ListType /\ "expr_list" \in T
    BY <1>3 DEF ListType
  <2>6. /\ Listed(h2) /\ Grown(h, h2, T) /\ n \in Nat /\ Len(h2) = n
        /\ h2[n].type = "expr_list"
    BY <2>1, <2>4, <2>5, AppendIs
  <2>7. \E hp, v : cell = [heap |-> hp, val |-> v]
    <3>1. \E hp, v : Made(h, "expr_list", <<elem, NULL>>) = [heap |-> hp, val |-> v]
      BY DEF Made
    <3> QED BY <2>1, <3>1 DEF append
  <2>8. done.heap = h2 /\ done.val = n
    BY <2>1, <2>3, <2>7
  <2>9. n \in 1 .. Len(h2) /\ h2[n].type \in T
    <3>1. Len(h) \in Nat
      BY <2>4 DEF Listed
    <3> QED BY <2>1, <2>5, <2>6, <3>1
  <2> QED BY <2>6, <2>8, <2>9
<1>9. CASE action \notin Appending \cup {"append_expr", "value"}
  <2>1. Good(h, done, T)
    <3>1. action = "fun_def" => done = Made(h, "fun_def", <<a[1], a[2], a[3]>>)
      BY DEF Do, make_function
    <3>2. action = "decl" => done = Made(h, "decl", <<a[1]>>)
      BY DEF Do, make_decl
    <3>3. action = "make_singular_decl" => done = make_singular_decl(h, a[1])
      BY DEF Do
    <3>4. action = "DECLTOR_SIMPLE" => done = Made(h, "DECLTOR_SIMPLE", <<a[1]>>)
      BY DEF Do, make_decltor_id
    <3>5. action = "make_decltor_array" => done = make_decltor_array(h, a[1])
      BY DEF Do
    <3>6. action = "DECLTOR_FUN" => done = Made(h, "DECLTOR_FUN", <<a[1], a[2]>>)
      BY DEF Do, make_decltor_fun
    <3>7. action = "singular_id" =>
            done = LET id == Made(h, "DECLTOR_SIMPLE", <<a[1]>>)
                   IN  make_singular_decl(id.heap, id.val)
      BY DEF Do, make_decltor_id
    <3>8. action = "singular_array" =>
            done = LET array == make_decltor_array(h, a[1])
                   IN  make_singular_decl(array.heap, array.val)
      BY DEF Do
    <3>9. action \notin Unary \cup {"fun_def", "DECLTOR_FUN"} => done = Made(h, action, a)
      BY <1>9 DEF Do, Doable, Appending, Unary
    <3>10. action = "singular_id" => Good(h, done, T)
      <4>1. PICK id : id = Made(h, "DECLTOR_SIMPLE", <<a[1]>>)
        OBVIOUS
      <4>2. Good(h, id, T)
        BY <1>1, <1>3, <4>1
      <4>3. action = "singular_id" => done = make_singular_decl(id.heap, id.val)
        BY <3>7, <4>1
      <4> QED BY <1>4, <4>2, <4>3
    <3>11. action = "singular_array" => Good(h, done, T)
      <4>1. PICK array : array = make_decltor_array(h, a[1])
        OBVIOUS
      <4>2. action = "singular_array" => done = make_singular_decl(array.heap, array.val)
        BY <3>8, <4>1
      <4> QED BY <1>4, <1>5, <4>1, <4>2
    <3>12. action = "make_singular_decl" => Good(h, done, T)
      <4>1. PICK d : d = [heap |-> h]
        OBVIOUS
      <4>2. d.heap = h
        BY <4>1
      <4>3. Good(h, make_singular_decl(d.heap, a[1]), T)
        BY <1>4, <4>2
      <4> QED BY <3>3, <4>2, <4>3
    <3>13. action \in {"fun_def", "decl", "DECLTOR_SIMPLE", "DECLTOR_FUN"} => Good(h, done, T)
      BY <1>1, <1>3, <3>1, <3>2, <3>4, <3>6
    <3>14. action = "make_decltor_array" => Good(h, done, T)
      BY <1>5, <3>5
    <3>15. action \notin Unary \cup {"fun_def", "DECLTOR_FUN"} => Good(h, done, T)
      BY <1>1, <1>3, <3>9
    <3> QED BY <1>9, <3>10, <3>11, <3>12, <3>13, <3>14, <3>15 DEF Unary
  <2> QED BY <2>1 DEF Good
<1> QED
  BY <1>6, <1>7, <1>8, <1>9
-----------------------------------------------------------------------------
(* An else and the nearest if                                              *)

(* How a node that ends open, or not, is made: `open' is so of what it has.*)
ReadsAs(node, open, v) ==
  /\ node.type = "STM_IF" =>
       \/ Len(node.to) = 2 /\ v
       \/ Len(node.to) = 3 /\ v = open[node.to[3]] /\ ~open[node.to[2]]
  /\ node.type \in {"STM_WHILE", "STM_FOR"} =>
       Len(node.to) > 0 /\ v = open[node.to[Len(node.to)]]
  /\ node.type \notin Branching => ~v

(* The pointers of the node are to the first n.                            *)
Within(node, n) ==
  Len(node.to) \in Nat /\ \A k \in 1 .. Len(node.to) : node.to[k] \in 0 .. n

Reads(h, open) ==
  /\ open \in [0 .. Len(h) -> BOOLEAN] /\ ~open[0]
  /\ \A p \in 1 .. Len(h) : ReadsAs(h[p], open, open[p])

(* An open statement is the last thing read, and what is next no `else'.   *)
Dangles(s, tok) ==
  /\ Len(s) > 1 /\ tok \notin {"none", "ELSE_K"}
  /\ "stmt" \in DOMAIN Goto[s[Len(s) - 1].state]
  /\ s[Len(s)].state = Goto[s[Len(s) - 1].state]["stmt"]
Dangling(s, open, tok) ==
  \A k \in 1 .. Len(s) : open[s[k].val] => k = Len(s) /\ Dangles(s, tok)

Binds == \E open : Reads(heap, open) /\ Dangling(stack, open, la)

LEMMA NodesWithin ==
  ASSUME NEW h, Nodes(h), NEW p \in 1 .. Len(h)
  PROVE  Within(h[p], Len(h))
<1>1. h[p].to \in Seq(Nat) /\ Kids(h, p) \subseteq 1 .. Len(h) /\ Len(h) \in Nat
  <2>1. h \in Seq(AnyNode) /\ Kids(h, p) \subseteq 1 .. Len(h)
    BY DEF Nodes
  <2>2. h[p] \in AnyNode
    BY <2>1
  <2> QED BY <2>1, <2>2 DEF AnyNode
<1>2. PICK to : to = h[p].to
  OBVIOUS
<1>3. \A k \in 1 .. Len(to) : to[k] \in Range(to)
  BY <1>1, <1>2 DEF Range
<1>4. \A k \in 1 .. Len(to) : to[k] = NULL \/ to[k] \in 1 .. Len(h)
  BY <1>1, <1>2, <1>3 DEF Kids
<1> QED BY <1>1, <1>2, <1>4 DEF Within, NULL

LEMMA ReadsSame ==
  ASSUME NEW node, NEW n \in Nat, Within(node, n), NEW open, NEW v, ReadsAs(node, open, v),
         NEW open2, \A p \in 0 .. n : open2[p] = open[p]
  PROVE  ReadsAs(node, open2, v)
<1>1. Len(node.to) \in Nat /\ \A k \in 1 .. Len(node.to) : open2[node.to[k]] = open[node.to[k]]
  BY DEF Within
<1>2. node.type = "STM_IF" =>
        \/ Len(node.to) = 2 /\ v
        \/ Len(node.to) = 3 /\ v = open2[node.to[3]] /\ ~open2[node.to[2]]
  <2>1. Len(node.to) = 3 => 2 \in 1 .. Len(node.to) /\ 3 \in 1 .. Len(node.to)
    OBVIOUS
  <2> QED BY <1>1, <2>1 DEF ReadsAs
<1>3. node.type \in {"STM_WHILE", "STM_FOR"} =>
        Len(node.to) > 0 /\ v = open2[node.to[Len(node.to)]]
  <2>1. Len(node.to) > 0 => Len(node.to) \in 1 .. Len(node.to)
    BY <1>1
  <2> QED BY <1>1, <2>1 DEF ReadsAs
<1> QED BY <1>2, <1>3 DEF ReadsAs

(* New nodes all end as v.                                                 *)
Added(h, h2, open, v) ==
  /\ v \in BOOLEAN
  /\ \A p \in 1 .. Len(h2) :
       p \in 1 .. Len(h) \/ (Within(h2[p], Len(h)) /\ ReadsAs(h2[p], open, v))
       \/ (h2[p].type \notin Branching /\ ~v)

LEMMA ReadsOn ==
  ASSUME NEW h, Nodes(h), NEW open, Reads(h, open), NEW h2, NEW T, Grown(h, h2, T),
         NEW v, Added(h, h2, open, v)
  PROVE  \E open2 : /\ Reads(h2, open2) /\ \A p \in 0 .. Len(h) : open2[p] = open[p]
                    /\ \A p \in 1 .. Len(h2) : p \in 1 .. Len(h) \/ open2[p] = v
<1>1. Len(h) \in Nat /\ Len(h2) \in Nat /\ Len(h) <= Len(h2) /\ v \in BOOLEAN
  BY DEF Grown, Added
<1>2. PICK open2 : open2 = [p \in 0 .. Len(h2) |-> IF p \in 0 .. Len(h) THEN open[p] ELSE v]
  OBVIOUS
<1>3. /\ open2 \in [0 .. Len(h2) -> BOOLEAN]
      /\ \A p \in 0 .. Len(h) : open2[p] = open[p] /\ p \in 0 .. Len(h2)
      /\ \A p \in 1 .. Len(h2) : p \in 1 .. Len(h) \/ open2[p] = v
  <2>1. \A p \in 0 .. Len(h) : open[p] \in BOOLEAN /\ p \in 0 .. Len(h2)
    BY <1>1 DEF Reads
  <2> QED BY <1>1, <1>2, <2>1
<1>4. ASSUME NEW p \in 1 .. Len(h2)
      PROVE  ReadsAs(h2[p], open2, open2[p])
  <2>1. CASE p \in 1 .. Len(h)
    <3>1. ReadsAs(h[p], open, open2[p]) /\ h2[p].type = h[p].type
          /\ (h[p].type \notin ListType => h2[p] = h[p])
      BY <1>1, <1>3, <2>1 DEF Reads, Grown
    <3>2. ReadsAs(h[p], open2, open2[p])
      BY <1>1, <1>3, <2>1, <3>1, NodesWithin, ReadsSame
    <3>3. CASE h[p].type \in ListType
      BY <3>1, <3>2, <3>3 DEF ReadsAs, ListType, Branching
    <3>4. CASE h[p].type \notin ListType
      BY <3>1, <3>2, <3>4
    <3> QED BY <3>3, <3>4
  <2>2. CASE p \notin 1 .. Len(h)
    <3>1. open2[p] = v
      BY <1>3, <2>2
    <3>2. CASE Within(h2[p], Len(h)) /\ ReadsAs(h2[p], open, v)
      BY <1>1, <1>3, <3>1, <3>2, ReadsSame
    <3>3. CASE h2[p].type \notin Branching /\ ~v
      BY <3>1, <3>3 DEF ReadsAs, Branching
    <3> QED BY <2>2, <3>2, <3>3 DEF Added
  <2> QED BY <2>1, <2>2
<1>5. ~open2[0]
  <2>1. 0 \in 0 .. Len(h)
    BY <1>1
  <2> QED BY <1>3, <2>1 DEF Reads
<1>6. Reads(h2, open2)
  BY <1>3, <1>4, <1>5 DEF Reads
<1> QED BY <1>3, <1>6

LEMMA OpenIs ==
  ASSUME NEW h, NEW open, Reads(h, open)
  PROVE  \A p \in 1 .. Len(h) : h[p].type \notin Branching => ~open[p]
  BY DEF Reads, ReadsAs

(* Where an open statement is on top nothing but an `else' goes on.        *)
LEMMA OnlyElse ==
  ASSUME NEW s \in Seq(Entry), NEW tok, Dangles(s, tok), NEW top, top = s[Len(s)].state,
         \A k \in 1 .. Len(s) : s[k].state \in DOMAIN Kernel
  PROVE  DOMAIN Goto[top] \subseteq {"ELSE_K"}
<1>1. Len(s) - 1 \in 1 .. Len(s)
  BY DEF Dangles
<1> QED BY <1>1, ElseAssumption DEF Dangles, ElsesShift

(* What goes on with any other symbol finds nothing open.                  *)
LEMMA NothingOpen ==
  ASSUME IInv, NEW open, Dangling(stack, open, la), NEW X, X \in DOMAIN Goto[Top], X # "ELSE_K"
  PROVE  \A k \in 1 .. Len(stack) : ~open[stack[k].val]
<1>1. stack \in Seq(Entry) /\ Len(stack) >= 1 /\ Len(stack) \in Nat
  BY HoldsIs
<1>2. \A k \in 1 .. Len(stack) : stack[k].state \in DOMAIN Kernel
  <2>1. \A k \in 1 .. Len(stack) : stack[k] \in Entry
    BY <1>1
  <2> QED BY <2>1 DEF Entry
<1>3. Top = stack[Len(stack)].state
  BY <1>1 DEF Top, Last
<1>4. ~Dangles(stack, la)
  BY <1>1, <1>2, <1>3, OnlyElse
<1> QED BY <1>4 DEF Dangling

LEMMA InitBinds == Init => Binds
<1> SUFFICES ASSUME Init
             PROVE  Binds
  OBVIOUS
<1>1. PICK open : open = [p \in 0 .. 0 |-> FALSE]
  OBVIOUS
<1>2. heap = << >> /\ Len(heap) = 0 /\ stack = <<[state |-> Start, val |-> NULL]>>
  BY DEF Init
<1>3. Reads(heap, open)
  BY <1>1, <1>2 DEF Reads
<1>4. Dangling(stack, open, la)
  BY <1>1, <1>2 DEF Dangling, NULL
<1> QED BY <1>3, <1>4 DEF Binds

LEMMA LexBinds == IInv /\ Binds /\ yylex => Binds'
<1> SUFFICES ASSUME IInv, Binds, yylex
             PROVE  Binds'
  OBVIOUS
<1>1. PICK open : Reads(heap, open) /\ Dangling(stack, open, la)
  BY DEF Binds
<1>2. la = "none" /\ stack' = stack
  BY DEF yylex
<1>3. \A k \in 1 .. Len(stack) : ~open[stack[k].val]
  BY <1>1, <1>2 DEF Dangling, Dangles
<1>4. heap' = heap \/ heap' = Made(heap, "string", << >>).heap
  BY DEF yylex
<1>5. \E open2 : Reads(heap', open2) /\ \A p \in 0 .. Len(heap) : open2[p] = open[p]
  <2>1. CASE heap' = heap
    BY <1>1, <2>1
  <2>2. CASE heap' = Made(heap, "string", << >>).heap
    <3>1. PICK d, to, n, T : d = Made(heap, "string", to) /\ n = Len(heap) + 1 /\ T = {"string"}
                             /\ to = << >>
      OBVIOUS
    <3>2. Listed(heap) /\ Nodes(heap)
      BY HoldsIs DEF Listed, IInv, Pool
    <3>3. /\ Len(heap) \in Nat /\ Len(heap') = n /\ heap'[n].type = "string"
          /\ Grown(heap, heap', T)
      BY <2>2, <3>1, <3>2, MadeIs
    <3>4. \A p \in 1 .. Len(heap') : p \in 1 .. Len(heap) \/ p = n
      BY <3>1, <3>3
    <3>5. PICK v : v = FALSE
      OBVIOUS
    <3>6. Added(heap, heap', open, v)
      BY <3>3, <3>4, <3>5 DEF Added, Branching
    <3>7. PICK open2 : /\ Reads(heap', open2) /\ \A p \in 0 .. Len(heap) : open2[p] = open[p]
                       /\ \A p \in 1 .. Len(heap') : p \in 1 .. Len(heap) \/ open2[p] = v
      BY <1>1, <3>2, <3>3, <3>6, ReadsOn
    <3> QED BY <3>7
  <2> QED BY <1>4, <2>1, <2>2
<1>6. PICK open2 : Reads(heap', open2) /\ \A p \in 0 .. Len(heap) : open2[p] = open[p]
  BY <1>5
<1>7. Dangling(stack', open2, la')
  BY <1>2, <1>3, <1>6, HoldsIs DEF Dangling
<1> QED BY <1>6, <1>7 DEF Binds

LEMMA ShiftBinds == IInv /\ Binds /\ Shift => Binds'
<1> SUFFICES ASSUME IInv, Binds, Shift
             PROVE  Binds'
  OBVIOUS
<1>1. PICK open : Reads(heap, open) /\ Dangling(stack, open, la)
  BY DEF Binds
<1>2. PICK entry : /\ Shifts(Top, la) /\ stack' = Append(stack, entry) /\ entry.val = yylval
                   /\ heap' = heap
  BY DEF Shift
<1>3. \A k \in 1 .. Len(stack) : ~open[stack[k].val]
  <2>1. CASE la = "ELSE_K"
    BY <1>1, <2>1 DEF Dangling, Dangles
  <2>2. CASE la # "ELSE_K"
    BY <1>1, <1>2, <2>2, NothingOpen DEF Shifts
  <2> QED BY <2>1, <2>2
<1>4. ~open[yylval]
  <2>1. yylval = NULL \/ (yylval \in 1 .. Len(heap) /\ heap[yylval].type = "string")
    <3>1. yylval \in 0 .. Len(heap) /\ Len(heap) \in Nat
      <4>1. 1 \in Nat
        OBVIOUS
      <4> QED BY <4>1, HoldsIs
    <3>2. yylval = NULL \/ heap[yylval].type = "string"
      BY DEF IInv, Scalars
    <3> QED BY <3>1, <3>2 DEF NULL
  <2>2. ~open[NULL]
    BY <1>1 DEF Reads, NULL
  <2>3. "string" \notin Branching
    BY DEF Branching
  <2> QED BY <1>1, <2>1, <2>2, <2>3, OpenIs
<1>5. /\ Len(stack') = Len(stack) + 1 /\ stack'[Len(stack) + 1] = entry
      /\ \A k \in 1 .. Len(stack) : stack'[k] = stack[k]
  <2>1. PICK S : S = Entry \cup {entry}
    OBVIOUS
  <2>2. stack \in Seq(S) /\ entry \in S
    BY <2>1, HoldsIs
  <2> QED BY <1>2, <2>2
<1>6. Dangling(stack', open, la')
  <2>1. \A k \in 1 .. Len(stack') : k \in 1 .. Len(stack) \/ k = Len(stack) + 1
    BY <1>5, HoldsIs
  <2> QED BY <1>2, <1>3, <1>4, <1>5, <2>1 DEF Dangling
<1> QED BY <1>1, <1>2, <1>6 DEF Binds

LEMMA ErrorBinds == IInv /\ Binds /\ (Recover \/ Discard) => Binds'
<1> SUFFICES ASSUME IInv, Binds, Recover \/ Discard
             PROVE  Binds'
  OBVIOUS
<1>1. PICK open : Reads(heap, open) /\ Dangling(stack, open, la)
  BY DEF Binds
<1>2. NoAction /\ PushError /\ heap' = heap
  BY DEF Recover, Discard
<1>3. PICK n : n = ErrorState
  OBVIOUS
<1>4. /\ n \in 1 .. Len(stack) /\ Len(stack') = n + 1 /\ Len(stack) \in Nat
      /\ stack'[n + 1].val = NULL /\ \A k \in 1 .. n : stack'[k] = stack[k]
      /\ "error" \in DOMAIN Goto[stack[n].state]
  BY <1>2, <1>3, PushesError, ErrorStateIs, HoldsIs
<1>5. \A k \in 1 .. n : ~open[stack[k].val]
  <2>1. CASE n = Len(stack)
    <3>1. Top = stack[n].state
      BY <2>1 DEF Top, Last
    <3> QED BY <1>1, <1>4, <2>1, <3>1, NothingOpen
  <2>2. CASE n # Len(stack)
    <3>1. \A k \in 1 .. n : k \in 1 .. Len(stack) /\ k # Len(stack)
      BY <1>4, <2>2
    <3> QED BY <1>1, <3>1 DEF Dangling
  <2> QED BY <2>1, <2>2
<1>6. ~open[NULL]
  BY <1>1 DEF Reads, NULL
<1>7. \A k \in 1 .. Len(stack') : k \in 1 .. n \/ k = n + 1
  BY <1>4
<1>8. Dangling(stack', open, la')
  BY <1>4, <1>5, <1>6, <1>7 DEF Dangling
<1> QED BY <1>1, <1>2, <1>8 DEF Binds

LEMMA AbortBinds == IInv /\ Binds /\ Abort => Binds'
<1> SUFFICES ASSUME IInv, Binds, Abort
             PROVE  Binds'
  OBVIOUS
<1>1. PICK open : Reads(heap, open) /\ Dangling(stack, open, la)
  BY DEF Binds
<1>2. heap' = heap /\ stack' = SubSeq(stack, 1, 1)
  BY DEF Abort
<1>3. Len(stack') = 1 /\ stack'[1].val = NULL
  <2>1. StackOK(stack, heap, reported) /\ 1 \in 1 .. Len(stack)
    BY HoldsIs DEF IInv
  <2> QED BY <1>2, <2>1, StackCut DEF StackOK
<1>4. ~open[NULL]
  BY <1>1 DEF Reads, NULL
<1>5. Dangling(stack', open, la')
  BY <1>3, <1>4 DEF Dangling
<1> QED BY <1>1, <1>2, <1>5 DEF Binds

(* The arguments of a reduction are pointers that are there; those that    *)
(* are not the last of the rule do not end open.                           *)
LEMMA ArgumentsAre ==
  ASSUME IInv, NEW rule, NEW b, NEW a, NEW done, Reduced(rule, b, a, done)
  PROVE  /\ Len(a) \in Nat /\ Len(a) = Len(rule.args)
         /\ \A k \in 1 .. Len(a) :
              /\ rule.args[k] \in 0 .. Len(rule.rhs) /\ a[k] \in 0 .. Len(heap)
              /\ rule.args[k] = 0 => a[k] = NULL
              /\ rule.args[k] # 0 => b + rule.args[k] \in 1 .. Len(stack)
                                     /\ a[k] = stack[b + rule.args[k]].val
<1>1. PICK args, m : args = rule.args /\ m = Len(rule.rhs)
  OBVIOUS
<1>2. args \in Seq(0 .. m) /\ m \in Nat
  BY <1>1, ActionsAssumption DEF Reduced, WellTyped
<1>3. b \in 1 .. Len(stack) /\ b + m = Len(stack) /\ Len(stack) \in Nat
      /\ a = [k \in DOMAIN args |-> IF args[k] = 0 THEN NULL ELSE stack[b + args[k]].val]
  BY <1>1, HoldsIs DEF Reduced, Arguments
<1>4. Len(args) \in Nat /\ DOMAIN args = 1 .. Len(args)
      /\ \A k \in 1 .. Len(args) : args[k] \in 0 .. m
  BY <1>2
<1>5. Len(a) = Len(args)
      /\ \A k \in 1 .. Len(args) :
           a[k] = IF args[k] = 0 THEN NULL ELSE stack[b + args[k]].val
  BY <1>3, <1>4
<1>6. \A k \in 1 .. Len(args) : args[k] # 0 => b + args[k] \in 1 .. Len(stack)
  BY <1>2, <1>3, <1>4
<1>7. \A k \in 1 .. Len(args) : a[k] \in 0 .. Len(heap)
  <2>1. NULL \in 0 .. Len(heap) /\ \A k \in 1 .. Len(stack) : stack[k].val \in 0 .. Len(heap)
    BY HoldsIs DEF NULL
  <2> QED BY <1>5, <1>6, <2>1
<1> QED BY <1>1, <1>4, <1>5, <1>6, <1>7

(* What stays on the stack when a rule is reduced does not end open.       *)
LEMMA KeptClosed ==
  ASSUME IInv, NEW open, Dangling(stack, open, la), NEW rule, NEW b, NEW a, NEW done,
         Reduced(rule, b, a, done), Ended(rule, b) \/ WentOn(rule, b, done)
  PROVE  \A k \in 1 .. b : ~open[stack[k].val]
<1>1. b \in 1 .. Len(stack) /\ Len(rule.rhs) \in Nat /\ b + Len(rule.rhs) = Len(stack)
      /\ Len(stack) \in Nat
  BY HoldsIs DEF Reduced
<1>2. CASE b # Len(stack)
  <2>1. \A k \in 1 .. b : k \in 1 .. Len(stack) /\ k # Len(stack)
    BY <1>1, <1>2
  <2> QED BY <2>1 DEF Dangling
<1>3. CASE b = Len(stack)
  <2>1. rule.rhs # <<"program">>
    BY <1>1, <1>3
  <2>2. WentOn(rule, b, done)
    BY <2>1 DEF Ended
  <2>3. rule.lhs \in DOMAIN Goto[Top]
    BY <1>3, <2>2 DEF WentOn, Top, Last
  <2>4. rule.lhs # "ELSE_K"
    <3>1. rule.lhs \in NonTerminal
      BY DEF Reduced, NonTerminal
    <3> QED BY <3>1, ElseAssumption DEF ElsesShift
  <2> QED BY <1>3, <2>3, <2>4, NothingOpen
<1> QED BY <1>2, <1>3

(* An action that hands a value on does not hand on an open statement.     *)
LEMMA ValueClosed ==
  ASSUME IInv, NEW open, ~open[NULL], Dangling(stack, open, la), NEW rule, NEW b, NEW a,
         NEW done, Reduced(rule, b, a, done), rule.action = "value"
  PROVE  ~open[a[1]]
<1>1. SUFFICES ASSUME open[a[1]]
               PROVE  FALSE
  OBVIOUS
<1>2. PICK rhs, n, m : rhs = rule.rhs /\ n = rule.args[1] /\ m = Len(rhs)
  OBVIOUS
<1>3. Len(a) = 1 /\ 1 \in 1 .. Len(a)
  <2>1. rule \in Range(Rules) /\ rule.action \in Unary
    BY DEF Reduced, Unary
  <2>2. Len(rule.args) = 1
    BY <2>1, ActionsAssumption DEF WellTyped
  <2>3. Len(a) = Len(rule.args)
    BY ArgumentsAre
  <2> QED BY <2>2, <2>3
<1>4. /\ n \in 0 .. m /\ n # 0 /\ m \in Nat /\ b \in Nat /\ b + m = Len(stack)
      /\ b + n \in 1 .. Len(stack) /\ a[1] = stack[b + n].val
  <2>1. rule.args[1] \in 0 .. Len(rule.rhs) /\ (rule.args[1] = 0 => a[1] = NULL)
        /\ (rule.args[1] # 0 => b + rule.args[1] \in 1 .. Len(stack)
                                /\ a[1] = stack[b + rule.args[1]].val)
    BY <1>3, ArgumentsAre
  <2> QED BY <1>1, <1>2, <2>1 DEF Reduced
<1>5. b + n = Len(stack) /\ Dangles(stack, la)
  BY <1>1, <1>4 DEF Dangling
<1>6. n = m /\ m > 0 /\ b + m - 1 \in 1 .. Len(stack) /\ b + m = Len(stack)
  BY <1>4, <1>5 DEF Dangles
<1>7. PICK from : from = stack[Len(stack) - 1].state
  OBVIOUS
<1>8. /\ from \in DOMAIN Kernel /\ "stmt" \in DOMAIN Goto[from]
      /\ stack[Len(stack)].state = Goto[from]["stmt"]
  <2>1. Len(stack) - 1 \in 1 .. Len(stack) /\ stack \in Seq(Entry)
    <3>1. Len(stack) \in Nat /\ stack \in Seq(Entry)
      BY HoldsIs
    <3> QED BY <1>5, <3>1 DEF Dangles
  <2>2. stack[Len(stack) - 1] \in Entry
    BY <2>1
  <2> QED BY <1>5, <1>7, <2>2 DEF Dangles, Entry
<1>9. PICK i \in Items[Goto[from]["stmt"]] : i.rule = rule /\ i.dot = m + 1
  <2>1. Begun(stack, rule, b, m)
    <3>1. m \in 0 .. Len(rule.rhs)
      BY <1>2, <1>4
    <3> QED BY <3>1 DEF Reduced, Popping
  <2> QED BY <1>6, <1>8, <2>1 DEF Begun
<1>10. i.rule.rhs[i.dot - 1] = "stmt"
  <2>1. i.dot > 1
    BY <1>4, <1>6, <1>9
  <2> QED BY <1>8, <2>1, Arrives
<1>11. rhs[n] = "stmt"
  BY <1>2, <1>4, <1>6, <1>9, <1>10
<1>12. rule.rhs[rule.args[1]] # "stmt"
  BY <1>2, <1>4, ElseAssumption DEF ElsesShift, Reduced
<1> QED BY <1>2, <1>11, <1>12

LEMMA HeldIsLive ==
  ASSUME NEW h, NEW hold, NEW f, NEW rep, Pool(h, hold, f, rep),
         NEW k \in Nat \ {0}, hold[k] # NULL
  PROVE  hold[k] \notin f /\ ~Cut(h, hold[k])
<1>1. PICK par : Rooted(h, hold, f, rep, par)
  BY DEF Pool
<1>2. /\ par[hold[k]] = -k /\ \A p \in f : par[p] = 0
      /\ \A p \in 1 .. Len(h) : Cut(h, p) => par[p] = 0
  BY <1>1 DEF Rooted
<1>3. -k # 0
  OBVIOUS
<1>4. hold[k] \in 1 .. Len(h)
  <2>1. Len(h) \in Nat
    BY DEF Pool, Nodes
  <2>2. hold[k] \in 0 .. Len(h)
    BY DEF Pool
  <2> QED BY <2>1, <2>2 DEF NULL
<1> QED BY <1>2, <1>3, <1>4

(* What a reduction appends to is a list that is in use.                   *)
LEMMA ListIs ==
  ASSUME IInv, NEW rule, NEW b, NEW a, NEW done, Reduced(rule, b, a, done),
         rule.action \in Appending \cup {"append_expr"}, a[1] # NULL
  PROVE  /\ a[1] \in Cells(heap) /\ a[1] \notin freed /\ ~Cut(heap, a[1])
         /\ heap[a[1]].type = "expr_list" <=> rule.action = "append_expr"
<1>1. PICK args, rhs : args = rule.args /\ rhs = rule.rhs
  OBVIOUS
<1>2. /\ Len(args) = 2 /\ args[1] = 1
      /\ rule.action # "append_expr" => rhs[1] \in ListSymbol \ ArgumentSymbol
      /\ rule.action = "append_expr" => rhs[1] \in ArgumentSymbol
  <2>1. rule \in Range(Rules)
    BY DEF Reduced
  <2> QED BY <1>1, <2>1, ActionsAssumption DEF WellTyped
<1>3. 1 \in 1 .. Len(rhs) /\ a[1] = stack[b + 1].val
  <2>1. 1 \in 1 .. Len(a)
    BY <1>1, <1>2, ArgumentsAre
  <2>2. args[1] \in 0 .. Len(rhs) /\ (args[1] # 0 => a[1] = stack[b + args[1]].val)
    BY <1>1, <2>1, ArgumentsAre
  <2>3. Len(rhs) \in Nat
    BY <1>1 DEF Reduced
  <2> QED BY <1>2, <2>2, <2>3
<1>4. ValueOK(rhs[1], a[1], heap, reported)
  BY <1>1, <1>3 DEF Reduced, Popping
<1>5. /\ rule.action # "append_expr" => a[1] \in Cells(heap) /\ heap[a[1]].type # "expr_list"
      /\ rule.action = "append_expr" => a[1] \in Cells(heap) /\ heap[a[1]].type = "expr_list"
  BY <1>2, <1>4 DEF ValueOK, ListOK, ArgumentsOK
<1>6. a[1] = Holds[b + 3] /\ b + 3 \in Nat \ {0}
  <2>1. b \in Nat /\ Len(rhs) \in Nat /\ b + Len(rhs) = Len(stack)
    BY <1>1 DEF Reduced
  <2>2. b + 1 \in 1 .. Len(stack) /\ (b + 1) + 2 = b + 3
    BY <1>3, <2>1
  <2>3. Holds[(b + 1) + 2] = stack[b + 1].val
    BY <2>2, HoldsIs
  <2> QED BY <1>3, <2>1, <2>2, <2>3
<1>7. a[1] \notin freed /\ ~Cut(heap, a[1])
  BY <1>6, HeldIsLive DEF IInv
<1> QED BY <1>5, <1>7

LEMMA HeapGrows ==
  ASSUME IInv, NEW rule, NEW b, NEW a, NEW done, Reduced(rule, b, a, done), WentOn(rule, b, done)
  PROVE  Doable(rule, heap, a)
<1>1. Listed(heap)
  BY HoldsIs DEF Listed
<1>2. ASSUME rule.action \in Appending \cup {"append_expr"}, a[1] # NULL
      PROVE  LastCell(heap, a[1]) \in Cells(heap)
  <2>1. /\ a[1] \in Cells(heap) /\ a[1] \notin freed /\ ~Cut(heap, a[1])
        /\ heap[a[1]].type = "expr_list" <=> rule.action = "append_expr"
    BY <1>2, ListIs
  <2>2. CASE rule.action = "append_expr"
    <3>1. heap[a[1]].to[2] = NULL
      BY <2>1, <2>2 DEF Cut
    <3>2. Pool(heap, Holds, freed, reported)
      BY DEF IInv
    <3>3. LastCell(heap, a[1]) = a[1]
      BY <2>1, <3>1, <3>2, LastCellIs
    <3> QED BY <2>1, <3>3
  <2>3. CASE rule.action # "append_expr"
    BY <2>1, <2>3, LastIs DEF IInv
  <2> QED BY <2>2, <2>3
<1> QED BY <1>1, <1>2 DEF Doable, Reduced, WentOn

LEMMA OpenArguments ==
  ASSUME IInv, NEW open, ~open[NULL], Dangling(stack, open, la), NEW rule, NEW b, NEW a,
         NEW done, Reduced(rule, b, a, done), NEW k \in 1 .. Len(a), open[a[k]]
  PROVE  rule.args[k] = Len(rule.rhs) /\ la \notin {"none", "ELSE_K"}
<1>1. /\ rule.args[k] \in 0 .. Len(rule.rhs)
      /\ rule.args[k] = 0 => a[k] = NULL
      /\ rule.args[k] # 0 => b + rule.args[k] \in 1 .. Len(stack)
                             /\ a[k] = stack[b + rule.args[k]].val
  BY ArgumentsAre
<1>2. PICK n : n = rule.args[k]
  OBVIOUS
<1>3. b + n \in 1 .. Len(stack) /\ open[stack[b + n].val]
  BY <1>1, <1>2
<1>4. b + n = Len(stack) /\ Dangles(stack, la)
  BY <1>3 DEF Dangling
<1>5. b \in Nat /\ b + Len(rule.rhs) = Len(stack) /\ Len(rule.rhs) \in Nat
  BY DEF Reduced
<1> QED BY <1>1, <1>2, <1>4, <1>5 DEF Dangles

(* An if without else is only complete where no else is next.              *)
LEMMA NoElseNext ==
  ASSUME IInv, NEW rule, NEW b, NEW a, NEW done, Reduced(rule, b, a, done),
         rule.action = "STM_IF", Len(rule.args) = 2
  PROVE  la \notin {"none", "ELSE_K"}
<1>1. rule \in Complete[Top] /\ (Shifts(Top, la) => Reductions(Top, la) = {})
      /\ rule \in Reductions(Top, la)
  BY DEF Reduced, Reductions, Defaults
<1>2. Top \in DOMAIN Kernel
  <2>1. Len(stack) \in 1 .. Len(stack) /\ stack \in Seq(Entry)
    BY HoldsIs
  <2>2. stack[Len(stack)] \in Entry
    BY <2>1
  <2> QED BY <2>2 DEF Top, Last, Entry
<1>3. Shifts(Top, "ELSE_K") /\ "ELSE_K" \in Symbol \ NonTerminal
  BY <1>1, <1>2, ElseAssumption DEF ElsesShift
<1>4. la # "ELSE_K"
  BY <1>1, <1>3
<1>5. ~Consistent(Top)
  BY <1>3 DEF Consistent
<1> QED BY <1>4, <1>5 DEF Reduced

(* A branching statement ends open if it is an if without else, or what it *)
(* ends with does.                                                         *)
LEMMA BranchReads ==
  ASSUME IInv, NEW open, Reads(heap, open), Dangling(stack, open, la), NEW rule, NEW b, NEW a,
         NEW done, Reduced(rule, b, a, done), rule.action \in Branching,
         NEW node, node.type = rule.action, node.to = a
  PROVE  /\ Within(node, Len(heap))
         /\ \E v \in BOOLEAN : ReadsAs(node, open, v) /\ (v => la \notin {"none", "ELSE_K"})
<1>1. /\ Len(a) \in Nat /\ Len(a) = Len(rule.args) /\ \A k \in 1 .. Len(a) : a[k] \in 0 .. Len(heap)
      /\ Within(node, Len(heap))
  BY ArgumentsAre DEF Within
<1>2. ~open[NULL] /\ \A p \in 0 .. Len(heap) : open[p] \in BOOLEAN
  BY DEF Reads, NULL
<1>3. \A k \in 1 .. Len(a) :
        open[a[k]] => rule.args[k] = Len(rule.rhs) /\ la \notin {"none", "ELSE_K"}
  BY <1>2, OpenArguments
<1>4. /\ rule.args # << >> /\ rule.args \in Seq(0 .. Len(rule.rhs)) /\ Len(rule.rhs) \in Nat
      /\ rule.action = "STM_IF" =>
           Len(rule.args) = 2 \/ (Len(rule.args) = 3 /\ rule.args[2] < Len(rule.rhs))
  BY ElseAssumption, ActionsAssumption DEF ElsesShift, WellTyped, Reduced
<1>5. CASE rule.action = "STM_IF" /\ Len(rule.args) = 2
  <2>1. la \notin {"none", "ELSE_K"}
    BY <1>5, NoElseNext
  <2>2. ReadsAs(node, open, TRUE)
    BY <1>1, <1>5 DEF ReadsAs, Branching
  <2> QED BY <1>1, <2>1, <2>2
<1>6. CASE rule.action = "STM_IF" /\ Len(rule.args) = 3
  <2>1. 2 \in 1 .. Len(a) /\ 3 \in 1 .. Len(a) /\ rule.args[2] \in Nat
    BY <1>1, <1>4, <1>6
  <2>2. ~open[a[2]]
    BY <1>3, <1>4, <1>6, <2>1
  <2>3. PICK v : v = open[a[3]]
    OBVIOUS
  <2>4. v \in BOOLEAN /\ (v => la \notin {"none", "ELSE_K"})
    BY <1>1, <1>2, <1>3, <2>1, <2>3
  <2>5. ReadsAs(node, open, v)
    BY <1>1, <1>6, <2>2, <2>3 DEF ReadsAs, Branching
  <2> QED BY <1>1, <2>4, <2>5
<1>7. CASE rule.action # "STM_IF"
  <2>1. Len(a) > 0 /\ Len(a) \in 1 .. Len(a)
    BY <1>1, <1>4
  <2>2. PICK v : v = open[a[Len(a)]]
    OBVIOUS
  <2>3. v \in BOOLEAN /\ (v => la \notin {"none", "ELSE_K"})
    BY <1>1, <1>2, <1>3, <2>1, <2>2
  <2>4. ReadsAs(node, open, v)
    BY <1>7, <2>1, <2>2 DEF ReadsAs, Branching
  <2> QED BY <1>1, <2>3, <2>4
<1> QED BY <1>4, <1>5, <1>6, <1>7

LEMMA BranchBinds ==
  ASSUME IInv, NEW open, Reads(heap, open), Dangling(stack, open, la), NEW rule, NEW b, NEW a,
         NEW done, Reduced(rule, b, a, done), WentOn(rule, b, done), rule.action \in Branching
  PROVE  \E open2 : /\ Reads(heap', open2) /\ \A p \in 0 .. Len(heap) : open2[p] = open[p]
                    /\ open2[done.val] => Dangles(stack', la)
<1>1. PICK n, action : n = Len(heap) + 1 /\ action = rule.action
  OBVIOUS
<1>2. done = Made(heap, action, a) /\ heap' = done.heap
  BY <1>1 DEF Reduced, Do, Branching
<1>3. Listed(heap) /\ Nodes(heap)
  BY HoldsIs DEF Listed, IInv, Pool
<1>4. PICK T : T = {action}
  OBVIOUS
<1>5. /\ Len(heap) \in Nat /\ n \in Nat /\ Len(heap') = n /\ done.val = n
      /\ heap'[n].type = action /\ heap'[n].to = a /\ Grown(heap, heap', T)
  <2>1. action \in T
    BY <1>4
  <2> QED BY <1>1, <1>2, <1>3, <2>1, MadeIs
<1>6. PICK v \in BOOLEAN : /\ Within(heap'[n], Len(heap)) /\ ReadsAs(heap'[n], open, v)
                           /\ v => la \notin {"none", "ELSE_K"}
  BY <1>1, <1>5, BranchReads
<1>7. Added(heap, heap', open, v)
  <2>1. \A p \in 1 .. Len(heap') : p \in 1 .. Len(heap) \/ p = n
    BY <1>1, <1>5
  <2> QED BY <1>6, <2>1 DEF Added
<1>8. PICK open2 : /\ Reads(heap', open2) /\ \A p \in 0 .. Len(heap) : open2[p] = open[p]
                   /\ \A p \in 1 .. Len(heap') : p \in 1 .. Len(heap) \/ open2[p] = v
  BY <1>3, <1>5, <1>7, ReadsOn
<1>9. open2[n] = v
  <2>1. n \in 1 .. Len(heap') /\ n \notin 1 .. Len(heap)
    BY <1>1, <1>5
  <2> QED BY <1>8, <2>1
<1>10. /\ "stmt" \in DOMAIN Goto[stack[b].state] /\ Len(stack') = b + 1
       /\ stack'[b + 1].state = Goto[stack[b].state]["stmt"] /\ stack'[b] = stack[b]
       /\ b \in Nat /\ b >= 1
  <2>1. rule.lhs = "stmt"
    BY ElseAssumption DEF ElsesShift, Reduced
  <2> QED BY <2>1 DEF WentOn, Reduced
<1>11. v => Dangles(stack', la)
  <2>1. (b + 1) - 1 = b /\ b + 1 > 1
    BY <1>10
  <2> QED BY <1>6, <1>10, <2>1 DEF Dangles
<1> QED BY <1>5, <1>8, <1>9, <1>11

LEMMA OtherBinds ==
  ASSUME IInv, NEW open, Reads(heap, open), Dangling(stack, open, la), NEW rule, NEW b, NEW a,
         NEW done, Reduced(rule, b, a, done), WentOn(rule, b, done), rule.action \notin Branching
  PROVE  \E open2 : /\ Reads(heap', open2) /\ \A p \in 0 .. Len(heap) : open2[p] = open[p]
                    /\ ~open2[done.val]
<1>1. PICK T, action : T = Kinds(action) /\ action = rule.action
  OBVIOUS
<1>2. Doable(rule, heap, a) /\ Nodes(heap)
  BY HeapGrows DEF IInv, Pool
<1>3. done = Do(action, heap, a) /\ heap' = done.heap
  BY <1>1 DEF Reduced
<1>4. /\ Listed(done.heap) /\ Grown(heap, done.heap, T)
      /\ \/ action = "value" /\ done = [heap |-> heap, val |-> a[1]]
         \/ action \in Appending /\ a[1] # NULL /\ done.val = a[1]
         \/ done.val \in 1 .. Len(done.heap) /\ done.heap[done.val].type \in T
  BY <1>1, <1>2, <1>3, DoGrows
<1>5. \A type \in T : type \notin Branching
  BY <1>1 DEF Kinds, Branching, ListType
<1>6. PICK v : v = FALSE
  OBVIOUS
<1>7. Added(heap, heap', open, v)
  BY <1>3, <1>4, <1>5, <1>6 DEF Added, Grown
<1>8. PICK open2 : /\ Reads(heap', open2) /\ \A p \in 0 .. Len(heap) : open2[p] = open[p]
                   /\ \A p \in 1 .. Len(heap') : p \in 1 .. Len(heap) \/ open2[p] = v
  BY <1>2, <1>3, <1>4, <1>7, ReadsOn
<1>9. CASE action = "value" /\ done = [heap |-> heap, val |-> a[1]]
  <2>1. ~open[NULL]
    BY DEF Reads, NULL
  <2>2. ~open[a[1]] /\ done.val = a[1]
    BY <1>1, <1>9, <2>1, ValueClosed
  <2>3. a[1] \in 0 .. Len(heap)
    <3>1. Len(rule.args) = 1
      <4>1. rule \in Range(Rules) /\ rule.action = "value"
        BY <1>1, <1>9 DEF Reduced
      <4> QED BY <4>1, ActionsAssumption DEF WellTyped, Unary
    <3>2. 1 \in 1 .. Len(a)
      BY <3>1, ArgumentsAre
    <3> QED BY <3>2, ArgumentsAre
  <2> QED BY <1>8, <2>2, <2>3
<1>10. CASE \/ action \in Appending /\ a[1] # NULL /\ done.val = a[1]
            \/ done.val \in 1 .. Len(done.heap) /\ done.heap[done.val].type \in T
  <2>1. done.val \in 1 .. Len(heap') /\ heap'[done.val].type \notin Branching
    <3>1. CASE action \in Appending /\ a[1] # NULL /\ done.val = a[1]
      <4>1. a[1] \in Cells(heap)
        BY <1>1, <3>1, ListIs
      <4>2. DOMAIN heap = 1 .. Len(heap)
        BY HoldsIs
      <4>3. a[1] \in 1 .. Len(heap) /\ heap[a[1]].type \in ListType
        BY <4>1, <4>2 DEF Cells
      <4>4. a[1] \in 1 .. Len(heap') /\ heap'[a[1]].type = heap[a[1]].type
        <5>1. Grown(heap, heap', T)
          BY <1>3, <1>4
        <5> QED BY <4>3, <5>1 DEF Grown
      <4>5. \A type \in ListType : type \notin Branching
        BY DEF ListType, Branching
      <4> QED BY <3>1, <4>3, <4>4, <4>5
    <3>2. CASE done.val \in 1 .. Len(done.heap) /\ done.heap[done.val].type \in T
      BY <1>3, <1>5, <3>2
    <3> QED BY <1>10, <3>1, <3>2
  <2> QED BY <1>8, <2>1, OpenIs
<1> QED BY <1>4, <1>9, <1>10

LEMMA ReduceBinds == IInv /\ Binds /\ Reduce => Binds'
<1> SUFFICES ASSUME IInv, Binds, Reduce
             PROVE  Binds'
  OBVIOUS
<1>1. PICK open : Reads(heap, open) /\ Dangling(stack, open, la)
  BY DEF Binds
<1>2. PICK rule, b, a, done : Reduced(rule, b, a, done) /\ (Ended(rule, b) \/ WentOn(rule, b, done))
  BY ReduceIs
<1>3. \A k \in 1 .. b : ~open[stack[k].val] /\ stack'[k] = stack[k]
  BY <1>1, <1>2, KeptClosed DEF Reduced
<1>4. la' = la /\ heap' = done.heap /\ done = Do(rule.action, heap, a) /\ b \in 1 .. Len(stack)
  BY <1>2 DEF Reduced
<1>5. CASE Ended(rule, b)
  <2>1. heap' = heap
    BY <1>4, <1>5 DEF Ended, Do
  <2>2. Dangling(stack', open, la')
    BY <1>3, <1>5 DEF Ended, Dangling
  <2> QED BY <1>1, <2>1, <2>2 DEF Binds
<1>6. CASE WentOn(rule, b, done)
  <2>1. PICK open2 : /\ Reads(heap', open2) /\ \A p \in 0 .. Len(heap) : open2[p] = open[p]
                     /\ open2[done.val] => Dangles(stack', la)
    <3>1. CASE rule.action \in Branching
      BY <1>1, <1>2, <1>6, <3>1, BranchBinds
    <3>2. CASE rule.action \notin Branching
      <4>1. PICK open2 : /\ Reads(heap', open2) /\ \A p \in 0 .. Len(heap) : open2[p] = open[p]
                         /\ ~open2[done.val]
        BY <1>1, <1>2, <1>6, <3>2, OtherBinds
      <4> QED BY <4>1
    <3> QED BY <3>1, <3>2
  <2>2. \A k \in 1 .. b : ~open2[stack'[k].val]
    <3>1. \A k \in 1 .. b : k \in 1 .. Len(stack)
      BY <1>4, HoldsIs
    <3> QED BY <1>3, <2>1, <3>1, HoldsIs
  <2>3. Len(stack') = b + 1 /\ stack'[b + 1].val = done.val
    BY <1>6 DEF WentOn
  <2>4. \A k \in 1 .. Len(stack') : k \in 1 .. b \/ k = Len(stack')
    BY <1>4, <2>3
  <2>5. Dangling(stack', open2, la')
    BY <1>4, <2>1, <2>2, <2>3, <2>4 DEF Dangling
  <2> QED BY <2>1, <2>5 DEF Binds
<1> QED BY <1>2, <1>5, <1>6

LEMMA StepBinds == IInv /\ Binds /\ [Step \/ Stopped]_vars => Binds'
<1> SUFFICES ASSUME IInv, Binds, [Step \/ Stopped]_vars
             PROVE  Binds'
  OBVIOUS
<1>1. CASE UNCHANGED vars
  BY <1>1 DEF vars, Binds
<1> QED
  BY <1>1, LexBinds, ShiftBinds, ReduceBinds, ErrorBinds, AbortBinds DEF Step, Stopped

LEMMA BindingInvariance == Spec => []Binds
<1>1. Init => Binds
  BY InitBinds
<1>2. IInv /\ Binds /\ [Step \/ Stopped]_vars => Binds'
  BY StepBinds
<1> QED BY <1>1, <1>2, Invariance, PTL DEF Spec

(* EndsOpen is what `open' tells.                                          *)
LEMMA EndsOpenIs ==
  ASSUME IInv, NEW open, Reads(heap, open)
  PROVE  \A p \in 0 .. Len(heap) : EndsOpen(p) = open[p]
<1> DEFINE n == Len(heap)
           Ending(g, p) ==
             IF p = NULL THEN FALSE
             ELSE CASE heap[p].type = "STM_IF" -> Len(heap[p].to) = 2 \/ g[heap[p].to[3]]
                    [] heap[p].type \in {"STM_WHILE", "STM_FOR"} -> g[Last(heap[p].to)]
                    [] OTHER -> FALSE
           Recursive(g) == g = [p \in 0 .. n |-> Ending(g, p)]
           ends == CHOOSE g : Recursive(g)
<1>1. \A p : EndsOpen(p) = ends[p]
  BY Zenon DEF EndsOpen
<1>2. Nodes(heap) /\ n \in Nat
  BY HoldsIs DEF IInv, Pool
<1>3. PICK own, rank, m : Ranked(heap, Holds, own, rank, m)
  BY DEF IInv, Pool
<1>4. open \in [0 .. n -> BOOLEAN] /\ open[0] = FALSE
      /\ \A p \in 1 .. n : open[p] \in BOOLEAN /\ ReadsAs(heap[p], open, open[p])
  <2>1. open \in [0 .. n -> BOOLEAN] /\ ~open[0] /\ \A p \in 1 .. n : p \in 0 .. n
    BY <1>2 DEF Reads
  <2> QED BY <2>1 DEF Reads
<1>5. \A g, p : heap[p].type \notin Branching => Ending(g, p) = FALSE
  BY DEF Branching
<1>6. ASSUME NEW p \in 1 .. n, NEW g,
             \A k \in 1 .. Len(heap[p].to) : g[heap[p].to[k]] = open[heap[p].to[k]]
      PROVE  Ending(g, p) = open[p]
  <2>1. p # NULL /\ ReadsAs(heap[p], open, open[p]) /\ open[p] \in BOOLEAN
    BY <1>4 DEF NULL
  <2>2. Len(heap[p].to) \in Nat
    BY <1>2, NodesWithin DEF Within
  <2>3. CASE heap[p].type = "STM_IF" /\ Len(heap[p].to) = 2
    <3>1. open[p] = TRUE
      BY <2>1, <2>3 DEF ReadsAs
    <3> QED BY <2>1, <2>3, <3>1
  <2>4. CASE heap[p].type = "STM_IF" /\ Len(heap[p].to) = 3
    <3>1. open[p] = open[heap[p].to[3]] /\ 3 \in 1 .. Len(heap[p].to)
      BY <2>1, <2>4 DEF ReadsAs
    <3>2. g[heap[p].to[3]] = open[p]
      BY <1>6, <3>1
    <3> QED BY <2>1, <2>4, <3>2
  <2>5. CASE heap[p].type \in {"STM_WHILE", "STM_FOR"}
    <3>1. PICK last : last = Len(heap[p].to)
      OBVIOUS
    <3>2. open[p] = open[heap[p].to[last]] /\ last \in 1 .. Len(heap[p].to)
      BY <2>1, <2>2, <2>5, <3>1 DEF ReadsAs
    <3>3. g[heap[p].to[last]] = open[p]
      BY <1>6, <3>2
    <3>4. Ending(g, p) = g[heap[p].to[last]]
      BY <2>1, <2>5, <3>1 DEF Last
    <3> QED BY <3>3, <3>4
  <2>6. CASE heap[p].type \notin Branching
    <3>1. open[p] = FALSE
      BY <2>1, <2>6 DEF ReadsAs
    <3> QED BY <1>5, <2>6, <3>1
  <2> QED BY <2>1, <2>3, <2>4, <2>5, <2>6 DEF ReadsAs, Branching
<1>7. Recursive(open)
  <2>1. \A p \in 0 .. n : Ending(open, p) = open[p]
    <3>1. Ending(open, 0) = open[0]
      BY <1>4 DEF NULL
    <3>2. \A p \in 1 .. n : Ending(open, p) = open[p]
      <4> HIDE DEF Ending
      <4> QED BY <1>6
    <3>3. \A p \in 0 .. n : p = 0 \/ p \in 1 .. n
      BY <1>2
    <3> HIDE DEF Ending
    <3> QED BY <3>1, <3>2, <3>3
  <2>2. open = [p \in 0 .. n |-> open[p]]
    BY <1>4
  <2> HIDE DEF Ending
  <2> QED BY <2>1, <2>2
<1>8. Recursive(ends)
  <2> HIDE DEF Recursive
  <2> QED BY <1>7, Zenon
<1> HIDE DEF ends
<1>9. \A p \in 0 .. n : ends[p] = Ending(ends, p)
  <2> HIDE DEF Ending
  <2> QED BY <1>8
<1>10. ends[0] = open[0]
  <2>1. 0 \in 0 .. n
    BY <1>2
  <2>2. Ending(ends, 0) = FALSE
    BY DEF NULL
  <2> QED BY <1>4, <1>9, <2>1, <2>2
<1> HIDE DEF Ending, Recursive
<1> DEFINE T == {p \in 1 .. n : ends[p] = open[p]}
<1>11. ASSUME NEW p \in 1 .. n, \A q \in 1 .. n : rank[q] < rank[p] => q \in T
       PROVE  p \in T
  <2>1. ASSUME NEW k \in 1 .. Len(heap[p].to)
        PROVE  ends[heap[p].to[k]] = open[heap[p].to[k]]
    <3>1. PICK c : c = heap[p].to[k]
      OBVIOUS
    <3>2. CASE c = 0
      BY <1>10, <3>1, <3>2
    <3>3. CASE c # 0
      <4>1. c \in Kids(heap, p)
        <5>1. heap \in Seq(AnyNode)
          BY <1>2 DEF Nodes
        <5>2. heap[p] \in AnyNode
          BY <5>1
        <5>3. heap[p].to \in Seq(Nat)
          BY <5>2 DEF AnyNode
        <5>4. c \in Range(heap[p].to)
          BY <3>1, <5>3 DEF Range
        <5> QED BY <3>3, <5>4 DEF Kids, NULL
      <4>2. c \in 1 .. n /\ rank[c] < rank[p]
        BY <1>2, <1>3, <4>1 DEF Nodes, Ranked
      <4> QED BY <1>11, <3>1, <4>2
    <3> QED BY <3>2, <3>3
  <2>2. p \in 0 .. n
    BY <1>2
  <2> QED BY <1>6, <1>9, <2>1, <2>2
<1> HIDE DEF T
<1>12. 1 .. n \subseteq T
  <2>1. Passes(T, 1 .. n, rank, m)
    BY <1>3, <1>11 DEF Passes, Ranked
  <2> QED BY <2>1, InductionByRank, Zenon
<1>13. \A p \in 0 .. n : p = 0 \/ p \in 1 .. n
  BY <1>2
<1> QED
  BY <1>1, <1>10, <1>12, <1>13 DEF T

LEMMA BindingFollows == IInv /\ Binds => ElseBindsNearest
<1> SUFFICES ASSUME IInv, Binds, NEW p \in DOMAIN heap,
                    heap[p].type = "STM_IF", Len(heap[p].to) = 3
             PROVE  ~EndsOpen(heap[p].to[2])
  BY DEF ElseBindsNearest
<1>1. PICK open : Reads(heap, open)
  BY DEF Binds
<1>2. p \in 1 .. Len(heap) /\ Nodes(heap)
  <2>1. Nodes(heap)
    BY DEF IInv, Pool
  <2>2. heap \in Seq(AnyNode)
    BY <2>1 DEF Nodes
  <2>3. DOMAIN heap = 1 .. Len(heap)
    BY <2>2
  <2> QED BY <2>1, <2>3
<1>3. ~open[heap[p].to[2]]
  <2>1. ReadsAs(heap[p], open, open[p])
    BY <1>1, <1>2 DEF Reads
  <2> QED BY <2>1 DEF ReadsAs
<1>4. heap[p].to[2] \in 0 .. Len(heap)
  <2>1. 2 \in 1 .. Len(heap[p].to)
    OBVIOUS
  <2> QED BY <1>2, <2>1, NodesWithin DEF Within
<1> QED BY <1>1, <1>3, <1>4, EndsOpenIs
-----------------------------------------------------------------------------
(* What build_ir gets                                                      *)

(* What has been met that may put NULL in the place of a node.             *)
Met == (IF reported THEN {"error"} ELSE {}) \cup (IF emptied THEN {"empty"} ELSE {})

Of(h, x, types) == x \in 1 .. Len(h) /\ h[x].type \in types
Name == {"string"}
FunDeclarator == {"DECLTOR_FUN"}
VarDeclarator == {"DECLTOR_SIMPLE", "DECLTOR_ARRAY"}

(* A declaration with one declarator, which an error may have cost.        *)
Declares(h, role, lost, d, types) ==
  /\ d \in 1 .. Len(h) /\ h[d].type = "decl"
  /\ \E c \in 1 .. Len(h) :
       /\ c = h[d].to[1] /\ h[c].type = "decltor_list" /\ role[c] = "single"
       /\ (h[c].to[1] = NULL /\ "error" \in lost) \/ Of(h, h[c].to[1], types)

(* Each cell has a role, its list's: the parameters of a function, the     *)
(* declarator of a declaration that has one alone, or another.  This is    *)
(* what a node of that type has, and a cell of the role r.                 *)
Fits(h, met, role, type, to, r) ==
  /\ type = "NODE_FUN" => to[1] # NULL \/ "error" \in met
  /\ type = "fun_def" => Declares(h, role, met, to[1], FunDeclarator)
  /\ type = "DECLTOR_FUN" =>
       Of(h, to[1], Name) /\ (to[2] = NULL \/ (Of(h, to[2], ListType) /\ role[to[2]] = "param"))
  /\ type \in VarDeclarator => Of(h, to[1], Name)
  /\ type \in ListType /\ to[2] # NULL =>
       Of(h, to[2], ListType) /\ role[to[2]] = r /\ r # "single"
  /\ type \in ListType /\ r = "param" => Declares(h, role, {}, to[1], VarDeclarator)
  /\ type = "stmt_list" => (to[1] = NULL /\ met # {}) \/ Of(h, to[1], Statements)
  /\ type = "STM_EXP" => (to[1] = NULL /\ "error" \in met) \/ Of(h, to[1], Expressions)

Shape(h, met, role) ==
  \A p \in 1 .. Len(h) : Fits(h, met, role, h[p].type, h[p].to, role[p])

(* Nodes keep their types, roles and first pointers.                       *)
Extends(h, role, h2, role2) ==
  /\ Len(h) \in Nat /\ Len(h2) \in Nat /\ Len(h) <= Len(h2)
  /\ \A p \in 1 .. Len(h) :
       h2[p].type = h[p].type /\ h2[p].to[1] = h[p].to[1] /\ role2[p] = role[p]

LEMMA OfStays ==
  ASSUME NEW h, NEW role, NEW h2, NEW role2, Extends(h, role, h2, role2),
         NEW x, NEW types, Of(h, x, types)
  PROVE  Of(h2, x, types) /\ role2[x] = role[x]
<1>1. x \in 1 .. Len(h2)
  BY DEF Extends, Of
<1> QED BY <1>1 DEF Extends, Of

LEMMA DeclaresStays ==
  ASSUME NEW h, NEW role, NEW h2, NEW role2, Extends(h, role, h2, role2),
         NEW lost, NEW lost2, lost \subseteq lost2, NEW d, NEW types,
         Declares(h, role, lost, d, types)
  PROVE  Declares(h2, role2, lost2, d, types)
<1>1. d \in 1 .. Len(h) /\ h[d].type = "decl"
  BY DEF Declares
<1>2. PICK c \in 1 .. Len(h) :
        /\ c = h[d].to[1] /\ h[c].type = "decltor_list" /\ role[c] = "single"
        /\ (h[c].to[1] = NULL /\ "error" \in lost) \/ Of(h, h[c].to[1], types)
  BY DEF Declares
<1>3. /\ d \in 1 .. Len(h2) /\ h2[d].type = "decl" /\ c \in 1 .. Len(h2)
      /\ c = h2[d].to[1] /\ h2[c].type = "decltor_list" /\ role2[c] = "single"
      /\ h2[c].to[1] = h[c].to[1]
  BY <1>1, <1>2 DEF Extends
<1>4. (h2[c].to[1] = NULL /\ "error" \in lost2) \/ Of(h2, h2[c].to[1], types)
  BY <1>2, <1>3, OfStays
<1> QED BY <1>3, <1>4 DEF Declares

LEMMA FitsStays ==
  ASSUME NEW h, NEW role, NEW h2, NEW role2, Extends(h, role, h2, role2),
         NEW met, NEW met2, met \subseteq met2, NEW type, NEW to, NEW r,
         Fits(h, met, role, type, to, r)
  PROVE  Fits(h2, met2, role2, type, to, r)
<1>1. \A x, types : Of(h, x, types) => Of(h2, x, types) /\ role2[x] = role[x]
  BY OfStays
<1>2. \A d, types : /\ Declares(h, role, met, d, types) => Declares(h2, role2, met2, d, types)
                    /\ Declares(h, role, {}, d, types) => Declares(h2, role2, {}, d, types)
  BY DeclaresStays
<1>3. type = "NODE_FUN" => to[1] # NULL \/ "error" \in met2
  BY DEF Fits
<1>4. type = "fun_def" => Declares(h2, role2, met2, to[1], FunDeclarator)
  BY <1>2 DEF Fits
<1>5. type = "DECLTOR_FUN" =>
        Of(h2, to[1], Name) /\ (to[2] = NULL \/ (Of(h2, to[2], ListType) /\ role2[to[2]] = "param"))
  BY <1>1 DEF Fits
<1>6. type \in VarDeclarator => Of(h2, to[1], Name)
  BY <1>1 DEF Fits
<1>7. type \in ListType /\ to[2] # NULL =>
        Of(h2, to[2], ListType) /\ role2[to[2]] = r /\ r # "single"
  BY <1>1 DEF Fits
<1>8. type \in ListType /\ r = "param" => Declares(h2, role2, {}, to[1], VarDeclarator)
  BY <1>2 DEF Fits
<1>9. type = "stmt_list" => (to[1] = NULL /\ met2 # {}) \/ Of(h2, to[1], Statements)
  BY <1>1 DEF Fits
<1>10. type = "STM_EXP" => (to[1] = NULL /\ "error" \in met2) \/ Of(h2, to[1], Expressions)
  BY <1>1 DEF Fits
<1> QED BY <1>3, <1>4, <1>5, <1>6, <1>7, <1>8, <1>9, <1>10 DEF Fits

LEMMA ExtendsTwice ==
  ASSUME NEW h, NEW role, NEW h1, NEW role1, NEW h2, NEW role2,
         Extends(h, role, h1, role1), Extends(h1, role1, h2, role2)
  PROVE  Extends(h, role, h2, role2)
<1>1. Len(h) \in Nat /\ Len(h1) \in Nat /\ Len(h2) \in Nat /\ Len(h) <= Len(h2)
      /\ \A p \in 1 .. Len(h) : p \in 1 .. Len(h1)
  BY DEF Extends
<1> QED BY <1>1 DEF Extends

(* An action's heap and value.                                             *)
Builds(h, role, met, d, role2) ==
  /\ Listed(d.heap) /\ Extends(h, role, d.heap, role2) /\ Shape(d.heap, met, role2)
  /\ d.val \in 1 .. Len(d.heap)

LEMMA MadeFits ==
  ASSUME NEW h, Listed(h), NEW met, NEW role, Shape(h, met, role), NEW type, NEW to, NEW r,
         Fits(h, met, role, type, to, r), NEW d, d = Made(h, type, to)
  PROVE  \E role2 : /\ Builds(h, role, met, d, role2) /\ role2[d.val] = r
                    /\ d.heap[d.val].type = type /\ d.heap[d.val].to = to
<1>1. PICK n, h2, T : n = Len(h) + 1 /\ h2 = d.heap /\ T = {type}
  OBVIOUS
<1>2. /\ Listed(h2) /\ Len(h) \in Nat /\ n \in Nat /\ Len(h2) = n /\ d.val = n
      /\ h2[n].type = type /\ h2[n].to = to
      /\ \A p \in 1 .. Len(h) : h2[p] = h[p]
  <2>1. type \in T
    BY <1>1
  <2> QED BY <1>1, <2>1, MadeIs
<1>3. PICK role2 : role2 = [p \in 1 .. n |-> IF p = n THEN r ELSE role[p]]
  OBVIOUS
<1>4. role2[n] = r /\ \A p \in 1 .. Len(h) : role2[p] = role[p]
  BY <1>1, <1>2, <1>3
<1>5. Extends(h, role, h2, role2)
  BY <1>1, <1>2, <1>4 DEF Extends
<1>6. Shape(h2, met, role2)
  <2>0. \A type2, to2, r2 :
          Fits(h, met, role, type2, to2, r2) => Fits(h2, met, role2, type2, to2, r2)
    BY <1>5, FitsStays, Zenon
  <2>1. Fits(h2, met, role2, h2[n].type, h2[n].to, role2[n])
    BY <1>2, <1>4, <2>0
  <2>2. ASSUME NEW p \in 1 .. Len(h)
        PROVE  Fits(h2, met, role2, h2[p].type, h2[p].to, role2[p])
    <3>1. Fits(h, met, role, h[p].type, h[p].to, role[p])
      BY DEF Shape
    <3> QED BY <1>2, <1>4, <2>0, <3>1
  <2>3. \A p \in 1 .. Len(h2) : p \in 1 .. Len(h) \/ p = n
    BY <1>1, <1>2
  <2> QED BY <2>1, <2>2, <2>3 DEF Shape
<1> QED BY <1>1, <1>2, <1>4, <1>5, <1>6 DEF Builds

(* A declaration of one declarator, or of none in its place.               *)
LEMMA SingularFits ==
  ASSUME NEW h, Listed(h), NEW met, NEW role, Shape(h, met, role), NEW x, NEW lost, NEW types,
         (x = NULL /\ "error" \in lost) \/ Of(h, x, types), NEW d, d = make_singular_decl(h, x)
  PROVE  \E role2 : Builds(h, role, met, d, role2) /\ Declares(d.heap, role2, lost, d.val, types)
<1>1. PICK to1, list, to2, h1, c, h2, n :
        /\ to1 = <<x, NULL>> /\ list = Made(h, "decltor_list", to1)
        /\ to2 = <<c>> /\ h1 = list.heap /\ c = list.val /\ h2 = d.heap /\ n = d.val
  OBVIOUS
<1>2. d = Made(h1, "decl", to2)
  BY <1>1 DEF make_singular_decl, make_decl
<1>3. Fits(h, met, role, "decltor_list", to1, "single")
  BY <1>1 DEF Fits, VarDeclarator, NULL
<1>4. PICK role1 : /\ Builds(h, role, met, list, role1) /\ role1[c] = "single"
                   /\ h1[c].type = "decltor_list" /\ h1[c].to = to1
  BY <1>1, <1>3, MadeFits
<1>5. Fits(h1, met, role1, "decl", to2, "other")
  BY DEF Fits, VarDeclarator, ListType
<1>6. Listed(h1) /\ Extends(h, role, h1, role1) /\ Shape(h1, met, role1) /\ c \in 1 .. Len(h1)
  BY <1>1, <1>4 DEF Builds
<1>7. PICK role2 : /\ Builds(h1, role1, met, d, role2) /\ h2[n].type = "decl" /\ h2[n].to = to2
  BY <1>1, <1>2, <1>5, <1>6, MadeFits
<1>8. Extends(h1, role1, h2, role2) /\ n \in 1 .. Len(h2)
  BY <1>1, <1>7 DEF Builds
<1>9. Extends(h, role, h2, role2)
  BY <1>6, <1>8, ExtendsTwice
<1>10. /\ c \in 1 .. Len(h2) /\ h2[c].type = "decltor_list" /\ role2[c] = "single"
       /\ h2[c].to[1] = x
  <2>1. /\ c \in 1 .. Len(h2) /\ h2[c].type = h1[c].type /\ h2[c].to[1] = h1[c].to[1]
        /\ role2[c] = role1[c]
    BY <1>6, <1>8 DEF Extends
  <2>2. to1[1] = x
    BY <1>1
  <2> QED BY <1>4, <2>1, <2>2
<1>11. Of(h, x, types) => Of(h2, x, types)
  BY <1>9, OfStays
<1>12. Declares(h2, role2, lost, n, types)
  BY <1>1, <1>7, <1>8, <1>10, <1>11 DEF Declares
<1>13. Builds(h, role, met, d, role2)
  BY <1>1, <1>7, <1>9 DEF Builds
<1> QED BY <1>1, <1>12, <1>13

LEMMA ArrayFits ==
  ASSUME NEW h, Listed(h), NEW met, NEW role, Shape(h, met, role), NEW x,
         Of(h, x, Name), NEW d, d = make_decltor_array(h, x)
  PROVE  \E role2 : Builds(h, role, met, d, role2) /\ Of(d.heap, d.val, VarDeclarator)
<1>1. PICK to1, size, to2, h1, h2, n :
        /\ to1 = << >> /\ size = Made(h, "EXP_INT", to1)
        /\ to2 = <<x, size.val>> /\ h1 = size.heap /\ h2 = d.heap /\ n = d.val
  OBVIOUS
<1>2. d = Made(h1, "DECLTOR_ARRAY", to2)
  BY <1>1 DEF make_decltor_array
<1>3. Fits(h, met, role, "EXP_INT", to1, "other")
  BY DEF Fits, VarDeclarator, ListType
<1>4. PICK role1 : Builds(h, role, met, size, role1)
  BY <1>1, <1>3, MadeFits
<1>5. Listed(h1) /\ Extends(h, role, h1, role1) /\ Shape(h1, met, role1)
  BY <1>1, <1>4 DEF Builds
<1>6. Of(h1, x, Name)
  BY <1>5, OfStays
<1>7. Fits(h1, met, role1, "DECLTOR_ARRAY", to2, "other")
  BY <1>1, <1>6 DEF Fits, VarDeclarator, ListType
<1>8. PICK role2 : Builds(h1, role1, met, d, role2) /\ h2[n].type = "DECLTOR_ARRAY"
  BY <1>1, <1>2, <1>5, <1>7, MadeFits
<1>9. Extends(h1, role1, h2, role2) /\ n \in 1 .. Len(h2)
  BY <1>1, <1>8 DEF Builds
<1>10. Extends(h, role, h2, role2)
  BY <1>5, <1>9, ExtendsTwice
<1>11. Of(h2, n, VarDeclarator)
  BY <1>8, <1>9 DEF Of, VarDeclarator
<1>12. Builds(h, role, met, d, role2)
  BY <1>1, <1>8, <1>10 DEF Builds
<1> QED BY <1>1, <1>11, <1>12

(* A new cell with the role of its list, or a first with the role r.       *)
Appendable(h, met, role, type, list, elem, r) ==
  /\ Nodes(h) /\ Shape(h, met, role) /\ type \in ListType /\ r # "single"
  /\ list # NULL => /\ Of(h, list, ListType) /\ role[list] = r
                    /\ LastCell(h, list) \in Cells(h) /\ role[LastCell(h, list)] = r
  /\ type = "NODE_FUN" => elem # NULL \/ "error" \in met
  /\ r = "param" => Declares(h, role, {}, elem, VarDeclarator)
  /\ type = "stmt_list" => (elem = NULL /\ met # {}) \/ Of(h, elem, Statements)

LEMMA AppendFits ==
  ASSUME NEW h, NEW met, NEW role, NEW type, NEW list, NEW elem, NEW r,
         Appendable(h, met, role, type, list, elem, r),
         NEW d, d = append(h, type, list, elem), NEW last, last = Len(h) + 1
  PROVE  \E role2 : /\ Builds(h, role, met, d, role2)
                    /\ Of(d.heap, d.val, ListType) /\ role2[d.val] = r
                    /\ Of(d.heap, last, ListType) /\ role2[last] = r
<1>0. /\ Nodes(h) /\ Shape(h, met, role) /\ type \in ListType /\ r # "single"
      /\ list # NULL => /\ list \in 1 .. Len(h) /\ Of(h, list, ListType) /\ role[list] = r
                        /\ LastCell(h, list) \in Cells(h) /\ role[LastCell(h, list)] = r
      /\ type = "NODE_FUN" => elem # NULL \/ "error" \in met
      /\ r = "param" => Declares(h, role, {}, elem, VarDeclarator)
      /\ type = "stmt_list" => (elem = NULL /\ met # {}) \/ Of(h, elem, Statements)
  BY DEF Appendable, Of
<1>1. PICK to, cell, h1, n :
        /\ to = <<elem, NULL>> /\ cell = Made(h, type, to) /\ h1 = cell.heap /\ n = cell.val
  OBVIOUS
<1>2. Listed(h)
  BY <1>0 DEF Nodes, Listed
<1>3. Fits(h, met, role, type, to, r)
  BY <1>0, <1>1 DEF Fits, VarDeclarator, ListType, NULL
<1>4. PICK role1 : /\ Builds(h, role, met, cell, role1) /\ role1[n] = r
                   /\ h1[n].type = type /\ h1[n].to = to
  BY <1>0, <1>1, <1>2, <1>3, MadeFits
<1>7. n = last
  BY <1>1 DEF Made
<1>8. Of(h1, n, ListType)
  BY <1>0, <1>1, <1>4 DEF Of, Builds
<1>5. CASE list = NULL
  <2>1. d = cell
    BY <1>1, <1>5 DEF append
  <2> QED BY <1>1, <1>4, <1>7, <1>8, <2>1
<1>6. CASE list # NULL
  <2>1. PICK e, h2 : e = LastCell(h, list) /\ h2 = d.heap
    OBVIOUS
  <2>2. /\ d = [cell EXCEPT !.heap[e].to[2] = cell.val, !.val = list]
        /\ cell = [heap |-> h1, val |-> n]
    BY <1>1, <1>6, <2>1 DEF append, Made
  <2>3. h2 = [h1 EXCEPT ![e].to[2] = n] /\ d.val = list
    BY <2>1, <2>2
  <2>4. /\ Listed(h1) /\ Extends(h, role, h1, role1) /\ Shape(h1, met, role1)
        /\ n \in 1 .. Len(h1)
    BY <1>1, <1>4 DEF Builds
  <2>5. /\ e \in 1 .. Len(h) /\ e \in 1 .. Len(h1) /\ Len(h1) \in Nat /\ role1[e] = r
        /\ h1[e].type = h[e].type /\ h[e].type \in ListType
    <3>1. e \in 1 .. Len(h) /\ h[e].type \in ListType
      <4>1. DOMAIN h = 1 .. Len(h)
        BY <1>2 DEF Listed
      <4> QED BY <1>0, <1>6, <2>1, <4>1 DEF Cells
    <3> QED BY <1>0, <1>6, <2>1, <2>4, <3>1 DEF Extends
  <2>6. PICK changed : changed = [h1[e] EXCEPT !.to[2] = n]
    OBVIOUS
  <2>7. /\ Len(h2) = Len(h1) /\ h2[e] = changed /\ Listed(h2)
        /\ \A p \in 1 .. Len(h1) : p # e => h2[p] = h1[p]
    <3>1. PICK S : h1 \in Seq(S)
      BY <2>4 DEF Listed
    <3>2. PICK U : U = S \cup {changed}
      OBVIOUS
    <3>3. h1 \in Seq(U) /\ changed \in U
      BY <3>1, <3>2
    <3>4. h2 = [h1 EXCEPT ![e] = changed]
      BY <2>3, <2>6
    <3>5. h2 \in Seq(U) /\ Len(h2) = Len(h1) /\ h2[e] = changed
          /\ \A p \in 1 .. Len(h1) : p # e => h2[p] = h1[p]
      BY <2>5, <3>3, <3>4
    <3> QED BY <3>5 DEF Listed
  <2>8. h1[e] = h[e] /\ h[e] \in AnyNode /\ Len(h[e].to) = 2
    <3>1. h1[e] = h[e]
      <4>1. PICK T : type \in T
        OBVIOUS
      <4> QED BY <1>1, <1>2, <2>5, <4>1, MadeIs
    <3>2. h \in Seq(AnyNode) /\ e \in Cells(h)
      BY <1>0, <1>6, <2>1 DEF Nodes
    <3> QED BY <1>0, <2>5, <3>1, <3>2 DEF Nodes
  <2>9. changed.type = h1[e].type /\ changed.to[1] = h1[e].to[1] /\ changed.to[2] = n
    <3>1. h1[e].to \in Seq(Nat) /\ h1[e] = [type |-> h1[e].type, to |-> h1[e].to]
      BY <2>8 DEF AnyNode
    <3>2. changed.type = h1[e].type /\ changed.to = [h1[e].to EXCEPT ![2] = n]
      BY <2>6, <3>1
    <3> QED BY <2>8, <3>1, <3>2
  <2>10. Extends(h1, role1, h2, role1)
    BY <2>4, <2>5, <2>7, <2>9 DEF Extends
  <2>11. Shape(h2, met, role1)
    <3>0. \A type2, to2, r2 :
            Fits(h1, met, role1, type2, to2, r2) => Fits(h2, met, role1, type2, to2, r2)
      BY <2>10, FitsStays, Zenon
    <3>1. ASSUME NEW p \in 1 .. Len(h2), p # e
          PROVE  Fits(h2, met, role1, h2[p].type, h2[p].to, role1[p])
      BY <2>4, <2>7, <3>0, <3>1 DEF Shape
    <3>2. Fits(h2, met, role1, h2[e].type, h2[e].to, role1[e])
      <4>1. Fits(h2, met, role1, h1[e].type, h1[e].to, role1[e])
        BY <2>4, <2>5, <3>0 DEF Shape
      <4>2. h2[e].type = h1[e].type /\ h2[e].to[1] = h1[e].to[1] /\ h2[e].to[2] = n
        BY <2>7, <2>9
      <4>3. Of(h2, n, ListType) /\ role1[n] = r /\ role1[e] = r
        <5>1. Of(h1, n, ListType)
          BY <1>0, <1>4, <2>4 DEF Of
        <5> QED BY <1>4, <2>5, <2>10, <5>1, OfStays
      <4>4. h2[e].type \in ListType
        BY <2>5, <4>2
      <4>5. PICK type2, to1, to2 : type2 = h1[e].type /\ to1 = h1[e].to /\ to2 = h2[e].to
        OBVIOUS
      <4>6. Fits(h2, met, role1, type2, to2, r)
        <5>1. /\ Fits(h2, met, role1, type2, to1, r) /\ to2[1] = to1[1] /\ to2[2] = n
              /\ type2 \in ListType /\ r # "single"
          BY <1>0, <4>1, <4>2, <4>3, <4>4, <4>5
        <5> QED BY <4>3, <5>1 DEF Fits, ListType, VarDeclarator
      <4> QED BY <4>2, <4>3, <4>5, <4>6
    <3> QED BY <3>1, <3>2 DEF Shape
  <2>12. Extends(h, role, h2, role1)
    BY <2>4, <2>10, ExtendsTwice
  <2>13. list \in 1 .. Len(h2) /\ role1[list] = r
    BY <1>0, <1>6, <2>4, <2>12 DEF Extends
  <2>14. Builds(h, role, met, d, role1)
    BY <2>1, <2>3, <2>7, <2>11, <2>12, <2>13 DEF Builds
  <2>15. Of(h2, list, ListType) /\ Of(h2, n, ListType) /\ role1[n] = r
    BY <1>0, <1>4, <1>6, <1>8, <2>10, <2>12, OfStays
  <2> QED BY <1>7, <2>1, <2>3, <2>13, <2>14, <2>15
<1> QED BY <1>5, <1>6

(* What a value is by its symbol, and how lists are told apart.            *)
RoleOf(X) == IF X = "param_types" THEN "param" ELSE "other"
Shaped(X, v, h, met, role) ==
  /\ X \in ListSymbol /\ v # NULL => Of(h, v, ListType) /\ role[v] = RoleOf(X)
  /\ X = "ID" => Of(h, v, Name)
  /\ X = "function" => v # NULL \/ "error" \in met
  /\ X = "fun_sig" => Declares(h, role, met, v, FunDeclarator)
  /\ X = "function_declarator" => (v = NULL /\ "error" \in met) \/ Of(h, v, FunDeclarator)
  /\ X = "param_type" => Declares(h, role, {}, v, VarDeclarator)
  /\ X = "stmt" => (v = NULL /\ met # {}) \/ Of(h, v, Statements)
  /\ X = "assg" => Of(h, v, {"STM_ASSIGN"})
  /\ X = "expr" => (v = NULL /\ "error" \in met) \/ Of(h, v, Expressions)

LEMMA ShapedStays ==
  ASSUME NEW h, NEW role, NEW h2, NEW role2, Extends(h, role, h2, role2),
         NEW met, NEW met2, met \subseteq met2, NEW X, NEW v, Shaped(X, v, h, met, role)
  PROVE  Shaped(X, v, h2, met2, role2)
<1>1. \A x, types : Of(h, x, types) => Of(h2, x, types) /\ role2[x] = role[x]
  BY OfStays
<1>2. \A d, types : /\ Declares(h, role, met, d, types) => Declares(h2, role2, met2, d, types)
                    /\ Declares(h, role, {}, d, types) => Declares(h2, role2, {}, d, types)
  BY DeclaresStays
<1>3. X \in ListSymbol /\ v # NULL => Of(h2, v, ListType) /\ role2[v] = RoleOf(X)
  BY <1>1 DEF Shaped
<1>4. X = "ID" => Of(h2, v, Name)
  BY <1>1 DEF Shaped
<1>5. X = "function" => v # NULL \/ "error" \in met2
  BY DEF Shaped
<1>6. X = "fun_sig" => Declares(h2, role2, met2, v, FunDeclarator)
  BY <1>2 DEF Shaped
<1>7. X = "function_declarator" => (v = NULL /\ "error" \in met2) \/ Of(h2, v, FunDeclarator)
  BY <1>1 DEF Shaped
<1>8. X = "param_type" => Declares(h2, role2, {}, v, VarDeclarator)
  BY <1>2 DEF Shaped
<1>9. /\ X = "stmt" => (v = NULL /\ met2 # {}) \/ Of(h2, v, Statements)
      /\ X = "assg" => Of(h2, v, {"STM_ASSIGN"})
      /\ X = "expr" => (v = NULL /\ "error" \in met2) \/ Of(h2, v, Expressions)
  BY <1>1 DEF Shaped
<1> QED BY <1>3, <1>4, <1>5, <1>6, <1>7, <1>8, <1>9 DEF Shaped

(* The value of a left side, by what the action has made.                  *)
Results(rule, v, h, met, role) ==
  LET action == rule.action
  IN  /\ action \in Appending \cup ListType \cup {"append_expr"} =>
           Of(h, v, ListType) /\ role[v] = RoleOf(rule.lhs)
      /\ action # "value" => v # NULL
      /\ action = "make_singular_decl" => Declares(h, role, met, v, FunDeclarator)
      /\ action = "DECLTOR_FUN" => Of(h, v, FunDeclarator)
      /\ action \in {"singular_id", "singular_array"} => Declares(h, role, {}, v, VarDeclarator)
      /\ action \in Statements \cup Expressions => Of(h, v, {action})
      /\ Nothing(rule) => v = NULL
      /\ Failed(rule) => "error" \in met
      /\ Empties(rule) => met # {}
      /\ \A X : PassesOn(rule, X) => Shaped(X, v, h, met, role)

LEMMA LeftSide ==
  ASSUME NEW rule \in Range(Rules), NEW v, NEW h, NEW met, NEW role,
         Results(rule, v, h, met, role)
  PROVE  Shaped(rule.lhs, v, h, met, role)
<1>1. PICK X, action : X = rule.lhs /\ action = rule.action
  OBVIOUS
<1>2. /\ X = "function" => action = "fun_def" \/ Failed(rule)
      /\ X = "fun_sig" => action = "make_singular_decl"
      /\ X = "function_declarator" => action = "DECLTOR_FUN" \/ Failed(rule)
      /\ X = "param_type" => action \in {"singular_id", "singular_array"}
      /\ X = "stmt" => \/ Empties(rule) \/ Failed(rule) \/ PassesOn(rule, "assg")
                       \/ action \in Statements
      /\ Empties(rule) => Nothing(rule)
      /\ X = "assg" => action = "STM_ASSIGN"
      /\ X = "expr" => action \in Expressions \/ Failed(rule) \/ PassesOn(rule, "expr")
      /\ action = "value" /\ X \in ListSymbol =>
           Nothing(rule) \/ (PassesOn(rule, "nonempty_expr_list") /\ X = "expr_list")
  BY <1>1, ShapeAssumption DEF ShapesFit
<1>3. /\ X # "ID"
      /\ X \in ListSymbol => action \in Appending \cup ListType \cup {"append_expr", "value"}
  BY <1>1, ActionsAssumption DEF WellTyped, ArgumentSymbol, ListType
<1>4. /\ action \in Appending \cup ListType \cup {"append_expr"} =>
           Of(h, v, ListType) /\ role[v] = RoleOf(X)
      /\ action # "value" => v # NULL
      /\ action = "make_singular_decl" => Declares(h, role, met, v, FunDeclarator)
      /\ action = "DECLTOR_FUN" => Of(h, v, FunDeclarator)
      /\ action \in {"singular_id", "singular_array"} => Declares(h, role, {}, v, VarDeclarator)
      /\ action \in Statements \cup Expressions => Of(h, v, {action})
      /\ Nothing(rule) => v = NULL
      /\ Failed(rule) => "error" \in met
      /\ Empties(rule) => met # {}
      /\ \A Y : PassesOn(rule, Y) => Shaped(Y, v, h, met, role)
  BY <1>1 DEF Results
<1>5. Failed(rule) => Nothing(rule)
  BY DEF Failed
<1>6. X \in ListSymbol /\ v # NULL => Of(h, v, ListType) /\ role[v] = RoleOf(X)
  <2> SUFFICES ASSUME X \in ListSymbol, v # NULL
               PROVE  Of(h, v, ListType) /\ role[v] = RoleOf(X)
    OBVIOUS
  <2>1. CASE action = "value"
    <3>1. X = "expr_list" /\ Shaped("nonempty_expr_list", v, h, met, role)
      BY <1>2, <1>4, <2>1
    <3>2. "nonempty_expr_list" \in ListSymbol /\ RoleOf("nonempty_expr_list") = RoleOf("expr_list")
      BY DEF ListSymbol, RoleOf
    <3> QED BY <3>1, <3>2 DEF Shaped
  <2>2. CASE action # "value"
    BY <1>3, <1>4, <2>2
  <2> QED BY <2>1, <2>2
<1>7. /\ X = "function" => v # NULL \/ "error" \in met
      /\ X = "fun_sig" => Declares(h, role, met, v, FunDeclarator)
      /\ X = "function_declarator" => (v = NULL /\ "error" \in met) \/ Of(h, v, FunDeclarator)
      /\ X = "param_type" => Declares(h, role, {}, v, VarDeclarator)
  BY <1>2, <1>4, <1>5
<1>8. \A types : action \in types /\ action \in Statements \cup Expressions => Of(h, v, types)
  BY <1>4 DEF Of
<1>9. X = "stmt" => (v = NULL /\ met # {}) \/ Of(h, v, Statements)
  <2>1. PassesOn(rule, "assg") => Of(h, v, Statements)
    <3>1. PassesOn(rule, "assg") => Of(h, v, {"STM_ASSIGN"})
      BY <1>4 DEF Shaped
    <3> QED BY <3>1 DEF Of, Statements
  <2>2. Failed(rule) => met # {}
    BY <1>4
  <2> QED BY <1>2, <1>4, <1>5, <1>8, <2>1, <2>2
<1>10. X = "assg" => Of(h, v, {"STM_ASSIGN"})
  BY <1>2, <1>8 DEF Statements
<1>11. X = "expr" => (v = NULL /\ "error" \in met) \/ Of(h, v, Expressions)
  <2>1. PassesOn(rule, "expr") => (v = NULL /\ "error" \in met) \/ Of(h, v, Expressions)
    BY <1>4 DEF Shaped
  <2> QED BY <1>2, <1>4, <1>5, <1>8, <2>1
<1>12. Shaped(X, v, h, met, role)
  BY <1>3, <1>6, <1>7, <1>9, <1>10, <1>11 DEF Shaped
<1> QED BY <1>1, <1>12

(* The right side of the rule that is reduced, and what is taken of it.    *)
Right(rule, b, role) ==
  \A n \in 1 .. Len(rule.rhs) :
    Shaped(rule.rhs[n], stack[b + n].val, heap, Met', role)

LEMMA Took ==
  ASSUME IInv, NEW rule, NEW b, NEW a, NEW done, Reduced(rule, b, a, done),
         NEW role, Right(rule, b, role), NEW k \in 1 .. Len(a), NEW X, Takes(rule, k, X)
  PROVE  Shaped(X, a[k], heap, Met', role)
<1>1. PICK n : n = rule.args[k]
  OBVIOUS
<1>2. n # 0 /\ rule.rhs[n] = X
  BY <1>1 DEF Takes
<1>3. n \in 1 .. Len(rule.rhs) /\ a[k] = stack[b + n].val
  <2>1. Len(rule.rhs) \in Nat
    BY DEF Reduced
  <2>2. n \in 0 .. Len(rule.rhs) /\ a[k] = stack[b + n].val
    BY <1>1, <1>2, ArgumentsAre
  <2> QED BY <1>2, <2>1, <2>2
<1>4. Shaped(rule.rhs[n], stack[b + n].val, heap, Met', role)
  BY <1>3 DEF Right
<1> QED BY <1>2, <1>3, <1>4

LEMMA FailedIs ==
  ASSUME IInv, NEW rule, NEW b, NEW a, NEW done, Reduced(rule, b, a, done), Failed(rule)
  PROVE  "error" \in Met'
<1>1. PICK rhs, m : rhs = rule.rhs /\ m = Len(rhs)
  OBVIOUS
<1>2. rhs \in Seq(Symbol) /\ "error" \in Range(rhs)
  BY <1>1, AutomatonAssumption DEF Reduced, Retraceable, Failed
<1>3. PICK n \in 1 .. m : rhs[n] = "error"
  BY <1>1, <1>2 DEF Range
<1>4. ValueOK(rhs[n], stack[b + n].val, heap, reported)
  BY <1>1 DEF Reduced, Popping
<1>5. reported'
  BY <1>3, <1>4 DEF ValueOK, Reduced
<1> QED BY <1>5 DEF Met

(* What an action yields keeps the shape, and fits the left side.          *)
Keeping(rule, done, role) ==
  \E role2 : /\ Extends(heap, role, done.heap, role2) /\ Shape(done.heap, Met', role2)
             /\ Shaped(rule.lhs, done.val, done.heap, Met', role2)

LEMMA ValueKeeps ==
  ASSUME IInv, NEW rule, NEW b, NEW a, NEW done, Reduced(rule, b, a, done),
         NEW role, Shape(heap, Met', role), Right(rule, b, role), rule.action = "value"
  PROVE  Keeping(rule, done, role)
<1>1. PICK h2, v : h2 = done.heap /\ v = done.val
  OBVIOUS
<1>2. done = Do("value", heap, a)
  BY DEF Reduced
<1>3. h2 = heap /\ v = a[1]
  BY <1>1, <1>2 DEF Do
<1>4. Extends(heap, role, h2, role)
  BY <1>3, HoldsIs DEF Extends
<1>5. Nothing(rule) => v = NULL
  <2> SUFFICES ASSUME Nothing(rule)
               PROVE  v = NULL
    OBVIOUS
  <2>1. rule.args[1] = 0 /\ Len(rule.args) = 1
    BY DEF Nothing
  <2>2. 1 \in 1 .. Len(a)
    BY <2>1, ArgumentsAre
  <2> QED BY <1>3, <2>1, <2>2, ArgumentsAre
<1>6. Empties(rule) => Met' # {}
  <2> SUFFICES ASSUME Empties(rule)
               PROVE  Met' # {}
    OBVIOUS
  <2>1. emptied'
    BY DEF Reduced
  <2> QED BY <2>1 DEF Met
<1>7. ASSUME NEW X, PassesOn(rule, X)
      PROVE  Shaped(X, v, h2, Met', role)
  <2>1. rule \in Range(Rules) /\ rule.action \in Unary /\ Takes(rule, 1, X)
    BY <1>7 DEF Reduced, Unary, PassesOn
  <2>2. Len(rule.args) = 1
    BY <2>1, ActionsAssumption DEF WellTyped
  <2>3. Len(a) = Len(rule.args)
    BY ArgumentsAre
  <2>4. 1 \in 1 .. Len(a)
    BY <2>2, <2>3
  <2> QED BY <1>3, <2>1, <2>4, Took
<1>8. Results(rule, v, h2, Met', role)
  <2>1. /\ "value" \notin Appending \cup ListType \cup {"append_expr"}
        /\ "value" \notin Statements \cup Expressions
    BY DEF Appending, ListType, Statements, Expressions
  <2>2. Failed(rule) => "error" \in Met'
    BY FailedIs
  <2> QED BY <1>5, <1>6, <1>7, <2>1, <2>2 DEF Results
<1>9. Shaped(rule.lhs, v, h2, Met', role)
  BY <1>8, LeftSide DEF Reduced
<1> QED BY <1>1, <1>3, <1>4, <1>9 DEF Keeping

(* For an action that makes a node it is enough to say what this is.       *)
Making(rule, d, role) ==
  \E role2 :
    /\ Builds(heap, role, Met', d, role2)
    /\ LET action == rule.action
           h2 == d.heap
       IN  /\ action \in Appending \cup ListType \cup {"append_expr"} =>
                Of(h2, d.val, ListType) /\ role2[d.val] = RoleOf(rule.lhs)
           /\ action = "make_singular_decl" => Declares(h2, role2, Met', d.val, FunDeclarator)
           /\ action = "DECLTOR_FUN" => Of(h2, d.val, FunDeclarator)
           /\ action \in {"singular_id", "singular_array"} =>
                Declares(h2, role2, {}, d.val, VarDeclarator)
           /\ action \in Statements \cup Expressions => Of(h2, d.val, {action})

LEMMA MakingKeeps ==
  ASSUME NEW rule \in Range(Rules), rule.action # "value", NEW d, NEW role, Making(rule, d, role)
  PROVE  Keeping(rule, d, role)
<1>1. PICK h2, v, action : h2 = d.heap /\ v = d.val /\ action = rule.action
  OBVIOUS
<1>2. PICK role2 :
        /\ Builds(heap, role, Met', d, role2)
        /\ action \in Appending \cup ListType \cup {"append_expr"} =>
             Of(h2, v, ListType) /\ role2[v] = RoleOf(rule.lhs)
        /\ action = "make_singular_decl" => Declares(h2, role2, Met', v, FunDeclarator)
        /\ action = "DECLTOR_FUN" => Of(h2, v, FunDeclarator)
        /\ action \in {"singular_id", "singular_array"} => Declares(h2, role2, {}, v, VarDeclarator)
        /\ action \in Statements \cup Expressions => Of(h2, v, {action})
  BY <1>1 DEF Making
<1>3. Extends(heap, role, h2, role2) /\ Shape(h2, Met', role2) /\ v # NULL
  BY <1>1, <1>2 DEF Builds, NULL
<1>4. ~Nothing(rule) /\ ~Failed(rule) /\ ~Empties(rule) /\ \A X : ~PassesOn(rule, X)
  <2>1. Empties(rule) => Nothing(rule)
    BY ShapeAssumption DEF ShapesFit, Empties
  <2> QED BY <2>1 DEF Nothing, Failed, PassesOn
<1>5. Results(rule, v, h2, Met', role2)
  BY <1>1, <1>2, <1>3, <1>4 DEF Results
<1>6. Shaped(rule.lhs, v, h2, Met', role2)
  BY <1>5, LeftSide
<1> QED BY <1>1, <1>3, <1>6 DEF Keeping

LEMMA AppendKeeps ==
  ASSUME IInv, NEW rule, NEW b, NEW a, NEW done, Reduced(rule, b, a, done), WentOn(rule, b, done),
         NEW role, Shape(heap, Met', role), Right(rule, b, role),
         rule.action \in Appending \cup {"append_expr"}
  PROVE  Making(rule, done, role)
<1>1. PICK action, list, elem, X, r :
        /\ action = rule.action /\ list = a[1] /\ elem = a[2] /\ X = rule.lhs /\ r = RoleOf(X)
  OBVIOUS
<1>2. done = Do(action, heap, a) /\ rule \in Range(Rules)
  BY <1>1 DEF Reduced
<1>3. PICK type, d : /\ type \in ListType /\ d = append(heap, type, list, elem)
                     /\ type = "NODE_FUN" => action = "append_fun_node"
                     /\ type = "stmt_list" => action = "append_stmt"
                     /\ done.heap = d.heap
                     /\ done.val = d.val \/ done.val = Len(heap) + 1
  <2>1. action = "append_fun_node" => done = append(heap, "NODE_FUN", list, elem)
    BY <1>1, <1>2 DEF Do, append_fun_node
  <2>2. action = "append_decl_node" => done = append(heap, "NODE_DECL", list, elem)
    BY <1>1, <1>2 DEF Do, append_decl_node
  <2>3. action = "append_decl" => done = append(heap, "decl_list", list, elem)
    BY <1>1, <1>2 DEF Do, append_decl
  <2>4. action = "append_decltor" => done = append(heap, "decltor_list", list, elem)
    BY <1>1, <1>2 DEF Do, append_decltor
  <2>5. action = "append_stmt" => done = append(heap, "stmt_list", list, elem)
    BY <1>1, <1>2 DEF Do, append_stmt
  <2>6. ASSUME action = "append_expr"
        PROVE  \E x : /\ x = append(heap, "expr_list", list, elem)
                      /\ done.heap = x.heap /\ done.val = Len(heap) + 1
    <3>1. PICK x : x = append(heap, "expr_list", list, elem)
      OBVIOUS
    <3>2. done = append_expr(heap, list, elem)
      BY <1>1, <1>2, <2>6 DEF Do
    <3>3. done = [x EXCEPT !.val = Len(heap) + 1]
      BY <3>1, <3>2 DEF append_expr
    <3>4. \E hp, v : x = [heap |-> hp, val |-> v]
      <4>1. \E hp, v : Made(heap, "expr_list", <<elem, NULL>>) = [heap |-> hp, val |-> v]
        BY DEF Made
      <4> QED BY <3>1, <4>1 DEF append
    <3>5. done.heap = x.heap /\ done.val = Len(heap) + 1
      BY <3>3, <3>4
    <3> QED BY <3>1, <3>5
  <2> QED BY <1>1, <2>1, <2>2, <2>3, <2>4, <2>5, <2>6 DEF Appending, ListType
<1>4. /\ 1 \in 1 .. Len(a) /\ 2 \in 1 .. Len(a) /\ Takes(rule, 1, X) /\ X \in ListSymbol
  <2>1. /\ Len(rule.args) = 2 /\ rule.args[1] = 1 /\ rule.rhs[1] \in ListSymbol
    BY <1>2, ActionsAssumption DEF WellTyped, ArgumentSymbol, ListSymbol
  <2>2. rule.lhs = rule.rhs[1]
    BY <1>2, ShapeAssumption DEF ShapesFit
  <2>3. Len(a) = 2
    BY <2>1, ArgumentsAre
  <2> QED BY <1>1, <2>1, <2>2, <2>3 DEF Takes
<1>5. list # NULL => /\ Of(heap, list, ListType) /\ role[list] = r
                     /\ LastCell(heap, list) \in Cells(heap) /\ role[LastCell(heap, list)] = r
  <2> SUFFICES ASSUME list # NULL
               PROVE  /\ Of(heap, list, ListType) /\ role[list] = r
                      /\ LastCell(heap, list) \in Cells(heap) /\ role[LastCell(heap, list)] = r
    OBVIOUS
  <2>1. Shaped(X, list, heap, Met', role)
    BY <1>1, <1>4, Took
  <2>2. Of(heap, list, ListType) /\ role[list] = r
    BY <1>1, <1>4, <2>1 DEF Shaped
  <2>3. Alike(heap, role)
    <3>1. ASSUME NEW c \in Cells(heap), heap[c].to[2] # NULL
          PROVE  role[heap[c].to[2]] = role[c]
      <4>1. c \in 1 .. Len(heap) /\ heap[c].type \in ListType
        <5>1. DOMAIN heap = 1 .. Len(heap)
          BY HoldsIs
        <5> QED BY <5>1 DEF Cells
      <4>2. Fits(heap, Met', role, heap[c].type, heap[c].to, role[c])
        BY <4>1 DEF Shape
      <4> QED BY <3>1, <4>1, <4>2 DEF Fits
    <3> QED BY <3>1 DEF Alike
  <2>4. /\ list \in Cells(heap) /\ list \notin freed /\ ~Cut(heap, list)
        /\ heap[list].type = "expr_list" <=> rule.action = "append_expr"
    BY <1>1, ListIs
  <2>5. Pool(heap, Holds, freed, reported)
    BY DEF IInv
  <2>6. CASE rule.action = "append_expr"
    <3>1. heap[list].to[2] = NULL
      BY <2>4, <2>6 DEF Cut
    <3>2. LastCell(heap, list) = list
      BY <2>4, <2>5, <3>1, LastCellIs
    <3> QED BY <2>2, <2>4, <3>2
  <2>7. CASE rule.action # "append_expr"
    <3>1. heap[list].type # "expr_list"
      BY <2>4, <2>7
    <3>2. /\ LastCell(heap, list) \in Cells(heap)
          /\ Alike(heap, role) => role[LastCell(heap, list)] = role[list]
      BY <2>4, <2>5, <3>1, LastIs
    <3> QED BY <2>2, <2>3, <3>2
  <2> QED BY <2>6, <2>7
<1>6. type = "NODE_FUN" => elem # NULL \/ "error" \in Met'
  <2> SUFFICES ASSUME type = "NODE_FUN"
               PROVE  elem # NULL \/ "error" \in Met'
    OBVIOUS
  <2>1. Takes(rule, 2, "function")
    BY <1>1, <1>2, <1>3, ShapeAssumption DEF ShapesFit
  <2>2. Shaped("function", elem, heap, Met', role)
    BY <1>1, <1>4, <2>1, Took
  <2> QED BY <2>2 DEF Shaped
<1>7. r = "param" => Declares(heap, role, {}, elem, VarDeclarator)
  <2> SUFFICES ASSUME r = "param"
               PROVE  Declares(heap, role, {}, elem, VarDeclarator)
    OBVIOUS
  <2>1. X = "param_types"
    BY <1>1 DEF RoleOf
  <2>2. /\ "value" \notin Appending \cup {"append_expr"}
        /\ "decl_list" \notin Appending \cup {"append_expr"}
    BY DEF Appending
  <2>3. Takes(rule, 2, "param_type")
    BY <1>1, <1>2, <2>1, <2>2, ShapeAssumption DEF ShapesFit, Nothing
  <2>4. Shaped("param_type", elem, heap, Met', role)
    BY <1>1, <1>4, <2>3, Took
  <2> QED BY <2>4 DEF Shaped
<1>8. Nodes(heap) /\ r # "single"
  BY <1>1 DEF IInv, Pool, RoleOf
<1>9. type = "stmt_list" => (elem = NULL /\ Met' # {}) \/ Of(heap, elem, Statements)
  <2> SUFFICES ASSUME type = "stmt_list"
               PROVE  (elem = NULL /\ Met' # {}) \/ Of(heap, elem, Statements)
    OBVIOUS
  <2>1. Takes(rule, 2, "stmt")
    BY <1>1, <1>2, <1>3, ShapeAssumption DEF ShapesFit
  <2>2. Shaped("stmt", elem, heap, Met', role)
    BY <1>1, <1>4, <2>1, Took
  <2> QED BY <2>2 DEF Shaped
<1>10. PICK h2, last : h2 = d.heap /\ last = Len(heap) + 1
  OBVIOUS
<1>11. PICK role2 : /\ Builds(heap, role, Met', d, role2)
                    /\ Of(h2, d.val, ListType) /\ role2[d.val] = r
                    /\ Of(h2, last, ListType) /\ role2[last] = r
  <2>1. Appendable(heap, Met', role, type, list, elem, r)
    BY <1>3, <1>5, <1>6, <1>7, <1>8, <1>9 DEF Appendable
  <2> QED BY <1>3, <1>10, <2>1, AppendFits
<1>12. Of(h2, done.val, ListType) /\ role2[done.val] = r
  BY <1>3, <1>10, <1>11
<1>13. Builds(heap, role, Met', done, role2)
  BY <1>3, <1>10, <1>11, <1>12 DEF Builds, Of
<1> QED BY <1>1, <1>3, <1>10, <1>12, <1>13 DEF Making, Appending, Statements, Expressions

(* A node of a list's type is its first cell.                              *)
LEMMA FirstCellKeeps ==
  ASSUME IInv, NEW rule, NEW b, NEW a, NEW done, Reduced(rule, b, a, done),
         NEW role, Shape(heap, Met', role), Right(rule, b, role), rule.action \in ListType
  PROVE  Making(rule, done, role)
<1>1. PICK action, X, r : action = rule.action /\ X = rule.lhs /\ r = RoleOf(X)
  OBVIOUS
<1>2. /\ done = Do(action, heap, a) /\ rule \in Range(Rules)
      /\ action \notin {"NODE_FUN", "stmt_list"}
      /\ Listed(heap)
  BY <1>1, ShapeAssumption, HoldsIs DEF Reduced, ShapesFit, Listed
<1>3. done = Made(heap, action, a)
  BY <1>1, <1>2 DEF Do, ListType
<1>4. 1 \in 1 .. Len(a) /\ a[2] = NULL
  <2>1. Len(rule.args) = 2 /\ rule.args[2] = 0
    BY <1>2, ActionsAssumption DEF WellTyped
  <2>2. Len(a) = 2 /\ 2 \in 1 .. Len(a)
    BY <2>1, ArgumentsAre
  <2> QED BY <2>1, <2>2, ArgumentsAre
<1>5. r = "param" => Declares(heap, role, {}, a[1], VarDeclarator)
  <2> SUFFICES ASSUME r = "param"
               PROVE  Declares(heap, role, {}, a[1], VarDeclarator)
    OBVIOUS
  <2>1. X = "param_types"
    BY <1>1 DEF RoleOf
  <2>2. "value" \notin ListType /\ "append_decl" \notin ListType
    BY DEF ListType
  <2>3. Takes(rule, 1, "param_type")
    BY <1>1, <1>2, <2>1, <2>2, ShapeAssumption DEF ShapesFit, Nothing
  <2>4. Shaped("param_type", a[1], heap, Met', role)
    BY <1>1, <1>4, <2>3, Took
  <2> QED BY <2>4 DEF Shaped
<1>6. Fits(heap, Met', role, action, a, r)
  BY <1>1, <1>2, <1>4, <1>5 DEF Fits, VarDeclarator, ListType
<1>7. PICK h2, v : h2 = done.heap /\ v = done.val
  OBVIOUS
<1>8. PICK role2 : Builds(heap, role, Met', done, role2) /\ role2[v] = r /\ h2[v].type = action
  BY <1>2, <1>3, <1>6, <1>7, MadeFits
<1>9. Of(h2, v, ListType)
  BY <1>1, <1>7, <1>8 DEF Of, Builds
<1> QED BY <1>1, <1>7, <1>8, <1>9 DEF Making, ListType, Statements, Expressions

LEMMA DeclarationKeeps ==
  ASSUME IInv, NEW rule, NEW b, NEW a, NEW done, Reduced(rule, b, a, done),
         NEW role, Shape(heap, Met', role), Right(rule, b, role),
         rule.action \in {"make_singular_decl", "singular_id", "singular_array"}
  PROVE  Making(rule, done, role)
<1>1. PICK action, x, h2, v : /\ action = rule.action /\ x = a[1]
                              /\ h2 = done.heap /\ v = done.val
  OBVIOUS
<1>2. done = Do(action, heap, a) /\ rule \in Range(Rules) /\ Listed(heap) /\ 1 \in 1 .. Len(a)
  <2>1. Len(rule.args) = 1
    BY ActionsAssumption DEF Reduced, WellTyped, Unary
  <2>2. 1 \in 1 .. Len(a)
    <3>1. Len(a) = 1
      BY <2>1, ArgumentsAre
    <3> QED BY <3>1
  <2>3. Listed(heap)
    BY HoldsIs DEF Listed
  <2> QED BY <1>1, <2>2, <2>3 DEF Reduced
<1>3. action \notin Appending \cup ListType \cup {"append_expr"} \cup Statements \cup Expressions
  BY <1>1 DEF Appending, ListType, Statements, Expressions
<1>4. CASE action = "make_singular_decl"
  <2>1. Takes(rule, 1, "function_declarator")
    BY <1>1, <1>2, <1>4, ShapeAssumption DEF ShapesFit
  <2>2. (x = NULL /\ "error" \in Met') \/ Of(heap, x, FunDeclarator)
    <3>1. Shaped("function_declarator", x, heap, Met', role)
      BY <1>1, <1>2, <2>1, Took
    <3> QED BY <3>1 DEF Shaped
  <2>3. done = make_singular_decl(heap, x)
    BY <1>1, <1>2, <1>4 DEF Do
  <2>4. PICK role2 : /\ Builds(heap, role, Met', done, role2)
                     /\ Declares(h2, role2, Met', v, FunDeclarator)
    BY <1>1, <1>2, <2>2, <2>3, SingularFits
  <2> QED BY <1>1, <1>3, <1>4, <2>4 DEF Making
<1>5. CASE action # "make_singular_decl"
  <2>1. Of(heap, x, Name)
    <3>1. Takes(rule, 1, "ID")
      BY <1>1, <1>2, <1>5, ShapeAssumption DEF ShapesFit
    <3>2. Shaped("ID", x, heap, Met', role)
      BY <1>1, <1>2, <3>1, Took
    <3> QED BY <3>2 DEF Shaped
  <2>2. PICK d, h1 : /\ h1 = d.heap /\ done = make_singular_decl(h1, d.val)
                     /\ d = IF action = "singular_id" THEN make_decltor_id(heap, x)
                                                      ELSE make_decltor_array(heap, x)
    BY <1>1, <1>2, <1>5 DEF Do
  <2>3. \E role1 : Builds(heap, role, Met', d, role1) /\ Of(h1, d.val, VarDeclarator)
    <3>1. CASE action = "singular_id"
      <4>1. PICK to : to = <<x>>
        OBVIOUS
      <4>2. d = Made(heap, "DECLTOR_SIMPLE", to)
        BY <2>2, <3>1, <4>1 DEF make_decltor_id
      <4>3. Fits(heap, Met', role, "DECLTOR_SIMPLE", to, "other")
        BY <2>1, <4>1 DEF Fits, VarDeclarator, ListType
      <4>4. PICK role1 : /\ Builds(heap, role, Met', d, role1)
                         /\ d.heap[d.val].type = "DECLTOR_SIMPLE"
        BY <1>2, <4>2, <4>3, MadeFits
      <4>5. Of(h1, d.val, VarDeclarator)
        BY <2>2, <4>4 DEF Of, Builds, VarDeclarator
      <4> QED BY <4>4, <4>5
    <3>2. CASE action # "singular_id"
      BY <1>2, <2>1, <2>2, <3>2, ArrayFits
    <3> QED BY <3>1, <3>2
  <2>4. PICK role1 : Builds(heap, role, Met', d, role1) /\ Of(h1, d.val, VarDeclarator)
    BY <2>3
  <2>5. Listed(h1) /\ Extends(heap, role, h1, role1) /\ Shape(h1, Met', role1)
    BY <2>2, <2>4 DEF Builds
  <2>6. PICK role2 : /\ Builds(h1, role1, Met', done, role2)
                     /\ Declares(h2, role2, {}, v, VarDeclarator)
    BY <1>1, <2>2, <2>4, <2>5, SingularFits
  <2>7. Builds(heap, role, Met', done, role2)
    <3>1. Extends(h1, role1, done.heap, role2)
      BY <2>6 DEF Builds
    <3>2. Extends(heap, role, done.heap, role2)
      BY <2>5, <3>1, ExtendsTwice
    <3> QED BY <2>6, <3>2 DEF Builds
  <2> QED BY <1>1, <1>3, <1>5, <2>6, <2>7 DEF Making
<1> QED BY <1>4, <1>5

LEMMA NodeKeeps ==
  ASSUME IInv, NEW rule, NEW b, NEW a, NEW done, Reduced(rule, b, a, done), WentOn(rule, b, done),
         NEW role, Shape(heap, Met', role), Right(rule, b, role),
         rule.action \notin Appending \cup ListType \cup
           {"append_expr", "value", "make_singular_decl", "singular_id", "singular_array"}
  PROVE  Making(rule, done, role)
<1>1. PICK action, x, h2, v : /\ action = rule.action /\ x = a[1]
                              /\ h2 = done.heap /\ v = done.val
  OBVIOUS
<1>2. /\ done = Do(action, heap, a) /\ rule \in Range(Rules) /\ Listed(heap)
      /\ action # "program_root" /\ action \notin {"NODE_FUN", "DECLTOR_ARRAY"}
  BY <1>1, ShapeAssumption, HoldsIs DEF Reduced, WentOn, Listed, ShapesFit
<1>3. action \in {"DECLTOR_SIMPLE", "make_decltor_array"} => Of(heap, x, Name)
  <2> SUFFICES ASSUME action \in {"DECLTOR_SIMPLE", "make_decltor_array"}
               PROVE  Of(heap, x, Name)
    OBVIOUS
  <2>1. Takes(rule, 1, "ID")
    BY <1>1, <1>2, ShapeAssumption DEF ShapesFit
  <2>2. Len(rule.args) = 1
    BY <1>1, <1>2, ActionsAssumption DEF WellTyped, Unary
  <2>3. 1 \in 1 .. Len(a)
    BY <2>2, ArgumentsAre
  <2>4. Shaped("ID", x, heap, Met', role)
    BY <1>1, <2>1, <2>3, Took
  <2> QED BY <2>4 DEF Shaped
<1>4. CASE action = "make_decltor_array"
  <2>1. done = make_decltor_array(heap, x)
    BY <1>1, <1>2, <1>4 DEF Do
  <2>2. PICK role2 : Builds(heap, role, Met', done, role2)
    BY <1>2, <1>3, <1>4, <2>1, ArrayFits
  <2> QED BY <1>1, <1>4, <2>2 DEF Making, Appending, ListType, Statements, Expressions
<1>5. CASE action # "make_decltor_array"
  <2>1. PICK to : /\ done = Made(heap, action, to)
                  /\ action = "fun_def" => to[1] = x
                  /\ action = "DECLTOR_SIMPLE" => to[1] = x
                  /\ action = "DECLTOR_FUN" => to[1] = x /\ to[2] = a[2]
                  /\ action = "STM_EXP" => to = a
    <3>1. action = "fun_def" => done = Made(heap, action, <<x, a[2], a[3]>>)
      BY <1>1, <1>2 DEF Do, make_function
    <3>2. action = "decl" => done = Made(heap, action, <<x>>)
      BY <1>1, <1>2 DEF Do, make_decl
    <3>3. action = "DECLTOR_SIMPLE" => done = Made(heap, action, <<x>>)
      BY <1>1, <1>2 DEF Do, make_decltor_id
    <3>4. action = "DECLTOR_FUN" => done = Made(heap, action, <<x, a[2]>>)
      BY <1>1, <1>2 DEF Do, make_decltor_fun
    <3>5. action \notin {"fun_def", "decl", "DECLTOR_SIMPLE", "DECLTOR_FUN"} =>
            done = Made(heap, action, a)
      BY <1>1, <1>2, <1>5 DEF Do, Appending
    <3> QED BY <3>1, <3>2, <3>3, <3>4, <3>5
  <2>2. action = "fun_def" => Declares(heap, role, Met', to[1], FunDeclarator)
    <3> SUFFICES ASSUME action = "fun_def"
                 PROVE  Declares(heap, role, Met', to[1], FunDeclarator)
      OBVIOUS
    <3>1. Takes(rule, 1, "fun_sig")
      BY <1>1, <1>2, ShapeAssumption DEF ShapesFit
    <3>2. Len(rule.args) = 3
      BY <1>1, <1>2, ActionsAssumption DEF WellTyped
    <3>3. 1 \in 1 .. Len(a)
      <4>1. Len(a) = 3
        BY <3>2, ArgumentsAre
      <4> QED BY <4>1
    <3>4. Shaped("fun_sig", x, heap, Met', role)
      BY <1>1, <3>1, <3>3, Took
    <3> QED BY <2>1, <3>4 DEF Shaped
  <2>3. action = "DECLTOR_FUN" =>
          /\ Of(heap, to[1], Name)
          /\ to[2] = NULL \/ (Of(heap, to[2], ListType) /\ role[to[2]] = "param")
    <3> SUFFICES ASSUME action = "DECLTOR_FUN"
                 PROVE  /\ Of(heap, to[1], Name)
                        /\ to[2] = NULL \/ (Of(heap, to[2], ListType) /\ role[to[2]] = "param")
      OBVIOUS
    <3>1. Takes(rule, 1, "ID") /\ Takes(rule, 2, "param_types")
      BY <1>1, <1>2, ShapeAssumption DEF ShapesFit
    <3>2. Len(rule.args) = 2
      BY <1>1, <1>2, ActionsAssumption DEF WellTyped
    <3>3. 1 \in 1 .. Len(a) /\ 2 \in 1 .. Len(a)
      <4>1. Len(a) = 2
        BY <3>2, ArgumentsAre
      <4> QED BY <4>1
    <3>4. /\ Shaped("ID", x, heap, Met', role)
          /\ Shaped("param_types", a[2], heap, Met', role)
      BY <1>1, <3>1, <3>3, Took
    <3> QED BY <2>1, <3>4 DEF Shaped, ListSymbol, RoleOf
  <2>7. action = "STM_EXP" =>
          (to[1] = NULL /\ "error" \in Met') \/ Of(heap, to[1], Expressions)
    <3> SUFFICES ASSUME action = "STM_EXP"
                 PROVE  (to[1] = NULL /\ "error" \in Met') \/ Of(heap, to[1], Expressions)
      OBVIOUS
    <3>1. Takes(rule, 1, "expr") /\ Len(rule.args) = 1
      BY <1>1, <1>2, ShapeAssumption DEF ShapesFit
    <3>2. 1 \in 1 .. Len(a)
      <4>1. Len(a) = 1
        BY <3>1, ArgumentsAre
      <4> QED BY <4>1
    <3>3. Shaped("expr", x, heap, Met', role)
      BY <1>1, <3>1, <3>2, Took
    <3> QED BY <1>1, <2>1, <3>3 DEF Shaped
  <2>4. Fits(heap, Met', role, action, to, "other")
    <3>1. action \notin ListType /\ action # "stmt_list"
      BY <1>1 DEF ListType
    <3>2. action \in VarDeclarator => Of(heap, to[1], Name)
      BY <1>2, <1>3, <2>1 DEF VarDeclarator
    <3> QED BY <1>2, <2>2, <2>3, <2>7, <3>1, <3>2 DEF Fits
  <2>5. PICK role2 : Builds(heap, role, Met', done, role2) /\ h2[v].type = action
    BY <1>1, <1>2, <2>1, <2>4, MadeFits
  <2>6. action = "DECLTOR_FUN" => Of(h2, v, FunDeclarator)
    BY <1>1, <2>5 DEF Of, FunDeclarator, Builds
  <2>8. Of(h2, v, {action})
    BY <1>1, <2>5 DEF Of, Builds
  <2> QED BY <1>1, <2>5, <2>6, <2>8 DEF Making
<1> QED BY <1>4, <1>5

LEMMA ReductionKeeps ==
  ASSUME IInv, NEW rule, NEW b, NEW a, NEW done, Reduced(rule, b, a, done), WentOn(rule, b, done),
         NEW role, Shape(heap, Met', role), Right(rule, b, role)
  PROVE  Keeping(rule, done, role)
<1>1. CASE rule.action = "value"
  BY <1>1, ValueKeeps
<1>2. CASE rule.action # "value"
  <2>1. Making(rule, done, role)
    BY <1>2, AppendKeeps, FirstCellKeeps, DeclarationKeeps, NodeKeeps
  <2> QED BY <1>2, <2>1, MakingKeeps DEF Reduced
<1> QED BY <1>1, <1>2
-----------------------------------------------------------------------------
(* The shape of the tree and of what the parser holds                      *)

Stands(s, k, h, met, role) ==
  \E X \in DOMAIN Goto[s[k - 1].state] :
    s[k].state = Goto[s[k - 1].state][X] /\ Shaped(X, s[k].val, h, met, role)
Standing(s, h, met, role) == \A k \in 2 .. Len(s) : Stands(s, k, h, met, role)

(* Where there is no tree yet nothing has been read but the end.           *)
Unread(s, tok, toks, h) ==
  Len(s) = 1 \/ (Len(s) = 2 /\ s[2].val = NULL) =>
    (tok \in {"none", "end"} => toks = 0 /\ h = << >>)

Fit ==
  /\ \E role : Shape(heap, Met, role) /\ Standing(stack, heap, Met, role)
  /\ la = "ID" => Of(heap, yylval, Name)
  /\ status = "parsing" => Unread(stack, la, tokens, heap)
  /\ status = "accepted" /\ program_root = NULL => tokens = 0 /\ heap = << >>

LEMMA StandingStays ==
  ASSUME NEW h, NEW role, NEW h2, NEW role2, Extends(h, role, h2, role2),
         NEW met, NEW met2, met \subseteq met2, NEW s, Standing(s, h, met, role)
  PROVE  Standing(s, h2, met2, role2)
<1>1. \A X, v : Shaped(X, v, h, met, role) => Shaped(X, v, h2, met2, role2)
  BY ShapedStays
<1> QED BY <1>1 DEF Standing, Stands

LEMMA ShapeStays ==
  ASSUME NEW h, NEW role, NEW h2, NEW role2, Extends(h, role, h2, role2),
         NEW met, NEW met2, met \subseteq met2, Shape(h, met, role), h2 = h, role2 = role
  PROVE  Shape(h2, met2, role2)
<1>1. \A type, to, r : Fits(h, met, role, type, to, r) => Fits(h2, met2, role2, type, to, r)
  BY FitsStays, Zenon
<1> QED BY <1>1 DEF Shape

(* More is met of what is there.                                           *)
LEMMA ReportStays ==
  ASSUME IInv, NEW role, Shape(heap, Met, role), NEW s, Standing(s, heap, Met, role),
         NEW met, Met \subseteq met
  PROVE  Shape(heap, met, role) /\ Standing(s, heap, met, role)
<1>1. Extends(heap, role, heap, role)
  BY HoldsIs DEF Extends
<1> QED BY <1>1, ShapeStays, StandingStays

(* The entries below the top, and what is put on them.                     *)
LEMMA StandingOn ==
  ASSUME NEW s, NEW b \in Nat, b <= Len(s), Len(s) \in Nat, b >= 1,
         NEW h, NEW met, NEW role, Standing(s, h, met, role),
         NEW s2, Len(s2) = b + 1, \A k \in 1 .. b : s2[k] = s[k],
         NEW X, X \in DOMAIN Goto[s[b].state],
         s2[b + 1].state = Goto[s[b].state][X], Shaped(X, s2[b + 1].val, h, met, role)
  PROVE  Standing(s2, h, met, role)
<1>1. ASSUME NEW k \in 2 .. b
      PROVE  Stands(s2, k, h, met, role)
  <2>1. k \in 1 .. b /\ k - 1 \in 1 .. b /\ k \in 2 .. Len(s)
    OBVIOUS
  <2>2. Stands(s, k, h, met, role)
    BY <2>1 DEF Standing
  <2> QED BY <2>1, <2>2 DEF Stands
<1>2. Stands(s2, b + 1, h, met, role)
  <2>1. PICK from : from = s2[b].state
    OBVIOUS
  <2>2. from = s[b].state /\ (b + 1) - 1 = b
    BY <2>1
  <2> QED BY <2>1, <2>2 DEF Stands
<1>3. \A k \in 2 .. Len(s2) : k \in 2 .. b \/ k = b + 1
  OBVIOUS
<1> QED BY <1>1, <1>2, <1>3 DEF Standing

LEMMA InitFits == Init => Fit
<1> SUFFICES ASSUME Init
             PROVE  Fit
  OBVIOUS
<1>1. /\ heap = << >> /\ Len(heap) = 0 /\ Len(stack) = 1 /\ tokens = 0 /\ la = "none"
      /\ status = "parsing"
  BY DEF Init
<1>2. Shape(heap, Met, heap) /\ Standing(stack, heap, Met, heap)
  BY <1>1 DEF Shape, Standing
<1> QED BY <1>1, <1>2 DEF Fit, Unread

LEMMA LexFits == IInv /\ Fit /\ yylex => Fit'
<1> SUFFICES ASSUME IInv, Fit, yylex
             PROVE  Fit'
  OBVIOUS
<1>1. PICK role : Shape(heap, Met, role) /\ Standing(stack, heap, Met, role)
  BY DEF Fit
<1>2. /\ la = "none" /\ stack' = stack /\ Met' = Met /\ program_root' = program_root
      /\ status' = "parsing" /\ status = "parsing" /\ Listed(heap)
  BY HoldsIs DEF yylex, Listed, Met
<1>3. CASE la' = "ID"
  <2>1. PICK none, name : none = << >> /\ name = Made(heap, "string", none)
    OBVIOUS
  <2>2. heap' = name.heap /\ yylval' = name.val
    BY <1>3, <2>1 DEF yylex
  <2>3. Fits(heap, Met, role, "string", none, "other")
    BY DEF Fits, VarDeclarator, ListType
  <2>4. PICK role2 : /\ Builds(heap, role, Met, name, role2)
                     /\ heap'[yylval'].type = "string"
    BY <1>1, <1>2, <2>1, <2>2, <2>3, MadeFits
  <2>5. Shape(heap', Met', role2) /\ Standing(stack', heap', Met', role2)
    <3>1. Extends(heap, role, heap', role2) /\ Shape(heap', Met, role2)
      BY <2>2, <2>4 DEF Builds
    <3> QED BY <1>1, <1>2, <3>1, StandingStays
  <2>6. Of(heap', yylval', Name)
    BY <2>2, <2>4 DEF Of, Name, Builds
  <2>7. Unread(stack', la', tokens', heap')
    BY <1>3 DEF Unread
  <2> QED BY <1>2, <2>5, <2>6, <2>7 DEF Fit
<1>4. CASE la' # "ID"
  <2>1. heap' = heap
    BY <1>4 DEF yylex
  <2>2. la' \in {"none", "end"} => tokens' = tokens
    <3>1. CASE ahead # << >>
      <4>1. Head(ahead) \in Token
        BY <3>1 DEF IInv, Scalars
      <4>2. Head(ahead) \notin {"none", "end"}
        BY <4>1, AutomatonAssumption DEF Retraceable, Token
      <4> QED BY <3>1, <4>2 DEF yylex
    <3>2. CASE ahead = << >>
      <4>1. la' = "none" => la' \notin Token
        BY AutomatonAssumption DEF Retraceable, Token
      <4>2. la' = "end" => la' \notin Token
        BY AutomatonAssumption DEF Retraceable, Token
      <4> QED BY <3>2, <4>1, <4>2 DEF yylex
    <3> QED BY <3>1, <3>2
  <2>3. Unread(stack', la', tokens', heap')
    BY <1>2, <2>1, <2>2 DEF Fit, Unread
  <2> QED BY <1>1, <1>2, <1>4, <2>1, <2>3 DEF Fit
<1> QED BY <1>3, <1>4

LEMMA ShiftFits == IInv /\ Fit /\ Shift => Fit'
<1> SUFFICES ASSUME IInv, Fit, Shift
             PROVE  Fit'
  OBVIOUS
<1>1. PICK role : Shape(heap, Met, role) /\ Standing(stack, heap, Met, role)
  BY DEF Fit
<1>2. /\ heap' = heap /\ Met' = Met /\ program_root' = program_root
      /\ la' = "none" /\ status = "parsing" /\ status' = "parsing"
  BY DEF Shift, Met
<1>3. PICK n, from, entry :
        /\ n = Len(stack) /\ from = stack[n].state /\ la \in DOMAIN Goto[from]
        /\ stack' = Append(stack, entry)
        /\ entry.state = Goto[from][la] /\ entry.val = yylval
  <2>1. PICK n, from, entry : /\ n = Len(stack) /\ from = stack[n].state
                              /\ entry = [state |-> Goto[from][la], val |-> yylval]
    OBVIOUS
  <2>2. from = Top
    BY <2>1 DEF Top, Last
  <2>3. stack' = Append(stack, entry) /\ la \in DOMAIN Goto[from]
    BY <2>1, <2>2 DEF Shift, Shifts
  <2> QED BY <2>1, <2>3
<1>4. /\ Len(stack') = n + 1 /\ stack'[n + 1] = entry
      /\ \A k \in 1 .. n : stack'[k] = stack[k]
  <2>1. PICK S : S = Entry \cup {entry}
    OBVIOUS
  <2>2. stack \in Seq(S) /\ entry \in S
    BY <2>1, HoldsIs
  <2> QED BY <1>3, <2>2
<1>5. from \in DOMAIN Kernel /\ n \in Nat /\ n >= 1 /\ stack[1].state = Start
  <2>1. n \in 1 .. Len(stack) /\ stack \in Seq(Entry)
    BY <1>3, HoldsIs
  <2>2. stack[n] \in Entry
    BY <2>1
  <2> QED BY <1>3, <2>2, HoldsIs DEF Entry, IInv, StackOK
<1>6. la \notin NonTerminal
  <2>1. la \in Symbol
    BY <1>3, <1>5, AutomatonAssumption DEF Retraceable
  <2>2. la \in Token
    BY <2>1, AutomatonAssumption DEF IInv, Scalars, Retraceable
  <2> QED BY <2>2 DEF Token
<1>7. Shaped(la, yylval, heap, Met, role)
  <2>1. la \notin ListSymbol
        /\ la \notin {"function", "fun_sig", "function_declarator", "param_type", "stmt", "assg",
                       "expr"}
    BY <1>6, ShapeAssumption DEF ShapesFit
  <2>2. la = "ID" => Of(heap, yylval, Name)
    BY DEF Fit
  <2> QED BY <2>1, <2>2 DEF Shaped
<1>8. Standing(stack', heap', Met', role)
  <2>1. /\ n <= Len(stack) /\ Len(stack) \in Nat /\ la \in DOMAIN Goto[stack[n].state]
        /\ stack'[n + 1].state = Goto[stack[n].state][la]
        /\ Shaped(la, stack'[n + 1].val, heap, Met, role)
    BY <1>3, <1>4, <1>5, <1>7
  <2>2. Standing(stack', heap, Met, role)
    BY <1>1, <1>4, <1>5, <2>1, StandingOn
  <2> QED BY <1>2, <2>2
<1>9. Unread(stack', la', tokens', heap')
  <2>1. n # 1
    <3>1. "program" \in NonTerminal /\ DOMAIN Goto[Start] = {"program"}
      BY ShapeAssumption DEF ShapesFit, ListSymbol
    <3> QED BY <1>3, <1>5, <1>6, <3>1
  <2> QED BY <1>4, <1>5, <2>1 DEF Unread
<1> QED BY <1>1, <1>2, <1>8, <1>9 DEF Fit

LEMMA ErrorFits == IInv /\ Fit /\ (Recover \/ Discard) => Fit'
<1> SUFFICES ASSUME IInv, Fit, Recover \/ Discard
             PROVE  Fit'
  OBVIOUS
<1>1. PICK role : Shape(heap, Met, role) /\ Standing(stack, heap, Met, role)
  BY DEF Fit
<1>2. /\ NoAction /\ PushError /\ heap' = heap /\ Met \subseteq Met'
      /\ program_root' = program_root /\ status = "parsing" /\ status' = "parsing"
      /\ la' = "ID" => la = "ID" /\ yylval' = yylval
  BY DEF Recover, Discard, NoAction, Met
<1>3. PICK n, from : n = ErrorState /\ from = stack[n].state
  OBVIOUS
<1>4. /\ n \in 1 .. Len(stack) /\ Len(stack) \in Nat /\ "error" \in DOMAIN Goto[from]
      /\ Len(stack') = n + 1 /\ stack'[n + 1].val = NULL
      /\ \A k \in 1 .. n : stack'[k] = stack[k]
  BY <1>2, <1>3, PushesError, ErrorStateIs, HoldsIs
<1>5. stack'[n + 1].state = Goto[from]["error"]
  <2>1. PICK below, entry : /\ below = SubSeq(stack, 1, n)
                            /\ entry = [state |-> Goto[from]["error"], val |-> NULL]
    OBVIOUS
  <2>2. stack' = Append(below, entry)
    BY <1>2, <1>3, <2>1 DEF PushError
  <2>3. below \in Seq(Entry) /\ Len(below) = n
    <3>1. StackOK(stack, heap, reported)
      BY DEF IInv
    <3>2. StackOK(below, heap, reported) /\ Len(below) = n
      BY <1>4, <2>1, <3>1, StackCut
    <3> QED BY <3>2 DEF StackOK
  <2>4. stack'[n + 1] = entry
    <3>1. PICK S : S = Entry \cup {entry}
      OBVIOUS
    <3>2. below \in Seq(S) /\ entry \in S
      BY <2>3, <3>1
    <3> QED BY <2>2, <2>3, <3>2
  <2> QED BY <2>1, <2>4
<1>6. /\ Shape(heap, Met', role) /\ Standing(stack, heap, Met', role)
  BY <1>1, <1>2, ReportStays
<1>7. Shaped("error", stack'[n + 1].val, heap, Met', role)
  BY <1>4 DEF Shaped
<1>8. Standing(stack', heap, Met', role)
  <2>1. n \in Nat /\ n >= 1 /\ n <= Len(stack)
    BY <1>4
  <2> QED BY <1>3, <1>4, <1>5, <1>6, <1>7, <2>1, StandingOn
<1>9. Unread(stack', la', tokens', heap')
  <2>1. n # 1
    <3>1. stack[1].state = Start /\ DOMAIN Goto[Start] = {"program"}
      BY ShapeAssumption DEF ShapesFit, IInv, StackOK
    <3> QED BY <1>3, <1>4, <3>1
  <2> QED BY <1>4, <2>1 DEF Unread
<1>10. la' = "ID" => Of(heap', yylval', Name)
  BY <1>2 DEF Fit
<1> QED BY <1>2, <1>6, <1>8, <1>9, <1>10 DEF Fit

LEMMA AbortFits == IInv /\ Fit /\ Abort => Fit'
<1> SUFFICES ASSUME IInv, Fit, Abort
             PROVE  Fit'
  OBVIOUS
<1>1. PICK role : Shape(heap, Met, role) /\ Standing(stack, heap, Met, role)
  BY DEF Fit
<1>2. /\ heap' = heap /\ Met' = Met /\ status' = "aborted"
      /\ la' = la /\ yylval' = yylval /\ stack' = SubSeq(stack, 1, 1)
  BY DEF Abort, Met
<1>3. Len(stack') = 1
  <2>1. StackOK(stack, heap, reported) /\ 1 \in 1 .. Len(stack)
    BY HoldsIs DEF IInv
  <2> QED BY <1>2, <2>1, StackCut
<1>4. Standing(stack', heap', Met', role)
  BY <1>3 DEF Standing
<1> QED BY <1>1, <1>2, <1>4 DEF Fit

(* The right side of a rule stands on the stack.                           *)
LEMMA RightIs ==
  ASSUME IInv, NEW rule, NEW b, NEW a, NEW done, Reduced(rule, b, a, done),
         NEW role, Standing(stack, heap, Met', role)
  PROVE  Right(rule, b, role)
<1>1. /\ b \in 1 .. Len(stack) /\ Len(rule.rhs) \in Nat /\ b + Len(rule.rhs) = Len(stack)
      /\ b \in Nat /\ Len(stack) \in Nat
      /\ \A n \in 0 .. Len(rule.rhs) : Begun(stack, rule, b, n)
  <2>1. Popping(rule, b)
    BY DEF Reduced
  <2>2. b \in 1 .. Len(stack) /\ Len(rule.rhs) \in Nat /\ b + Len(rule.rhs) = Len(stack)
    BY DEF Reduced
  <2>3. Len(stack) \in Nat
    BY HoldsIs
  <2>4. b \in Nat
    BY <2>2
  <2>5. \A n \in 0 .. Len(rule.rhs) : Begun(stack, rule, b, n)
    BY <2>1 DEF Popping
  <2> QED BY <2>2, <2>3, <2>4, <2>5
<1> SUFFICES ASSUME NEW n \in 1 .. Len(rule.rhs)
             PROVE  Shaped(rule.rhs[n], stack[b + n].val, heap, Met', role)
  BY DEF Right
<1>2. PICK k : k = b + n
  OBVIOUS
<1>3. k \in 2 .. Len(stack) /\ n \in 0 .. Len(rule.rhs) /\ k - 1 \in 1 .. Len(stack)
  BY <1>1, <1>2
<1>4. PICK from, X : /\ from = stack[k - 1].state /\ X \in DOMAIN Goto[from]
                     /\ stack[k].state = Goto[from][X]
                     /\ Shaped(X, stack[k].val, heap, Met', role)
  BY <1>3 DEF Standing, Stands
<1>5. PICK i \in Items[Goto[from][X]] : i.rule = rule /\ i.dot = n + 1
  BY <1>1, <1>2, <1>3, <1>4 DEF Begun
<1>6. from \in DOMAIN Kernel
  <2>1. stack[k - 1] \in Entry
    BY <1>3, HoldsIs
  <2> QED BY <1>4, <2>1 DEF Entry
<1>7. i.rule.rhs[i.dot - 1] = X
  <2>1. i.dot > 1
    BY <1>5
  <2> QED BY <1>4, <1>5, <1>6, <2>1, Arrives
<1>8. i.dot - 1 = n
  BY <1>5
<1> QED BY <1>2, <1>4, <1>5, <1>7, <1>8

(* The first list is made of nothing, before anything is read.             *)
LEMMA FirstList ==
  ASSUME IInv, Unread(stack, la, tokens, heap), NEW rule, NEW b, NEW a, NEW done,
         Reduced(rule, b, a, done), WentOn(rule, b, done)
  PROVE  Unread(stack', la', tokens', heap')
<1>1. /\ b \in Nat /\ b >= 1 /\ Len(stack) \in Nat /\ Len(rule.rhs) \in Nat
      /\ b + Len(rule.rhs) = Len(stack) /\ rule \in Range(Rules)
      /\ Len(stack') = b + 1 /\ stack'[b + 1].val = done.val
      /\ la' = la /\ tokens' = tokens /\ heap' = done.heap
  <2>1. b \in 1 .. Len(stack) /\ Len(stack) \in Nat
    BY HoldsIs DEF Reduced
  <2> QED BY <2>1 DEF Reduced, WentOn
<1> SUFFICES ASSUME Len(stack') = 1 \/ (Len(stack') = 2 /\ stack'[2].val = NULL),
                    la' \in {"none", "end"}
             PROVE  tokens' = 0 /\ heap' = << >>
  BY DEF Unread
<1>2. b = 1 /\ done.val = NULL
  BY <1>1
<1>3. rule.lhs = "program"
  <2>1. rule.lhs \in DOMAIN Goto[Start]
    BY <1>2 DEF WentOn, IInv, StackOK
  <2> QED BY <2>1, ShapeAssumption DEF ShapesFit
<1>4. rule.action \notin Appending
  <2> SUFFICES ASSUME rule.action \in Appending
               PROVE  FALSE
    OBVIOUS
  <2>1. PICK action, T : action = rule.action /\ T = Kinds(action)
    OBVIOUS
  <2>2. done = Do(action, heap, a) /\ Doable(rule, heap, a)
    BY <2>1, HeapGrows DEF Reduced
  <2>3. /\ Listed(done.heap)
        /\ \/ action = "value"
           \/ action \in Appending /\ a[1] # NULL /\ done.val = a[1]
           \/ done.val \in 1 .. Len(done.heap)
    BY <2>1, <2>2, DoGrows
  <2>4. action # "value"
    BY <2>1 DEF Appending
  <2> QED BY <1>2, <2>3, <2>4 DEF NULL
<1>5. Nothing(rule) /\ rule.rhs = << >>
  BY <1>1, <1>3, <1>4, ShapeAssumption DEF ShapesFit
<1>6. Len(stack) = 1
  BY <1>1, <1>2, <1>5
<1>7. done.heap = heap
  <2>1. done = Do("value", heap, a)
    BY <1>5 DEF Nothing, Reduced
  <2> QED BY <2>1 DEF Do
<1> QED BY <1>1, <1>6, <1>7 DEF Unread

(* The tree is the first list, of a program read to its end.               *)
LEMMA TreeIs ==
  ASSUME IInv, Unread(stack, la, tokens, heap), NEW rule, NEW b, NEW a, NEW done,
         Reduced(rule, b, a, done), Ended(rule, b), program_root' = NULL
  PROVE  tokens' = 0 /\ heap' = << >>
<1>1. /\ b \in Nat /\ b >= 1 /\ Len(stack) \in Nat /\ b + 1 = Len(stack)
      /\ stack[b + 1].val = NULL /\ rule.lhs = "full_program" /\ b \in 1 .. Len(stack)
      /\ tokens' = tokens
  <2>1. b \in 1 .. Len(stack) /\ Len(stack) \in Nat /\ rule.rhs = <<"program">>
    BY HoldsIs DEF Reduced, Ended
  <2>2. Len(rule.rhs) = 1 /\ b + Len(rule.rhs) = Len(stack)
    BY <2>1 DEF Reduced
  <2> QED BY <2>1, <2>2 DEF Reduced, Ended
<1>2. heap' = heap
  <2>1. done = Do("program_root", heap, a) /\ heap' = done.heap
    BY DEF Reduced, Ended
  <2> QED BY <2>1 DEF Do
<1>3. la = "end"
  <2>1. Lookahead(rule) = {"end"}
    BY <1>1 DEF Lookahead
  <2>2. rule \in Reductions(Top, la)
    BY DEF Reduced
  <2>3. la \in Lookahead(rule) \/ Lookahead(rule) = {}
    <3> HIDE DEF Lookahead
    <3> QED BY <2>2 DEF Reductions, Defaults
  <2> QED BY <2>1, <2>3
<1>4. stack[b].state = Start
  <2>1. 0 \in 0 .. Len(rule.rhs)
    BY DEF Reduced
  <2>2. Begun(stack, rule, b, 0)
    BY <2>1 DEF Reduced, Popping
  <2>3. PICK s : s = stack[b].state
    OBVIOUS
  <2>4. PICK i \in Items[s] : i.rule = rule /\ i.dot = 1
    BY <1>1, <2>2, <2>3 DEF Begun
  <2>5. s \in DOMAIN Kernel
    <3>1. stack[b] \in Entry
      BY <1>1, HoldsIs
    <3> QED BY <2>3, <3>1 DEF Entry
  <2> QED BY <1>1, <2>3, <2>4, <2>5, ShapeAssumption DEF ShapesFit
<1>5. b = 1
  <2> SUFFICES ASSUME b # 1
               PROVE  FALSE
    OBVIOUS
  <2>1. b \in 2 .. Len(stack) /\ b - 1 \in 1 .. Len(stack)
    BY <1>1
  <2>2. PICK from, X : /\ from = stack[b - 1].state /\ X \in DOMAIN Goto[from]
                       /\ stack[b].state = Goto[from][X]
    BY <2>1 DEF IInv, StackOK, Sits
  <2>3. from \in DOMAIN Kernel
    <3>1. stack[b - 1] \in Entry
      BY <2>1, HoldsIs
    <3> QED BY <2>2, <3>1 DEF Entry
  <2> QED BY <1>4, <2>2, <2>3, ShapeAssumption DEF ShapesFit
<1> QED BY <1>1, <1>2, <1>3, <1>5 DEF Unread

LEMMA ReduceFits == IInv /\ Fit /\ Reduce => Fit'
<1> SUFFICES ASSUME IInv, Fit, Reduce
             PROVE  Fit'
  OBVIOUS
<1>2. PICK rule, b, a, done : Reduced(rule, b, a, done) /\ (Ended(rule, b) \/ WentOn(rule, b, done))
  BY ReduceIs
<1>1. PICK role : Shape(heap, Met', role) /\ Standing(stack, heap, Met', role)
  <2>1. PICK role : Shape(heap, Met, role) /\ Standing(stack, heap, Met, role)
    BY DEF Fit
  <2>2. Met \subseteq Met'
    <3>1. (reported => reported') /\ (emptied => emptied')
      BY <1>2 DEF Reduced
    <3> QED BY <3>1 DEF Met
  <2>3. PICK met : met = Met'
    OBVIOUS
  <2>4. Shape(heap, met, role) /\ Standing(stack, heap, met, role)
    BY <2>1, <2>2, <2>3, ReportStays
  <2> QED BY <2>3, <2>4
<1>3. /\ b \in Nat /\ b >= 1 /\ b <= Len(stack) /\ Len(stack) \in Nat
      /\ \A k \in 1 .. b : stack'[k] = stack[k]
      /\ la' = la /\ yylval' = yylval /\ heap' = done.heap
      /\ Unread(stack, la, tokens, heap)
  <2>1. b \in 1 .. Len(stack) /\ Len(stack) \in Nat
    BY <1>2, HoldsIs DEF Reduced
  <2>2. Unread(stack, la, tokens, heap)
    BY <1>2 DEF Reduced, Fit
  <2> QED BY <1>2, <2>1, <2>2 DEF Reduced
<1>4. CASE Ended(rule, b)
  <2>1. heap' = heap
    <3>1. done = Do("program_root", heap, a)
      BY <1>2, <1>4 DEF Reduced, Ended
    <3> QED BY <1>3, <3>1 DEF Do
  <2>2. Standing(stack', heap', Met', role)
    <3>1. ASSUME NEW k \in 2 .. Len(stack')
          PROVE  Stands(stack', k, heap, Met', role)
      <4>1. Len(stack') = b
        BY <1>4 DEF Ended
      <4>2. k \in 1 .. b /\ k - 1 \in 1 .. b /\ k \in 2 .. Len(stack)
        BY <1>3, <4>1
      <4>3. Stands(stack, k, heap, Met', role)
        BY <1>1, <4>2 DEF Standing
      <4> QED BY <1>3, <4>2, <4>3 DEF Stands
    <3> QED BY <1>3, <2>1, <3>1 DEF Standing
  <2>3. program_root' = NULL => tokens' = 0 /\ heap' = << >>
    BY <1>2, <1>3, <1>4, TreeIs
  <2>4. status' = "accepted"
    BY <1>4 DEF Ended
  <2> QED BY <1>1, <1>3, <2>1, <2>2, <2>3, <2>4 DEF Fit
<1>5. CASE WentOn(rule, b, done)
  <2>1. Keeping(rule, done, role)
    <3>1. Right(rule, b, role)
      BY <1>1, <1>2, RightIs
    <3> QED BY <1>1, <1>2, <1>5, <3>1, ReductionKeeps
  <2>2. PICK role2 :
          /\ Extends(heap, role, heap', role2) /\ Shape(heap', Met', role2)
          /\ Shaped(rule.lhs, done.val, heap', Met', role2)
    BY <1>3, <2>1 DEF Keeping
  <2>3. Standing(stack, heap', Met', role2)
    BY <1>1, <2>2, StandingStays
  <2>4. Standing(stack', heap', Met', role2)
    <3>1. /\ Len(stack') = b + 1 /\ rule.lhs \in DOMAIN Goto[stack[b].state]
          /\ stack'[b + 1].state = Goto[stack[b].state][rule.lhs]
          /\ Shaped(rule.lhs, stack'[b + 1].val, heap', Met', role2)
      BY <1>5, <2>2 DEF WentOn
    <3> QED BY <1>3, <2>3, <3>1, StandingOn
  <2>5. Unread(stack', la', tokens', heap')
    BY <1>2, <1>3, <1>5, FirstList
  <2>6. la' = "ID" => Of(heap', yylval', Name)
    BY <1>3, <2>2, OfStays DEF Fit
  <2>7. status' = "parsing"
    BY <1>5 DEF WentOn
  <2> QED BY <1>3, <2>2, <2>4, <2>5, <2>6, <2>7 DEF Fit
<1> QED BY <1>2, <1>4, <1>5

LEMMA StepFits == IInv /\ Fit /\ [Step \/ Stopped]_vars => Fit'
<1> SUFFICES ASSUME IInv, Fit, [Step \/ Stopped]_vars
             PROVE  Fit'
  OBVIOUS
<1>1. CASE UNCHANGED vars
  BY <1>1 DEF vars, Fit, Met
<1> QED
  BY <1>1, LexFits, ShiftFits, ReduceFits, ErrorFits, AbortFits DEF Step, Stopped

LEMMA FittingInvariance == Spec => []Fit
<1>1. Init => Fit
  BY InitFits
<1>2. IInv /\ Fit /\ [Step \/ Stopped]_vars => Fit'
  BY StepFits
<1> QED BY <1>1, <1>2, Invariance, PTL DEF Spec

(* The declarator is as build_ir takes it.                                 *)
LEMMA DeclaratorIs ==
  ASSUME NEW role, Shape(heap, Met, role), NEW lost, NEW d, NEW types,
         Declares(heap, role, lost, d, types),
         "error" \in lost => reported /\ types = FunDeclarator,
         types \subseteq FunDeclarator \cup VarDeclarator
  PROVE  OnlyDeclarator(d, types)
<1>1. PICK c \in 1 .. Len(heap) :
        /\ c = heap[d].to[1] /\ heap[c].type = "decltor_list" /\ role[c] = "single"
        /\ (heap[c].to[1] = NULL /\ "error" \in lost) \/ Of(heap, heap[c].to[1], types)
  BY DEF Declares
<1>2. heap[c].to[2] = NULL
  <2>1. Fits(heap, Met, role, heap[c].type, heap[c].to, role[c])
    BY DEF Shape
  <2> QED BY <1>1, <2>1 DEF Fits, ListType
<1>3. PICK x : x = heap[c].to[1]
  OBVIOUS
<1>4. \/ x = NULL /\ reported /\ types = FunDeclarator
      \/ heap[x].type \in types /\ heap[heap[x].to[1]].type = "string"
  <2>1. CASE x = NULL /\ "error" \in lost
    BY <2>1
  <2>2. CASE Of(heap, x, types)
    <3>1. Fits(heap, Met, role, heap[x].type, heap[x].to, role[x])
      BY <2>2 DEF Shape, Of
    <3>2. heap[x].type \in FunDeclarator \/ heap[x].type \in VarDeclarator
      BY <2>2 DEF Of
    <3>3. Of(heap, heap[x].to[1], Name)
      BY <3>1, <3>2 DEF Fits, FunDeclarator
    <3> QED BY <2>2, <3>3 DEF Of, Name
  <2> QED BY <1>1, <1>3, <2>1, <2>2
<1>5. heap[d].type = "decl"
  BY DEF Declares
<1> QED BY <1>1, <1>2, <1>3, <1>4, <1>5 DEF OnlyDeclarator, FunDeclarator

(* So is every parameter of a list.                                        *)
LEMMA ParametersAre ==
  ASSUME IInv, NEW role, Shape(heap, Met, role), NEW list,
         list = NULL \/ (Of(heap, list, ListType) /\ role[list] = "param")
  PROVE  LET ok[cell \in Cells(heap) \cup {NULL}] ==
               cell # NULL =>
                 /\ OnlyDeclarator(heap[cell].to[1], {"DECLTOR_SIMPLE", "DECLTOR_ARRAY"})
                 /\ ok[heap[cell].to[2]]
         IN  ok[list]
<1> DEFINE D == Cells(heap) \cup {NULL}
           Is(c) == OnlyDeclarator(heap[c].to[1], {"DECLTOR_SIMPLE", "DECLTOR_ARRAY"})
           Going(g, c) == c # NULL => Is(c) /\ g[heap[c].to[2]]
           Recursive(g) == g = [cell \in D |-> Going(g, cell)]
           ok == CHOOSE g : Recursive(g)
           F == [z \in D \X [D -> BOOLEAN] |-> z[1] # NULL => Is(z[1]) /\ z[2][heap[z[1]].to[2]]]
<1> SUFFICES ok[list]
  BY Zenon
<1>1. Nodes(heap) /\ DOMAIN heap = 1 .. Len(heap) /\ Len(heap) \in Nat
  <2>1. Nodes(heap)
    BY DEF IInv, Pool
  <2>2. DOMAIN heap = 1 .. Len(heap) /\ Len(heap) \in Nat
    BY HoldsIs
  <2> QED BY <2>1, <2>2
<1>2. PICK own, rank, m : Ranked(heap, Holds, own, rank, m)
  BY DEF IInv, Pool
<1>3. NULL \in D /\ \A c \in D : c # NULL => /\ c \in Cells(heap) /\ c \in 1 .. Len(heap)
                                            /\ heap[c].type \in ListType
  BY <1>1 DEF Cells
<1>4. \A c \in D : c # NULL => heap[c].to[2] \in D
  BY <1>1, <1>3 DEF Nodes
<1>5. \A c \in Cells(heap) : heap[c].to[2] # NULL => rank[heap[c].to[2]] < rank[c]
  <2>1. ASSUME NEW c \in Cells(heap), heap[c].to[2] # NULL
        PROVE  heap[c].to[2] \in Kids(heap, c)
    <3>1. c \in 1 .. Len(heap)
      BY <1>1 DEF Cells
    <3>2. heap[c] \in AnyNode /\ Len(heap[c].to) = 2
      BY <1>1, <3>1 DEF Nodes
    <3>3. heap[c].to \in Seq(Nat)
      BY <3>2 DEF AnyNode
    <3>4. heap[c].to[2] \in Range(heap[c].to)
      BY <3>2, <3>3 DEF Range
    <3> QED BY <2>1, <3>4 DEF Kids
  <2> QED BY <1>1, <1>2, <2>1 DEF Ranked, Cells
<1> DEFINE rank2 == [c \in D |-> IF c = NULL THEN 0 ELSE rank[c] + 1]
<1>6. /\ m + 1 \in Nat /\ rank2 \in [D -> 0 .. m + 1] /\ rank2[NULL] = 0
      /\ \A c \in D : c # NULL => rank2[heap[c].to[2]] < rank2[c]
  <2>1. m \in Nat /\ \A c \in Cells(heap) : rank[c] \in 0 .. m
    BY <1>1, <1>2 DEF Ranked, Cells
  <2>2. \A c \in D : c # NULL => rank2[c] = rank[c] + 1
    OBVIOUS
  <2>3. rank2[NULL] = 0
    OBVIOUS
  <2>4. rank2 \in [D -> 0 .. m + 1]
    BY <1>3, <2>1
  <2> HIDE DEF rank2
  <2>5. ASSUME NEW c \in D, c # NULL
        PROVE  rank2[heap[c].to[2]] < rank2[c]
    <3>1. CASE heap[c].to[2] = NULL
      BY <1>3, <2>1, <2>2, <2>3, <2>5, <3>1
    <3>2. CASE heap[c].to[2] # NULL
      BY <1>3, <1>4, <1>5, <2>1, <2>2, <2>5, <3>2
    <3> QED BY <3>1, <3>2
  <2> QED BY <2>1, <2>3, <2>4, <2>5
<1> HIDE DEF rank2, D, Is
<1>7. \A c \in D, g \in [D -> BOOLEAN] :
        F[<<c, g>>] = (c # NULL => Is(c) /\ g[heap[c].to[2]])
  OBVIOUS
<1>8. F \in [D \X [D -> BOOLEAN] -> BOOLEAN]
  OBVIOUS
<1> HIDE DEF F
<1>9. ByRank(F, D, BOOLEAN, rank2, m + 1)
  <2>1. ASSUME NEW d \in D, NEW g \in [D -> BOOLEAN], NEW k \in [D -> BOOLEAN],
               \A c \in D : rank2[c] < rank2[d] => g[c] = k[c]
        PROVE  F[<<d, g>>] = F[<<d, k>>]
    <3>1. d # NULL => g[heap[d].to[2]] = k[heap[d].to[2]]
      BY <1>4, <1>6, <2>1
    <3> QED BY <1>7, <3>1
  <2>2. BOOLEAN # {}
    OBVIOUS
  <2> QED BY <1>6, <1>8, <2>1, <2>2 DEF ByRank
<1>10. PICK g \in [D -> BOOLEAN] : \A c \in D : g[c] = F[<<c, g>>]
  BY <1>9, RecursionByRank
<1>11. Recursive(g)
  <2>1. g = [c \in D |-> g[c]]
    OBVIOUS
  <2>2. \A c \in D : Going(g, c) = g[c]
    BY <1>7, <1>10
  <2> HIDE DEF Going
  <2> QED BY <2>1, <2>2
<1>12. Recursive(ok)
  <2> HIDE DEF Recursive
  <2> QED BY <1>11, Zenon
<1> HIDE DEF ok
<1>13. \A c \in D : ok[c] = Going(ok, c)
  <2> HIDE DEF Going
  <2> QED BY <1>12
<1> HIDE DEF Recursive
<1> DEFINE T == {c \in D : c = NULL \/ role[c] = "param" => ok[c]}
<1>14. ASSUME NEW c \in D, \A d \in D : rank2[d] < rank2[c] => d \in T
       PROVE  c \in T
  <2>1. CASE c = NULL
    BY <1>13, <2>1
  <2>2. CASE c # NULL /\ role[c] = "param"
    <3>1. PICK d : d = heap[c].to[2]
      OBVIOUS
    <3>2. d \in T
      BY <1>4, <1>6, <1>14, <2>2, <3>1
    <3>3. Fits(heap, Met, role, heap[c].type, heap[c].to, role[c])
      BY <1>3, <2>2 DEF Shape
    <3>4. d = NULL \/ role[d] = "param"
      BY <1>3, <2>2, <3>1, <3>3 DEF Fits
    <3>5. ok[d]
      BY <3>2, <3>4
    <3>6. Is(c)
      <4>1. Declares(heap, role, {}, heap[c].to[1], VarDeclarator)
        BY <1>3, <2>2, <3>3 DEF Fits
      <4>2. OnlyDeclarator(heap[c].to[1], VarDeclarator)
        BY <4>1, DeclaratorIs
      <4> QED BY <4>2 DEF Is, VarDeclarator
    <3> QED BY <1>13, <3>1, <3>5, <3>6
  <2>3. CASE c # NULL /\ role[c] # "param"
    BY <2>3
  <2> QED BY <2>1, <2>2, <2>3
<1> HIDE DEF T
<1>15. D \subseteq T
  <2>1. Passes(T, D, rank2, m + 1)
    BY <1>6, <1>14 DEF Passes
  <2> QED BY <2>1, InductionByRank, Zenon
<1>16. list \in D /\ (list = NULL \/ role[list] = "param")
  BY <1>1, <1>3 DEF D, Of, Cells
<1> QED BY <1>15, <1>16 DEF T

LEMMA FittingFollows == IInv /\ Fit => TreeForBuildIr
<1> SUFFICES ASSUME IInv, Fit
             PROVE  TreeForBuildIr
  OBVIOUS
<1>1. PICK role : Shape(heap, Met, role)
  BY DEF Fit
<1>2. ASSUME NEW p \in DOMAIN heap
      PROVE  /\ heap[p].type = "NODE_FUN" => heap[p].to[1] # NULL \/ reported
             /\ heap[p].type = "fun_def" => OnlyDeclarator(heap[p].to[1], FunDeclarator)
             /\ heap[p].type = "DECLTOR_FUN" =>
                  heap[p].to[2] = NULL
                    \/ (Of(heap, heap[p].to[2], ListType) /\ role[heap[p].to[2]] = "param")
             /\ heap[p].type = "stmt_list" =>
                  IF heap[p].to[1] = NULL THEN reported \/ emptied
                                          ELSE heap[heap[p].to[1]].type \in Statements
             /\ heap[p].type = "STM_EXP" =>
                  IF heap[p].to[1] = NULL THEN reported
                                          ELSE heap[heap[p].to[1]].type \in Expressions
  <2>1. Fits(heap, Met, role, heap[p].type, heap[p].to, role[p])
    <3>1. DOMAIN heap = 1 .. Len(heap)
      BY HoldsIs
    <3> QED BY <1>1, <3>1 DEF Shape
  <2>2. ("error" \in Met => reported) /\ (Met # {} => reported \/ emptied)
    BY DEF Met
  <2>3. heap[p].type = "fun_def" => OnlyDeclarator(heap[p].to[1], FunDeclarator)
    <3>1. heap[p].type = "fun_def" => Declares(heap, role, Met, heap[p].to[1], FunDeclarator)
      BY <2>1 DEF Fits
    <3> QED BY <1>1, <2>2, <3>1, DeclaratorIs
  <2>4. \A x, types : Of(heap, x, types) => x # NULL /\ heap[x].type \in types
    BY DEF Of, NULL
  <2>5. heap[p].type = "stmt_list" =>
          IF heap[p].to[1] = NULL THEN reported \/ emptied
                                  ELSE heap[heap[p].to[1]].type \in Statements
    BY <2>1, <2>2, <2>4 DEF Fits
  <2>6. heap[p].type = "STM_EXP" =>
          IF heap[p].to[1] = NULL THEN reported
                                  ELSE heap[heap[p].to[1]].type \in Expressions
    BY <2>1, <2>2, <2>4 DEF Fits
  <2> QED BY <2>1, <2>2, <2>3, <2>5, <2>6 DEF Fits
<1>3. status = "accepted" /\ program_root = NULL => tokens = 0 /\ heap = << >>
  BY DEF Fit
<1>4. ASSUME NEW p \in DOMAIN heap, heap[p].type = "DECLTOR_FUN"
      PROVE  LET ok[cell \in Cells(heap) \cup {NULL}] ==
                   cell # NULL =>
                     /\ OnlyDeclarator(heap[cell].to[1], {"DECLTOR_SIMPLE", "DECLTOR_ARRAY"})
                     /\ ok[heap[cell].to[2]]
             IN  ok[heap[p].to[2]]
  BY <1>1, <1>2, <1>4, ParametersAre, Zenon
<1> QED BY <1>2, <1>3, <1>4, Zenon DEF TreeForBuildIr, FunDeclarator
-----------------------------------------------------------------------------
(* However long the program and whatever is wrong with it, the parser's    *)
(* states are those of its automaton, its values and the pointers of its   *)
(* nodes are NULL or lead to nodes that exist, and so do what it freed and *)
(* the tree it returned (parser.yy, ast.c).                                *)
THEOREM TypesHold == Spec => []TypeOK
  BY Invariance, TypesFollow, PTL

(* However long the program and however often the parser recovers, every   *)
(* node, list cell and name has one owner until it is freed, and none      *)
(* after that: a semantic action hands each value on once, and no          *)
(* destructor and no free function reaches what another has freed or what  *)
(* stays.  Two things have no owner though they are not freed: the names   *)
(* before erroneous parentheses, and the cells of arguments with another   *)
(* behind them, which append_expr drops (ast.c:506-520) with the arguments *)
(* they alone own; nothing frees them.                                     *)
THEOREM NodesOwnedOnce == Spec => []OwnedOnce
  BY Invariance, OwnersFollow, PTL

(* An error among the statements of a function, wherever it is and however *)
(* many there are, costs no more than the statement: what the parser had   *)
(* read of the function and before it stays on its stack until the closing *)
(* brace (parser.yy:186, the rule stmt: error ';').                        *)
THEOREM ErrorsCostAStatement == Spec => ErrorsKeepTheBody
  BY Invariance, BodyKeeps, PTL DEF Spec, ErrorsKeepTheBody

(* Whatever is read, an else belongs to the nearest if without one: no if  *)
(* that has an else ends, before it, in one that has none (parser.yy:73,   *)
(* the conflict that %expect allows; 177, 178, the rules of if).           *)
THEOREM ElsesBindNearest == Spec => []ElseBindsNearest
  BY Invariance, BindingInvariance, BindingFollows, PTL

(* Of whatever program, right or wrong: a function of the tree has one     *)
(* declarator, with a name, and each parameter is an identifier or an      *)
(* array (ast.c:118-122, ir_generator.c:175-207).  A function, its         *)
(* declarator or a statement's expression is NULL only after an error; a   *)
(* statement in a list is NULL only after an error or the statement `;',   *)
(* on which build_ir crashes (parser.yy:184, ir_generator.c:142), and else *)
(* of a type that process_statement knows; and the tree of an accepted     *)
(* program is NULL only if nothing was read (main.c:11).                   *)
THEOREM TreesForBuildIr == Spec => []TreeForBuildIr
  BY Invariance, FittingInvariance, FittingFollows, PTL
=============================================================================
