--------------------------- MODULE ExprParserProofs ---------------------------
(***************************************************************************)
(* The types of ExprParser and the ownership of its nodes, for all         *)
(* operators and expressions of any length: no destructor frees twice, or  *)
(* frees what a later action uses.                                         *)
(***************************************************************************)
EXTENDS ExprParser, Induction, SequenceTheorems

NodeType ==
  {"EXP_AND", "EXP_OR", "EXP_EQ", "EXP_NEQ", "EXP_LT", "EXP_GT", "EXP_LTE", "EXP_GTE",
   "EXP_PLUS", "EXP_TIMES", "EXP_DIV", "EXP_UNMINUS", "EXP_NEG", "EXP_LITERAL", "EXP_ID",
   "EXP_CALL", "expr_list"}
AnySymbol == [sym : Symbols, val : Nat, tok : Positions]
AnyNode   == [type : NodeType, tok : Positions, kids : Seq(Nat)]

(* Values and pointers are NULL or one of n nodes; NULL in place of an     *)
(* expression stands for an error.                                         *)
SymbolOK(symbol, n, erred) ==
  /\ symbol.val \in 0 .. n
  /\ symbol.sym = "expr" => symbol.val # NULL \/ erred
  /\ symbol.sym = "error" => erred
NodeOK(node, n, erred) ==
  /\ \A c \in Range(node.kids) : c \in 0 .. n
  /\ node.type # "EXP_CALL" /\ node.kids # << >> => node.kids[1] # NULL \/ erred

Typed(h, s, erred) ==
  /\ h \in Seq(AnyNode) /\ s \in Seq(AnySymbol) /\ erred \in BOOLEAN
  /\ \A k \in 1 .. Len(s) : SymbolOK(s[k], Len(h), erred)
  /\ \A p \in 1 .. Len(h) : NodeOK(h[p], Len(h), erred)

(* Names for two symbols: the SMT backend refuses strings without a letter. *)
Comma == ","
Paren == "("

(* What lies below a symbol: what the reductions that pop it count on.     *)
Below(s, k, sym) == k > 1 /\ s[k - 1].sym = sym
Sits(s, k) ==
  /\ s[k].sym \in BinOp => Below(s, k, "expr")
  /\ s[k].sym = "call(" => Below(s, k, "id")
  /\ s[k].sym = "args"  => Below(s, k, "call(")
  /\ s[k].sym = Comma   => Below(s, k, "args")
  /\ s[k].sym = "error" => Below(s, k, "call(")

(* The symbol that each node hangs on, or 0: of the stack's nodes, none    *)
(* points to a later one.  The cells of a list do, but only the last is    *)
(* on the stack.                                                           *)
Owns(own, h, s, f) ==
  /\ own \in [1 .. Len(h) -> 0 .. Len(s)]
  /\ \A k \in 1 .. Len(s) : s[k].val # NULL => s[k].val \in 1 .. Len(h) /\ own[s[k].val] = k
  /\ \A p \in 1 .. Len(h) : own[p] # 0 =>
       \A c \in Range(h[p].kids) : c = NULL \/ (c \in 1 .. p - 1 /\ own[c] = own[p])
  /\ \A p \in f : own[p] = 0

Good(h, s, f, erred) ==
  /\ Typed(h, s, erred) /\ f \subseteq 1 .. Len(h)
  /\ \A k \in 1 .. Len(s) : Sits(s, k)
  /\ \E own : Owns(own, h, s, f)

Lookahead == Token \cup {"none", "end"}
Reading ==
  /\ read \in Seq(Token) /\ Len(read) <= MaxTokens
  /\ la \in Lookahead /\ status \in {"parsing", "accepted", "rejected"}

IInv == Reading /\ Good(heap, stack, freed, recovered)

-----------------------------------------------------------------------------
(* Stacks and nodes                                                        *)

(* t is the lowest m symbols of s with one symbol more.                    *)
Pushed(t, s, m, symbol) ==
  Len(t) = m + 1 /\ t[m + 1] = symbol /\ \A k \in 1 .. m : t[k] = s[k]

LEMMA ReplacePushes ==
  ASSUME stack \in Seq(AnySymbol), NEW n \in 0 .. Len(stack),
         NEW sym \in Symbols, NEW val \in Nat
  PROVE  LET symbol == [sym |-> sym, val |-> val, tok |-> NULL]
         IN  /\ symbol \in AnySymbol
             /\ Replace(n, sym, val) \in Seq(AnySymbol)
             /\ Pushed(Replace(n, sym, val), stack, Len(stack) - n, symbol)
<1> DEFINE symbol == [sym |-> sym, val |-> val, tok |-> NULL]
           m == Len(stack) - n
           low == SubSeq(stack, 1, m)
<1>1. symbol \in AnySymbol
  BY BoundAssumption DEF AnySymbol, Positions, NULL
<1>2. m \in 0 .. Len(stack) /\ Len(stack) \in Nat
  OBVIOUS
<1>3. low \in Seq(AnySymbol) /\ Len(low) = m /\ \A k \in 1 .. m : low[k] = stack[k]
  <2> HIDE DEF m
  <2> QED
    BY <1>2
<1>4. Replace(n, sym, val) = low \o <<symbol>>
  BY DEF Replace
<1> HIDE DEF low, symbol, m
<1>5. low \o <<symbol>> \in Seq(AnySymbol) /\ Pushed(low \o <<symbol>>, stack, m, symbol)
  BY <1>1, <1>2, <1>3 DEF Pushed
<1> QED
  BY <1>1, <1>4, <1>5 DEF m, symbol

LEMMA AppendPushes ==
  ASSUME NEW s \in Seq(AnySymbol), NEW symbol \in AnySymbol
  PROVE  Append(s, symbol) \in Seq(AnySymbol) /\ Pushed(Append(s, symbol), s, Len(s), symbol)
  BY DEF Pushed

(* The stack after a push: what was there sits as it did.                  *)
LEMMA PushedSits ==
  ASSUME NEW s \in Seq(AnySymbol), NEW t, NEW m \in 0 .. Len(s), NEW symbol,
         Pushed(t, s, m, symbol),
         \A k \in 1 .. Len(s) : Sits(s, k), Sits(t, m + 1)
  PROVE  \A k \in 1 .. Len(t) : Sits(t, k)
<1> SUFFICES ASSUME NEW k \in 1 .. m
             PROVE  Sits(t, k)
  BY DEF Pushed
<1>1. k \in 1 .. Len(s) /\ t[k] = s[k] /\ (k > 1 => t[k - 1] = s[k - 1])
  BY DEF Pushed
<1>2. Sits(s, k)
  BY <1>1
<1> QED
  BY <1>1, <1>2 DEF Sits, Below

LEMMA TypedPush ==
  ASSUME NEW h, NEW s, NEW erred \in BOOLEAN, Typed(h, s, erred), NEW m \in 0 .. Len(s),
         NEW h2 \in Seq(AnyNode), Len(h) <= Len(h2), NEW erred2 \in BOOLEAN, erred => erred2,
         \A p \in 1 .. Len(h2) : NodeOK(h2[p], Len(h2), erred2),
         NEW symbol \in AnySymbol, SymbolOK(symbol, Len(h2), erred2),
         NEW t \in Seq(AnySymbol), Pushed(t, s, m, symbol)
  PROVE  Typed(h2, t, erred2)
<1>1. Len(h) \in Nat /\ Len(h2) \in Nat /\ Len(s) \in Nat
  BY DEF Typed
<1>2. ASSUME NEW k \in 1 .. m
      PROVE  SymbolOK(t[k], Len(h2), erred2)
  <2>1. t[k] = s[k] /\ SymbolOK(s[k], Len(h), erred)
    BY DEF Pushed, Typed
  <2> QED
    BY <1>1, <2>1 DEF SymbolOK
<1>3. \A k \in 1 .. Len(t) : SymbolOK(t[k], Len(h2), erred2)
  BY <1>1, <1>2 DEF Pushed
<1> QED
  BY <1>3 DEF Typed
-----------------------------------------------------------------------------
(* Ownership                                                               *)

(* What hung on the symbols popped hangs on the symbol pushed, or, if it   *)
(* hung on the symbol `lost', on none any more; only its nodes may have    *)
(* been changed.                                                           *)
Passed(own, n, m, lost, fresh) ==
  [p \in 1 .. n |->
     IF p = fresh THEN m + 1
     ELSE IF own[p] = lost THEN 0 ELSE IF own[p] <= m THEN own[p] ELSE m + 1]

LEMMA OwnsPush ==
  ASSUME NEW h \in Seq(AnyNode), NEW s \in Seq(AnySymbol), NEW f \in SUBSET (1 .. Len(h)),
         NEW own, Owns(own, h, s, f),
         NEW m \in 0 .. Len(s), NEW t \in Seq(AnySymbol), NEW symbol, Pushed(t, s, m, symbol),
         symbol.val = NULL \/ (symbol.val \in 1 .. Len(h) /\ own[symbol.val] > m)
  PROVE  \E owner : Owns(owner, h, t, f)
<1> DEFINE owner == Passed(own, Len(h), m, 0, 0)
<1>1. /\ Len(h) \in Nat /\ Len(s) \in Nat /\ Len(t) = m + 1 /\ m \in Nat /\ m <= Len(s)
      /\ t[m + 1] = symbol /\ \A k \in 1 .. m : t[k] = s[k]
  BY DEF Pushed
<1>2. \A p \in 1 .. Len(h) : own[p] \in 0 .. Len(s)
  BY DEF Owns
<1>3. \A p \in 1 .. Len(h) :
        owner[p] = IF own[p] = 0 THEN 0 ELSE IF own[p] <= m THEN own[p] ELSE m + 1
  BY DEF Passed
<1>4. owner \in [1 .. Len(h) -> 0 .. Len(t)]
  <2>1. \A p \in 1 .. Len(h) : owner[p] \in 0 .. Len(t)
    BY <1>1, <1>2, <1>3
  <2>2. owner = [p \in 1 .. Len(h) |-> owner[p]]
    BY DEF Passed
  <2> HIDE DEF owner
  <2> QED
    BY <2>1, <2>2
<1> HIDE DEF owner
<1>5. ASSUME NEW k \in 1 .. Len(t), t[k].val # NULL
      PROVE  t[k].val \in 1 .. Len(h) /\ owner[t[k].val] = k
  <2>1. CASE k = m + 1
    <3>1. t[k].val \in 1 .. Len(h) /\ own[t[k].val] > m
      BY <1>1, <1>5, <2>1
    <3>2. PICK v : v = t[k].val
      OBVIOUS
    <3>3. v \in 1 .. Len(h) /\ own[v] > m /\ own[v] \in 0 .. Len(s)
      BY <1>2, <3>1, <3>2
    <3>4. owner[v] = m + 1
      BY <1>1, <1>3, <3>3
    <3> QED
      BY <2>1, <3>2, <3>3, <3>4
  <2>2. CASE k \in 1 .. m
    <3>1. k \in 1 .. Len(s) /\ s[k].val = t[k].val /\ s[k].val # 0
      BY <1>1, <1>5, <2>2 DEF NULL
    <3>2. s[k].val \in 1 .. Len(h) /\ own[s[k].val] = k
      BY <3>1 DEF Owns, NULL
    <3>3. PICK v : v = t[k].val
      OBVIOUS
    <3>4. v \in 1 .. Len(h) /\ own[v] = k
      BY <3>1, <3>2, <3>3
    <3>5. owner[v] = IF own[v] = 0 THEN 0 ELSE IF own[v] <= m THEN own[v] ELSE m + 1
      BY <1>3, <3>4, Zenon
    <3>6. owner[v] = k
      BY <2>2, <3>4, <3>5
    <3> QED
      BY <3>3, <3>4, <3>6
  <2> QED
    BY <1>1, <2>1, <2>2
<1>6. ASSUME NEW p \in 1 .. Len(h), owner[p] # 0, NEW c \in Range(h[p].kids), c # NULL
      PROVE  c \in 1 .. p - 1 /\ owner[c] = owner[p]
  <2>1. own[p] # 0
    BY <1>3, <1>6
  <2>2. c \in 1 .. p - 1 /\ own[c] = own[p]
    BY <1>6, <2>1 DEF Owns
  <2>3. c \in 1 .. Len(h)
    BY <1>1, <2>2
  <2>4. owner[c] = owner[p]
    BY <1>3, <2>2, <2>3
  <2> QED
    BY <2>2, <2>4
<1>7. \A p \in f : owner[p] = 0
  <2>1. ASSUME NEW p \in f
        PROVE  owner[p] = 0
    <3>1. p \in 1 .. Len(h) /\ own[p] = 0
      BY DEF Owns
    <3>2. owner[p] = IF own[p] = 0 THEN 0 ELSE IF own[p] <= m THEN own[p] ELSE m + 1
      BY <1>3, <3>1, Zenon
    <3> QED
      BY <3>1, <3>2
  <2> QED
    BY <2>1
<1>8. Owns(owner, h, t, f)
  <2>1. \A k \in 1 .. Len(t) : t[k].val # NULL => t[k].val \in 1 .. Len(h) /\ owner[t[k].val] = k
    BY <1>5, Zenon
  <2>2. \A p \in 1 .. Len(h) : owner[p] # 0 =>
          \A c \in Range(h[p].kids) : c = NULL \/ (c \in 1 .. p - 1 /\ owner[c] = owner[p])
    BY <1>6, Zenon
  <2> QED
    BY <1>4, <1>7, <2>1, <2>2, Zenon DEF Owns
<1> QED
  BY <1>8

(* A node is made of what is popped; of the nodes before it, those of the  *)
(* symbol `lost' may have changed.                                         *)
Malloced(h2, h, s, own, m, lost) ==
  /\ Len(h2) = Len(h) + 1
  /\ \A p \in 1 .. Len(h) : h2[p] = h[p] \/ (lost # 0 /\ own[p] = lost)
  /\ \A c \in Range(h2[Len(h) + 1].kids) :
       c = NULL \/ (c \in 1 .. Len(h) /\ own[c] > m /\ own[c] # lost)

LEMMA OwnsMalloc ==
  ASSUME NEW h \in Seq(AnyNode), NEW s \in Seq(AnySymbol), NEW f \in SUBSET (1 .. Len(h)),
         NEW own, Owns(own, h, s, f),
         NEW m \in 0 .. Len(s), NEW t \in Seq(AnySymbol), NEW symbol, Pushed(t, s, m, symbol),
         symbol.val = Len(h) + 1,
         NEW lost, lost = 0 \/ lost \in m + 1 .. Len(s),
         NEW h2 \in Seq(AnyNode), Malloced(h2, h, s, own, m, lost)
  PROVE  \E owner : Owns(owner, h2, t, f)
<1>0. PICK n : n = Len(h)
  OBVIOUS
<1>h. /\ Len(h2) = n + 1
      /\ \A p \in 1 .. n : h2[p] = h[p] \/ (lost # 0 /\ own[p] = lost)
      /\ \A c \in Range(h2[n + 1].kids) :
           c = NULL \/ (c \in 1 .. n /\ own[c] > m /\ own[c] # lost)
  BY <1>0 DEF Malloced
<1> DEFINE owner == Passed(own, n + 1, m, lost, n + 1)
<1>1. /\ n \in Nat /\ Len(s) \in Nat /\ Len(t) = m + 1 /\ m \in Nat /\ m <= Len(s)
      /\ t[m + 1] = symbol /\ \A k \in 1 .. m : t[k] = s[k]
  BY <1>0 DEF Pushed
<1>2. \A p \in 1 .. n : own[p] \in 0 .. Len(s)
  BY <1>0 DEF Owns
<1>3. /\ \A p \in 1 .. n :
           owner[p] = IF own[p] = lost THEN 0 ELSE IF own[p] <= m THEN own[p] ELSE m + 1
      /\ owner[n + 1] = m + 1
  <2>1. \A p \in 1 .. n + 1 :
          owner[p] = IF p = n + 1 THEN m + 1
                     ELSE IF own[p] = lost THEN 0 ELSE IF own[p] <= m THEN own[p] ELSE m + 1
    BY DEF Passed
  <2> HIDE DEF owner
  <2> QED
    BY <1>1, <2>1
<1>4. owner \in [1 .. n + 1 -> 0 .. Len(t)]
  <2>1. ASSUME NEW p \in 1 .. n + 1
        PROVE  owner[p] \in 0 .. Len(t)
    <3> HIDE DEF owner
    <3>1. CASE p \in 1 .. n
      <4>1. owner[p] = IF own[p] = lost THEN 0 ELSE IF own[p] <= m THEN own[p] ELSE m + 1
        BY <1>3, <3>1
      <4>2. own[p] \in 0 .. Len(s)
        BY <1>2, <3>1
      <4> QED
        BY <1>1, <4>1, <4>2
    <3>2. CASE p = n + 1
      BY <1>1, <1>3, <3>2
    <3> QED
      BY <1>1, <3>1, <3>2
  <2>2. owner = [p \in 1 .. n + 1 |-> owner[p]]
    BY DEF Passed
  <2> HIDE DEF owner
  <2> QED
    BY <2>1, <2>2
<1> HIDE DEF owner
<1>5. ASSUME NEW k \in 1 .. Len(t), t[k].val # NULL
      PROVE  t[k].val \in 1 .. n + 1 /\ owner[t[k].val] = k
  <2>1. CASE k = m + 1
    BY <1>0, <1>1, <1>3, <2>1
  <2>2. CASE k \in 1 .. m
    <3>0. t[k] = s[k] /\ k <= m /\ (lost = 0 \/ lost > m) /\ k # 0
      <4>1. k <= m /\ k # 0
        BY <2>2
      <4>2. lost = 0 \/ lost > m
        BY <1>1
      <4>3. t[k] = s[k]
        BY <1>1, <2>2, Zenon
      <4> QED
        BY <4>1, <4>2, <4>3, Zenon
    <3>1. k \in 1 .. Len(s) /\ s[k].val = t[k].val /\ k # lost
      BY <1>1, <2>2, <3>0
    <3>2. s[k].val \in 1 .. n /\ own[s[k].val] = k
      BY <1>0, <1>5, <3>1 DEF Owns
    <3> QED
      BY <1>1, <1>3, <2>2, <3>1, <3>2
  <2> QED
    BY <1>1, <2>1, <2>2
<1>6. ASSUME NEW p \in 1 .. n + 1, owner[p] # 0, NEW c \in Range(h2[p].kids), c # NULL
      PROVE  c \in 1 .. p - 1 /\ owner[c] = owner[p]
  <2>1. CASE p = n + 1
    <3>1. c \in 1 .. n /\ own[c] > m /\ own[c] # lost
      BY <1>h, <1>6, <2>1
    <3>2. own[c] \in 0 .. Len(s)
      BY <1>2, <3>1
    <3>3. owner[c] = m + 1
      BY <1>1, <1>3, <3>1, <3>2
    <3> QED
      BY <1>1, <1>3, <2>1, <3>1, <3>3
  <2>2. CASE p \in 1 .. n
    <3>1. own[p] # lost /\ own[p] # 0
      BY <1>1, <1>2, <1>3, <1>6, <2>2
    <3>2. c \in Range(h[p].kids)
      BY <1>h, <1>6, <2>2, <3>1
    <3>3. c \in 1 .. p - 1 /\ own[c] = own[p]
      BY <1>0, <1>6, <2>2, <3>1, <3>2 DEF Owns
    <3>4. c \in 1 .. n
      BY <1>1, <2>2, <3>3
    <3>5. owner[c] = owner[p]
      BY <1>3, <2>2, <3>3, <3>4
    <3> QED
      BY <3>3, <3>5
  <2> QED
    BY <1>1, <2>1, <2>2
<1>7. \A p \in f : owner[p] = 0
  <2>1. ASSUME NEW p \in f
        PROVE  owner[p] = 0
    <3>1. p \in 1 .. n /\ own[p] = 0
      BY <1>0 DEF Owns
    <3>2. owner[p] = IF 0 = lost THEN 0 ELSE IF 0 <= m THEN 0 ELSE m + 1
      BY <1>3, <3>1
    <3> QED
      BY <1>1, <3>2
  <2> QED
    BY <2>1
<1>8. owner \in [1 .. Len(h2) -> 0 .. Len(t)]
  BY <1>h, <1>4
<1>9. \A p \in 1 .. Len(h2) : owner[p] # 0 =>
        \A c \in Range(h2[p].kids) : c = NULL \/ (c \in 1 .. p - 1 /\ owner[c] = owner[p])
  BY <1>h, <1>6
<1>10. \A k \in 1 .. Len(t) :
         t[k].val # NULL => t[k].val \in 1 .. Len(h2) /\ owner[t[k].val] = k
  BY <1>h, <1>5
<1> QED
  BY <1>7, <1>8, <1>9, <1>10 DEF Owns

(* What hangs on the k-th symbol, as Hanging finds it, is its own.         *)
LEMMA HangingIsOwned ==
  ASSUME heap \in Seq(AnyNode), NEW s \in Seq(AnySymbol), NEW f,
         \A p \in 1 .. Len(heap) : \A c \in Range(heap[p].kids) : c \in 0 .. Len(heap),
         NEW own, Owns(own, heap, s, f), NEW k \in 1 .. Len(s)
  PROVE  /\ s[k].val \in 0 .. Len(heap)
         /\ Hanging(s[k].val) \subseteq {p \in 1 .. Len(heap) : own[p] = k}
<1>0. PICK n : n = Len(heap)
  OBVIOUS
<1> DEFINE next == [p \in 1 .. n |-> Range(heap[p].kids)]
           Recursive(f1) ==
             f1 = [p \in 0 .. Len(heap) |->
                     IF p = NULL THEN {} ELSE {p} \cup UNION {f1[q] : q \in Range(heap[p].kids)}]
           below == CHOOSE f1 : Recursive(f1)
           S == {p \in 1 .. n : own[p] = k}
           rank == [p \in S |-> p]
<1>1. Hanging(s[k].val) = below[s[k].val]
  BY Zenon DEF Hanging
<1>2. n \in Nat /\ \A p \in 1 .. n : next[p] = Range(heap[p].kids) /\ next[p] \subseteq 0 .. n
  BY <1>0
<1>3. ASSUME NEW f1
      PROVE  Recursive(f1) <=> HangsBelow(f1, next, n)
  <2>1. [p \in 0 .. n |-> IF p = 0 THEN {} ELSE {p} \cup UNION {f1[q] : q \in next[p]}]
          = [p \in 0 .. n |->
               IF p = 0 THEN {} ELSE {p} \cup UNION {f1[q] : q \in Range(heap[p].kids)}]
    <3>1. ASSUME NEW p \in 0 .. n
          PROVE  (IF p = 0 THEN {} ELSE {p} \cup UNION {f1[q] : q \in next[p]})
                   = (IF p = 0 THEN {} ELSE {p} \cup UNION {f1[q] : q \in Range(heap[p].kids)})
      <4>1. p # 0 => p \in 1 .. n
        BY <1>2
      <4> HIDE DEF next
      <4> QED
        BY <1>2, <4>1
    <3> QED
      BY <3>1
  <2> QED
    BY <1>0, <2>1 DEF HangsBelow, NULL
<1> HIDE DEF next
<1>4. \E f1 : Recursive(f1)
  <2> HIDE DEF Recursive
  <2>1. \E f1 : HangsBelow(f1, next, n)
    BY <1>2, HangingExists
  <2> QED
    BY <1>3, <2>1, Zenon
<1>5. Recursive(below)
  <2> HIDE DEF Recursive
  <2> QED
    BY <1>4, Zenon
<1>6. HangsBelow(below, next, n)
  <2> HIDE DEF Recursive, below
  <2> QED
    BY <1>3, <1>5
<1> HIDE DEF below, Recursive
<1>7. rank \in [S -> 0 .. n]
  BY <1>2
<1>8. \A p \in S : \A c \in next[p] : c = 0 \/ (c \in S /\ rank[c] < rank[p])
  <2>1. ASSUME NEW p \in S, NEW c \in next[p], c # 0
        PROVE  c \in S /\ rank[c] < rank[p]
    <3>1. p \in 1 .. n /\ own[p] = k /\ own[p] # 0 /\ c \in Range(heap[p].kids)
      BY <1>2, <2>1
    <3>2. c \in 1 .. p - 1 /\ own[c] = own[p]
      BY <1>0, <2>1, <3>1 DEF Owns, NULL
    <3>3. c \in 1 .. n /\ c < p
      BY <1>2, <3>1, <3>2
    <3>4. c \in S /\ p \in S
      BY <3>1, <3>2, <3>3
    <3>5. rank[c] = c /\ rank[p] = p
      <4> HIDE DEF S
      <4> QED
        BY <3>4
    <3> HIDE DEF rank
    <3> QED
      BY <3>3, <3>4, <3>5
  <2> QED
    BY <2>1
<1>9. S \in SUBSET (1 .. n)
  OBVIOUS
<1>10. \A p \in S : below[p] \subseteq S
  <2> HIDE DEF S, rank
  <2>1. n \in Nat
    BY <1>2
  <2> QED
    BY <2>1, <1>6, <1>7, <1>8, <1>9, HangingStays
<1>11. CASE s[k].val = 0
  <2>1. below[0] = {}
    BY <1>6, <1>2 DEF HangsBelow
  <2> QED
    BY <1>0, <1>1, <1>2, <1>11, <2>1
<1>12. CASE s[k].val # 0
  <2>1. s[k].val \in S
    BY <1>0, <1>12 DEF Owns, NULL
  <2> QED
    BY <1>0, <1>1, <1>10, <2>1
<1> QED
  BY <1>11, <1>12
-----------------------------------------------------------------------------
(* What the parser does to its stack and the heap                          *)

LEMMA GoodPush ==
  ASSUME NEW h, NEW s, NEW f, NEW erred \in BOOLEAN, Good(h, s, f, erred),
         NEW m \in 0 .. Len(s), NEW erred2 \in BOOLEAN, erred => erred2,
         NEW symbol \in AnySymbol, SymbolOK(symbol, Len(h), erred2),
         NEW t \in Seq(AnySymbol), Pushed(t, s, m, symbol), Sits(t, m + 1),
         symbol.val = NULL \/ \E k \in m + 1 .. Len(s) : symbol.val = s[k].val
  PROVE  Good(h, t, f, erred2)
<1>1. /\ Typed(h, s, erred) /\ f \subseteq 1 .. Len(h) /\ h \in Seq(AnyNode)
      /\ s \in Seq(AnySymbol) /\ \A k \in 1 .. Len(s) : Sits(s, k)
  BY DEF Good, Typed
<1>2. PICK own : Owns(own, h, s, f)
  BY DEF Good
<1>3. \A p \in 1 .. Len(h) : NodeOK(h[p], Len(h), erred2)
  BY <1>1 DEF Typed, NodeOK
<1>4. Typed(h, t, erred2)
  <2>1. Len(h) <= Len(h)
    BY <1>1
  <2> QED
    BY <1>1, <1>3, <2>1, TypedPush
<1>5. \A k \in 1 .. Len(t) : Sits(t, k)
  BY <1>1, PushedSits
<1>6. symbol.val = NULL \/ (symbol.val \in 1 .. Len(h) /\ own[symbol.val] > m)
  <2>1. ASSUME NEW k \in m + 1 .. Len(s), symbol.val = s[k].val, symbol.val # NULL
        PROVE  symbol.val \in 1 .. Len(h) /\ own[symbol.val] > m
    <3>1. k \in 1 .. Len(s) /\ k > m
      BY <1>1
    <3>2. s[k].val \in 1 .. Len(h) /\ own[s[k].val] = k
      BY <1>2, <2>1, <3>1 DEF Owns
    <3> QED
      BY <2>1, <3>1, <3>2
  <2> QED
    BY <2>1
<1>7. \E owner : Owns(owner, h, t, f)
  <2>1. f \in SUBSET (1 .. Len(h))
    BY <1>1
  <2> QED
    BY <1>1, <1>2, <1>6, <2>1, OwnsPush
<1> QED
  BY <1>1, <1>4, <1>5, <1>7 DEF Good

(* The heap h2 has one node more, made of values that are popped; the node *)
(* on the symbol `lost', which is not used, may have been changed.         *)
Grown(h2, h, s, m, lost, erred) ==
  /\ Len(h2) = Len(h) + 1
  /\ \A p \in 1 .. Len(h) :
       h2[p] = h[p] \/ (lost # 0 /\ p = s[lost].val /\ NodeOK(h2[p], Len(h) + 1, erred))
  /\ NodeOK(h2[Len(h) + 1], Len(h) + 1, erred)
  /\ \A c \in Range(h2[Len(h) + 1].kids) :
       c = NULL \/ \E k \in m + 1 .. Len(s) : c = s[k].val /\ k # lost

LEMMA GoodMalloc ==
  ASSUME NEW h, NEW s, NEW f, NEW erred \in BOOLEAN, Good(h, s, f, erred),
         NEW m \in 0 .. Len(s), NEW symbol \in AnySymbol, symbol.val = Len(h) + 1,
         symbol.sym # "error",
         NEW t \in Seq(AnySymbol), Pushed(t, s, m, symbol), Sits(t, m + 1),
         NEW lost, lost = 0 \/ lost \in m + 1 .. Len(s),
         NEW h2 \in Seq(AnyNode), Grown(h2, h, s, m, lost, erred)
  PROVE  Good(h2, t, f, erred)
<1>0. /\ Len(h2) = Len(h) + 1
      /\ \A p \in 1 .. Len(h) :
           h2[p] = h[p] \/ (lost # 0 /\ p = s[lost].val /\ NodeOK(h2[p], Len(h) + 1, erred))
      /\ NodeOK(h2[Len(h) + 1], Len(h) + 1, erred)
      /\ \A c \in Range(h2[Len(h) + 1].kids) :
           c = NULL \/ \E k \in m + 1 .. Len(s) : c = s[k].val /\ k # lost
  BY DEF Grown
<1>1. /\ Typed(h, s, erred) /\ f \subseteq 1 .. Len(h) /\ h \in Seq(AnyNode)
      /\ s \in Seq(AnySymbol) /\ \A k \in 1 .. Len(s) : Sits(s, k)
  BY DEF Good, Typed
<1>2. PICK own : Owns(own, h, s, f)
  BY DEF Good
<1>3. Len(h) \in Nat /\ Len(h) <= Len(h2) /\ Len(s) \in Nat
  BY <1>0, <1>1
<1>4. \A p \in 1 .. Len(h2) : NodeOK(h2[p], Len(h2), erred)
  <2>1. ASSUME NEW p \in 1 .. Len(h), h2[p] = h[p]
        PROVE  NodeOK(h2[p], Len(h) + 1, erred)
    <3>1. NodeOK(h[p], Len(h), erred)
      BY <1>1 DEF Typed
    <3> QED
      BY <1>3, <2>1, <3>1 DEF NodeOK
  <2>2. \A p \in 1 .. Len(h) : NodeOK(h2[p], Len(h) + 1, erred)
    BY <1>0, <2>1
  <2> QED
    BY <1>0, <1>3, <2>2
<1>5. Typed(h2, t, erred)
  <2>1. SymbolOK(symbol, Len(h2), erred)
    BY <1>0, <1>3 DEF SymbolOK, NULL
  <2>2. erred => erred
    OBVIOUS
  <2> QED
    BY <1>1, <1>3, <1>4, <2>1, <2>2, TypedPush
<1>6. \A k \in 1 .. Len(t) : Sits(t, k)
  BY <1>1, PushedSits
<1>7. ASSUME NEW k \in m + 1 .. Len(s), s[k].val # NULL
      PROVE  s[k].val \in 1 .. Len(h) /\ own[s[k].val] = k /\ k > m
  <2>1. k \in 1 .. Len(s) /\ k > m
    BY <1>3
  <2> QED
    BY <1>2, <1>7, <2>1 DEF Owns
<1>8. ASSUME NEW p \in 1 .. Len(h)
      PROVE  h2[p] = h[p] \/ (lost # 0 /\ own[p] = lost)
  <2>1. CASE lost # 0 /\ p = s[lost].val
    <3>1. s[lost].val # NULL /\ lost \in m + 1 .. Len(s)
      BY <2>1, <1>3 DEF NULL
    <3> QED
      BY <2>1, <3>1, <1>7
  <2> QED
    BY <1>0, <2>1
<1>9. ASSUME NEW c \in Range(h2[Len(h) + 1].kids), c # NULL
      PROVE  c \in 1 .. Len(h) /\ own[c] > m /\ own[c] # lost
  <2>1. PICK k \in m + 1 .. Len(s) : c = s[k].val /\ k # lost
    BY <1>0, <1>9
  <2> QED
    BY <1>9, <2>1, <1>7
<1>10. \E owner : Owns(owner, h2, t, f)
  <2>1. f \in SUBSET (1 .. Len(h))
    BY <1>1
  <2>2. Malloced(h2, h, s, own, m, lost)
    BY <1>0, <1>8, <1>9 DEF Malloced
  <2> QED
    BY <1>1, <1>2, <2>1, <2>2, OwnsMalloc
<1>11. f \subseteq 1 .. Len(h2)
  BY <1>0, <1>1, <1>3
<1> QED
  BY <1>5, <1>6, <1>10, <1>11 DEF Good

(* What the destructors free is what hangs on the symbols popped, and no   *)
(* other symbol has to do with it.                                         *)
LEMMA GoodCut ==
  ASSUME Good(heap, stack, freed, recovered), NEW m \in 0 .. Len(stack)
  PROVE  /\ Good(heap, SubSeq(stack, 1, m),
                 freed \cup Destroyed(SubSeq(stack, m + 1, Len(stack))), recovered)
         /\ Len(SubSeq(stack, 1, m)) = m
         /\ \A k \in 1 .. m : SubSeq(stack, 1, m)[k] = stack[k]
<1>1. /\ Typed(heap, stack, recovered) /\ freed \subseteq 1 .. Len(heap)
      /\ heap \in Seq(AnyNode) /\ stack \in Seq(AnySymbol)
      /\ \A k \in 1 .. Len(stack) : Sits(stack, k)
  BY DEF Good, Typed
<1>2. PICK own : Owns(own, heap, stack, freed)
  BY DEF Good
<1>3. Len(stack) \in Nat /\ Len(heap) \in Nat
  BY <1>1
<1> DEFINE t == SubSeq(stack, 1, m)
           popped == SubSeq(stack, m + 1, Len(stack))
           gone == freed \cup Destroyed(popped)
           owner == [p \in 1 .. Len(heap) |-> IF own[p] <= m THEN own[p] ELSE 0]
<1>4. t \in Seq(AnySymbol) /\ Len(t) = m /\ \A k \in 1 .. m : t[k] = stack[k]
  BY <1>1, <1>3
<1>5. /\ DOMAIN popped = 1 .. Len(stack) - m
      /\ \A k \in 1 .. Len(stack) - m : popped[k] = stack[m + k]
  BY <1>1, <1>3
<1>6. \A p \in 1 .. Len(heap) : \A c \in Range(heap[p].kids) : c \in 0 .. Len(heap)
  BY <1>1 DEF Typed, NodeOK
<1>7. ASSUME NEW p \in Destroyed(popped)
      PROVE  p \in 1 .. Len(heap) /\ own[p] > m
  <2>1. PICK k \in 1 .. Len(stack) - m : p \in Hanging(popped[k].val)
    <3> HIDE DEF popped
    <3> QED
      BY <1>5, <1>7 DEF Destroyed
  <2>2. m + k \in 1 .. Len(stack) /\ m + k > m
    BY <1>3
  <2>3. p \in Hanging(stack[m + k].val)
    BY <1>5, <2>1
  <2>4. PICK j : j = m + k
    OBVIOUS
  <2>5. Hanging(stack[j].val) \subseteq {q \in 1 .. Len(heap) : own[q] = j}
    BY <1>1, <1>2, <1>6, <2>2, <2>4, HangingIsOwned
  <2> QED
    BY <2>2, <2>3, <2>4, <2>5
<1>8. gone \subseteq 1 .. Len(heap)
  BY <1>1, <1>7
<1>9. \A p \in 1 .. Len(heap) : own[p] \in 0 .. Len(stack)
  BY <1>2 DEF Owns
<1>10. \A p \in 1 .. Len(heap) : owner[p] = IF own[p] <= m THEN own[p] ELSE 0
  OBVIOUS
<1>11. owner \in [1 .. Len(heap) -> 0 .. Len(t)]
  <2>1. \A p \in 1 .. Len(heap) : (IF own[p] <= m THEN own[p] ELSE 0) \in 0 .. m
    BY <1>9
  <2> QED
    BY <1>4, <2>1
<1>12. ASSUME NEW k \in 1 .. Len(t), t[k].val # NULL
       PROVE  t[k].val \in 1 .. Len(heap) /\ owner[t[k].val] = k
  <2>1. k \in 1 .. Len(stack) /\ k <= m /\ t[k].val = stack[k].val
    BY <1>3, <1>4
  <2>2. stack[k].val \in 1 .. Len(heap) /\ own[stack[k].val] = k
    BY <1>2, <1>12, <2>1 DEF Owns
  <2> HIDE DEF owner, t
  <2> QED
    BY <1>10, <2>1, <2>2
<1>13. ASSUME NEW p \in 1 .. Len(heap), owner[p] # 0, NEW c \in Range(heap[p].kids), c # NULL
       PROVE  c \in 1 .. p - 1 /\ owner[c] = owner[p]
  <2> HIDE DEF owner
  <2>1. own[p] # 0
    BY <1>10, <1>13
  <2>2. c \in 1 .. p - 1 /\ own[c] = own[p]
    BY <1>2, <1>13, <2>1 DEF Owns
  <2>3. c \in 1 .. Len(heap)
    BY <1>3, <2>2
  <2> QED
    BY <1>10, <2>2, <2>3
<1>14. ASSUME NEW p \in gone
       PROVE  owner[p] = 0
  <2> HIDE DEF owner
  <2>1. CASE p \in freed
    <3>1. p \in 1 .. Len(heap) /\ own[p] = 0
      BY <1>1, <1>2, <2>1 DEF Owns
    <3> QED
      BY <1>10, <3>1
  <2>2. CASE p \in Destroyed(popped)
    <3>1. p \in 1 .. Len(heap) /\ own[p] > m /\ own[p] \in 0 .. Len(stack)
      BY <1>7, <1>9, <2>2
    <3> QED
      BY <1>3, <1>10, <3>1
  <2> QED
    BY <2>1, <2>2
<1>15. Owns(owner, heap, t, gone)
  <2> HIDE DEF owner, t, gone
  <2> QED
    BY <1>11, <1>12, <1>13, <1>14 DEF Owns
<1>16. Typed(heap, t, recovered)
  <2>1. \A k \in 1 .. Len(t) : SymbolOK(t[k], Len(heap), recovered)
    <3> HIDE DEF t
    <3> QED
      BY <1>1, <1>3, <1>4 DEF Typed
  <2> QED
    BY <1>1, <1>4, <2>1 DEF Typed
<1>17. ASSUME NEW k \in 1 .. Len(t)
       PROVE  Sits(t, k)
  <2> HIDE DEF t
  <2>1. k \in 1 .. Len(stack) /\ t[k] = stack[k] /\ (k > 1 => t[k - 1] = stack[k - 1])
    BY <1>3, <1>4
  <2>2. Sits(stack, k)
    BY <1>1, <2>1
  <2> QED
    BY <2>1, <2>2 DEF Sits, Below
<1> HIDE DEF owner
<1> QED
  BY <1>4, <1>8, <1>15, <1>16, <1>17 DEF Good
-----------------------------------------------------------------------------
(* The top of the stack, as the actions speak of it                        *)

LEMMA OperatorFacts ==
  /\ BinOp \cap {"bottom", "expr", "args", "error", "neg", "not", Paren, "call(", Comma, "id"} = {}
  /\ \A op \in BinOp : BinType(op) \in NodeType /\ BinType(op) # "EXP_CALL"
  /\ \A op : UnType(op) \in NodeType /\ UnType(op) # "EXP_CALL"
<1> DEFINE Ops == {"||", "&&", "==", "!=", "<", ">", "<=", ">=", "+", "-", "*", "/"}
<1>1. BinOp \subseteq Ops
  BY OperatorAssumption
<1>2. Ops \cap {"bottom", "expr", "args", "error", "neg", "not", "(", "call(", ",", "id"} = {}
  BY Zenon
<1>3. \A op \in Ops : BinType(op) \in NodeType /\ BinType(op) # "EXP_CALL"
  <2> SUFFICES ASSUME NEW op \in Ops
               PROVE  BinType(op) \in NodeType /\ BinType(op) # "EXP_CALL"
    OBVIOUS
  <2>1. BinType(op) \in {"EXP_AND", "EXP_OR", "EXP_EQ", "EXP_NEQ", "EXP_LT", "EXP_GT",
                         "EXP_LTE", "EXP_GTE", "EXP_PLUS", "EXP_TIMES", "EXP_DIV"}
    BY DEF BinType
  <2> QED
    BY <2>1 DEF NodeType
<1>4. \A op : UnType(op) \in NodeType /\ UnType(op) # "EXP_CALL"
  <2>1. \A op : UnType(op) \in {"EXP_UNMINUS", "EXP_NEG"}
    BY DEF UnType
  <2> QED
    BY <2>1 DEF NodeType
<1>5. BinOp \cap {"bottom", "expr", "args", "error", "neg", "not", "(", "call(", ",", "id"} = {}
  <2> HIDE DEF Ops
  <2> QED
    BY <1>1, <1>2, Zenon
<1>6. \A op \in BinOp : BinType(op) \in NodeType /\ BinType(op) # "EXP_CALL"
  <2> HIDE DEF Ops
  <2> QED
    BY <1>1, <1>3
<1> QED
  BY <1>4, <1>5, <1>6, Zenon DEF Comma, Paren

LEMMA TopsAre ==
  ASSUME Good(heap, stack, freed, recovered)
  PROVE  /\ Len(stack) \in Nat /\ Len(heap) \in Nat /\ recovered \in BOOLEAN
         /\ heap \in Seq(AnyNode) /\ stack \in Seq(AnySymbol)
         /\ \A k \in 1 .. Len(stack) :
              /\ Len(stack) + 1 - k \in 1 .. Len(stack)
              /\ Sym(k) = stack[Len(stack) + 1 - k].sym /\ Sym(k) \in Symbols
              /\ Val(k) \in 0 .. Len(heap) /\ Tok(k) \in Positions
              /\ Sym(k) = "expr" => Val(k) # NULL \/ recovered
              /\ Sym(k) = "error" => recovered
<1>1. /\ heap \in Seq(AnyNode) /\ stack \in Seq(AnySymbol) /\ recovered \in BOOLEAN
      /\ Len(stack) \in Nat /\ Len(heap) \in Nat
  BY DEF Good, Typed
<1>2. ASSUME NEW k \in 1 .. Len(stack)
      PROVE  /\ Len(stack) + 1 - k \in 1 .. Len(stack)
             /\ Sym(k) = stack[Len(stack) + 1 - k].sym /\ Sym(k) \in Symbols
             /\ Val(k) \in 0 .. Len(heap) /\ Tok(k) \in Positions
             /\ Sym(k) = "expr" => Val(k) # NULL \/ recovered
             /\ Sym(k) = "error" => recovered
  <2>1. PICK j : j = Len(stack) + 1 - k
    OBVIOUS
  <2>2. j \in 1 .. Len(stack) /\ k <= Len(stack)
    BY <1>1, <2>1
  <2>3. stack[j] \in AnySymbol /\ SymbolOK(stack[j], Len(heap), recovered)
    BY <1>1, <2>2 DEF Good, Typed
  <2>4. Sym(k) = stack[j].sym /\ Val(k) = stack[j].val /\ Tok(k) = stack[j].tok
    BY <2>1, <2>2 DEF Sym, Val, Tok
  <2> QED
    BY <2>1, <2>2, <2>3, <2>4 DEF AnySymbol, SymbolOK
<1> QED
  BY <1>1, <1>2

LEMMA TopsSit ==
  ASSUME Good(heap, stack, freed, recovered), NEW k \in Nat \ {0}, Sym(k) # "bottom"
  PROVE  /\ k \in 1 .. Len(stack)
         /\ Sym(k) \in BinOp  => k < Len(stack) /\ Sym(k + 1) = "expr"
         /\ Sym(k) = "call("  => k < Len(stack) /\ Sym(k + 1) = "id"
         /\ Sym(k) = "args"   => k < Len(stack) /\ Sym(k + 1) = "call("
         /\ Sym(k) = Comma    => k < Len(stack) /\ Sym(k + 1) = "args"
         /\ Sym(k) = "error"  => k < Len(stack) /\ Sym(k + 1) = "call("
<1>1. Len(stack) \in Nat
  BY TopsAre
<1>2. k <= Len(stack)
  BY DEF Sym
<1>3. PICK j : j = Len(stack) + 1 - k
  OBVIOUS
<1>4. j \in 1 .. Len(stack)
  BY <1>1, <1>2, <1>3
<1>5. Sits(stack, j)
  BY <1>4 DEF Good
<1>6. Sym(k) = stack[j].sym
  BY <1>2, <1>3 DEF Sym
<1>7. ASSUME NEW s, s # "bottom", Below(stack, j, s)
      PROVE  k < Len(stack) /\ Sym(k + 1) = s
  <2>1. j > 1 /\ stack[j - 1].sym = s
    BY <1>7 DEF Below
  <2>2. k < Len(stack) /\ k + 1 <= Len(stack) /\ Len(stack) + 1 - (k + 1) = j - 1
    BY <1>1, <1>3, <1>4, <2>1
  <2> QED
    BY <2>1, <2>2 DEF Sym
<1>8. /\ Sym(k) \in BinOp  => Below(stack, j, "expr")
      /\ Sym(k) = "call(" => Below(stack, j, "id")
      /\ Sym(k) = "args"  => Below(stack, j, "call(")
      /\ Sym(k) = Comma   => Below(stack, j, "args")
      /\ Sym(k) = "error" => Below(stack, j, "call(")
  BY <1>5, <1>6 DEF Sits
<1>9. k \in 1 .. Len(stack)
  BY <1>1, <1>2
<1> QED
  BY <1>7, <1>8, <1>9

(* Actions that push a symbol for a token, that hand a value on, and that  *)
(* make a node of values.                                                  *)
LEMMA ShiftGood ==
  ASSUME Good(heap, stack, freed, recovered), Len(read) \in Positions,
         NEW mark \in Symbols \ {"expr", "args", "error"},
         mark \in BinOp => Sym(1) = "expr",
         mark = "call(" => Sym(1) = "id",
         mark = Comma => Sym(1) = "args"
  PROVE  Good(heap, Append(stack, Symbol(mark)), freed, recovered)
<1>1. Symbol(mark) \in AnySymbol /\ Symbol(mark).val = NULL /\ Symbol(mark).sym = mark
  BY DEF Symbol, AnySymbol, NULL
<1>2. /\ heap \in Seq(AnyNode) /\ stack \in Seq(AnySymbol) /\ recovered \in BOOLEAN
      /\ Len(stack) \in Nat /\ Len(heap) \in Nat
  BY TopsAre
<1>3. PICK t : t = Append(stack, Symbol(mark))
  OBVIOUS
<1>4. t \in Seq(AnySymbol) /\ Pushed(t, stack, Len(stack), Symbol(mark))
  BY <1>1, <1>2, <1>3, AppendPushes
<1>5. SymbolOK(Symbol(mark), Len(heap), recovered)
  <2>1. mark # "expr" /\ mark # "error" /\ 0 \in 0 .. Len(heap)
    BY <1>2
  <2> QED
    BY <1>1, <2>1 DEF SymbolOK, NULL
<1>6. ASSUME NEW s, s # "bottom", Sym(1) = s
      PROVE  Below(t, Len(stack) + 1, s)
  <2>1. 1 <= Len(stack) /\ stack[Len(stack) + 1 - 1].sym = s
    BY <1>6 DEF Sym
  <2>2. PICK n : n = Len(stack)
    OBVIOUS
  <2>3. n \in 1 .. n /\ n + 1 > 1 /\ n + 1 - 1 = n /\ stack[n].sym = s
    BY <1>2, <2>1, <2>2
  <2>4. t[n] = stack[n]
    BY <1>4, <2>2, <2>3 DEF Pushed
  <2> QED
    BY <2>2, <2>3, <2>4 DEF Below
<1>7. Sits(t, Len(stack) + 1)
  <2>1. t[Len(stack) + 1].sym = mark
    BY <1>1, <1>4 DEF Pushed
  <2> QED
    BY <1>6, <2>1 DEF Sits
<1>8. (recovered => recovered) /\ Len(stack) \in 0 .. Len(stack)
  BY <1>2
<1> QED
  BY <1>1, <1>2, <1>3, <1>4, <1>5, <1>7, <1>8, GoodPush
(* n symbols are replaced by one: what sits on what is left.               *)
LEMMA ReplaceSits ==
  ASSUME Good(heap, stack, freed, recovered), NEW n \in 0 .. Len(stack), NEW t, NEW symbol,
         Pushed(t, stack, Len(stack) - n, symbol),
         symbol.sym \in {"expr", "args"}, symbol.sym = "args" => Sym(n + 1) = "call("
  PROVE  Sits(t, Len(stack) - n + 1)
<1>1. Len(stack) \in Nat
  BY TopsAre
<1>2. PICK m : m = Len(stack) - n
  OBVIOUS
<1>3. m \in 0 .. Len(stack) /\ t[m + 1] = symbol /\ \A k \in 1 .. m : t[k] = stack[k]
  BY <1>1, <1>2 DEF Pushed
<1>4. symbol.sym \notin BinOp \cup {"call(", Comma, "error"}
  <2>1. Comma # "expr" /\ Comma # "args"
    BY Zenon DEF Comma
  <2>2. "expr" \notin BinOp /\ "args" \notin BinOp
    <3> HIDE DEF Comma, Paren
    <3> QED
      BY OperatorFacts
  <2> QED
    BY <2>1, <2>2
<1>5. ASSUME symbol.sym = "args"
      PROVE  Below(t, m + 1, "call(")
  <2>1. n + 1 <= Len(stack) /\ stack[Len(stack) + 1 - (n + 1)].sym = "call("
    BY <1>5 DEF Sym
  <2>2. m \in 1 .. m /\ m + 1 > 1 /\ m + 1 - 1 = m /\ Len(stack) + 1 - (n + 1) = m
    BY <1>1, <1>2, <2>1
  <2>3. t[m] = stack[m]
    BY <1>3, <2>2
  <2> QED
    BY <2>1, <2>2, <2>3 DEF Below
<1>6. Sits(t, m + 1)
  BY <1>3, <1>4, <1>5 DEF Sits
<1> QED
  BY <1>2, <1>6

(* A value of the n symbols on top, or NULL.                               *)
Popped(v, n) == v = NULL \/ \E k \in 1 .. n : v = Val(k)

LEMMA PoppedIs ==
  ASSUME Good(heap, stack, freed, recovered), NEW n \in 0 .. Len(stack),
         NEW v, Popped(v, n)
  PROVE  /\ v \in 0 .. Len(heap)
         /\ v = NULL \/ \E k \in Len(stack) - n + 1 .. Len(stack) : v = stack[k].val
<1>1. Len(stack) \in Nat /\ Len(heap) \in Nat
  BY TopsAre
<1>2. ASSUME NEW k \in 1 .. n, v = Val(k)
      PROVE  v \in 0 .. Len(heap) /\ \E j \in Len(stack) - n + 1 .. Len(stack) : v = stack[j].val
  <2>1. k \in 1 .. Len(stack) /\ Len(stack) + 1 - k \in Len(stack) - n + 1 .. Len(stack)
    BY <1>1
  <2>2. Val(k) \in 0 .. Len(heap)
    BY <2>1, TopsAre
  <2>3. v = stack[Len(stack) + 1 - k].val
    BY <1>2 DEF Val
  <2> QED
    BY <1>2, <2>1, <2>2, <2>3
<1> QED
  BY <1>1, <1>2 DEF Popped, NULL

LEMMA HandGood ==
  ASSUME Good(heap, stack, freed, recovered), NEW n \in 0 .. Len(stack),
         NEW v, Popped(v, n), v # NULL \/ recovered
  PROVE  Good(heap, Replace(n, "expr", v), freed, recovered)
<1>1. /\ Len(stack) \in Nat /\ Len(heap) \in Nat /\ recovered \in BOOLEAN
      /\ heap \in Seq(AnyNode) /\ stack \in Seq(AnySymbol)
  BY TopsAre
<1>2. /\ v \in 0 .. Len(heap)
      /\ v = NULL \/ \E k \in Len(stack) - n + 1 .. Len(stack) : v = stack[k].val
  BY PoppedIs
<1>3. PICK symbol : symbol = [sym |-> "expr", val |-> v, tok |-> NULL]
  OBVIOUS
<1>4. PICK t : t = Replace(n, "expr", v)
  OBVIOUS
<1>5. "expr" \in Symbols /\ v \in Nat
  BY <1>1, <1>2 DEF Symbols
<1>6. symbol \in AnySymbol /\ t \in Seq(AnySymbol) /\ Pushed(t, stack, Len(stack) - n, symbol)
  BY <1>1, <1>3, <1>4, <1>5, ReplacePushes
<1>7. symbol.sym = "expr" /\ symbol.val = v
  BY <1>3
<1>8. Sits(t, Len(stack) - n + 1)
  BY <1>6, <1>7, ReplaceSits
<1>9. SymbolOK(symbol, Len(heap), recovered)
  BY <1>2, <1>7 DEF SymbolOK
<1>10. PICK m : m = Len(stack) - n /\ m \in 0 .. Len(stack)
  BY <1>1
<1>11. symbol.val = NULL \/ \E k \in m + 1 .. Len(stack) : symbol.val = stack[k].val
  BY <1>2, <1>7, <1>10
<1>12. recovered => recovered
  OBVIOUS
<1> QED
  BY <1>1, <1>4, <1>6, <1>8, <1>9, <1>10, <1>11, <1>12, GoodPush

LEMMA KidsOf ==
  /\ Range(<< >>) = {}
  /\ \A a : Range(<<a>>) = {a}
  /\ \A a, b : Range(<<a, b>>) = {a, b}
<1>1. Range(<< >>) = {}
  BY DEF Range
<1>2. \A a : Range(<<a>>) = {a}
  BY DEF Range
<1>3. ASSUME NEW a, NEW b
      PROVE  Range(<<a, b>>) = {a, b}
  <2>1. DOMAIN <<a, b>> = 1 .. 2 /\ <<a, b>>[1] = a /\ <<a, b>>[2] = b
    OBVIOUS
  <2>2. \A x \in {a, b} : \E k \in 1 .. 2 : <<a, b>>[k] = x
    BY <2>1
  <2>3. \A k \in 1 .. 2 : <<a, b>>[k] \in {a, b}
    BY <2>1
  <2> QED
    BY <2>1, <2>2, <2>3 DEF Range
<1> QED
  BY <1>1, <1>2, <1>3

LEMMA MakeGood ==
  ASSUME Good(heap, stack, freed, recovered), NEW n \in 0 .. Len(stack),
         NEW node \in AnyNode, \A c \in Range(node.kids) : Popped(c, n),
         node.type # "EXP_CALL" /\ node.kids # << >> => node.kids[1] # NULL \/ recovered,
         NEW mark \in {"expr", "args"}, mark = "args" => Sym(n + 1) = "call("
  PROVE  Good(Append(heap, node), Replace(n, mark, New), freed, recovered)
<1>1. /\ Len(stack) \in Nat /\ Len(heap) \in Nat /\ recovered \in BOOLEAN
      /\ heap \in Seq(AnyNode) /\ stack \in Seq(AnySymbol)
  BY TopsAre
<1>2. \A c \in Range(node.kids) :
        /\ c \in 0 .. Len(heap)
        /\ c = NULL \/ \E k \in Len(stack) - n + 1 .. Len(stack) : c = stack[k].val
  BY PoppedIs
<1>3. PICK symbol : symbol = [sym |-> mark, val |-> New, tok |-> NULL]
  OBVIOUS
<1>4. PICK t : t = Replace(n, mark, New)
  OBVIOUS
<1>5. mark \in Symbols /\ New \in Nat /\ New = Len(heap) + 1
  <2>1. "expr" \in Symbols /\ "args" \in Symbols
    BY Zenon DEF Symbols
  <2> QED
    BY <1>1, <2>1 DEF New
<1>6. symbol \in AnySymbol /\ t \in Seq(AnySymbol) /\ Pushed(t, stack, Len(stack) - n, symbol)
  BY <1>1, <1>3, <1>4, <1>5, ReplacePushes
<1>7. symbol.sym = mark /\ symbol.val = Len(heap) + 1 /\ symbol.sym # "error"
  BY <1>3, <1>5
<1>8. Sits(t, Len(stack) - n + 1)
  BY <1>6, <1>7, ReplaceSits
<1>9. PICK m : m = Len(stack) - n /\ m \in 0 .. Len(stack)
  BY <1>1
<1>10. PICK h2 : h2 = Append(heap, node)
  OBVIOUS
<1>11. /\ h2 \in Seq(AnyNode) /\ Len(h2) = Len(heap) + 1 /\ h2[Len(heap) + 1] = node
       /\ \A p \in 1 .. Len(heap) : h2[p] = heap[p]
  BY <1>1, <1>10
<1>12. NodeOK(node, Len(heap) + 1, recovered)
  BY <1>1, <1>2 DEF NodeOK
<1>13. PICK lost : lost = 0
  OBVIOUS
<1>14. \A c \in Range(h2[Len(heap) + 1].kids) :
         c = NULL \/ \E k \in m + 1 .. Len(stack) : c = stack[k].val /\ k # lost
  <2>1. \A k \in m + 1 .. Len(stack) : k # lost
    BY <1>9, <1>13
  <2> QED
    BY <1>2, <1>9, <1>11, <2>1
<1>15. /\ \A p \in 1 .. Len(heap) :
            h2[p] = heap[p] \/ (lost # 0 /\ p = stack[lost].val
                                  /\ NodeOK(h2[p], Len(heap) + 1, recovered))
       /\ NodeOK(h2[Len(heap) + 1], Len(heap) + 1, recovered)
  BY <1>11, <1>12
<1>16. lost = 0 \/ lost \in m + 1 .. Len(stack)
  BY <1>13
<1>17. Sits(t, m + 1) /\ Pushed(t, stack, m, symbol)
  BY <1>6, <1>8, <1>9
<1>18. Grown(h2, heap, stack, m, lost, recovered)
  BY <1>11, <1>14, <1>15 DEF Grown
<1>19. Good(h2, t, freed, recovered)
  BY <1>1, <1>6, <1>7, <1>9, <1>11, <1>16, <1>17, <1>18, GoodMalloc
<1> QED
  BY <1>4, <1>10, <1>19
(* The second pointer of a node is set.                                    *)
Relink(h, v, x) == [h EXCEPT ![v].kids[2] = x]

KeepsKids(h1, h, v, x) ==
  /\ h1 \in Seq(AnyNode) /\ Len(h1) = Len(h)
  /\ \A p \in 1 .. Len(h) : p # v => h1[p] = h[p]
  /\ \A p \in 1 .. Len(h) :
       /\ h1[p].type = h[p].type
       /\ Range(h1[p].kids) \subseteq Range(h[p].kids) \cup {x}
       /\ h1[p].kids # << >> => h[p].kids # << >> /\ h1[p].kids[1] = h[p].kids[1]

LEMMA Relinked ==
  ASSUME heap \in Seq(AnyNode), NEW v, NEW x \in Nat, NEW h1, h1 = Relink(heap, v, x)
  PROVE  KeepsKids(h1, heap, v, x)
<1>1. /\ Len(heap) \in Nat /\ DOMAIN heap = 1 .. Len(heap)
      /\ \A p \in 1 .. Len(heap) : heap[p] \in AnyNode
  OBVIOUS
<1> DEFINE kids == [heap[v].kids EXCEPT ![2] = x]
           node == [heap[v] EXCEPT !.kids = kids]
<1>2. h1 = [heap EXCEPT ![v] = node]
  BY DEF Relink
<1>3. DOMAIN h1 = 1 .. Len(heap) /\ \A p \in 1 .. Len(heap) : p # v => h1[p] = heap[p]
  <2> HIDE DEF node
  <2> QED
    BY <1>1, <1>2
<1>4. ASSUME v \in 1 .. Len(heap)
      PROVE  /\ h1[v] \in AnyNode /\ h1[v].type = heap[v].type
             /\ Range(h1[v].kids) \subseteq Range(heap[v].kids) \cup {x}
             /\ h1[v].kids # << >> => heap[v].kids # << >> /\ h1[v].kids[1] = heap[v].kids[1]
  <2>1. PICK old : old = heap[v].kids
    OBVIOUS
  <2>2. old \in Seq(Nat) /\ heap[v] \in AnyNode
    BY <1>1, <1>4, <2>1 DEF AnyNode
  <2>3. PICK k : k = [old EXCEPT ![2] = x]
    OBVIOUS
  <2>4. Len(old) \in Nat /\ DOMAIN old = 1 .. Len(old) /\ \A i \in 1 .. Len(old) : old[i] \in Nat
    BY <2>2
  <2>5. k = [i \in 1 .. Len(old) |-> IF i = 2 THEN x ELSE old[i]]
    BY <2>3, <2>4
  <2>6. k \in [1 .. Len(old) -> Nat]
    BY <2>4, <2>5
  <2>7. k \in Seq(Nat) /\ Len(k) = Len(old)
    BY <2>4, <2>6
  <2>8. Range(k) \subseteq Range(old) \cup {x}
    BY <2>4, <2>5 DEF Range
  <2>9. k # << >> => old # << >> /\ k[1] = old[1]
    <3>1. ASSUME k # << >>
          PROVE  Len(old) > 0
      BY <2>4, <2>7, <3>1
    <3> QED
      BY <2>4, <2>5, <3>1
  <2>10. kids = k
    BY <2>1, <2>3
  <2> HIDE DEF kids
  <2>11. node \in AnyNode /\ node.type = heap[v].type /\ node.kids = k
    BY <2>2, <2>7, <2>10 DEF AnyNode
  <2>12. h1[v] = node
    <3> HIDE DEF node
    <3> QED
      BY <1>1, <1>2, <1>4
  <2> HIDE DEF node
  <2> QED
    BY <2>1, <2>8, <2>9, <2>11, <2>12
<1> HIDE DEF node
<1>5. \A p \in 1 .. Len(heap) :
        /\ h1[p] \in AnyNode /\ h1[p].type = heap[p].type
        /\ Range(h1[p].kids) \subseteq Range(heap[p].kids) \cup {x}
        /\ h1[p].kids # << >> => heap[p].kids # << >> /\ h1[p].kids[1] = heap[p].kids[1]
  <2> SUFFICES ASSUME NEW p \in 1 .. Len(heap)
               PROVE  /\ h1[p] \in AnyNode /\ h1[p].type = heap[p].type
                      /\ Range(h1[p].kids) \subseteq Range(heap[p].kids) \cup {x}
                      /\ h1[p].kids # << >> =>
                           heap[p].kids # << >> /\ h1[p].kids[1] = heap[p].kids[1]
    OBVIOUS
  <2>1. CASE p = v
    BY <1>4, <2>1
  <2>2. CASE p # v
    BY <1>1, <1>3, <2>2
  <2> QED
    BY <2>1, <2>2
<1>6. h1 \in [1 .. Len(heap) -> AnyNode]
  <2>1. h1 = [p \in 1 .. Len(heap) |-> h1[p]]
    BY <1>1, <1>2
  <2> QED
    BY <1>5, <2>1
<1>7. h1 \in Seq(AnyNode) /\ Len(h1) = Len(heap)
  BY <1>1, <1>6
<1> QED
  BY <1>3, <1>5, <1>7 DEF KeepsKids

LEMMA AppendsNode ==
  ASSUME NEW h \in Seq(AnyNode), NEW node \in AnyNode
  PROVE  /\ Append(h, node) \in Seq(AnyNode) /\ Len(Append(h, node)) = Len(h) + 1
         /\ Append(h, node)[Len(h) + 1] = node
         /\ \A p \in 1 .. Len(h) : Append(h, node)[p] = h[p]
  OBVIOUS

KeepsKidsAndAdds(h2, h, v, x, node) ==
  /\ h2 \in Seq(AnyNode) /\ Len(h2) = Len(h) + 1 /\ h2[Len(h) + 1] = node
  /\ \A p \in 1 .. Len(h) : p # v => h2[p] = h[p]
  /\ \A p \in 1 .. Len(h) :
       /\ h2[p].type = h[p].type
       /\ Range(h2[p].kids) \subseteq Range(h[p].kids) \cup {x}
       /\ h2[p].kids # << >> => h[p].kids # << >> /\ h2[p].kids[1] = h[p].kids[1]

LEMMA RelinkedAndAppended ==
  ASSUME heap \in Seq(AnyNode), NEW v, NEW x \in Nat, NEW node \in AnyNode,
         NEW h2, h2 = Append(Relink(heap, v, x), node)
  PROVE  KeepsKidsAndAdds(h2, heap, v, x, node)
<1>1. PICK h1 : h1 = Relink(heap, v, x)
  OBVIOUS
<1>2. KeepsKids(h1, heap, v, x)
  BY <1>1, Relinked, Zenon
<1>3. /\ Append(h1, node) \in Seq(AnyNode) /\ Len(Append(h1, node)) = Len(h1) + 1
      /\ Append(h1, node)[Len(h1) + 1] = node
      /\ \A p \in 1 .. Len(h1) : Append(h1, node)[p] = h1[p]
  BY <1>2, AppendsNode DEF KeepsKids
<1>4. h2 = Append(h1, node)
  BY <1>1
<1>5. /\ h2 \in Seq(AnyNode) /\ Len(h2) = Len(heap) + 1 /\ h2[Len(heap) + 1] = node
      /\ \A p \in 1 .. Len(heap) : h2[p] = h1[p]
  BY <1>2, <1>3, <1>4 DEF KeepsKids
<1> QED
  BY <1>2, <1>5 DEF KeepsKids, KeepsKidsAndAdds

(* The cell before the new one is given up.                                *)
LEMMA AppendExprGood ==
  ASSUME Good(heap, stack, freed, recovered), Sym(1) = "expr", Sym(2) = Comma,
         NEW node \in AnyNode, node.kids = <<Val(1), NULL>>,
         NEW h2, h2 = Append(Relink(heap, Val(3), New), node)
  PROVE  Good(h2, Replace(3, "args", New), freed, recovered)
<1>1. /\ Len(stack) \in Nat /\ Len(heap) \in Nat /\ recovered \in BOOLEAN
      /\ heap \in Seq(AnyNode) /\ stack \in Seq(AnySymbol)
  BY TopsAre
<1>2. /\ 1 \in 1 .. Len(stack) /\ Sym(3) = "args" /\ Sym(4) = "call("
      /\ 3 \in 0 .. Len(stack) /\ Len(stack) > 3
  <2>1. 1 \in Nat \ {0} /\ 2 \in Nat \ {0} /\ 3 \in Nat \ {0}
    OBVIOUS
  <2>2. Sym(2) # "bottom"
    BY Zenon DEF Comma
  <2>3. 2 < Len(stack) /\ Sym(2 + 1) = "args"
    BY <2>1, <2>2, TopsSit
  <2>4. Sym(3) = "args" /\ Sym(3) # "bottom"
    BY <2>3
  <2>5. 3 < Len(stack) /\ Sym(3 + 1) = "call("
    BY <2>1, <2>4, TopsSit
  <2> QED
    BY <1>1, <2>4, <2>5
<1>3. PICK symbol : symbol = [sym |-> "args", val |-> New, tok |-> NULL]
  OBVIOUS
<1>4. PICK t : t = Replace(3, "args", New)
  OBVIOUS
<1>5. "args" \in Symbols /\ New \in Nat /\ New = Len(heap) + 1
  <2>1. "args" \in Symbols
    BY Zenon DEF Symbols
  <2> QED
    BY <1>1, <2>1 DEF New
<1>6. symbol \in AnySymbol /\ t \in Seq(AnySymbol) /\ Pushed(t, stack, Len(stack) - 3, symbol)
  BY <1>1, <1>2, <1>3, <1>4, <1>5, ReplacePushes
<1>7. symbol.sym = "args" /\ symbol.val = Len(heap) + 1 /\ symbol.sym # "error"
  BY <1>3, <1>5
<1>8. Sits(t, Len(stack) - 3 + 1)
  <2>1. Sym(3 + 1) = "call("
    BY <1>2
  <2> QED
    BY <1>2, <1>6, <1>7, <2>1, ReplaceSits
<1>9. PICK m : m = Len(stack) - 3 /\ m \in 0 .. Len(stack)
  BY <1>1, <1>2
<1>11. PICK v : v = Val(3)
  OBVIOUS
<1>12. PICK x : x = New
  OBVIOUS
<1>13. /\ h2 \in Seq(AnyNode) /\ Len(h2) = Len(heap) + 1 /\ h2[Len(heap) + 1] = node
       /\ \A p \in 1 .. Len(heap) : p # v => h2[p] = heap[p]
       /\ \A p \in 1 .. Len(heap) :
            /\ h2[p].type = heap[p].type
            /\ Range(h2[p].kids) \subseteq Range(heap[p].kids) \cup {x}
            /\ h2[p].kids # << >> => heap[p].kids # << >> /\ h2[p].kids[1] = heap[p].kids[1]
  <2>1. h2 = Append(Relink(heap, v, x), node)
    BY <1>11, <1>12
  <2>2. x \in Nat
    BY <1>5, <1>12
  <2>3. KeepsKidsAndAdds(h2, heap, v, x, node)
    BY <1>1, <2>1, <2>2, RelinkedAndAppended, Zenon
  <2> QED
    BY <2>3 DEF KeepsKidsAndAdds
<1>14. ASSUME NEW p \in 1 .. Len(heap)
       PROVE  NodeOK(h2[p], Len(heap) + 1, recovered)
  <2>1. NodeOK(heap[p], Len(heap), recovered)
    BY DEF Good, Typed
  <2>2. ASSUME NEW c \in Range(h2[p].kids)
        PROVE  c \in 0 .. Len(heap) + 1
    <3>1. c \in Range(heap[p].kids) \/ c = Len(heap) + 1
      BY <1>5, <1>12, <1>13
    <3>2. c \in 0 .. Len(heap) \/ c = Len(heap) + 1
      BY <2>1, <3>1 DEF NodeOK
    <3> QED
      BY <1>1, <3>2
  <2>3. h2[p].type # "EXP_CALL" /\ h2[p].kids # << >> => h2[p].kids[1] # NULL \/ recovered
    BY <1>13, <2>1 DEF NodeOK
  <2> QED
    BY <2>2, <2>3 DEF NodeOK
<1>15. PICK lost : lost = Len(stack) - 2
  OBVIOUS
<1>16. lost # 0 /\ lost \in m + 1 .. Len(stack) /\ stack[lost].val = v
  <2>1. Len(stack) + 1 - 3 = Len(stack) - 2
    BY <1>1
  <2>2. Val(3) = stack[Len(stack) - 2].val
    BY <2>1 DEF Val
  <2> QED
    BY <1>1, <1>2, <1>9, <1>11, <1>15, <2>2
<1>17. PICK a : a = Val(1) /\ a \in 0 .. Len(heap) /\ (a # NULL \/ recovered)
  BY <1>2, TopsAre
<1>18. a = stack[Len(stack)].val /\ Len(stack) \in m + 1 .. Len(stack) /\ Len(stack) # lost
  <2>1. Len(stack) + 1 - 1 = Len(stack)
    BY <1>1
  <2>2. Val(1) = stack[Len(stack)].val
    BY <2>1 DEF Val
  <2> QED
    BY <1>1, <1>9, <1>15, <1>17, <2>2
<1>19. node.kids = <<a, NULL>> /\ Range(node.kids) = {a, NULL} /\ node.kids[1] = a
  <2>1. node.kids = <<a, NULL>>
    BY <1>17
  <2> QED
    BY <2>1, KidsOf
<1>20. NodeOK(h2[Len(heap) + 1], Len(heap) + 1, recovered)
  <2>1. \A c \in Range(node.kids) : c \in 0 .. Len(heap) + 1
    BY <1>1, <1>17, <1>19 DEF NULL
  <2> QED
    BY <1>13, <1>17, <1>19, <2>1 DEF NodeOK
<1>21. \A c \in Range(h2[Len(heap) + 1].kids) :
         c = NULL \/ \E k \in m + 1 .. Len(stack) : c = stack[k].val /\ k # lost
  BY <1>13, <1>18, <1>19
<1>22. \A p \in 1 .. Len(heap) :
         h2[p] = heap[p] \/ (lost # 0 /\ p = stack[lost].val
                               /\ NodeOK(h2[p], Len(heap) + 1, recovered))
  BY <1>13, <1>14, <1>16
<1>23. Grown(h2, heap, stack, m, lost, recovered)
  BY <1>13, <1>20, <1>21, <1>22 DEF Grown
<1>24. Sits(t, m + 1) /\ Pushed(t, stack, m, symbol) /\ (lost = 0 \/ lost \in m + 1 .. Len(stack))
  BY <1>6, <1>8, <1>9, <1>16
<1>25. Good(h2, t, freed, recovered)
  BY <1>1, <1>6, <1>7, <1>9, <1>13, <1>23, <1>24, GoodMalloc
<1> QED
  BY <1>4, <1>25
-----------------------------------------------------------------------------
(* The steps                                                               *)

LEMMA ReadingIs ==
  ASSUME Reading
  PROVE  Len(read) \in Positions /\ MaxTokens \in Nat
  BY BoundAssumption DEF Reading, Positions

LEMMA BuildingKeeps ==
  ASSUME IInv, Building, la' \in Lookahead, Good(heap', stack', freed, recovered)
  PROVE  IInv'
<1>1. read' = read /\ status' = status /\ freed' = freed /\ recovered' = recovered
  BY DEF Building, Parsing
<1> QED
  BY <1>1 DEF IInv, Reading

(* A step that shifts `mark'.                                              *)
LEMMA ShiftKeeps ==
  ASSUME IInv, Building, UNCHANGED heap, NEW mark, Shift(mark),
         mark \in Symbols \ {"expr", "args", "error"},
         mark \in BinOp => Sym(1) = "expr",
         mark = "call(" => Sym(1) = "id",
         mark = Comma => Sym(1) = "args"
  PROVE  IInv'
<1>1. Good(heap, stack, freed, recovered) /\ Len(read) \in Positions
  BY ReadingIs DEF IInv
<1>2. stack' = Append(stack, Symbol(mark)) /\ la' \in Lookahead
  BY DEF Shift, Lookahead
<1>3. Good(heap, Append(stack, Symbol(mark)), freed, recovered)
  BY <1>1, ShiftGood, Zenon
<1>4. Good(heap', stack', freed, recovered)
  BY <1>2, <1>3, Zenon
<1> QED
  BY <1>2, <1>4, BuildingKeeps

(* A step that replaces the n symbols on top by a new node.                *)
LEMMA MakeKeeps ==
  ASSUME IInv, Building, la' \in Lookahead, NEW n \in 0 .. Len(stack), NEW node \in AnyNode,
         Malloc(node), \A c \in Range(node.kids) : Popped(c, n),
         node.type # "EXP_CALL" /\ node.kids # << >> => node.kids[1] # NULL \/ recovered,
         NEW mark \in {"expr", "args"}, mark = "args" => Sym(n + 1) = "call(",
         stack' = Replace(n, mark, New)
  PROVE  IInv'
<1>1. Good(heap, stack, freed, recovered)
  BY DEF IInv
<1>2. Good(Append(heap, node), Replace(n, mark, New), freed, recovered)
  BY <1>1, MakeGood, Zenon
<1>3. Good(heap', stack', freed, recovered)
  BY <1>2, Zenon DEF Malloc
<1> QED
  BY <1>3, BuildingKeeps

(* A step that replaces them by an expression that is there, or by NULL.   *)
LEMMA HandKeeps ==
  ASSUME IInv, Building, la' \in Lookahead, UNCHANGED heap, NEW n \in 0 .. Len(stack),
         NEW v, Popped(v, n), v # NULL \/ recovered, stack' = Replace(n, "expr", v)
  PROVE  IInv'
<1>1. Good(heap, stack, freed, recovered)
  BY DEF IInv
<1>2. Good(heap, Replace(n, "expr", v), freed, recovered)
  BY <1>1, HandGood, Zenon
<1>3. Good(heap', stack', freed, recovered)
  BY <1>2, Zenon
<1> QED
  BY <1>3, BuildingKeeps

LEMMA InitGood ==
  ASSUME Init
  PROVE  IInv
<1>0. heap = << >> /\ stack = << >> /\ recovered = FALSE /\ Len(heap) = 0 /\ Len(stack) = 0
  BY DEF Init
<1>1. Typed(heap, stack, recovered)
  <2>1. heap \in Seq(AnyNode) /\ stack \in Seq(AnySymbol)
    BY <1>0
  <2>2. recovered \in BOOLEAN
    BY <1>0, Zenon
  <2>3. 1 .. Len(heap) = {} /\ 1 .. Len(stack) = {}
    BY <1>0
  <2> QED
    BY <2>1, <2>2, <2>3, Zenon DEF Typed
<1>2. Owns([p \in 1 .. 0 |-> 0], heap, stack, freed)
  BY DEF Init, Owns
<1>3. Good(heap, stack, freed, recovered)
  BY <1>1, <1>2 DEF Init, Good
<1>4. Reading
  BY BoundAssumption DEF Init, Reading, Lookahead
<1> QED
  BY <1>3, <1>4 DEF IInv

LEMMA yylexKeeps ==
  ASSUME IInv, yylex
  PROVE  IInv'
<1>1. /\ stack' = stack /\ heap' = heap /\ freed' = freed
      /\ recovered' = recovered /\ status' = status
  BY DEF yylex
<1>2. Reading'
  <2>1. CASE la' = "end" /\ read' = read
    BY <1>1, <2>1 DEF IInv, Reading, Lookahead
  <2>2. CASE Len(read) < MaxTokens /\ la' \in Token /\ read' = Append(read, la')
    <3>1. read' \in Seq(Token) /\ Len(read') = Len(read) + 1 /\ Len(read) \in Nat
      BY <2>2 DEF IInv, Reading
    <3> QED
      BY <1>1, <2>2, <3>1, BoundAssumption DEF IInv, Reading, Lookahead
  <2> QED
    BY <2>1, <2>2 DEF yylex
<1> QED
  BY <1>1, <1>2 DEF IInv

LEMMA MarksAre ==
  /\ {"neg", "not", "id", "call(", Paren, Comma} \subseteq Symbols \ {"expr", "args", "error"}
  /\ BinOp \subseteq Symbols \ {"expr", "args", "error"}
  /\ \A mark \in {"neg", "not", "id", Paren} : mark \notin BinOp /\ mark # "call(" /\ mark # Comma
  /\ "call(" \notin BinOp /\ "call(" # Comma /\ Comma \notin BinOp
  /\ "expr" \in Symbols /\ "args" \in Symbols /\ "error" \in Symbols
<1>1. {"neg", "not", "id", "call(", Paren, Comma} \subseteq Symbols \ {"expr", "args", "error"}
  BY Zenon DEF Symbols, Comma, Paren
<1>2. BinOp \subseteq Symbols
  BY Zenon DEF Symbols
<1>3. \A mark \in {"neg", "not", "id", Paren} : mark # "call(" /\ mark # Comma
  BY Zenon DEF Paren, Comma
<1>4. "call(" # Comma /\ "expr" \in Symbols /\ "args" \in Symbols /\ "error" \in Symbols
  BY Zenon DEF Comma, Symbols
<1> QED
  BY <1>1, <1>2, <1>3, <1>4, OperatorFacts

LEMMA ShiftPrefixKeeps ==
  ASSUME IInv, ShiftPrefix
  PROVE  IInv'
<1>1. PICK mark \in {"neg", "not", Paren} : Shift(mark)
  BY Zenon DEF ShiftPrefix, Paren
<1>2. Building /\ UNCHANGED heap
  BY Zenon DEF ShiftPrefix
<1>3. /\ mark \in Symbols \ {"expr", "args", "error"}
      /\ mark \notin BinOp /\ mark # "call(" /\ mark # Comma
  BY MarksAre
<1> QED
  BY <1>1, <1>2, <1>3, ShiftKeeps

LEMMA ShiftIdKeeps ==
  ASSUME IInv, ShiftId
  PROVE  IInv'
<1>1. Building /\ UNCHANGED heap /\ Shift("id")
  BY Zenon DEF ShiftId
<1>2. /\ "id" \in Symbols \ {"expr", "args", "error"}
      /\ "id" \notin BinOp /\ "id" # "call(" /\ "id" # Comma
  BY MarksAre
<1> QED
  BY <1>1, <1>2, ShiftKeeps

LEMMA ShiftBinaryKeeps ==
  ASSUME IInv, ShiftBinary
  PROVE  IInv'
<1>1. Building /\ UNCHANGED heap /\ Shift(la) /\ Sym(1) = "expr" /\ la \in BinOp
  BY Zenon DEF ShiftBinary, BindsTighter
<1>2. la \in Symbols \ {"expr", "args", "error"} /\ la # "call(" /\ la # Comma
  BY <1>1, MarksAre
<1> QED
  BY <1>1, <1>2, ShiftKeeps

LEMMA ShiftCallKeeps ==
  ASSUME IInv, ShiftCall
  PROVE  IInv'
<1>1. Building /\ UNCHANGED heap /\ Shift("call(") /\ Sym(1) = "id"
  BY Zenon DEF ShiftCall
<1>2. /\ "call(" \in Symbols \ {"expr", "args", "error"}
      /\ "call(" \notin BinOp /\ "call(" # Comma
  BY MarksAre
<1> QED
  BY <1>1, <1>2, ShiftKeeps

LEMMA ShiftCommaKeeps ==
  ASSUME IInv, ShiftComma
  PROVE  IInv'
<1>1. Building /\ UNCHANGED heap /\ Shift(Comma) /\ Sym(1) = "args"
  BY Zenon DEF ShiftComma, Comma
<1>2. /\ Comma \in Symbols \ {"expr", "args", "error"}
      /\ Comma \notin BinOp /\ "call(" # Comma
  BY MarksAre
<1> QED
  BY <1>1, <1>2, ShiftKeeps
LEMMA make_literalKeeps ==
  ASSUME IInv, make_literal
  PROVE  IInv'
<1>1. PICK node : node = Node("EXP_LITERAL", Len(read), << >>)
  OBVIOUS
<1>2. /\ Building /\ la' \in Lookahead /\ Malloc(node)
      /\ stack' = Replace(0, "expr", New)
  BY <1>1, Zenon DEF make_literal, Lookahead
<1>3. node \in AnyNode /\ node.kids = << >>
  <2>1. Len(read) \in Positions /\ "EXP_LITERAL" \in NodeType
    BY ReadingIs DEF IInv, NodeType
  <2> QED
    BY <1>1, <2>1 DEF Node, AnyNode
<1>4. \A c \in Range(node.kids) : Popped(c, 0)
  BY <1>3, KidsOf
<1>5. 0 \in 0 .. Len(stack)
  BY TopsAre DEF IInv
<1> QED
  BY <1>2, <1>3, <1>4, <1>5, MakeKeeps

LEMMA make_idKeeps ==
  ASSUME IInv, make_id
  PROVE  IInv'
<1>1. PICK node : node = Node("EXP_ID", Tok(1), << >>)
  OBVIOUS
<1>2. /\ Building /\ la' = la /\ Malloc(node) /\ Sym(1) = "id"
      /\ stack' = Replace(1, "expr", New)
  BY <1>1, Zenon DEF make_id
<1>3. la' \in Lookahead
  BY <1>2 DEF IInv, Reading
<1>4. 1 \in 1 .. Len(stack) /\ Tok(1) \in Positions /\ Len(stack) \in Nat
  <2>1. Good(heap, stack, freed, recovered)
    BY DEF IInv
  <2>2. 1 \in 1 .. Len(stack)
    BY <1>2, <2>1, TopsSit
  <2> QED
    BY <2>1, <2>2, TopsAre
<1>5. node \in AnyNode /\ node.kids = << >>
  <2>1. "EXP_ID" \in NodeType
    BY DEF NodeType
  <2> QED
    BY <1>1, <1>4, <2>1 DEF Node, AnyNode
<1>6. \A c \in Range(node.kids) : Popped(c, 1)
  BY <1>5, KidsOf
<1>7. 1 \in 0 .. Len(stack)
  BY <1>4
<1> QED
  BY <1>2, <1>3, <1>5, <1>6, <1>7, MakeKeeps

LEMMA make_unopKeeps ==
  ASSUME IInv, make_unop
  PROVE  IInv'
<1>1. PICK type : /\ type \in NodeType /\ type # "EXP_CALL"
                  /\ type = UnType(IF Sym(2) = "neg" THEN "-" ELSE "!")
  BY OperatorFacts, Zenon
<1>2. PICK node : node = Node(type, Tok(2), <<Val(1)>>)
  OBVIOUS
<1>3. /\ Building /\ la' = la /\ Malloc(node) /\ Sym(1) = "expr" /\ Sym(2) \in {"neg", "not"}
      /\ stack' = Replace(2, "expr", New)
  BY <1>1, <1>2, Zenon DEF make_unop
<1>4. la' \in Lookahead
  BY <1>3 DEF IInv, Reading
<1>5. Good(heap, stack, freed, recovered)
  BY DEF IInv
<1>6. /\ 1 \in 1 .. Len(stack) /\ 2 \in 1 .. Len(stack) /\ Len(stack) \in Nat
  BY <1>3, <1>5, TopsSit, TopsAre
<1>7. Val(1) \in Nat /\ (Val(1) # NULL \/ recovered) /\ Tok(2) \in Positions
  BY <1>3, <1>5, <1>6, TopsAre
<1>8. node \in AnyNode /\ node.kids = <<Val(1)>>
  BY <1>1, <1>2, <1>7 DEF Node, AnyNode
<1>9. \A c \in Range(node.kids) : Popped(c, 2)
  BY <1>6, <1>8, KidsOf DEF Popped
<1>10. 2 \in 0 .. Len(stack) /\ node.kids[1] = Val(1)
  BY <1>6, <1>8
<1> QED
  BY <1>3, <1>4, <1>7, <1>8, <1>9, <1>10, MakeKeeps

LEMMA make_binopKeeps ==
  ASSUME IInv, make_binop
  PROVE  IInv'
<1>1. /\ Building /\ la' = la /\ Sym(1) = "expr" /\ Sym(2) \in BinOp
      /\ Malloc(Node(BinType(Sym(2)), Tok(2), <<Val(3), Val(1)>>))
      /\ stack' = Replace(3, "expr", New)
  BY Zenon DEF make_binop
<1>2. PICK node : node = Node(BinType(Sym(2)), Tok(2), <<Val(3), Val(1)>>)
  OBVIOUS
<1>3. la' \in Lookahead
  BY <1>1 DEF IInv, Reading
<1>4. Good(heap, stack, freed, recovered)
  BY DEF IInv
<1>5. /\ 1 \in 1 .. Len(stack) /\ 2 \in 1 .. Len(stack) /\ 3 \in 1 .. Len(stack)
      /\ Len(stack) \in Nat /\ Sym(3) = "expr"
  <2>1. Sym(2) # "bottom"
    BY <1>1, OperatorFacts
  <2>2. 1 \in 1 .. Len(stack) /\ 2 < Len(stack) /\ Sym(2 + 1) = "expr" /\ Len(stack) \in Nat
    BY <1>1, <1>4, <2>1, TopsSit, TopsAre
  <2> QED
    BY <2>2
<1>6. /\ Val(1) \in Nat /\ Val(3) \in Nat /\ Tok(2) \in Positions
      /\ (Val(3) # NULL \/ recovered)
  BY <1>4, <1>5, TopsAre
<1>7. BinType(Sym(2)) \in NodeType
  BY <1>1, OperatorFacts
<1>8. node \in AnyNode /\ node.kids = <<Val(3), Val(1)>>
  BY <1>2, <1>6, <1>7 DEF Node, AnyNode
<1>9. \A c \in Range(node.kids) : Popped(c, 3)
  BY <1>5, <1>8, KidsOf DEF Popped
<1>10. 3 \in 0 .. Len(stack) /\ node.kids[1] = Val(3) /\ Malloc(node)
  BY <1>1, <1>2, <1>5, <1>8
<1> QED
  BY <1>1, <1>3, <1>6, <1>8, <1>9, <1>10, MakeKeeps

LEMMA ParenthesizedKeeps ==
  ASSUME IInv, Parenthesized
  PROVE  IInv'
<1>1. /\ Building /\ UNCHANGED heap /\ la' = "none" /\ Sym(1) = "expr" /\ Sym(2) = Paren
      /\ stack' = Replace(2, "expr", Val(1))
  BY Zenon DEF Parenthesized, Paren
<1>2. Paren # "bottom"
  BY Zenon DEF Paren
<1>3. Good(heap, stack, freed, recovered)
  BY DEF IInv
<1>4. /\ 1 \in 1 .. Len(stack) /\ 2 \in 1 .. Len(stack) /\ Len(stack) \in Nat
  BY <1>1, <1>2, <1>3, TopsSit, TopsAre
<1>5. (Val(1) # NULL \/ recovered) /\ Popped(Val(1), 2) /\ 2 \in 0 .. Len(stack)
  BY <1>1, <1>3, <1>4, TopsAre DEF Popped
<1>6. la' \in Lookahead
  BY <1>1 DEF Lookahead
<1> QED
  BY <1>1, <1>5, <1>6, HandKeeps

LEMMA make_expr_singletonKeeps ==
  ASSUME IInv, make_expr_singleton
  PROVE  IInv'
<1>1. /\ Building /\ la' = la /\ Sym(1) = "expr" /\ Sym(2) = "call("
      /\ Malloc(Node("expr_list", NULL, <<Val(1), NULL>>))
      /\ stack' = Replace(1, "args", New)
  BY Zenon DEF make_expr_singleton, ArgEnds
<1>2. PICK node : node = Node("expr_list", NULL, <<Val(1), NULL>>)
  OBVIOUS
<1>3. la' \in Lookahead
  BY <1>1 DEF IInv, Reading
<1>4. Good(heap, stack, freed, recovered)
  BY DEF IInv
<1>5. 1 \in 1 .. Len(stack) /\ Len(stack) \in Nat
  BY <1>1, <1>4, TopsSit, TopsAre
<1>6. Val(1) \in Nat /\ (Val(1) # NULL \/ recovered)
  BY <1>1, <1>4, <1>5, TopsAre
<1>7. node \in AnyNode /\ node.kids = <<Val(1), NULL>>
  <2>1. NULL \in Positions /\ NULL \in Nat /\ "expr_list" \in NodeType
    BY BoundAssumption DEF NULL, Positions, NodeType
  <2> QED
    BY <1>2, <1>6, <2>1 DEF Node, AnyNode
<1>8. \A c \in Range(node.kids) : Popped(c, 1)
  BY <1>5, <1>7, KidsOf DEF Popped
<1>9. 1 \in 0 .. Len(stack) /\ node.kids[1] = Val(1) /\ Malloc(node) /\ Sym(1 + 1) = "call("
  BY <1>1, <1>2, <1>5, <1>7
<1> QED
  BY <1>1, <1>3, <1>6, <1>7, <1>8, <1>9, MakeKeeps

LEMMA append_exprKeeps ==
  ASSUME IInv, append_expr
  PROVE  IInv'
<1>1. PICK node : node = Node("expr_list", NULL, <<Val(1), NULL>>)
  OBVIOUS
<1>2. /\ Building /\ la' = la /\ Sym(1) = "expr" /\ Sym(2) = Comma
      /\ heap' = Append(Relink(heap, Val(3), New), node)
      /\ stack' = Replace(3, "args", New)
  BY <1>1, Zenon DEF append_expr, ArgEnds, Relink, Comma
<1>3. la' \in Lookahead
  BY <1>2 DEF IInv, Reading
<1>4. Good(heap, stack, freed, recovered)
  BY DEF IInv
<1>5. Val(1) \in Nat
  <2>1. 1 \in 1 .. Len(stack)
    BY <1>2, <1>4, TopsSit
  <2> QED
    BY <1>4, <2>1, TopsAre
<1>6. node \in AnyNode /\ node.kids = <<Val(1), NULL>>
  <2>1. NULL \in Positions /\ NULL \in Nat /\ "expr_list" \in NodeType
    BY BoundAssumption DEF NULL, Positions, NodeType
  <2> QED
    BY <1>1, <1>5, <2>1 DEF Node, AnyNode
<1>7. Good(heap', Replace(3, "args", New), freed, recovered)
  BY <1>2, <1>4, <1>6, AppendExprGood, Zenon
<1>8. Good(heap', stack', freed, recovered)
  BY <1>2, <1>7, Zenon
<1> QED
  BY <1>2, <1>3, <1>8, BuildingKeeps
(* A call is of the symbols of its closing parenthesis, ID and what is     *)
(* between, and NULL where its arguments were in error.                    *)
LEMMA make_callKeeps ==
  ASSUME IInv, make_call
  PROVE  IInv'
<1>1. Building /\ la' = "none"
  BY Zenon DEF make_call
<1>2. la' \in Lookahead
  BY <1>1 DEF Lookahead
<1>3. Good(heap, stack, freed, recovered) /\ Len(stack) \in Nat
  BY TopsAre DEF IInv
<1>4. "EXP_CALL" \in NodeType /\ NULL \in Nat
  BY DEF NodeType, NULL
<1>5. ASSUME Sym(1) = "args", stack' = Replace(3, "expr", New),
             Malloc(Node("EXP_CALL", Tok(3), <<Val(1)>>))
      PROVE  IInv'
  <2>1. 1 \in 1 .. Len(stack) /\ 3 \in 1 .. Len(stack)
    <3>1. 1 \in 1 .. Len(stack) /\ Sym(1 + 1) = "call("
      BY <1>3, <1>5, TopsSit
    <3>2. 2 < Len(stack)
      BY <1>3, <3>1, TopsSit
    <3> QED
      BY <1>3, <3>1, <3>2
  <2>2. PICK node : node = Node("EXP_CALL", Tok(3), <<Val(1)>>)
    OBVIOUS
  <2>3. Val(1) \in Nat /\ Tok(3) \in Positions
    BY <1>3, <2>1, TopsAre
  <2>4. node \in AnyNode /\ node.kids = <<Val(1)>> /\ node.type = "EXP_CALL"
    BY <1>4, <2>2, <2>3 DEF Node, AnyNode
  <2>5. \A c \in Range(node.kids) : Popped(c, 3)
    BY <2>1, <2>4, KidsOf DEF Popped
  <2>6. 3 \in 0 .. Len(stack) /\ Malloc(node)
    BY <1>5, <2>1, <2>2
  <2> QED
    BY <1>1, <1>2, <1>5, <2>4, <2>5, <2>6, MakeKeeps
<1>6. ASSUME Sym(1) = "call(", stack' = Replace(2, "expr", New),
             Malloc(Node("EXP_CALL", Tok(2), <<NULL>>))
      PROVE  IInv'
  <2>1. 1 \in 1 .. Len(stack) /\ 2 \in 1 .. Len(stack)
    <3>1. 1 \in 1 .. Len(stack) /\ 1 < Len(stack)
      BY <1>3, <1>6, TopsSit
    <3> QED
      BY <1>3, <3>1
  <2>2. PICK node : node = Node("EXP_CALL", Tok(2), <<NULL>>)
    OBVIOUS
  <2>3. Tok(2) \in Positions
    BY <1>3, <2>1, TopsAre
  <2>4. node \in AnyNode /\ node.kids = <<NULL>> /\ node.type = "EXP_CALL"
    BY <1>4, <2>2, <2>3 DEF Node, AnyNode
  <2>5. \A c \in Range(node.kids) : Popped(c, 2)
    BY <2>4, KidsOf DEF Popped
  <2>6. 2 \in 0 .. Len(stack) /\ Malloc(node)
    BY <1>6, <2>1, <2>2
  <2> QED
    BY <1>1, <1>2, <1>6, <2>4, <2>5, <2>6, MakeKeeps
<1>7. ASSUME Sym(1) = "error", stack' = Replace(3, "expr", NULL), UNCHANGED heap
      PROVE  IInv'
  <2>1. 1 \in 1 .. Len(stack) /\ 2 < Len(stack)
    <3>1. 1 \in 1 .. Len(stack) /\ Sym(1 + 1) = "call("
      BY <1>3, <1>7, TopsSit
    <3>2. 2 < Len(stack)
      BY <1>3, <3>1, TopsSit
    <3> QED
      BY <3>1, <3>2
  <2>2. recovered
    BY <1>3, <1>7, <2>1, TopsAre
  <2>3. 3 \in 0 .. Len(stack) /\ Popped(NULL, 3)
    BY <1>3, <2>1 DEF Popped
  <2> QED
    BY <1>1, <1>2, <1>7, <2>2, <2>3, HandKeeps
<1> QED
  BY <1>5, <1>6, <1>7, Zenon DEF make_call

(* The call that is found is open.                                         *)
LEMMA OpenCallIs ==
  ASSUME Good(heap, stack, freed, recovered), OpenCall # 0
  PROVE  OpenCall \in 1 .. Len(stack) /\ stack[OpenCall].sym = "call("
<1>1. Len(stack) \in Nat
  BY TopsAre
<1> DEFINE I == {i \in 1 .. Len(stack) : stack[i].sym = "call("}
<1>2. OpenCall = IF I # {} THEN Max(I) ELSE 0
  BY Zenon DEF OpenCall, SelectLastInSeq
<1>3. I \subseteq 0 .. Len(stack)
  OBVIOUS
<1>4. I # {} /\ OpenCall = Max(I)
  BY <1>2
<1>5. Max(I) \in I
  <2> HIDE DEF I
  <2> QED
    BY <1>1, <1>3, <1>4, MaxIsGreatest
<1> QED
  BY <1>4, <1>5

LEMMA RecoverKeeps ==
  ASSUME IInv, Recover
  PROVE  IInv'
<1>1. PICK m : m = OpenCall
  OBVIOUS
<1>2. /\ heap' = heap /\ recovered' = TRUE /\ la' = la /\ read' = read /\ status' = status
      /\ freed' = freed \cup Destroyed(SubSeq(stack, m + 1, Len(stack)))
      /\ stack' = SubSeq(stack, 1, m) \o <<[sym |-> "error", val |-> NULL, tok |-> NULL]>>
      /\ m # 0
  BY <1>1, Zenon DEF Recover, Parsing
<1>3. Good(heap, stack, freed, recovered) /\ Len(stack) \in Nat /\ recovered \in BOOLEAN
  BY TopsAre DEF IInv
<1>4. m \in 1 .. Len(stack) /\ stack[m].sym = "call("
  BY <1>1, <1>2, <1>3, OpenCallIs
<1>5. PICK s : s = SubSeq(stack, 1, m)
  OBVIOUS
<1>6. /\ Good(heap, s, freed', recovered) /\ Len(s) = m /\ s[m] = stack[m]
  <2>1. m \in 0 .. Len(stack) /\ m \in 1 .. m
    BY <1>3, <1>4
  <2> QED
    BY <1>2, <1>3, <1>5, <2>1, GoodCut
<1>7. PICK symbol : symbol = [sym |-> "error", val |-> NULL, tok |-> NULL]
  OBVIOUS
<1>8. symbol \in AnySymbol /\ symbol.sym = "error" /\ symbol.val = NULL
  <2>1. NULL \in Nat /\ NULL \in Positions /\ "error" \in Symbols
    BY MarksAre, BoundAssumption DEF NULL, Positions
  <2> QED
    BY <1>7, <2>1 DEF AnySymbol
<1>9. PICK t : t = stack'
  OBVIOUS
<1>10. s \in Seq(AnySymbol) /\ heap \in Seq(AnyNode)
  BY <1>6 DEF Good, Typed
<1>11. t \in Seq(AnySymbol) /\ Pushed(t, s, m, symbol)
  <2>1. t = s \o <<symbol>>
    BY <1>2, <1>5, <1>7, <1>9
  <2> QED
    BY <1>6, <1>8, <1>10, <2>1 DEF Pushed
<1>12. SymbolOK(symbol, Len(heap), TRUE)
  <2>1. Len(heap) \in Nat
    BY <1>10
  <2> QED
    BY <1>8, <2>1 DEF SymbolOK, NULL
<1>13. Sits(t, m + 1)
  <2>1. symbol.sym \notin BinOp \cup {"call(", "args", Comma}
    <3>1. "error" \notin BinOp
      BY OperatorFacts
    <3>2. "error" # "call(" /\ "error" # "args" /\ "error" # Comma
      BY Zenon DEF Comma
    <3> QED
      BY <1>8, <3>1, <3>2
  <2>2. t[m + 1] = symbol /\ m + 1 > 1 /\ m + 1 - 1 = m /\ t[m] = s[m]
    BY <1>4, <1>11 DEF Pushed
  <2> QED
    BY <1>4, <1>6, <1>8, <2>1, <2>2 DEF Sits, Below
<1>14. Good(heap, t, freed', TRUE)
  <2>1. m \in 0 .. Len(s) /\ TRUE \in BOOLEAN
    BY <1>4, <1>6
  <2> QED
    BY <1>3, <1>6, <1>8, <1>11, <1>12, <1>13, <2>1, GoodPush
<1>15. Reading'
  BY <1>2 DEF IInv, Reading
<1> QED
  BY <1>2, <1>9, <1>14, <1>15, Zenon DEF IInv

LEMMA DiscardTokenKeeps ==
  ASSUME IInv, DiscardToken
  PROVE  IInv'
<1>1. /\ stack' = stack /\ heap' = heap /\ freed' = freed /\ recovered' = recovered
      /\ read' = read /\ status' = status /\ la' = "none"
  BY Zenon DEF DiscardToken, Parsing
<1> QED
  BY <1>1 DEF IInv, Reading, Lookahead

LEMMA RejectKeeps ==
  ASSUME IInv, Reject
  PROVE  IInv'
<1>1. /\ heap' = heap /\ recovered' = recovered /\ read' = read /\ la' = la
      /\ status' = "rejected" /\ stack' = << >> /\ freed' = freed \cup Destroyed(stack)
  BY Zenon DEF Reject
<1>2. /\ Good(heap, stack, freed, recovered) /\ Len(stack) \in Nat
      /\ stack \in Seq(AnySymbol)
  BY TopsAre DEF IInv
<1>3. SubSeq(stack, 1, 0) = << >> /\ SubSeq(stack, 0 + 1, Len(stack)) = stack
  BY <1>2
<1>4. 0 \in 0 .. Len(stack)
  BY <1>2
<1>5. Good(heap, SubSeq(stack, 1, 0),
           freed \cup Destroyed(SubSeq(stack, 0 + 1, Len(stack))), recovered)
  BY <1>2, <1>4, GoodCut
<1>6. Good(heap', stack', freed', recovered')
  BY <1>1, <1>3, <1>5
<1> QED
  BY <1>1, <1>6 DEF IInv, Reading

LEMMA AcceptKeeps ==
  ASSUME IInv, Accept
  PROVE  IInv'
<1>1. /\ stack' = stack /\ heap' = heap /\ freed' = freed /\ recovered' = recovered
      /\ read' = read /\ la' = la /\ status' = "accepted"
  BY Zenon DEF Accept
<1> QED
  BY <1>1 DEF IInv, Reading
-----------------------------------------------------------------------------
(* The invariants                                                          *)

LEMMA IInvHolds == Spec => []IInv
<1>1. ASSUME IInv, [Step \/ Stopped]_vars
      PROVE  IInv'
  <2>1. ASSUME Step
        PROVE  IInv'
    BY <1>1, <2>1, yylexKeeps, ShiftPrefixKeeps, ShiftIdKeeps, make_literalKeeps,
       make_idKeeps, make_unopKeeps, make_binopKeeps, ShiftBinaryKeeps, ParenthesizedKeeps,
       ShiftCallKeeps, make_expr_singletonKeeps, ShiftCommaKeeps, append_exprKeeps,
       make_callKeeps, RecoverKeeps, DiscardTokenKeeps, RejectKeeps, AcceptKeeps, Zenon
       DEF Step
  <2>2. ASSUME UNCHANGED vars
        PROVE  IInv'
    BY <1>1, <2>2, Zenon DEF vars, IInv, Reading
  <2> QED
    BY <1>1, <2>1, <2>2, Zenon DEF Stopped
<1> QED
  BY InitGood, <1>1, PTL DEF Spec

(* A symbol or node is of its type, and an expression without a node is    *)
(* left only by an error that has been reported: the generator, which does *)
(* not look, dies on none in a program without errors.                     *)
THEOREM TypesHold == Spec => []TypeOK
<1>1. ASSUME IInv
      PROVE  TypeOK
  <2>1. Typed(heap, stack, recovered) /\ freed \subseteq 1 .. Len(heap)
    BY <1>1 DEF IInv, Good
  <2>2. DOMAIN stack = 1 .. Len(stack) /\ DOMAIN heap = 1 .. Len(heap)
    BY <2>1 DEF Typed
  <2>3. /\ \A k \in 1 .. Len(stack) : stack[k] \in AnySymbol
        /\ \A p \in 1 .. Len(heap) : heap[p] \in AnyNode
    BY <2>1 DEF Typed
  <2>4. \A k \in DOMAIN stack :
          /\ stack[k].sym \in Symbols /\ stack[k].tok \in Positions
          /\ stack[k].val \in 0 .. Len(heap)
          /\ stack[k].sym = "expr" => stack[k].val # NULL \/ recovered
    BY <2>1, <2>2, <2>3 DEF Typed, SymbolOK, AnySymbol
  <2>5. \A p \in DOMAIN heap :
          /\ heap[p].tok \in Positions /\ \A k \in Range(heap[p].kids) : k \in 0 .. Len(heap)
          /\ heap[p].type # "EXP_CALL" /\ heap[p].kids # << >> =>
               heap[p].kids[1] # NULL \/ recovered
    BY <2>1, <2>2, <2>3 DEF Typed, NodeOK, AnyNode
  <2>6. recovered \in BOOLEAN
    BY <2>1 DEF Typed
  <2>7. Reading
    BY <1>1 DEF IInv
  <2> QED
    BY <2>1, <2>2, <2>4, <2>5, <2>6, <2>7, Zenon DEF TypeOK, Reading, Lookahead
<1> QED
  BY IInvHolds, <1>1, PTL

(* Whatever is parsed and however it fails: what hangs on a symbol of the  *)
(* stack hangs on no other and has not been freed, so that bison's         *)
(* %destructor frees nothing twice and no action builds on what is freed.  *)
THEOREM StackOwns == Spec => []StackOwnsItsNodes
<1>1. ASSUME IInv
      PROVE  StackOwnsItsNodes
  <2>1. Typed(heap, stack, recovered)
    BY <1>1 DEF IInv, Good
  <2>2. PICK own : Owns(own, heap, stack, freed)
    BY <1>1 DEF IInv, Good
  <2>3. /\ heap \in Seq(AnyNode) /\ stack \in Seq(AnySymbol) /\ DOMAIN stack = 1 .. Len(stack)
        /\ \A p \in 1 .. Len(heap) : \A c \in Range(heap[p].kids) : c \in 0 .. Len(heap)
    BY <2>1 DEF Typed, NodeOK
  <2>4. \A k \in 1 .. Len(stack) :
          Hanging(stack[k].val) \subseteq {p \in 1 .. Len(heap) : own[p] = k}
    BY <2>2, <2>3, HangingIsOwned
  <2>5. \A p \in freed : own[p] = 0
    BY <2>2 DEF Owns
  <2>6. Destroyed(stack) \cap freed = {}
    <3>1. ASSUME NEW p \in Destroyed(stack), p \in freed
          PROVE  FALSE
      <4>1. PICK k \in 1 .. Len(stack) : p \in Hanging(stack[k].val)
        BY <2>3, <3>1 DEF Destroyed
      <4>2. own[p] = k /\ own[p] = 0
        BY <2>4, <2>5, <3>1, <4>1
      <4> QED
        BY <4>2
    <3> QED
      BY <3>1
  <2>7. \A k, m \in 1 .. Len(stack) :
          k # m => Hanging(stack[k].val) \cap Hanging(stack[m].val) = {}
    BY <2>4
  <2> QED
    BY <2>3, <2>6, <2>7 DEF StackOwnsItsNodes
<1> QED
  BY IInvHolds, <1>1, PTL
=============================================================================
