------------------------- MODULE ScopeContextProofs -------------------------
(***************************************************************************)
(* Proofs about ScopeContext, for all names and bounds: the lists of       *)
(* children are the inverse of the parent pointers in whatever order       *)
(* scopes are opened and popped, freeing the table reaches every scope     *)
(* ever allocated, once, look-ups answer with the innermost declaration,   *)
(* and the whole behaves as FrameStack's stack of frames.                  *)
(***************************************************************************)
EXTENDS ScopeContext, SymbolTableTheorems

-----------------------------------------------------------------------------
(* Sequences without repetition                                            *)

LEMMA InjectiveAppend ==
  ASSUME NEW S, NEW s \in Seq(S), NEW x \in S, IsInjective(s), x \notin Range(s)
  PROVE  IsInjective(Append(s, x)) /\ Range(Append(s, x)) = Range(s) \cup {x}
<1> DEFINE new == Append(s, x)
<1>1. /\ DOMAIN s = 1 .. Len(s) /\ Len(s) \in Nat /\ DOMAIN new = 1 .. Len(s) + 1
      /\ \A k \in 1 .. Len(s) : new[k] = s[k]
      /\ new[Len(s) + 1] = x
  BY AppendProperties, LenProperties
<1> HIDE DEF new
<1>2. \A k \in 1 .. Len(s) : s[k] # x
  BY <1>1 DEF Range
<1>3. IsInjective(new)
  <2> SUFFICES ASSUME NEW a \in 1 .. Len(s) + 1, NEW b \in 1 .. Len(s) + 1, new[a] = new[b]
               PROVE  a = b
    BY <1>1 DEF IsInjective
  <2>1. CASE a \in 1 .. Len(s) /\ b \in 1 .. Len(s)
    BY <1>1, <2>1 DEF IsInjective
  <2>2. CASE a = Len(s) + 1 \/ b = Len(s) + 1
    BY <1>1, <1>2, <2>2
  <2> QED
    BY <1>1, <2>1, <2>2
<1>4. Range(new) = Range(s) \cup {x}
  <2>1. ASSUME NEW k \in DOMAIN new
        PROVE  new[k] \in Range(s) \cup {x}
    BY <1>1 DEF Range
  <2>2. ASSUME NEW k \in DOMAIN s
        PROVE  s[k] \in Range(new)
    BY <1>1 DEF Range
  <2>3. x \in Range(new)
    BY <1>1 DEF Range
  <2> QED
    BY <2>1, <2>2, <2>3 DEF Range
<1> QED
  BY <1>3, <1>4 DEF new

LEMMA InjectiveConcat ==
  ASSUME NEW S, NEW s \in Seq(S), NEW t \in Seq(S),
         IsInjective(s), IsInjective(t), Range(s) \cap Range(t) = {}
  PROVE  IsInjective(s \o t) /\ Range(s \o t) = Range(s) \cup Range(t)
<1> DEFINE new == s \o t
<1>1. /\ DOMAIN s = 1 .. Len(s) /\ DOMAIN t = 1 .. Len(t) /\ Len(s) \in Nat /\ Len(t) \in Nat
      /\ DOMAIN new = 1 .. Len(s) + Len(t)
      /\ \A k \in 1 .. Len(s) + Len(t) : new[k] = IF k <= Len(s) THEN s[k] ELSE t[k - Len(s)]
  BY ConcatProperties, LenProperties
<1> HIDE DEF new
<1>2. \A k \in 1 .. Len(s), j \in 1 .. Len(t) : s[k] # t[j]
  BY <1>1 DEF Range
<1>3. IsInjective(new)
  <2> SUFFICES ASSUME NEW a \in 1 .. Len(s) + Len(t), NEW b \in 1 .. Len(s) + Len(t),
                      new[a] = new[b]
               PROVE  a = b
    BY <1>1 DEF IsInjective
  <2>1. CASE a <= Len(s) /\ b <= Len(s)
    BY <1>1, <2>1 DEF IsInjective
  <2>2. CASE a > Len(s) /\ b > Len(s)
    <3>1. /\ a - Len(s) \in DOMAIN t /\ b - Len(s) \in DOMAIN t
          /\ t[a - Len(s)] = t[b - Len(s)]
      BY <1>1, <2>2
    <3>2. a - Len(s) = b - Len(s)
      BY <3>1 DEF IsInjective
    <3> QED
      BY <1>1, <3>2
  <2>3. CASE a <= Len(s) /\ b > Len(s)
    BY <1>1, <1>2, <2>3
  <2>4. CASE a > Len(s) /\ b <= Len(s)
    BY <1>1, <1>2, <2>4
  <2> QED
    BY <1>1, <2>1, <2>2, <2>3, <2>4
<1>4. Range(new) = Range(s) \cup Range(t)
  BY RangeConcatenation DEF new
<1> QED
  BY <1>3, <1>4 DEF new

LEMMA InjectiveTail ==
  ASSUME NEW S, NEW s \in Seq(S), s # << >>, IsInjective(s)
  PROVE  /\ Head(s) \in Range(s) /\ Tail(s) \in Seq(S)
         /\ IsInjective(Tail(s)) /\ Range(Tail(s)) = Range(s) \ {Head(s)}
<1> DEFINE rest == Tail(s)
<1>1. /\ DOMAIN s = 1 .. Len(s) /\ Len(s) \in Nat /\ Len(s) # 0 /\ Head(s) = s[1]
      /\ rest \in Seq(S) /\ DOMAIN rest = 1 .. Len(s) - 1
      /\ \A k \in 1 .. Len(s) - 1 : rest[k] = s[k + 1]
  BY HeadTailProperties, LenProperties, EmptySeq
<1> HIDE DEF rest
<1>2. IsInjective(rest)
  <2> SUFFICES ASSUME NEW a \in 1 .. Len(s) - 1, NEW b \in 1 .. Len(s) - 1, rest[a] = rest[b]
               PROVE  a = b
    BY <1>1 DEF IsInjective
  <2>1. a + 1 = b + 1
    BY <1>1 DEF IsInjective
  <2> QED
    BY <2>1
<1>3. Range(rest) = Range(s) \ {Head(s)}
  <2>1. ASSUME NEW k \in DOMAIN rest
        PROVE  rest[k] \in Range(s) \ {Head(s)}
    <3>1. k + 1 \in DOMAIN s /\ rest[k] = s[k + 1] /\ k + 1 # 1 /\ 1 \in DOMAIN s
      BY <1>1
    <3> QED
      BY <1>1, <3>1 DEF Range, IsInjective
  <2>2. ASSUME NEW k \in DOMAIN s, s[k] # Head(s)
        PROVE  s[k] \in Range(rest)
    <3>1. k - 1 \in DOMAIN rest /\ rest[k - 1] = s[k]
      BY <1>1, <2>2
    <3> QED
      BY <3>1 DEF Range
  <2> QED
    BY <2>1, <2>2 DEF Range
<1>4. Head(s) \in Range(s)
  BY <1>1 DEF Range
<1> QED
  BY <1>1, <1>2, <1>3, <1>4 DEF rest

-----------------------------------------------------------------------------
(* The inductive invariant                                                 *)

Types ==
  /\ scopes \in Seq(ScopeInfo(Name))
  /\ scope \in DOMAIN scopes
  /\ phase \in {"live", "freeing"}
  /\ pending \in Seq(DOMAIN scopes)
  /\ freed \in Seq(DOMAIN scopes)

(* A scope's parent was allocated before it, the top level alone has none, *)
(* and the children are those that have the scope as their parent.         *)
Tree(table) ==
  /\ Top \in DOMAIN table
  /\ \A s \in DOMAIN table :
       table[s].parent < s /\ (table[s].parent = NULL => s = Top)
  /\ \A p \in DOMAIN table :
       /\ IsInjective(table[p].children)
       /\ Range(table[p].children) = {c \in DOMAIN table : table[c].parent = p}

(* Freeing works from the top: of the scopes reached, which are freed or   *)
(* about to be, each is the top level or a child of a scope freed, and all *)
(* of these are reached.                                                   *)
Reached == Range(freed) \cup Range(pending)
FreesDownwards ==
  /\ phase = "live" => freed = << >> /\ pending = << >>
  /\ IsInjective(freed) /\ IsInjective(pending)
  /\ Range(freed) \cap Range(pending) = {}
  /\ phase = "freeing" =>
       \A s \in DOMAIN scopes :
         s \in Reached <=> s = Top \/ scopes[s].parent \in Range(freed)

IInv == Types /\ Tree(scopes) /\ FreesDownwards

-----------------------------------------------------------------------------
(* The tree                                                                *)

(* A table that grows by one scope, hung under one of the old, stays a     *)
(* tree: what ctx_push_new_scope and process_fun do to it.                 *)
LEMMA TreeGrows ==
  ASSUME NEW old \in Seq(ScopeInfo(Name)), NEW new \in Seq(ScopeInfo(Name)),
         NEW s \in DOMAIN old, Tree(old),
         Len(new) = Len(old) + 1, new[Len(old) + 1].parent = s,
         \A t \in DOMAIN old : new[t].parent = old[t].parent,
         LinksChild(old, s, new)
  PROVE  Tree(new)
<1> DEFINE last == Len(old) + 1
<1>1. /\ DOMAIN old = 1 .. Len(old) /\ DOMAIN new = 1 .. last
      /\ Len(old) \in Nat /\ s \in Nat /\ last \in ScopePtr
  BY LenProperties DEF ScopePtr, NULL
<1>2. /\ last \in DOMAIN new /\ last \notin DOMAIN old
      /\ DOMAIN new = DOMAIN old \cup {last}
  BY <1>1
<1>3. /\ new[last].parent = s /\ new[last].children = << >>
      /\ new[s].children = Append(old[s].children, last)
      /\ \A t \in DOMAIN old : t # s => new[t].children = old[t].children
  BY DEF LinksChild
<1>4. \A t \in DOMAIN old : new[t].parent < t /\ new[t].parent # last
  BY <1>1 DEF Tree
<1> HIDE DEF last
<1>5. Top \in DOMAIN new
  BY <1>2 DEF Tree
<1>6. ASSUME NEW t \in DOMAIN new
      PROVE  new[t].parent < t /\ (new[t].parent = NULL => t = Top)
  <2>1. CASE t \in DOMAIN old
    BY <1>4, <2>1 DEF Tree
  <2>2. CASE t = last
    BY <1>1, <1>3, <2>2 DEF last, NULL
  <2> QED
    BY <1>2, <2>1, <2>2
<1>7. ASSUME NEW p \in DOMAIN new
      PROVE  /\ IsInjective(new[p].children)
             /\ Range(new[p].children) = {c \in DOMAIN new : new[c].parent = p}
  <2>1. CASE p = last
    <3>1. {c \in DOMAIN new : new[c].parent = p} = {}
      BY <1>1, <1>2, <1>3, <1>4, <2>1
    <3>2. IsInjective(<< >>) /\ Range(<< >>) = {}
      BY DEF IsInjective, Range
    <3> QED
      BY <1>3, <2>1, <3>1, <3>2
  <2>2. CASE p = s
    <3>1. old[s].children \in Seq(ScopePtr)
      <4>1. old[s] \in ScopeInfo(Name)
        BY <1>1, ElementOfSeq
      <4> QED
        BY <4>1 DEF ScopeInfo
    <3>2. /\ IsInjective(old[s].children)
          /\ Range(old[s].children) = {c \in DOMAIN old : old[c].parent = s}
      BY DEF Tree
    <3>3. last \notin Range(old[s].children)
      BY <1>2, <3>2
    <3>4. /\ IsInjective(new[s].children)
          /\ Range(new[s].children) = Range(old[s].children) \cup {last}
      BY <1>1, <1>3, <3>1, <3>2, <3>3, InjectiveAppend
    <3> QED
      BY <1>2, <1>3, <2>2, <3>2, <3>4
  <2>3. CASE p \in DOMAIN old /\ p # s
    <3>1. /\ IsInjective(old[p].children)
          /\ Range(old[p].children) = {c \in DOMAIN old : old[c].parent = p}
      BY <2>3 DEF Tree
    <3> QED
      BY <1>2, <1>3, <2>3, <3>1
  <2> QED
    BY <1>2, <2>1, <2>2, <2>3
<1> QED
  BY <1>5, <1>6, <1>7 DEF Tree

(* Only the symbols of a scope change: the tree stays as it is.            *)
LEMMA TreeStays ==
  ASSUME NEW old, NEW new, DOMAIN new = DOMAIN old, Tree(old),
         \A t \in DOMAIN old : /\ new[t].parent = old[t].parent
                               /\ new[t].children = old[t].children
  PROVE  Tree(new)
<1>1. \A p \in DOMAIN old : {c \in DOMAIN new : new[c].parent = p} =
                            {c \in DOMAIN old : old[c].parent = p}
  OBVIOUS
<1> QED
  BY <1>1 DEF Tree

-----------------------------------------------------------------------------
(* The steps                                                               *)

LEMMA InitIInv == Init => IInv
<1> SUFFICES ASSUME Init PROVE IInv
  OBVIOUS
<1> DEFINE top == [parent |-> NULL, symbols |-> << >>, children |-> << >>]
<1>1. scopes = <<top>> /\ scope = 1 /\ phase = "live" /\ pending = << >> /\ freed = << >>
  BY DEF Init, EmptyTable, sym_mkscope, Top
<1>2. top \in ScopeInfo(Name)
  BY EmptySeq DEF ScopeInfo, NULL
<1>3. top.parent = NULL /\ top.children = << >>
  OBVIOUS
<1> HIDE DEF top
<1>4. scopes \in Seq(ScopeInfo(Name)) /\ DOMAIN scopes = {1} /\ scopes[1] = top
  BY <1>1, <1>2
<1>5. IsInjective(<< >>) /\ Range(<< >>) = {}
  BY DEF IsInjective, Range
<1>6. Types
  BY <1>1, <1>4, EmptySeq DEF Types
<1>7. Tree(scopes)
  BY <1>3, <1>4, <1>5 DEF Tree, Top, NULL
<1>8. FreesDownwards
  BY <1>1, <1>5 DEF FreesDownwards
<1> QED
  BY <1>6, <1>7, <1>8 DEF IInv

(* While the table is live nothing is pending and nothing freed, so that   *)
(* a step of the client keeps FreesDownwards.                              *)
LEMMA LiveStep ==
  ASSUME IInv, phase = "live", UNCHANGED Freeing
  PROVE  FreesDownwards' /\ pending' \in Seq(DOMAIN scopes') /\ freed' \in Seq(DOMAIN scopes')
<1>1. /\ phase' = "live" /\ pending' = << >> /\ freed' = << >>
      /\ IsInjective(<< >>) /\ Range(<< >>) = {}
  BY DEF IInv, FreesDownwards, Freeing, IsInjective, Range
<1> QED
  BY <1>1, EmptySeq DEF FreesDownwards

LEMMA PushNewScopeStep ==
  ASSUME IInv, CtxPushNewScope
  PROVE  IInv'
<1>1. /\ scopes \in Seq(ScopeInfo(Name)) /\ scope \in DOMAIN scopes /\ Tree(scopes)
      /\ phase = "live" /\ UNCHANGED Freeing
      /\ scopes' = ctx_push_new_scope(scopes, scope) /\ scope' = Len(scopes')
  BY DEF IInv, Types, CtxPushNewScope
<1>2. /\ scopes' \in Seq(ScopeInfo(Name)) /\ Len(scopes') = Len(scopes) + 1
      /\ scopes'[Len(scopes) + 1].parent = scope
      /\ \A t \in DOMAIN scopes : scopes'[t].parent = scopes[t].parent
      /\ LinksChild(scopes, scope, scopes')
  <2>1. /\ scopes \in Seq(ScopeInfo(Name)) /\ scope \in DOMAIN scopes
        /\ scopes' = ctx_push_new_scope(scopes, scope)
    BY <1>1
  <2> QED
    BY <2>1, PushNewScope
<1>3. Tree(scopes')
  BY <1>1, <1>2, TreeGrows
<1>4. scope' \in DOMAIN scopes'
  BY <1>1, <1>2, LenProperties
<1>5. FreesDownwards' /\ pending' \in Seq(DOMAIN scopes') /\ freed' \in Seq(DOMAIN scopes')
  BY <1>1, LiveStep
<1> QED
  BY <1>1, <1>2, <1>3, <1>4, <1>5 DEF IInv, Types, Freeing

LEMMA PushFunctionStep ==
  ASSUME IInv, NEW n \in Name, CtxPushFunction(n)
  PROVE  IInv'
<1>1. /\ scopes \in Seq(ScopeInfo(Name)) /\ scope \in DOMAIN scopes /\ Tree(scopes)
      /\ phase = "live" /\ UNCHANGED Freeing
      /\ scopes' = ctx_push_function(scopes, scope, n) /\ scope' = Len(scopes')
  BY DEF IInv, Types, CtxPushFunction
<1>2. /\ scopes' \in Seq(ScopeInfo(Name)) /\ Len(scopes') = Len(scopes) + 1
      /\ scopes'[Len(scopes) + 1].parent = scope
      /\ \A t \in DOMAIN scopes : scopes'[t].parent = scopes[t].parent
      /\ LinksChild(scopes, scope, scopes')
  <2>1. /\ scopes \in Seq(ScopeInfo(Name)) /\ scope \in DOMAIN scopes
        /\ scopes' = ctx_push_function(scopes, scope, n)
    BY <1>1
  <2> QED
    BY <2>1, PushFunction
<1>3. Tree(scopes')
  BY <1>1, <1>2, TreeGrows
<1>4. scope' \in DOMAIN scopes'
  BY <1>1, <1>2, LenProperties
<1>5. FreesDownwards' /\ pending' \in Seq(DOMAIN scopes') /\ freed' \in Seq(DOMAIN scopes')
  BY <1>1, LiveStep
<1> QED
  BY <1>1, <1>2, <1>3, <1>4, <1>5 DEF IInv, Types, Freeing

LEMMA AddVarStep ==
  ASSUME IInv, NEW n \in Name, CtxAddVar(n)
  PROVE  IInv'
<1> DEFINE info == sym_mkvar(n, scope)
<1>1. /\ scopes \in Seq(ScopeInfo(Name)) /\ scope \in DOMAIN scopes /\ Tree(scopes)
      /\ phase = "live" /\ UNCHANGED Freeing /\ UNCHANGED scope
      /\ scopes' = sym_add_symbol(scopes, scope, info)
  BY DEF IInv, Types, CtxAddVar
<1>2. DOMAIN scopes = 1 .. Len(scopes) /\ Len(scopes) \in Nat
  BY <1>1, LenProperties
<1>3. info \in SymbolInfo(Name)
  BY <1>1, <1>2 DEF sym_mkvar, SymbolInfo, ScopePtr, NULL
<1> HIDE DEF info
<1>4. /\ scopes' \in Seq(ScopeInfo(Name)) /\ Len(scopes') = Len(scopes)
      /\ \A t \in DOMAIN scopes : t # scope => scopes'[t] = scopes[t]
      /\ scopes'[scope].parent = scopes[scope].parent
      /\ scopes'[scope].children = scopes[scope].children
  BY <1>1, <1>3, AddSymbol
<1>5. DOMAIN scopes' = DOMAIN scopes
  BY <1>2, <1>4, LenProperties
<1>6. Tree(scopes')
  <2>1. \A t \in DOMAIN scopes : /\ scopes'[t].parent = scopes[t].parent
                                 /\ scopes'[t].children = scopes[t].children
    BY <1>4
  <2> QED
    BY <1>1, <1>5, <2>1, TreeStays
<1>7. FreesDownwards' /\ pending' \in Seq(DOMAIN scopes') /\ freed' \in Seq(DOMAIN scopes')
  BY <1>1, LiveStep
<1> QED
  BY <1>1, <1>4, <1>5, <1>6, <1>7 DEF IInv, Types, Freeing

(* The parent of a scope other than the top level is a scope.              *)
LEMMA PopScopeStep ==
  ASSUME IInv, CtxPopScope
  PROVE  IInv'
<1>1. /\ scopes \in Seq(ScopeInfo(Name)) /\ scope \in DOMAIN scopes /\ Tree(scopes)
      /\ phase = "live" /\ UNCHANGED Freeing /\ UNCHANGED scopes
      /\ scope # Top /\ scope' = scopes[scope].parent
  BY DEF IInv, Types, CtxPopScope
<1>2. /\ DOMAIN scopes = 1 .. Len(scopes) /\ Len(scopes) \in Nat
      /\ scopes[scope] \in ScopeInfo(Name)
  BY <1>1, LenProperties, ElementOfSeq
<1>3. scope' \in Nat /\ scope' < scope /\ scope' # 0
  BY <1>1, <1>2 DEF Tree, ScopeInfo, NULL
<1>4. scope' \in DOMAIN scopes'
  BY <1>1, <1>2, <1>3
<1>5. FreesDownwards' /\ pending' \in Seq(DOMAIN scopes') /\ freed' \in Seq(DOMAIN scopes')
  BY <1>1, LiveStep
<1> QED
  BY <1>1, <1>4, <1>5 DEF IInv, Types, Freeing

LEMMA FreeSymbolTableStep ==
  ASSUME IInv, FreeSymbolTable
  PROVE  IInv'
<1>1. /\ Types /\ Tree(scopes) /\ UNCHANGED <<scopes, scope>>
      /\ phase' = "freeing" /\ pending' = <<Top>> /\ freed' = << >>
  BY DEF IInv, FreesDownwards, FreeSymbolTable
<1>2. /\ Top \in DOMAIN scopes /\ <<Top>> \in Seq(DOMAIN scopes)
      /\ << >> \in Seq(DOMAIN scopes)
  BY <1>1, EmptySeq DEF Tree
<1>3. /\ IsInjective(<< >>) /\ Range(<< >>) = {}
      /\ IsInjective(<<Top>>) /\ Range(<<Top>>) = {Top}
  BY DEF IsInjective, Range
<1>4. FreesDownwards'
  BY <1>1, <1>3 DEF FreesDownwards, Reached
<1> QED
  BY <1>1, <1>2, <1>4 DEF IInv, Types

(* The children of the scope that is freed have not been reached before:   *)
(* only freed scopes' children have, and it was none.                      *)
LEMMA FreeScopeInfoStep ==
  ASSUME IInv, FreeScopeInfo
  PROVE  IInv'
<1> DEFINE h == Head(pending)
           C == {c \in DOMAIN scopes : scopes[c].parent = h}
<1>1. /\ Types /\ Tree(scopes) /\ UNCHANGED <<scopes, scope, phase>>
      /\ phase = "freeing" /\ pending # << >>
      /\ freed' = Append(freed, h)
      /\ pending' = scopes[h].children \o Tail(pending)
  BY DEF IInv, FreeScopeInfo
<1>2. /\ IsInjective(freed) /\ IsInjective(pending) /\ Range(freed) \cap Range(pending) = {}
      /\ \A s \in DOMAIN scopes :
           s \in Range(freed) \cup Range(pending) <=>
             s = Top \/ scopes[s].parent \in Range(freed)
  BY <1>1 DEF IInv, FreesDownwards, Reached
<1>3. /\ freed \in Seq(DOMAIN scopes) /\ pending \in Seq(DOMAIN scopes)
      /\ Range(freed) \subseteq DOMAIN scopes /\ Range(pending) \subseteq DOMAIN scopes
  BY <1>1, RangeOfSeq DEF Types
<1>4. /\ h \in Range(pending) /\ Tail(pending) \in Seq(DOMAIN scopes)
      /\ IsInjective(Tail(pending)) /\ Range(Tail(pending)) = Range(pending) \ {h}
  BY <1>1, <1>2, <1>3, InjectiveTail
<1> HIDE DEF h
<1>5. /\ IsInjective(scopes[h].children) /\ Range(scopes[h].children) = C
  BY <1>1, <1>3, <1>4 DEF Tree
<1>6. scopes[h].children \in Seq(C)
  <2>1. h \in 1 .. Len(scopes) /\ scopes \in Seq(ScopeInfo(Name))
    BY <1>1, <1>3, <1>4, LenProperties DEF Types
  <2>2. scopes[h] \in ScopeInfo(Name)
    BY <2>1, ElementOfSeq
  <2>3. scopes[h].children \in Seq(ScopePtr)
    BY <2>2 DEF ScopeInfo
  <2> QED
    BY <1>5, <2>3, SeqOfRange
<1>7. C \cap (Range(freed) \cup Range(pending)) = {}
  <2> SUFFICES ASSUME NEW c \in C, c \in Range(freed) \cup Range(pending)
               PROVE  FALSE
    OBVIOUS
  <2>1. c = Top \/ h \in Range(freed)
    BY <1>2
  <2>2. h \notin Range(freed) /\ h \in DOMAIN scopes
    BY <1>2, <1>3, <1>4
  <2>3. scopes[Top].parent = h
    BY <2>1, <2>2
  <2>4. scopes[Top].parent < 1 /\ h \in Nat /\ h # 0
    <3>1. DOMAIN scopes = 1 .. Len(scopes)
      BY <1>1, LenProperties DEF Types
    <3> QED
      BY <1>1, <2>2, <3>1 DEF Tree, Top
  <2> QED
    BY <2>3, <2>4
<1>8. /\ IsInjective(freed') /\ Range(freed') = Range(freed) \cup {h}
      /\ freed' \in Seq(DOMAIN scopes)
  <2>1. h \in DOMAIN scopes /\ h \notin Range(freed)
    BY <1>2, <1>3, <1>4
  <2> QED
    BY <1>1, <1>2, <1>3, <2>1, InjectiveAppend, AppendProperties
<1>9. /\ IsInjective(pending') /\ Range(pending') = C \cup (Range(pending) \ {h})
      /\ pending' \in Seq(DOMAIN scopes)
  <2>1. scopes[h].children \in Seq(DOMAIN scopes)
    BY <1>6, SeqMonotonic
  <2>2. Range(scopes[h].children) \cap Range(Tail(pending)) = {}
    BY <1>4, <1>5, <1>7
  <2>3. /\ IsInjective(scopes[h].children \o Tail(pending))
        /\ Range(scopes[h].children \o Tail(pending)) = C \cup Range(Tail(pending))
    <3> DEFINE kids == scopes[h].children
               rest == Tail(pending)
    <3>1. /\ kids \in Seq(DOMAIN scopes) /\ rest \in Seq(DOMAIN scopes)
          /\ IsInjective(kids) /\ IsInjective(rest) /\ Range(kids) \cap Range(rest) = {}
      BY <1>4, <1>5, <2>1, <2>2
    <3> HIDE DEF kids, rest
    <3>2. IsInjective(kids \o rest) /\ Range(kids \o rest) = Range(kids) \cup Range(rest)
      BY <3>1, InjectiveConcat
    <3> QED
      BY <1>5, <3>2 DEF kids, rest
  <2>4. scopes[h].children \o Tail(pending) \in Seq(DOMAIN scopes)
    BY <1>4, <2>1
  <2> QED
    BY <1>1, <1>4, <2>3, <2>4
<1>10. Range(freed') \cap Range(pending') = {}
  BY <1>2, <1>4, <1>7, <1>8, <1>9
<1>11. ASSUME NEW s \in DOMAIN scopes
       PROVE  s \in Range(freed') \cup Range(pending') <=>
                s = Top \/ scopes[s].parent \in Range(freed')
  BY <1>2, <1>4, <1>8, <1>9
<1>12. FreesDownwards'
  BY <1>1, <1>8, <1>9, <1>10, <1>11 DEF FreesDownwards, Reached
<1> QED
  BY <1>1, <1>8, <1>9, <1>12 DEF IInv, Types

LEMMA StepIInv == IInv /\ [Next]_vars => IInv'
<1> SUFFICES ASSUME IInv, [Next]_vars
             PROVE  IInv'
  OBVIOUS
<1>1. CASE CtxPushNewScope
  BY <1>1, PushNewScopeStep
<1>2. CASE CtxPopScope
  BY <1>2, PopScopeStep
<1>3. ASSUME NEW n \in Name, CtxPushFunction(n)
      PROVE  IInv'
  BY <1>3, PushFunctionStep
<1>4. ASSUME NEW n \in Name, CtxAddVar(n)
      PROVE  IInv'
  BY <1>4, AddVarStep
<1>5. CASE FreeSymbolTable
  BY <1>5, FreeSymbolTableStep
<1>6. CASE FreeScopeInfo
  BY <1>6, FreeScopeInfoStep
<1>7. CASE Freed \/ UNCHANGED vars
  BY <1>7 DEF Freed, vars, IInv, Types, FreesDownwards, Reached
<1> QED
  BY <1>1, <1>2, <1>3, <1>4, <1>5, <1>6, <1>7 DEF Next

LEMMA Invariance == Spec => []IInv
<1> QED
  BY InitIInv, StepIInv, PTL DEF Spec

-----------------------------------------------------------------------------
(* What follows                                                            *)

(* In any nesting of scopes and functions a scope hangs in the list of the *)
(* scope that its parent pointer leads to, once, and in no other: what     *)
(* process_fun, sym_mkfunction and ctx_push_new_scope share out between    *)
(* them is done once for every scope.                                      *)
THEOREM ChildrenAndParentsAgree == Spec => []ChildrenInvertParents
<1>1. IInv => ChildrenInvertParents
  BY DEF IInv, Tree, ChildrenInvertParents
<1> QED
  BY <1>1, Invariance, PTL

(* free_symbol_table frees no scope twice, and when it returns it has      *)
(* freed all that were ever allocated: were some left, the first of them   *)
(* would have a parent that was freed and would have been reached.         *)
THEOREM EveryScopeFreedOnce == Spec => []FreesEveryScopeOnce
<1>1. ASSUME IInv
      PROVE  FreesEveryScopeOnce
  <2>1. /\ IsInjective(freed) /\ Range(freed) \subseteq DOMAIN scopes
        /\ DOMAIN scopes = 1 .. Len(scopes) /\ Len(scopes) \in Nat
    BY <1>1, RangeOfSeq, LenProperties DEF IInv, Types, FreesDownwards
  <2>2. ASSUME phase = "freeing", pending = << >>
        PROVE  DOMAIN scopes \subseteq Range(freed)
    <3> DEFINE left == DOMAIN scopes \ Range(freed)
    <3>1. Range(pending) = {}
      BY <2>2 DEF Range
    <3>2. \A s \in DOMAIN scopes :
            s \in Range(freed) <=> s = Top \/ scopes[s].parent \in Range(freed)
      BY <1>1, <2>2, <3>1 DEF IInv, FreesDownwards, Reached
    <3>3. SUFFICES ASSUME left # {}
                   PROVE  FALSE
      OBVIOUS
    <3>4. left \subseteq Nat
      BY <2>1
    <3> DEFINE s == Min(left)
    <3>5. s \in left /\ s \in Nat /\ \A t \in left : s <= t
      BY <3>3, <3>4, MinIsLeast
    <3> HIDE DEF s
    <3>6. s \in DOMAIN scopes /\ s # Top /\ scopes[s].parent \notin Range(freed)
      BY <3>2, <3>5
    <3>7. scopes[s].parent \in Nat /\ scopes[s].parent < s /\ scopes[s].parent # 0
      <4>1. scopes[s] \in ScopeInfo(Name)
        BY <1>1, <2>1, <3>6, ElementOfSeq DEF IInv, Types
      <4> QED
        BY <1>1, <3>6, <4>1 DEF IInv, Tree, ScopeInfo, NULL
    <3>8. scopes[s].parent \in left
      BY <2>1, <3>6, <3>7
    <3> QED
      BY <3>5, <3>7, <3>8
  <2> QED
    BY <2>1, <2>2 DEF FreesEveryScopeOnce
<1> QED
  BY <1>1, Invariance, PTL

-----------------------------------------------------------------------------
(* Symbols do not move                                                     *)

LEMMA GrownAtItsEnd ==
  ASSUME NEW S, NEW s \in Seq(S), NEW x \in S
  PROVE  IsPrefix(s, s) /\ IsPrefix(s, Append(s, x))
<1> DEFINE new == Append(s, x)
<1>1. /\ new \in Seq(S) /\ Len(new) = Len(s) + 1 /\ Len(s) \in Nat
      /\ \A k \in 1 .. Len(s) : new[k] = s[k]
  BY AppendProperties, LenProperties
<1> HIDE DEF new
<1>2. /\ Len(SubSeq(s, 1, Len(s))) = Len(s) /\ Len(SubSeq(new, 1, Len(s))) = Len(s)
      /\ SubSeq(s, 1, Len(s)) \in Seq(S) /\ SubSeq(new, 1, Len(s)) \in Seq(S)
      /\ \A k \in 1 .. Len(s) : SubSeq(s, 1, Len(s))[k] = s[k]
      /\ \A k \in 1 .. Len(s) : SubSeq(new, 1, Len(s))[k] = new[k]
  BY <1>1
<1>3. SubSeq(s, 1, Len(s)) = SubSeq(new, 1, Len(s))
  BY <1>1, <1>2, SeqEqual
<1> QED
  BY <1>1, <1>3 DEF IsPrefix, new

(* What one step of the property says, of a table and a later one.         *)
Keeps(old, new) ==
  /\ Len(old) <= Len(new)
  /\ \A s \in DOMAIN old : /\ old[s].parent = new[s].parent
                           /\ IsPrefix(old[s].symbols, new[s].symbols)

(* Whatever the client does, a scope keeps its parent and its symbols keep *)
(* their places: of two declarations in a scope the first stays first.     *)
THEOREM SymbolsNeverMove == Spec => SymbolsStay
<1>1. ASSUME IInv, [Next]_vars
      PROVE  Keeps(scopes, scopes')
  <2>1. /\ scopes \in Seq(ScopeInfo(Name)) /\ scope \in DOMAIN scopes
        /\ DOMAIN scopes = 1 .. Len(scopes) /\ Len(scopes) \in Nat
    BY <1>1, LenProperties DEF IInv, Types
  <2>2. ASSUME NEW s \in DOMAIN scopes
        PROVE  /\ scopes[s].symbols \in Seq(SymbolInfo(Name))
               /\ IsPrefix(scopes[s].symbols, scopes[s].symbols)
               /\ \A info \in SymbolInfo(Name) :
                    IsPrefix(scopes[s].symbols, Append(scopes[s].symbols, info))
    <3>1. scopes[s] \in ScopeInfo(Name)
      BY <2>1, ElementOfSeq
    <3>2. scopes[s].symbols \in Seq(SymbolInfo(Name))
      BY <3>1 DEF ScopeInfo
    <3>3. IsPrefix(scopes[s].symbols, scopes[s].symbols)
      BY <3>2 DEF IsPrefix
    <3> QED
      BY <3>2, <3>3, GrownAtItsEnd
  <2>3. CASE CtxPushNewScope
    <3>1. scopes' = ctx_push_new_scope(scopes, scope)
      BY <2>3 DEF CtxPushNewScope
    <3>2. /\ Len(scopes') = Len(scopes) + 1
          /\ \A t \in DOMAIN scopes : /\ scopes'[t].parent = scopes[t].parent
                                      /\ scopes'[t].symbols = scopes[t].symbols
      <4>1. scopes \in Seq(ScopeInfo(Name)) /\ scope \in DOMAIN scopes
        BY <2>1
      <4> QED
        BY <3>1, <4>1, PushNewScope
    <3> QED
      BY <2>1, <2>2, <3>2 DEF Keeps
  <2>4. ASSUME NEW n \in Name, CtxPushFunction(n)
        PROVE  Keeps(scopes, scopes')
    <3> DEFINE info == sym_mkfunction(n, scope, Len(scopes) + 1)
    <3>1. scopes' = ctx_push_function(scopes, scope, n)
      BY <2>4 DEF CtxPushFunction
    <3>2. /\ Len(scopes') = Len(scopes) + 1
          /\ \A t \in DOMAIN scopes :
               /\ scopes'[t].parent = scopes[t].parent
               /\ t # scope => scopes'[t].symbols = scopes[t].symbols
          /\ scopes'[scope].symbols = Append(scopes[scope].symbols, info)
      <4>1. scopes \in Seq(ScopeInfo(Name)) /\ scope \in DOMAIN scopes
        BY <2>1
      <4> QED
        BY <3>1, <4>1, PushFunction
    <3>3. info \in SymbolInfo(Name)
      BY <2>1 DEF sym_mkfunction, SymbolInfo, ScopePtr, NULL
    <3> HIDE DEF info
    <3>4. ASSUME NEW s \in DOMAIN scopes
          PROVE  /\ scopes[s].parent = scopes'[s].parent
                 /\ IsPrefix(scopes[s].symbols, scopes'[s].symbols)
      <4>1. CASE s = scope
        <5>1. IsPrefix(scopes[scope].symbols, Append(scopes[scope].symbols, info))
          BY <2>1, <2>2, <3>3
        <5> QED
          BY <4>1, <5>1, <3>2
      <4>2. CASE s # scope
        <5>1. IsPrefix(scopes[s].symbols, scopes[s].symbols)
          BY <2>2
        <5> QED
          BY <4>2, <5>1, <3>2
      <4> QED
        BY <4>1, <4>2
    <3>5. Len(scopes) <= Len(scopes')
      BY <2>1, <3>2
    <3> QED
      BY <3>4, <3>5 DEF Keeps
  <2>5. ASSUME NEW n \in Name, CtxAddVar(n)
        PROVE  Keeps(scopes, scopes')
    <3> DEFINE info == sym_mkvar(n, scope)
    <3>1. scopes' = sym_add_symbol(scopes, scope, info)
      BY <2>5 DEF CtxAddVar
    <3>2. info \in SymbolInfo(Name)
      BY <2>1 DEF sym_mkvar, SymbolInfo, ScopePtr, NULL
    <3> HIDE DEF info
    <3>3. /\ Len(scopes') = Len(scopes)
          /\ \A t \in DOMAIN scopes : t # scope => scopes'[t] = scopes[t]
          /\ scopes'[scope].parent = scopes[scope].parent
          /\ scopes'[scope].symbols = Append(scopes[scope].symbols, info)
      BY <2>1, <3>1, <3>2, AddSymbol
    <3>4. ASSUME NEW s \in DOMAIN scopes
          PROVE  /\ scopes[s].parent = scopes'[s].parent
                 /\ IsPrefix(scopes[s].symbols, scopes'[s].symbols)
      <4>1. CASE s = scope
        <5>1. IsPrefix(scopes[scope].symbols, Append(scopes[scope].symbols, info))
          BY <2>1, <2>2, <3>2
        <5> QED
          BY <4>1, <5>1, <3>3
      <4>2. CASE s # scope
        <5>1. IsPrefix(scopes[s].symbols, scopes[s].symbols)
          BY <2>2
        <5> QED
          BY <4>2, <5>1, <3>3
      <4> QED
        BY <4>1, <4>2
    <3>5. Len(scopes) <= Len(scopes')
      BY <2>1, <3>3
    <3> QED
      BY <3>4, <3>5 DEF Keeps
  <2>6. CASE UNCHANGED scopes
    BY <2>1, <2>2, <2>6 DEF Keeps
  <2> QED
    BY <1>1, <2>3, <2>4, <2>5, <2>6
       DEF Next, CtxPopScope, FreeSymbolTable, FreeScopeInfo, Freed, vars
<1>2. ASSUME Keeps(scopes, scopes')
      PROVE  /\ Len(scopes) <= Len(scopes')
             /\ \A s \in DOMAIN scopes :
                  /\ scopes[s].parent = scopes'[s].parent
                  /\ IsPrefix(scopes[s].symbols, scopes'[s].symbols)
  BY <1>2 DEF Keeps
<1> QED
  BY <1>1, <1>2, Invariance, PTL DEF SymbolsStay, Spec

-----------------------------------------------------------------------------
(* The way from the top level to a scope                                   *)

(* What a function that takes each scope of a table to its chain satisfies.*)
IsChain(c, table) ==
  c = [s \in DOMAIN table |->
         IF table[s].parent = NULL THEN <<s>> ELSE Append(c[table[s].parent], s)]

(* What a tree says of one scope: its parent, if any, is an older scope.   *)
LEMMA Parents ==
  ASSUME NEW table \in Seq(ScopeInfo(Name)), Tree(table), NEW s \in DOMAIN table
  PROVE  /\ s \in Nat /\ DOMAIN table = 1 .. Len(table) /\ Len(table) \in Nat
         /\ table[s].parent \in Nat
         /\ table[s].parent # NULL => table[s].parent \in DOMAIN table /\ table[s].parent < s
         /\ table[s].parent = NULL => s = Top
<1>1. DOMAIN table = 1 .. Len(table) /\ Len(table) \in Nat /\ table[s] \in ScopeInfo(Name)
  BY LenProperties, ElementOfSeq
<1>2. table[s].parent \in Nat /\ table[s].parent < s /\ (table[s].parent = NULL => s = Top)
  BY <1>1 DEF Tree, ScopeInfo
<1> QED
  BY <1>1, <1>2 DEF NULL

LEMMA ChainsExist ==
  ASSUME NEW table \in Seq(ScopeInfo(Name)), Tree(table)
  PROVE  \E c : IsChain(c, table)
<1> DEFINE D == DOMAIN table
           n == Len(table)
           rank == [s \in D |-> s]
           up(s) == table[s].parent
           F == [p \in D \X [D -> Seq(Nat)] |->
                   IF up(p[1]) = NULL THEN <<p[1]>> ELSE Append(p[2][up(p[1])], p[1])]
<1>1. /\ n \in Nat /\ D = 1 .. n
      /\ \A s \in D : s \in Nat /\ (up(s) # NULL => up(s) \in D /\ up(s) < s)
  BY Parents, LenProperties
<1>2. rank \in [D -> 0 .. n]
  BY <1>1
<1>3. Seq(Nat) # {}
  BY EmptySeq
<1>4. \A s \in D, g \in [D -> Seq(Nat)] :
        F[<<s, g>>] = IF up(s) = NULL THEN <<s>> ELSE Append(g[up(s)], s)
  OBVIOUS
<1>5. F \in [D \X [D -> Seq(Nat)] -> Seq(Nat)]
  <2> SUFFICES ASSUME NEW s \in D, NEW g \in [D -> Seq(Nat)]
               PROVE  /\ up(s) = NULL => <<s>> \in Seq(Nat)
                      /\ up(s) # NULL => Append(g[up(s)], s) \in Seq(Nat)
    OBVIOUS
  <2>1. s \in Nat /\ <<s>> \in Seq(Nat)
    BY <1>1
  <2>2. ASSUME up(s) # NULL
        PROVE  Append(g[up(s)], s) \in Seq(Nat)
    <3>1. g[up(s)] \in Seq(Nat)
      BY <1>1, <2>2
    <3> QED BY <2>1, <3>1, AppendProperties
  <2> QED BY <2>1, <2>2
<1>6. \A s \in D : \A e \in D : rank[e] < rank[s] <=> e < s
  OBVIOUS
<1> HIDE DEF F, rank, D, up
<1>7. \A s \in D : \A g, h \in [D -> Seq(Nat)] :
        (\A e \in D : rank[e] < rank[s] => g[e] = h[e]) => F[<<s, g>>] = F[<<s, h>>]
  <2> SUFFICES ASSUME NEW s \in D, NEW g \in [D -> Seq(Nat)], NEW h \in [D -> Seq(Nat)],
                      \A e \in D : rank[e] < rank[s] => g[e] = h[e]
               PROVE  F[<<s, g>>] = F[<<s, h>>]
    OBVIOUS
  <2>1. up(s) # NULL => g[up(s)] = h[up(s)]
    BY <1>1, <1>6
  <2> QED BY <1>4, <2>1
<1>8. ByRank(F, D, Seq(Nat), rank, n)
  BY <1>1, <1>2, <1>3, <1>5, <1>7 DEF ByRank
<1>9. PICK c \in [D -> Seq(Nat)] : \A s \in D : c[s] = F[<<s, c>>]
  BY <1>8, RecursionByRank
<1>10. c = [s \in D |-> c[s]]
  OBVIOUS
<1>11. c = [s \in D |-> IF up(s) = NULL THEN <<s>> ELSE Append(c[up(s)], s)]
  BY <1>4, <1>9, <1>10
<1> QED
  BY <1>11 DEF IsChain, D, up

(* A chain's scopes are allocated in its order, and the chain of each is   *)
(* the part of the chain that leads to it.                                 *)
WellChained(c, table, s) ==
  /\ c[s] \in Seq(DOMAIN table) /\ Len(c[s]) \in Nat \ {0} /\ c[s][Len(c[s])] = s
  /\ \A d \in 1 .. Len(c[s]) - 1 : c[s][d] < s
  /\ \A d \in 1 .. Len(c[s]) : Len(c[c[s][d]]) = d

LEMMA ChainsGoUp ==
  ASSUME NEW table \in Seq(ScopeInfo(Name)), Tree(table), NEW c, IsChain(c, table)
  PROVE  \A s \in DOMAIN table : WellChained(c, table, s)
<1> DEFINE S == {k \in Nat : \A s \in DOMAIN table : s <= k => WellChained(c, table, s)}
<1>1. 0 \in S
  BY Parents, LenProperties
<1>2. ASSUME NEW k \in Nat, k \in S
      PROVE  k + 1 \in S
  <2> SUFFICES ASSUME NEW s \in DOMAIN table, s = k + 1
               PROVE  WellChained(c, table, s)
    BY <1>2, Parents
  <2> DEFINE p == table[s].parent
  <2>1. /\ s \in Nat /\ p # NULL => p \in DOMAIN table /\ p < s
        /\ DOMAIN table = 1 .. Len(table) /\ Len(table) \in Nat
    BY Parents
  <2>2. c[s] = IF p = NULL THEN <<s>> ELSE Append(c[p], s)
    BY DEF IsChain
  <2> HIDE DEF p
  <2>3. CASE p = NULL
    <3>1. c[s] = <<s>>
      BY <2>2, <2>3
    <3>2. c[s] \in Seq(DOMAIN table) /\ Len(c[s]) = 1 /\ c[s][1] = s
      BY <3>1
    <3> QED BY <3>2 DEF WellChained
  <2>4. CASE p # NULL
    <3>1. p \in DOMAIN table /\ p <= k /\ p \in Nat /\ p < s
      BY <2>1, <2>4
    <3>2. WellChained(c, table, p)
      BY <1>2, <3>1
    <3> DEFINE m == Len(c[p])
    <3>3. /\ c[p] \in Seq(DOMAIN table) /\ m \in Nat \ {0} /\ c[p][m] = p
          /\ \A d \in 1 .. m - 1 : c[p][d] < p
          /\ \A d \in 1 .. m : Len(c[c[p][d]]) = d
      BY <3>2 DEF WellChained
    <3>4. c[s] = Append(c[p], s)
      BY <2>2, <2>4
    <3>5. /\ c[s] \in Seq(DOMAIN table) /\ Len(c[s]) = m + 1 /\ c[s][m + 1] = s
          /\ \A d \in 1 .. m : c[s][d] = c[p][d]
      BY <3>3, <3>4, AppendProperties
    <3>6. \A d \in 1 .. m : c[p][d] \in Nat /\ c[p][d] <= p
      <4> SUFFICES ASSUME NEW d \in 1 .. m
                   PROVE  c[p][d] \in Nat /\ c[p][d] <= p
        OBVIOUS
      <4>1. c[p][d] \in DOMAIN table
        BY <3>3, ElementOfSeq
      <4>2. c[p][d] \in Nat
        BY <2>1, <4>1
      <4>3. CASE d = m
        BY <3>1, <3>3, <4>3
      <4>4. CASE d # m
        <5>1. d \in 1 .. m - 1
          BY <3>3, <4>4
        <5> HIDE DEF m
        <5>2. c[p][d] < p
          BY <3>3, <5>1
        <5> QED BY <3>1, <4>2, <5>2
      <4> QED BY <4>2, <4>3, <4>4
    <3> HIDE DEF m
    <3>7. \A d \in 1 .. m : c[s][d] < s
      BY <3>1, <3>5, <3>6
    <3>8. \A d \in 1 .. m + 1 : Len(c[c[s][d]]) = d
      <4> SUFFICES ASSUME NEW d \in 1 .. m + 1
                   PROVE  Len(c[c[s][d]]) = d
        OBVIOUS
      <4>1. CASE d = m + 1
        BY <3>5, <4>1
      <4>2. CASE d # m + 1
        <5>1. d \in 1 .. m
          BY <3>3, <4>2
        <5> QED BY <3>3, <3>5, <5>1
      <4> QED BY <4>1, <4>2
    <3> QED
      <4>1. Len(c[s]) - 1 = m /\ Len(c[s]) \in Nat \ {0}
        BY <3>3, <3>5
      <4> QED BY <3>5, <3>7, <3>8, <4>1 DEF WellChained
  <2> QED BY <2>3, <2>4
<1>3. 0 .. Len(table) \subseteq S
  <2>1. Len(table) \in Nat
    BY LenProperties
  <2> HIDE DEF S
  <2> QED BY <1>1, <1>2, <2>1, InductionUpTo
<1>4. DOMAIN table = 1 .. Len(table) /\ Len(table) \in Nat
  BY LenProperties
<1> QED
  BY <1>3, <1>4

(* Chains do not change while the table grows.                             *)
LEMMA ChainsStay ==
  ASSUME NEW old \in Seq(ScopeInfo(Name)), Tree(old), NEW c, IsChain(c, old),
         NEW new \in Seq(ScopeInfo(Name)), NEW d, IsChain(d, new),
         DOMAIN old \subseteq DOMAIN new,
         \A s \in DOMAIN old : new[s].parent = old[s].parent
  PROVE  \A s \in DOMAIN old : d[s] = c[s]
<1> DEFINE S == {k \in Nat : \A s \in DOMAIN old : s <= k => d[s] = c[s]}
<1>1. 0 \in S
  BY Parents, LenProperties
<1>2. ASSUME NEW k \in Nat, k \in S
      PROVE  k + 1 \in S
  <2> SUFFICES ASSUME NEW s \in DOMAIN old, s = k + 1
               PROVE  d[s] = c[s]
    BY <1>2, Parents
  <2> DEFINE p == old[s].parent
  <2>1. p \in Nat /\ (p # NULL => p \in DOMAIN old /\ p < s)
    BY Parents
  <2>2. c[s] = IF p = NULL THEN <<s>> ELSE Append(c[p], s)
    BY DEF IsChain
  <2>3. d[s] = IF p = NULL THEN <<s>> ELSE Append(d[p], s)
    BY DEF IsChain
  <2> HIDE DEF p
  <2>4. p # NULL => d[p] = c[p]
    BY <1>2, <2>1
  <2> QED BY <2>2, <2>3, <2>4
<1>3. 0 .. Len(old) \subseteq S
  <2>1. Len(old) \in Nat
    BY LenProperties
  <2> HIDE DEF S
  <2>2. \A k \in 0 .. Len(old) : k \in S /\ k < Len(old) => k + 1 \in S
    BY <1>2, <2>1
  <2> QED BY <1>1, <2>1, <2>2, InductionUpTo
<1>4. DOMAIN old = 1 .. Len(old) /\ Len(old) \in Nat
  BY LenProperties
<1> QED
  BY <1>3, <1>4

LEMMA ChainOfScopes ==
  ASSUME Types, Tree(scopes)
  PROVE  IsChain(Chain, scopes) /\ \A s \in DOMAIN scopes : WellChained(Chain, scopes, s)
<1>1. scopes \in Seq(ScopeInfo(Name))
  BY DEF Types
<1>2. \E c : IsChain(c, scopes)
  BY <1>1, ChainsExist
<1>3. Chain = CHOOSE c : IsChain(c, scopes)
  BY Zenon DEF Chain, IsChain
<1>4. IsChain(Chain, scopes)
  BY <1>2, <1>3
<1> QED
  BY <1>1, <1>4, ChainsGoUp

-----------------------------------------------------------------------------
(* Look-ups                                                                *)

(* What the recursion of sym_find satisfies.                               *)
IsFind(f, n) ==
  f = [s \in DOMAIN scopes |->
         LET pos == sym_find_no_traverse(scopes, n, s)
         IN  IF pos # NULL
               THEN [scope |-> s, pos |-> pos]
               ELSE IF scopes[s].parent # NULL THEN f[scopes[s].parent] ELSE NotFound]

LEMMA FindExists ==
  ASSUME Types, Tree(scopes), NEW n
  PROVE  \E f : IsFind(f, n)
<1> DEFINE D == DOMAIN scopes
           V == [scope : Nat, pos : Nat]
           rank == [s \in D |-> s]
           up(s) == scopes[s].parent
           pos(s) == sym_find_no_traverse(scopes, n, s)
           F == [p \in D \X [D -> V] |->
                   IF pos(p[1]) # NULL
                     THEN [scope |-> p[1], pos |-> pos(p[1])]
                     ELSE IF up(p[1]) # NULL THEN p[2][up(p[1])] ELSE NotFound]
<1>1. /\ scopes \in Seq(ScopeInfo(Name)) /\ Len(scopes) \in Nat /\ D = 1 .. Len(scopes)
      /\ \A s \in D : s \in Nat /\ (up(s) # NULL => up(s) \in D /\ up(s) < s)
  BY Parents, LenProperties DEF Types
<1>2. rank \in [D -> 0 .. Len(scopes)]
  BY <1>1
<1>3. V # {} /\ NotFound \in V
  <2>1. NotFound \in V
    BY DEF NotFound, NULL
  <2> QED BY <2>1
<1>4. \A s \in D : pos(s) \in Nat
  <2> SUFFICES ASSUME NEW s \in D PROVE pos(s) \in Nat
    OBVIOUS
  <2>1. scopes[s].symbols \in Seq(SymbolInfo(Name))
    <3>1. scopes[s] \in ScopeInfo(Name)
      BY <1>1, ElementOfSeq
    <3> QED BY <3>1 DEF ScopeInfo
  <2>2. pos(s) = NULL \/ pos(s) \in DOMAIN scopes[s].symbols
    BY <1>1, FirstOfScope
  <2> HIDE DEF pos
  <2> QED BY <2>1, <2>2, LenProperties DEF NULL
<1>5. \A s \in D, g \in [D -> V] :
        F[<<s, g>>] = IF pos(s) # NULL
                        THEN [scope |-> s, pos |-> pos(s)]
                        ELSE IF up(s) # NULL THEN g[up(s)] ELSE NotFound
  OBVIOUS
<1>6. \A s \in D : \A e \in D : rank[e] < rank[s] <=> e < s
  OBVIOUS
<1>7. F \in [D \X [D -> V] -> V]
  <2> HIDE DEF pos, up
  <2> SUFFICES ASSUME NEW s \in D, NEW g \in [D -> V]
               PROVE  /\ [scope |-> s, pos |-> pos(s)] \in V
                      /\ up(s) # NULL => g[up(s)] \in V
                      /\ NotFound \in V
    <3> HIDE DEF V
    <3> QED OBVIOUS
  <2> QED BY <1>1, <1>3, <1>4
<1> HIDE DEF F, rank, D, V, up, pos
<1>8. \A s \in D : \A g, h \in [D -> V] :
        (\A e \in D : rank[e] < rank[s] => g[e] = h[e]) => F[<<s, g>>] = F[<<s, h>>]
  <2> SUFFICES ASSUME NEW s \in D, NEW g \in [D -> V], NEW h \in [D -> V],
                      \A e \in D : rank[e] < rank[s] => g[e] = h[e]
               PROVE  F[<<s, g>>] = F[<<s, h>>]
    OBVIOUS
  <2>1. up(s) # NULL => g[up(s)] = h[up(s)]
    BY <1>1, <1>6
  <2> QED BY <1>5, <2>1
<1>9. ByRank(F, D, V, rank, Len(scopes))
  BY <1>1, <1>2, <1>3, <1>7, <1>8 DEF ByRank
<1>10. PICK f \in [D -> V] : \A s \in D : f[s] = F[<<s, f>>]
  BY <1>9, RecursionByRank
<1>11. f = [s \in D |-> f[s]]
  OBVIOUS
<1>12. f = [s \in D |-> IF pos(s) # NULL
                          THEN [scope |-> s, pos |-> pos(s)]
                          ELSE IF up(s) # NULL THEN f[up(s)] ELSE NotFound]
  BY <1>5, <1>10, <1>11
<1> QED
  BY <1>12 DEF IsFind, D, up, pos

(* Where a search from s ends: in the last scope of its chain that has the *)
(* name, or nowhere when none has.                                         *)
Ends(info, n, s) ==
  LET hit(d) == sym_find_no_traverse(scopes, n, Chain[s][d])
      chain  == 1 .. Len(Chain[s])
  IN  \/ info = NotFound /\ \A d \in chain : hit(d) = NULL
      \/ \E d \in chain :
           /\ hit(d) # NULL /\ info = [scope |-> Chain[s][d], pos |-> hit(d)]
           /\ \A e \in chain : e > d => hit(e) = NULL

LEMMA SearchEnds ==
  ASSUME Types, Tree(scopes), NEW n, NEW f, IsFind(f, n)
  PROVE  \A s \in DOMAIN scopes : Ends(f[s], n, s)
<1> DEFINE S == {k \in Nat : \A s \in DOMAIN scopes : s <= k => Ends(f[s], n, s)}
<1>0. /\ scopes \in Seq(ScopeInfo(Name)) /\ DOMAIN scopes = 1 .. Len(scopes) /\ Len(scopes) \in Nat
      /\ IsChain(Chain, scopes) /\ \A s \in DOMAIN scopes : WellChained(Chain, scopes, s)
  BY ChainOfScopes, LenProperties DEF Types
<1>1. 0 \in S
  BY <1>0
<1>2. ASSUME NEW k \in Nat, k \in S
      PROVE  k + 1 \in S
  <2> SUFFICES ASSUME NEW s \in DOMAIN scopes, s = k + 1
               PROVE  Ends(f[s], n, s)
    BY <1>0, <1>2
  <2> DEFINE p == scopes[s].parent
             pos(t) == sym_find_no_traverse(scopes, n, t)
  <2>1. p \in Nat /\ (p # NULL => p \in DOMAIN scopes /\ p < s)
    BY <1>0, Parents
  <2>2. Chain[s] = IF p = NULL THEN <<s>> ELSE Append(Chain[p], s)
    BY <1>0 DEF IsChain
  <2>3. f[s] = IF pos(s) # NULL
                 THEN [scope |-> s, pos |-> pos(s)]
                 ELSE IF p # NULL THEN f[p] ELSE NotFound
    BY DEF IsFind
  <2>4. /\ Len(Chain[s]) \in Nat \ {0} /\ Chain[s][Len(Chain[s])] = s
    BY <1>0 DEF WellChained
  <2> HIDE DEF p, pos
  <2>5. CASE pos(s) # NULL
    <3>1. f[s] = [scope |-> s, pos |-> pos(s)]
      BY <2>3, <2>5
    <3> DEFINE m == Len(Chain[s])
    <3>2. /\ m \in 1 .. Len(Chain[s]) /\ Chain[s][m] = s
          /\ \A e \in 1 .. Len(Chain[s]) : ~(e > m)
      BY <2>4
    <3> HIDE DEF m
    <3> QED BY <2>5, <3>1, <3>2 DEF Ends, pos
  <2>6. CASE pos(s) = NULL /\ p = NULL
    <3>1. f[s] = NotFound /\ Chain[s] = <<s>>
      BY <2>2, <2>3, <2>6
    <3>2. \A d \in 1 .. Len(Chain[s]) : Chain[s][d] = s
      BY <3>1
    <3> QED BY <2>6, <3>1, <3>2 DEF Ends, pos
  <2>7. CASE pos(s) = NULL /\ p # NULL
    <3> DEFINE m == Len(Chain[p])
    <3>1. p \in DOMAIN scopes /\ f[s] = f[p] /\ p <= k
      BY <1>0, <2>1, <2>3, <2>7
    <3>2. Ends(f[p], n, p)
      BY <1>2, <3>1
    <3>3. Chain[p] \in Seq(DOMAIN scopes) /\ m \in Nat
      BY <1>0, <3>1 DEF WellChained
    <3>4. /\ Len(Chain[s]) = m + 1 /\ Chain[s][m + 1] = s
          /\ \A d \in 1 .. m : Chain[s][d] = Chain[p][d]
      BY <2>2, <2>7, <3>3, AppendProperties
    <3> HIDE DEF m
    <3>5. \A d \in 1 .. m + 1 : pos(Chain[s][d]) = IF d = m + 1 THEN NULL ELSE pos(Chain[p][d])
      BY <2>7, <3>3, <3>4
    <3>6. CASE f[p] = NotFound /\ \A d \in 1 .. m : pos(Chain[p][d]) = NULL
      <4>1. \A d \in 1 .. m + 1 : pos(Chain[s][d]) = NULL
        BY <3>3, <3>5, <3>6
      <4> QED BY <3>1, <3>4, <3>6, <4>1 DEF Ends, pos
    <3>7. ASSUME NEW d \in 1 .. m, pos(Chain[p][d]) # NULL,
                 f[p] = [scope |-> Chain[p][d], pos |-> pos(Chain[p][d])],
                 \A e \in 1 .. m : e > d => pos(Chain[p][e]) = NULL
          PROVE  Ends(f[s], n, s)
      <4>1. d \in 1 .. m + 1 /\ Chain[s][d] = Chain[p][d]
        BY <3>3, <3>4
      <4>2. \A e \in 1 .. m + 1 : e > d => pos(Chain[s][e]) = NULL
        BY <3>3, <3>5, <3>7
      <4>3. f[s] = [scope |-> Chain[s][d], pos |-> pos(Chain[s][d])] /\ pos(Chain[s][d]) # NULL
        BY <3>1, <3>7, <4>1
      <4> QED BY <3>4, <4>1, <4>2, <4>3 DEF Ends, pos
    <3> QED BY <3>2, <3>6, <3>7 DEF Ends, pos, m
  <2> QED BY <2>5, <2>6, <2>7
<1>3. 0 .. Len(scopes) \subseteq S
  <2> HIDE DEF S
  <2>1. \A k \in 0 .. Len(scopes) : k \in S /\ k < Len(scopes) => k + 1 \in S
    BY <1>0, <1>2
  <2> QED BY <1>0, <1>1, <2>1, InductionUpTo
<1> QED
  BY <1>0, <1>3

LEMMA FindIsInnermost ==
  ASSUME Types, Tree(scopes), NEW n
  PROVE  Ends(sym_find(scopes, n, scope), n, scope)
<1>1. sym_find(scopes, n, scope) = (CHOOSE f : IsFind(f, n))[scope]
  BY Zenon DEF sym_find, IsFind
<1>2. IsFind(CHOOSE f : IsFind(f, n), n)
  BY FindExists
<1>3. scope \in DOMAIN scopes
  BY DEF Types
<1> QED
  BY <1>1, <1>2, <1>3, SearchEnds

(* The frames are the scopes of the chain; what a frame declares, and      *)
(* where, is what sym_find_no_traverse finds in its scope.                 *)
Env == LET chain == Chain[scope] IN [d \in DOMAIN chain |-> Names(chain[d])]

LEMMA FrameFinds ==
  ASSUME Types, NEW s \in DOMAIN scopes, NEW n
  PROVE  LET pos == sym_find_no_traverse(scopes, n, s)
         IN  /\ Frames!Contains(Names(s), n) <=> pos # NULL
             /\ Frames!SelectInSeq(Names(s), LAMBDA m : m = n) = pos
<1> DEFINE list == scopes[s].symbols
           names == [k \in DOMAIN list |-> list[k].name]
           J == {i \in 1 .. Len(names) : names[i] = n}
           K == {i \in 1 .. Len(list) : list[i].name = n}
           pos == sym_find_no_traverse(scopes, n, s)
<1>1. list \in Seq(SymbolInfo(Name)) /\ Len(list) \in Nat /\ DOMAIN list = 1 .. Len(list)
  <2>1. scopes[s] \in ScopeInfo(Name)
    BY ElementOfSeq, LenProperties DEF Types
  <2> QED BY <2>1, LenProperties DEF ScopeInfo
<1>2. Len(names) = Len(list)
  BY <1>1
<1>3. J = K
  BY <1>1, <1>2
<1>4. Names(s) = names
  BY DEF Names
<1>5. Frames!Contains(names, n) <=> J # {}
  <2> HIDE DEF names
  <2> QED BY DEF Frames!Contains
<1> HIDE DEF names
<1>6. Frames!SelectInSeq(names, LAMBDA m : m = n) = IF J # {} THEN Frames!Min(J) ELSE 0
  BY Zenon DEF Frames!SelectInSeq
<1>7. pos = IF K # {} THEN Min(K) ELSE 0
  BY Zenon DEF sym_find_no_traverse, SelectInSeq
<1>8. Frames!Min(K) = Min(K)
  BY Zenon DEF Frames!Min, Min
<1>9. K # {} => Min(K) \in K
  <2>1. K \subseteq Nat
    OBVIOUS
  <2> HIDE DEF K
  <2> QED BY <2>1, MinIsLeast
<1>10. K # {} <=> pos # NULL
  <2>1. \A x \in K : x # 0
    OBVIOUS
  <2> HIDE DEF K, pos
  <2> QED BY <1>7, <1>9, <2>1 DEF NULL
<1> QED
  <2> HIDE DEF J, K, list
  <2>1. Frames!Contains(Names(s), n) <=> pos # NULL
    BY <1>3, <1>4, <1>5, <1>10
  <2>2. Frames!SelectInSeq(Names(s), LAMBDA m : m = n) = pos
    BY <1>3, <1>4, <1>6, <1>7, <1>8
  <2> QED BY <2>1, <2>2

(* Whatever has been opened, declared and popped, ctx_lookup answers with  *)
(* the first declaration of the name in the innermost scope that has one.  *)
THEOREM LookupsAreInnermost == Spec => []LookupIsInnermost
<1>1. ASSUME IInv
      PROVE  LookupIsInnermost
  <2> SUFFICES ASSUME NEW n \in Name
               PROVE  LET info == sym_find(scopes, n, scope)
                      IN  Frames!Meaning(n) =
                            [depth |-> IF info = NotFound THEN 0 ELSE Len(Chain[info.scope]),
                             pos   |-> info.pos]
    BY DEF LookupIsInnermost
  <2> DEFINE chain == Chain[scope]
             info == sym_find(scopes, n, scope)
             hit(d) == sym_find_no_traverse(scopes, n, chain[d])
             env == [d \in DOMAIN chain |-> Names(chain[d])]
             found == {d \in DOMAIN env : Frames!Contains(env[d], n)}
  <2>1. /\ Types /\ Tree(scopes) /\ scope \in DOMAIN scopes
        /\ WellChained(Chain, scopes, scope)
    BY <1>1, ChainOfScopes DEF IInv, Types
  <2>2. /\ chain \in Seq(DOMAIN scopes) /\ Len(chain) \in Nat
        /\ DOMAIN chain = 1 .. Len(chain) /\ \A d \in 1 .. Len(chain) : chain[d] \in DOMAIN scopes
        /\ \A d \in 1 .. Len(chain) : Len(Chain[chain[d]]) = d
    BY <2>1, LenProperties, ElementOfSeq DEF WellChained
  <2>3. Ends(info, n, scope)
    BY <2>1, FindIsInnermost
  <2> HIDE DEF info
  <2>4. \A d \in 1 .. Len(chain) : d \in found <=> hit(d) # NULL
    BY <2>1, <2>2, FrameFinds
  <2>5. found \subseteq 1 .. Len(chain)
    BY <2>2
  <2>6. Frames!Declaring(n) = found
    BY DEF Frames!Declaring
  <2>7. CASE info = NotFound /\ \A d \in 1 .. Len(chain) : hit(d) = NULL
    <3>1. found = {}
      <4> HIDE DEF found
      <4> QED BY <2>4, <2>5, <2>7
    <3>2. Frames!Meaning(n) = [depth |-> 0, pos |-> 0]
      BY <2>6, <3>1 DEF Frames!Meaning, Frames!Unbound
    <3> QED BY <2>7, <3>2 DEF NotFound, NULL, info
  <2>8. ASSUME NEW d \in 1 .. Len(chain), hit(d) # NULL,
               info = [scope |-> chain[d], pos |-> hit(d)],
               \A e \in 1 .. Len(chain) : e > d => hit(e) = NULL
        PROVE  Frames!Meaning(n) =
                 [depth |-> IF info = NotFound THEN 0 ELSE Len(Chain[info.scope]),
                  pos   |-> info.pos]
    <3>1. d \in found /\ \A e \in found : d >= e
      <4> HIDE DEF found, hit
      <4> QED BY <2>2, <2>4, <2>5, <2>8
    <3>2. found \subseteq Nat
      BY <2>2, <2>5
    <3>3. Frames!Max(found) = d
      <4> HIDE DEF found
      <4>1. \A x \in found : (\A y \in found : x >= y) => x = d
        BY <3>1, <3>2
      <4> QED BY <3>1, <4>1 DEF Frames!Max
    <3>4. env[d] = Names(chain[d])
      BY <2>2
    <3>5. Frames!SelectInSeq(env[d], LAMBDA m : m = n) = hit(d)
      BY <2>1, <2>2, <3>4, FrameFinds
    <3>6. Frames!Meaning(n) = [depth |-> d, pos |-> hit(d)]
      BY <2>6, <3>1, <3>3, <3>5 DEF Frames!Meaning
    <3>7. info # NotFound /\ info.scope = chain[d] /\ info.pos = hit(d)
      <4> HIDE DEF hit, chain
      <4>1. info.scope = chain[d] /\ info.pos = hit(d)
        BY <2>8
      <4> QED BY <2>8, <4>1 DEF NotFound
    <3> QED BY <2>2, <3>6, <3>7
  <2> QED BY <2>3, <2>7, <2>8 DEF Ends, info
<1> QED
  BY <1>1, Invariance, PTL

-----------------------------------------------------------------------------
(* The frames                                                              *)

NamesIn(table, s) == [k \in DOMAIN table[s].symbols |-> table[s].symbols[k].name]

FramesOf(c, table, s) == [d \in DOMAIN c[s] |-> NamesIn(table, c[s][d])]

LEMMA FramesAreNames ==
  ASSUME NEW table \in Seq(ScopeInfo(Name)), NEW c, NEW s, WellChained(c, table, s)
  PROVE  /\ FramesOf(c, table, s) \in Seq(Seq(Name))
         /\ Len(FramesOf(c, table, s)) = Len(c[s]) /\ Len(c[s]) \in Nat \ {0}
         /\ DOMAIN FramesOf(c, table, s) = 1 .. Len(c[s])
         /\ \A d \in 1 .. Len(c[s]) : FramesOf(c, table, s)[d] = NamesIn(table, c[s][d])
<1> DEFINE env == FramesOf(c, table, s)
           n == Len(c[s])
<1>1. /\ c[s] \in Seq(DOMAIN table) /\ n \in Nat \ {0} /\ DOMAIN c[s] = 1 .. n
      /\ \A d \in 1 .. n : c[s][d] \in DOMAIN table
  BY LenProperties, ElementOfSeq DEF WellChained
<1>2. \A t \in DOMAIN table : NamesIn(table, t) \in Seq(Name)
  <2> SUFFICES ASSUME NEW t \in DOMAIN table
               PROVE  NamesIn(table, t) \in Seq(Name)
    OBVIOUS
  <2>1. table[t] \in ScopeInfo(Name)
    BY ElementOfSeq, LenProperties
  <2>2. table[t].symbols \in Seq(SymbolInfo(Name))
    BY <2>1 DEF ScopeInfo
  <2>3. /\ DOMAIN table[t].symbols = 1 .. Len(table[t].symbols) /\ Len(table[t].symbols) \in Nat
        /\ \A k \in 1 .. Len(table[t].symbols) : table[t].symbols[k].name \in Name
    <3>1. \A k \in 1 .. Len(table[t].symbols) : table[t].symbols[k] \in SymbolInfo(Name)
      BY <2>2, ElementOfSeq
    <3> QED BY <2>2, <3>1, LenProperties DEF SymbolInfo
  <2> QED BY <2>3 DEF NamesIn
<1>3. DOMAIN env = 1 .. n /\ \A d \in 1 .. n : env[d] = NamesIn(table, c[s][d])
  BY <1>1 DEF FramesOf
<1>4. env = [d \in 1 .. n |-> NamesIn(table, c[s][d])]
  BY <1>1 DEF FramesOf
<1>5. \A d \in 1 .. n : NamesIn(table, c[s][d]) \in Seq(Name)
  BY <1>1, <1>2
<1> HIDE DEF env
<1>6. env \in Seq(Seq(Name)) /\ Len(env) = n
  BY <1>1, <1>4, <1>5
<1> QED
  BY <1>1, <1>3, <1>6 DEF env

(* The last frame changes and a frame is opened, in a chain that grows.    *)
LEMMA ScopeOpened ==
  ASSUME NEW old \in Seq(ScopeInfo(Name)), NEW c, NEW s, WellChained(c, old, s),
         NEW new \in Seq(ScopeInfo(Name)), NEW d, NEW t, WellChained(d, new, t),
         d[t] = Append(c[s], t), new[t].symbols = << >>,
         \A k \in 1 .. Len(c[s]) - 1 : new[c[s][k]].symbols = old[c[s][k]].symbols
  PROVE  FramesOf(d, new, t) =
           Append([FramesOf(c, old, s) EXCEPT ![Len(FramesOf(c, old, s))] = NamesIn(new, s)], << >>)
<1> DEFINE env == FramesOf(c, old, s)
           env2 == FramesOf(d, new, t)
           n == Len(c[s])
           base == [env EXCEPT ![Len(env)] = NamesIn(new, s)]
<1>1. /\ env \in Seq(Seq(Name)) /\ Len(env) = n /\ n \in Nat \ {0}
      /\ DOMAIN env = 1 .. n
      /\ \A k \in 1 .. n : env[k] = NamesIn(old, c[s][k])
  BY FramesAreNames
<1>2. /\ env2 \in Seq(Seq(Name)) /\ Len(env2) = Len(d[t])
      /\ \A k \in 1 .. Len(d[t]) : env2[k] = NamesIn(new, d[t][k])
  BY FramesAreNames
<1>3. /\ Len(d[t]) = n + 1 /\ d[t][n + 1] = t
      /\ \A k \in 1 .. n : d[t][k] = c[s][k]
      /\ c[s][n] = s
  BY AppendProperties DEF WellChained
<1>4. \A k \in 1 .. n - 1 : NamesIn(new, c[s][k]) = NamesIn(old, c[s][k])
  BY DEF NamesIn
<1>5. NamesIn(new, t) = << >>
  BY DEF NamesIn
<1> HIDE DEF env, env2, n
<1>6. env2[n] = NamesIn(new, s) /\ env2[n + 1] = << >>
  <2>1. n \in 1 .. n + 1 /\ n \in 1 .. n /\ n + 1 \in 1 .. n + 1
    BY <1>1
  <2> QED BY <1>2, <1>3, <1>5, <2>1
<1>7. NamesIn(new, s) \in Seq(Name)
  <2>1. env2[n] \in Seq(Name)
    <3>1. n \in 1 .. Len(env2)
      BY <1>1, <1>2, <1>3
    <3> QED BY <1>2, <3>1, ElementOfSeq
  <2> QED BY <1>6, <2>1
<1>8. /\ base \in Seq(Seq(Name)) /\ Len(base) = n
      /\ \A k \in 1 .. n : base[k] = IF k = n THEN NamesIn(new, s) ELSE env[k]
  BY <1>1, <1>7
<1> HIDE DEF base
<1> DEFINE result == Append(base, << >>)
<1>9. /\ result \in Seq(Seq(Name)) /\ Len(result) = n + 1 /\ result[n + 1] = << >>
      /\ \A k \in 1 .. n : result[k] = base[k]
  BY <1>8, EmptySeq, AppendProperties
<1> HIDE DEF result
<1>10. \A k \in 1 .. n + 1 : env2[k] = result[k]
  <2> SUFFICES ASSUME NEW k \in 1 .. n + 1
               PROVE  env2[k] = result[k]
    OBVIOUS
  <2>1. CASE k = n + 1
    BY <1>6, <1>9, <2>1
  <2>2. CASE k = n
    BY <1>1, <1>6, <1>8, <1>9, <2>2
  <2>3. CASE k \in 1 .. n - 1
    <3>1. k \in 1 .. n /\ k # n
      BY <1>1, <2>3
    <3>2. result[k] = NamesIn(old, c[s][k])
      BY <1>1, <1>8, <1>9, <3>1
    <3>3. env2[k] = NamesIn(new, c[s][k])
      BY <1>2, <1>3, <3>1
    <3> QED BY <1>4, <2>3, <3>2, <3>3
  <2> QED BY <1>1, <2>1, <2>2, <2>3
<1>11. env2 = result
  BY <1>2, <1>3, <1>9, <1>10, SeqEqual
<1> QED
  BY <1>11 DEF env, env2, base, result

LEMMA NamesGrow ==
  ASSUME NEW old \in Seq(ScopeInfo(Name)), NEW s \in DOMAIN old, NEW new,
         NEW info, info \in SymbolInfo(Name), new[s].symbols = Append(old[s].symbols, info)
  PROVE  NamesIn(new, s) = Append(NamesIn(old, s), info.name)
<1>1. old[s] \in ScopeInfo(Name)
  BY ElementOfSeq, LenProperties
<1>2. old[s].symbols \in Seq(SymbolInfo(Name))
  BY <1>1 DEF ScopeInfo
<1> DEFINE list == old[s].symbols
           more == Append(list, info)
<1>3. list \in Seq(SymbolInfo(Name)) /\ info \in SymbolInfo(Name)
  BY <1>2
<1>4. new[s].symbols = more
  OBVIOUS
<1> HIDE DEF list
<1>5. [k \in DOMAIN more |-> more[k].name] = Append([k \in DOMAIN list |-> list[k].name], info.name)
  BY <1>3, NamesAppended
<1> QED
  BY Zenon, <1>4, <1>5 DEF NamesIn, list

-----------------------------------------------------------------------------
(* The steps, as what they do to the frames                                *)

LEMMA EnvIsFrames ==
  /\ Env = FramesOf(Chain, scopes, scope)
  /\ Env' = FramesOf(Chain', scopes', scope')
<1>1. Env = FramesOf(Chain, scopes, scope)
  BY Zenon DEF Env, FramesOf, Names, NamesIn
<1>2. Env' = FramesOf(Chain', scopes', scope')
  BY Zenon DEF Env, FramesOf, Names, NamesIn
<1> QED
  BY <1>1, <1>2

LEMMA ChainsOfStep ==
  ASSUME IInv, IInv'
  PROVE  /\ scopes \in Seq(ScopeInfo(Name)) /\ scope \in DOMAIN scopes /\ Tree(scopes)
         /\ scopes' \in Seq(ScopeInfo(Name)) /\ scope' \in DOMAIN scopes' /\ Tree(scopes')
         /\ IsChain(Chain, scopes) /\ \A s \in DOMAIN scopes : WellChained(Chain, scopes, s)
         /\ IsChain(Chain', scopes') /\ \A s \in DOMAIN scopes' : WellChained(Chain', scopes', s)
<1>1. /\ scopes \in Seq(ScopeInfo(Name)) /\ scope \in DOMAIN scopes /\ Tree(scopes)
      /\ IsChain(Chain, scopes) /\ \A s \in DOMAIN scopes : WellChained(Chain, scopes, s)
  BY ChainOfScopes DEF IInv, Types
<1>2. /\ scopes' \in Seq(ScopeInfo(Name)) /\ scope' \in DOMAIN scopes' /\ Tree(scopes')
  BY DEF IInv, Types
<1>3. \E c : IsChain(c, scopes')
  BY <1>2, ChainsExist
<1>4. Chain' = CHOOSE c : IsChain(c, scopes')
  BY Zenon DEF Chain, IsChain
<1>5. IsChain(Chain', scopes')
  BY <1>3, <1>4
<1>6. \A s \in DOMAIN scopes' : WellChained(Chain', scopes', s)
  BY <1>2, <1>5, ChainsGoUp
<1> QED
  BY <1>1, <1>2, <1>5, <1>6

LEMMA FramesOfStep ==
  ASSUME IInv, IInv', [Next]_vars
  PROVE  Frames!Next \/ UNCHANGED Env
<1> DEFINE e == FramesOf(Chain, scopes, scope)
<1>1. /\ scopes \in Seq(ScopeInfo(Name)) /\ scope \in DOMAIN scopes /\ Tree(scopes)
      /\ scopes' \in Seq(ScopeInfo(Name)) /\ scope' \in DOMAIN scopes' /\ Tree(scopes')
      /\ IsChain(Chain, scopes) /\ IsChain(Chain', scopes')
      /\ WellChained(Chain, scopes, scope) /\ WellChained(Chain', scopes', scope')
  BY ChainsOfStep
<1>2. /\ Env = FramesOf(Chain, scopes, scope)
      /\ Env' = FramesOf(Chain', scopes', scope')
  BY EnvIsFrames
<1>3. /\ DOMAIN scopes = 1 .. Len(scopes) /\ Len(scopes) \in Nat
      /\ DOMAIN scopes' = 1 .. Len(scopes') /\ Len(scopes') \in Nat
  BY <1>1, LenProperties
<1>4. /\ Env \in Seq(Seq(Name)) /\ Len(Env) = Len(Chain[scope]) /\ Len(Env) \in Nat \ {0}
      /\ DOMAIN Env = 1 .. Len(Env)
      /\ \A d \in 1 .. Len(Env) : Env[d] = NamesIn(scopes, Chain[scope][d])
      /\ Env[Len(Env)] = NamesIn(scopes, scope)
  <2>1. /\ scopes \in Seq(ScopeInfo(Name)) /\ WellChained(Chain, scopes, scope)
    BY <1>1
  <2>2. /\ Env \in Seq(Seq(Name)) /\ Len(Env) = Len(Chain[scope]) /\ Len(Env) \in Nat \ {0}
        /\ DOMAIN Env = 1 .. Len(Env)
        /\ \A d \in 1 .. Len(Env) : Env[d] = NamesIn(scopes, Chain[scope][d])
    BY <1>2, <2>1, FramesAreNames
  <2>3. Chain[scope][Len(Env)] = scope
    BY <2>1, <2>2 DEF WellChained
  <2>4. Len(Env) \in 1 .. Len(Env)
    BY <2>2
  <2> QED BY <2>2, <2>3, <2>4
<1>5. ASSUME DOMAIN scopes \subseteq DOMAIN scopes',
             \A s \in DOMAIN scopes : scopes'[s].parent = scopes[s].parent
      PROVE  \A s \in DOMAIN scopes : Chain'[s] = Chain[s]
  BY <1>1, <1>5, ChainsStay
<1>6. \A k \in 1 .. Len(Chain[scope]) - 1 :
        Chain[scope][k] \in DOMAIN scopes /\ Chain[scope][k] # scope
  <2> SUFFICES ASSUME NEW k \in 1 .. Len(Chain[scope]) - 1
               PROVE  Chain[scope][k] \in DOMAIN scopes /\ Chain[scope][k] < scope
    BY <1>3
  <2>1. Chain[scope] \in Seq(DOMAIN scopes) /\ Chain[scope][k] < scope
    BY <1>1 DEF WellChained
  <2>2. k \in 1 .. Len(Chain[scope])
    BY <1>4
  <2> QED BY <2>1, <2>2, ElementOfSeq
<1>7. CASE CtxPushNewScope
  <2> DEFINE last == Len(scopes) + 1
  <2>1. scopes' = ctx_push_new_scope(scopes, scope) /\ scope' = Len(scopes')
    BY <1>7 DEF CtxPushNewScope
  <2>2. /\ Len(scopes') = last /\ scopes'[last].parent = scope /\ scopes'[last].symbols = << >>
        /\ \A t \in DOMAIN scopes : /\ scopes'[t].parent = scopes[t].parent
                                    /\ scopes'[t].symbols = scopes[t].symbols
    <3>1. /\ scopes \in Seq(ScopeInfo(Name)) /\ scope \in DOMAIN scopes
          /\ scopes' = ctx_push_new_scope(scopes, scope)
      BY <1>1, <2>1
    <3> QED BY <3>1, PushNewScope
  <2>3. DOMAIN scopes \subseteq DOMAIN scopes'
    BY <1>3, <2>2
  <2>4. Chain'[scope] = Chain[scope]
    BY <1>1, <1>5, <2>2, <2>3
  <2>5. scope' = last /\ scope # NULL
    BY <1>1, <1>3, <2>1, <2>2 DEF NULL
  <2>6. Chain'[scope'] = Append(Chain[scope], scope')
    BY <1>1, <2>2, <2>4, <2>5 DEF IsChain
  <2>7. /\ scopes'[scope'].symbols = << >>
        /\ \A k \in 1 .. Len(Chain[scope]) - 1 :
             scopes'[Chain[scope][k]].symbols = scopes[Chain[scope][k]].symbols
    BY <1>6, <2>2, <2>5
  <2>8. Env' = Append([Env EXCEPT ![Len(Env)] = NamesIn(scopes', scope)], << >>)
    <3>1. /\ scopes \in Seq(ScopeInfo(Name)) /\ WellChained(Chain, scopes, scope)
          /\ scopes' \in Seq(ScopeInfo(Name)) /\ WellChained(Chain', scopes', scope')
          /\ Chain'[scope'] = Append(Chain[scope], scope')
      BY <1>1, <2>6
    <3> QED BY <1>2, <2>7, <3>1, ScopeOpened
  <2>9. NamesIn(scopes', scope) = Env[Len(Env)]
    BY <1>1, <1>4, <2>2 DEF NamesIn
  <2>10. [Env EXCEPT ![Len(Env)] = Env[Len(Env)]] = Env
    BY <1>4
  <2>11. Env' = Append(Env, << >>)
    BY <2>8, <2>9, <2>10
  <2>12. Frames!Enter
    BY <2>11 DEF Frames!Enter, Env
  <2> QED BY <2>12 DEF Frames!Next
<1>8. ASSUME NEW n \in Name, CtxPushFunction(n)
      PROVE  Frames!DefineFunction(n)
  <2> DEFINE last == Len(scopes) + 1
             info == sym_mkfunction(n, scope, Len(scopes) + 1)
  <2>1. scopes' = ctx_push_function(scopes, scope, n) /\ scope' = Len(scopes')
    BY <1>8 DEF CtxPushFunction
  <2>2. /\ Len(scopes') = last /\ scopes'[last].parent = scope /\ scopes'[last].symbols = << >>
        /\ \A t \in DOMAIN scopes :
             /\ scopes'[t].parent = scopes[t].parent
             /\ t # scope => scopes'[t].symbols = scopes[t].symbols
        /\ scopes'[scope].symbols = Append(scopes[scope].symbols, info)
    <3>1. /\ scopes \in Seq(ScopeInfo(Name)) /\ scope \in DOMAIN scopes
          /\ scopes' = ctx_push_function(scopes, scope, n)
      BY <1>1, <2>1
    <3> QED BY <3>1, PushFunction, SMTT(60)
  <2>3. info \in SymbolInfo(Name) /\ info.name = n
    BY <1>1, <1>3 DEF sym_mkfunction, SymbolInfo, ScopePtr, NULL
  <2> HIDE DEF info
  <2>4. DOMAIN scopes \subseteq DOMAIN scopes'
    BY <1>3, <2>2
  <2>5. Chain'[scope] = Chain[scope]
    BY <1>1, <1>5, <2>2, <2>4
  <2>6. scope' = last /\ scope # NULL
    BY <1>1, <1>3, <2>1, <2>2 DEF NULL
  <2>7. Chain'[scope'] = Append(Chain[scope], scope')
    BY <1>1, <2>2, <2>5, <2>6 DEF IsChain
  <2>8. /\ scopes'[scope'].symbols = << >>
        /\ \A k \in 1 .. Len(Chain[scope]) - 1 :
             scopes'[Chain[scope][k]].symbols = scopes[Chain[scope][k]].symbols
    BY <1>6, <2>2, <2>6
  <2>9. Env' = Append([Env EXCEPT ![Len(Env)] = NamesIn(scopes', scope)], << >>)
    <3>1. /\ scopes \in Seq(ScopeInfo(Name)) /\ WellChained(Chain, scopes, scope)
          /\ scopes' \in Seq(ScopeInfo(Name)) /\ WellChained(Chain', scopes', scope')
          /\ Chain'[scope'] = Append(Chain[scope], scope')
      BY <1>1, <2>7
    <3> QED BY <1>2, <2>8, <3>1, ScopeOpened
  <2>10. NamesIn(scopes', scope) = Append(Env[Len(Env)], n)
    <3>1. NamesIn(scopes', scope) = Append(NamesIn(scopes, scope), info.name)
      <4>1. scopes'[scope].symbols = Append(scopes[scope].symbols, info)
        BY <2>2
      <4>2. /\ scopes \in Seq(ScopeInfo(Name)) /\ scope \in DOMAIN scopes
            /\ info \in SymbolInfo(Name)
        BY <1>1, <2>3
      <4> QED BY <4>1, <4>2, NamesGrow
    <3> QED BY <1>4, <2>3, <3>1
  <2>11. Env' = Append([Env EXCEPT ![Len(Env)] = Append(Env[Len(Env)], n)], << >>)
    BY <2>9, <2>10
  <2> QED BY <2>11 DEF Frames!DefineFunction, Env
<1>9. ASSUME NEW n \in Name, CtxAddVar(n)
      PROVE  Frames!Declare(n)
  <2> DEFINE info == sym_mkvar(n, scope)
             m == Len(Env)
  <2>1. scopes' = sym_add_symbol(scopes, scope, info) /\ scope' = scope
    BY <1>9 DEF CtxAddVar
  <2>2. info \in SymbolInfo(Name) /\ info.name = n
    BY <1>1, <1>3 DEF sym_mkvar, SymbolInfo, ScopePtr, NULL
  <2> HIDE DEF info
  <2>3. /\ Len(scopes') = Len(scopes)
        /\ \A t \in DOMAIN scopes : t # scope => scopes'[t] = scopes[t]
        /\ scopes'[scope].parent = scopes[scope].parent
        /\ scopes'[scope].symbols = Append(scopes[scope].symbols, info)
    BY <1>1, <2>1, <2>2, AddSymbol
  <2>4. Chain'[scope'] = Chain[scope]
    BY <1>1, <1>3, <1>5, <2>1, <2>3
  <2>5. /\ Env' \in Seq(Seq(Name)) /\ Len(Env') = m
        /\ \A d \in 1 .. m : Env'[d] = NamesIn(scopes', Chain[scope][d])
    BY <1>1, <1>2, <1>4, <2>4, FramesAreNames
  <2>6. NamesIn(scopes', scope) = Append(Env[m], n)
    <3>1. NamesIn(scopes', scope) = Append(NamesIn(scopes, scope), info.name)
      <4>1. scopes'[scope].symbols = Append(scopes[scope].symbols, info)
        BY <2>3
      <4>2. /\ scopes \in Seq(ScopeInfo(Name)) /\ scope \in DOMAIN scopes
            /\ info \in SymbolInfo(Name)
        BY <1>1, <2>2
      <4> QED BY <4>1, <4>2, NamesGrow
    <3> QED BY <1>4, <2>2, <3>1
  <2> DEFINE new == [Env EXCEPT ![Len(Env)] = Append(Env[Len(Env)], n)]
  <2>7. Append(Env[m], n) \in Seq(Name)
    BY <1>4, ElementOfSeq, AppendProperties
  <2>8. /\ new \in Seq(Seq(Name)) /\ Len(new) = m
        /\ \A d \in 1 .. m : new[d] = IF d = m THEN Append(Env[m], n) ELSE Env[d]
    BY <1>4, <2>7
  <2> HIDE DEF new
  <2>9. ASSUME NEW d \in 1 .. m
        PROVE  Env'[d] = new[d]
    <3>1. CASE d = m
      <4>1. Chain[scope][m] = scope
        BY <1>1, <1>4 DEF WellChained
      <4> QED BY <2>5, <2>6, <2>8, <3>1, <4>1
    <3>2. CASE d # m
      <4>1. d \in 1 .. Len(Chain[scope]) - 1
        BY <1>4, <3>2
      <4>2. NamesIn(scopes', Chain[scope][d]) = NamesIn(scopes, Chain[scope][d])
        BY <1>6, <2>3, <4>1 DEF NamesIn
      <4> QED BY <1>4, <2>5, <2>8, <3>2, <4>2
    <3> QED BY <3>1, <3>2
  <2>10. Env' = new
    BY <2>5, <2>8, <2>9, SeqEqual
  <2> QED BY <2>10 DEF Frames!Declare, Env, new
<1>10. CASE CtxPopScope
  <2> DEFINE m == Len(Env)
             p == scopes[scope].parent
  <2>1. scope # Top /\ scope' = p /\ scopes' = scopes
    BY <1>10 DEF CtxPopScope
  <2>2. p # NULL /\ p \in DOMAIN scopes /\ p < scope
    BY <1>1, <2>1, Parents
  <2>3. Chain[scope] = Append(Chain[p], scope)
    BY <1>1, <2>2 DEF IsChain
  <2>4. Chain'[scope'] = Chain[p]
    BY <1>5, <2>1, <2>2
  <2>5. /\ Env' \in Seq(Seq(Name)) /\ Len(Env') = Len(Chain[p]) /\ Len(Chain[p]) \in Nat \ {0}
        /\ \A d \in 1 .. Len(Chain[p]) : Env'[d] = NamesIn(scopes, Chain[p][d])
    BY <1>1, <1>2, <2>1, <2>4, FramesAreNames
  <2>6. Chain[p] \in Seq(DOMAIN scopes)
    BY <1>1, <2>1, <2>4 DEF WellChained
  <2>7. /\ m = Len(Chain[p]) + 1
        /\ \A d \in 1 .. Len(Chain[p]) : Chain[scope][d] = Chain[p][d]
    BY <1>1, <1>4, <2>3, <2>6, AppendProperties
  <2> DEFINE front == SubSeq(Env, 1, Len(Env) - 1)
  <2>8. /\ front \in Seq(Seq(Name)) /\ Len(front) = m - 1
        /\ \A d \in 1 .. m - 1 : front[d] = Env[d]
    BY <1>4
  <2> HIDE DEF front, m
  <2>9. \A d \in 1 .. Len(Env') : Env'[d] = front[d]
    <3>1. Len(Env) = m /\ m \in Nat
      BY <1>4 DEF m
    <3> SUFFICES ASSUME NEW d \in 1 .. Len(Chain[p])
                 PROVE  Env'[d] = front[d]
      BY <2>5
    <3>2. d \in 1 .. m - 1 /\ d \in 1 .. Len(Env)
      BY <2>5, <2>7, <3>1
    <3>3. front[d] = NamesIn(scopes, Chain[scope][d])
      BY <1>4, <2>8, <3>2
    <3> QED BY <2>5, <2>7, <3>3
  <2>10. Env' = front
    <3>1. Len(front) = Len(Env')
      BY <2>5, <2>7, <2>8
    <3> QED BY <2>5, <2>8, <2>9, <3>1, SeqEqual
  <2>11. Len(Env) > 1
    BY <2>5, <2>7 DEF m
  <2>12. Frames!Leave
    BY <2>10, <2>11 DEF Frames!Leave, Frames!Front, Env, front
  <2> QED BY <2>12 DEF Frames!Next
<1>11. CASE UNCHANGED <<scopes, scope>>
  <2>1. Chain' = Chain
    BY Zenon, <1>11 DEF Chain
  <2> QED BY <1>2, <1>11, <2>1
<1> QED
  BY <1>7, <1>8, <1>9, <1>10, <1>11
  DEF Next, FreeSymbolTable, FreeScopeInfo, Freed, vars, Frames!Next

LEMMA InitFrames == Init => Frames!Init
<1> SUFFICES ASSUME Init
             PROVE  Env = << << >> >>
  BY DEF Frames!Init, Env
<1>1. IInv /\ scope = Top /\ Top = 1
  BY InitIInv DEF Init, Top
<1>2. scopes = EmptyTable /\ scopes[Top].parent = NULL /\ scopes[Top].symbols = << >>
  BY DEF Init, EmptyTable, sym_mkscope, Top
<1>3. IsChain(Chain, scopes) /\ Top \in DOMAIN scopes
  BY <1>1, ChainOfScopes DEF IInv, Tree
<1>4. Chain[scope] = <<Top>>
  BY <1>1, <1>2, <1>3 DEF IsChain
<1>5. NamesIn(scopes, Top) = << >>
  BY <1>2 DEF NamesIn
<1>6. Env = [d \in 1 .. 1 |-> NamesIn(scopes, Chain[scope][d])]
  BY <1>4 DEF Env, Names, NamesIn
<1> QED
  BY <1>1, <1>4, <1>5, <1>6

(* Opening, declaring and popping do to what is in scope what they do to a *)
(* stack of frames, for every nesting: no scope that was popped is seen    *)
(* again, and none that is open is lost.                                   *)
THEOREM ScopesAreFrames == Spec => ImplementsFrameStack
<1>1. Init => IInv /\ Frames!Init
  BY InitIInv, InitFrames
<1>2. IInv /\ [Next]_vars => IInv'
  BY StepIInv
<1>3. IInv /\ IInv' /\ [Next]_vars => Frames!Next \/ UNCHANGED Env
  BY FramesOfStep
<1> QED
  BY <1>1, <1>2, <1>3, PTL DEF Spec, ImplementsFrameStack, Frames!Spec, Env
=============================================================================
