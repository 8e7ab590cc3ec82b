------------------------- MODULE IrGeneratorProofs --------------------------
(***************************************************************************)
(* The safety invariants of IrGenerator for every program: any number of   *)
(* identifiers, string texts, top-level nodes, parameters and statements;  *)
(* that IrGenerator implements LexicalScope; and, of Compiler, that the    *)
(* listing main prints has each item on a line of its own, in its order,   *)
(* in its section.                                                         *)
(***************************************************************************)
EXTENDS Compiler, SymbolTableTheorems, FiniteSetTheorems

(* No conjunct is inductive alone: that a pop finds a scope (TypeOK) needs *)
(* the place of the current scope (ScopeDiscipline), and that a look-up    *)
(* does needs the way it has come (SearchPassesOnlyMisses).                *)
IInv ==
  /\ TypeOK
  /\ ScopeDiscipline
  /\ LiteralsNumberedOnce
  /\ OutputComplete
  /\ SearchPassesOnlyMisses

-----------------------------------------------------------------------------
(* What the invariant says of the scopes, in the form the steps below use. *)
LEMMA ScopeFacts ==
  ASSUME IInv
  PROVE  /\ DOMAIN scopes = 1 .. Len(scopes) /\ Len(scopes) \in Nat
         /\ Top \in DOMAIN scopes
         /\ \A s \in DOMAIN scopes : /\ scopes[s] \in ScopeInfo(Name)
                                     /\ scopes[s].symbols \in Seq(SymbolInfo(Name))
         /\ Functions = 1 .. Len(scopes[Top].symbols)
         /\ Len(scopes[Top].symbols) \in Nat
<1>1. /\ scopes \in Seq(ScopeInfo(Name)) /\ scope \in DOMAIN scopes
  BY DEF IInv, TypeOK
<1>2. DOMAIN scopes = 1 .. Len(scopes) /\ Len(scopes) \in Nat
  BY <1>1, LenProperties
<1>3. Top \in DOMAIN scopes
  BY <1>1, <1>2 DEF Top
<1>4. ASSUME NEW s \in DOMAIN scopes
      PROVE  /\ scopes[s] \in ScopeInfo(Name)
             /\ scopes[s].symbols \in Seq(SymbolInfo(Name))
  <2>1. scopes[s] \in ScopeInfo(Name)
    BY <1>1, <1>2, ElementOfSeq
  <2> QED
    BY <2>1 DEF ScopeInfo
<1>5. /\ DOMAIN scopes[Top].symbols = 1 .. Len(scopes[Top].symbols)
      /\ Len(scopes[Top].symbols) \in Nat
  BY <1>3, <1>4, LenProperties
<1> QED
  BY <1>2, <1>3, <1>4, <1>5 DEF Functions

(* In a body the scopes on the way out are the body's, the parameters' and *)
(* the top level, each the parent of the one before.                       *)
LEMMA WayOut ==
  ASSUME IInv, pc \in {"body", "lookup"}
  PROVE  /\ scope = fun + 1 /\ fun \in DOMAIN scopes
         /\ scopes[scope].parent = fun
         /\ scopes[fun].parent = Top
         /\ scopes[Top].parent = NULL
         /\ fun # Top
<1> DEFINE n == Len(scopes[Top].symbols)
<1>1. /\ scope = fun + 1 /\ fun = 2 * n /\ fun # NULL
      /\ scopes[Top].parent = NULL
      /\ \A i \in Functions :
           /\ scopes[2 * i].parent = Top
           /\ 2 * i + 1 \in DOMAIN scopes => scopes[2 * i + 1].parent = 2 * i
  BY DEF IInv, ScopeDiscipline
<1>2. /\ n \in Nat /\ Functions = 1 .. n
      /\ scope \in DOMAIN scopes
      /\ DOMAIN scopes = 1 .. Len(scopes) /\ Len(scopes) \in Nat
  BY ScopeFacts DEF IInv, TypeOK
<1> HIDE DEF n
<1>3. n \in Functions /\ fun \in DOMAIN scopes /\ fun # Top
  BY <1>1, <1>2 DEF NULL, Top
<1> QED
  BY <1>1, <1>2, <1>3

(* Before the first node: an empty top level and nothing else.             *)
LEMMA InitIInv == Init => IInv
<1> SUFFICES ASSUME Init
             PROVE  IInv
  OBVIOUS
<1> DEFINE top == [parent |-> NULL, symbols |-> << >>, children |-> << >>]
<1>1. scopes = <<top>>
  BY DEF Init, EmptyTable, sym_mkscope
<1>2. top \in ScopeInfo(Name)
  BY EmptySeq DEF ScopeInfo, NULL
<1>3. scopes \in Seq(ScopeInfo(Name)) /\ Len(scopes) = 1 /\ scopes[1] = top
  BY <1>1, <1>2
<1>4. DOMAIN scopes = 1 .. 1
  BY <1>3, LenProperties
<1>5. TypeOK
  BY <1>3, <1>4, EmptySeq
  DEF Init, TypeOK, Top, NULL, Empty, Address, LiteralInfo, Item
<1>6. scopes[Top].symbols = << >> /\ scopes[Top].parent = NULL
  BY <1>3 DEF Top
<1>7. Len(scopes[Top].symbols) = 0 /\ Functions = {}
  BY <1>6 DEF Functions
<1>8. ScopeDiscipline
  BY <1>3, <1>6, <1>7 DEF Init, ScopeDiscipline, NULL
<1>9. LiteralsNumberedOnce
  BY DEF Init, LiteralsNumberedOnce, NumberedOnce
<1>10. OutputComplete
  BY <1>7 DEF Init, OutputComplete, FunctionLabels
<1>11. SearchPassesOnlyMisses
  BY DEF Init, SearchPassesOnlyMisses
<1> QED
  BY <1>5, <1>8, <1>9, <1>10, <1>11 DEF IInv

(* Every step keeps the types: above all, no pop and no look-up follows a  *)
(* parent pointer that is NULL.                                            *)
LEMMA StepTypeOK ==
  ASSUME IInv, [Next]_vars
  PROVE  TypeOK'
<1> USE DEF IInv
<1>1. TypeOK
  OBVIOUS
<1>2. /\ DOMAIN scopes = 1 .. Len(scopes) /\ Len(scopes) \in Nat
      /\ Top \in DOMAIN scopes
  BY ScopeFacts
<1>3. ASSUME NEW names \in SUBSET Name, ProcessDecl(names)
      PROVE  TypeOK'
  BY <1>1, <1>3 DEF ProcessDecl, TypeOK
<1>4. ASSUME NEW n \in Name, ProcessFun(n)
      PROVE  TypeOK'
  <2>1. /\ scopes' \in Seq(ScopeInfo(Name)) /\ Len(scopes') = Len(scopes) + 1
    BY <1>1, <1>4, PushFunction DEF ProcessFun, TypeOK
  <2>2. DOMAIN scopes' = 1 .. Len(scopes) + 1
    BY <2>1, LenProperties
  <2>3. codes' \in Seq(Item)
    <3>1. ir_mklabel(n) \in Item
      BY DEF ir_mklabel, Item
    <3> QED
      BY <1>1, <1>4, <3>1, AppendProperties DEF ProcessFun, TypeOK
  <2>4. scope' = Len(scopes) + 1 /\ fun' = Len(scopes) + 1
    BY <1>4, <2>1 DEF ProcessFun
  <2>5. scope' \in DOMAIN scopes' /\ fun' \in DOMAIN scopes'
    BY <1>2, <2>2, <2>4
  <2>6. at' \in DOMAIN scopes' \cup {NULL}
    BY <1>1, <1>2, <1>4, <2>2 DEF ProcessFun, TypeOK
  <2> QED
    BY <1>1, <1>4, <2>1, <2>3, <2>5, <2>6 DEF ProcessFun, TypeOK
<1>5. ASSUME NEW n \in Name, AddParam(n)
      PROVE  TypeOK'
  <2>1. sym_mkvar(n, fun) \in SymbolInfo(Name)
    <3>1. fun \in ScopePtr
      BY <1>1, <1>2, <1>5 DEF AddParam, ScopeDiscipline, TypeOK, ScopePtr, NULL
    <3> QED
      BY <3>1 DEF sym_mkvar, SymbolInfo, NULL
  <2>2. scopes' \in Seq(ScopeInfo(Name)) /\ Len(scopes') = Len(scopes)
    BY <1>1, <1>5, <2>1, AddSymbol DEF AddParam, TypeOK
  <2>3. DOMAIN scopes' = DOMAIN scopes
    BY <1>2, <2>2, LenProperties
  <2> QED
    BY <1>1, <1>5, <2>2, <2>3 DEF AddParam, TypeOK
<1>6. ASSUME PushBody
      PROVE  TypeOK'
  <2>1. /\ scopes' \in Seq(ScopeInfo(Name)) /\ Len(scopes') = Len(scopes) + 1
    BY <1>1, <1>6, PushNewScope DEF PushBody, TypeOK
  <2>2. DOMAIN scopes' = 1 .. Len(scopes) + 1
    BY <2>1, LenProperties
  <2>3. /\ scope' \in DOMAIN scopes'
        /\ fun' \in DOMAIN scopes' \cup {NULL} /\ at' \in DOMAIN scopes' \cup {NULL}
    BY <1>1, <1>2, <1>6, <2>1, <2>2 DEF PushBody, TypeOK
  <2> QED
    BY <1>1, <1>6, <2>1, <2>3 DEF PushBody, TypeOK
<1>7. ASSUME EndBody
      PROVE  TypeOK'
  <2>1. scope' = Top
    BY <1>7, WayOut DEF EndBody
  <2> QED
    BY <1>1, <1>2, <1>7, <2>1 DEF EndBody, TypeOK
<1>8. ASSUME ProcessErrorNode \/ StatementIgnored \/ StatementNull
      PROVE  TypeOK'
  BY <1>1, <1>8
  DEF ProcessErrorNode, StatementIgnored, StatementNull, NextStatement, TypeOK
<1>9. ASSUME NEW t \in ImmediateType, ProcessExprImmediate(t)
      PROVE  TypeOK'
  <2>1. Immediate(t) \in Address
    BY DEF Immediate, Address, NULL
  <2> QED
    BY <1>1, <1>9, <2>1 DEF ProcessExprImmediate, NextStatement, TypeOK
<1>10. ASSUME NEW t \in Text, ProcessExprString(t)
       PROVE  TypeOK'
  <2>1. literals' \in Seq(LiteralInfo(Text))
    BY <1>1, <1>10, AddLiteral DEF ProcessExprString, TypeOK
  <2>2. LiteralPos(literals', t) \in Nat
    BY <2>1, FirstLiteral, LenProperties DEF NULL
  <2>3. result' \in Address
    BY <1>10, <2>2 DEF ProcessExprString, Literal, Address, NULL
  <2> QED
    BY <1>1, <1>10, <2>1, <2>3 DEF ProcessExprString, NextStatement, TypeOK
<1>11. ASSUME NEW n \in Name, ProcessExprId(n)
       PROVE  TypeOK'
  BY <1>1, <1>11 DEF ProcessExprId, NextStatement, TypeOK
<1>12. ASSUME SymFind
       PROVE  TypeOK'
  <2>1. at \in {scope, fun, Top} /\ pc = "lookup"
    BY <1>12 DEF SymFind, SearchPassesOnlyMisses
  <2>2. at \in DOMAIN scopes /\ scopes[at].parent \in DOMAIN scopes \cup {NULL}
    BY <1>1, <1>2, <2>1, WayOut DEF TypeOK
  <2> DEFINE pos == sym_find_no_traverse(scopes, key, at)
  <2>3. pos \in Nat
    <3>1. /\ scopes \in Seq(ScopeInfo(Name))
          /\ scopes[at].symbols \in Seq(SymbolInfo(Name))
      BY <1>1, <2>2, ScopeFacts DEF TypeOK
    <3>2. pos # NULL => pos \in DOMAIN scopes[at].symbols
      BY <2>2, <3>1, FirstOfScope
    <3> HIDE DEF pos
    <3> QED
      BY <3>1, <3>2, LenProperties DEF NULL
  <2>4. Symbol(at, pos) \in Address /\ Empty \in Address
    BY <1>2, <2>2, <2>3 DEF Symbol, Empty, Address, NULL
  <2>5. /\ pc' \in {"body", "lookup"}
        /\ at' \in DOMAIN scopes \cup {NULL}
        /\ result' \in Address
    BY <1>1, <1>12, <2>1, <2>2, <2>4 DEF SymFind, TypeOK
  <2> QED
    BY <1>1, <1>12, <2>5 DEF SymFind, TypeOK
<1>13. ASSUME Finish
       PROVE  TypeOK'
  <2> DEFINE data == [k \in DOMAIN literals |->
                        ir_mkdata_string(literals[k].name, literals[k].literal)]
  <2>1. literals \in Seq(LiteralInfo(Text)) /\ codes \in Seq(Item)
    BY <1>1 DEF TypeOK
  <2>2. DOMAIN literals = 1 .. Len(literals) /\ Len(literals) \in Nat
    BY <2>1, LenProperties
  <2>3. ASSUME NEW k \in DOMAIN literals
        PROVE  ir_mkdata_string(literals[k].name, literals[k].literal) \in Item
    <3>1. literals[k] \in LiteralInfo(Text)
      BY <2>1, <2>2, ElementOfSeq
    <3> QED
      BY <3>1 DEF LiteralInfo, Item, ir_mkdata_string
  <2>4. data \in Seq(Item)
    BY <2>2, <2>3, IsASeq
  <2>5. codes' = data \o codes
    BY <1>13 DEF Finish, prepend_strings
  <2> HIDE DEF data
  <2>6. codes' \in Seq(Item)
    BY <2>1, <2>4, <2>5, ConcatProperties
  <2> QED
    BY <1>1, <1>13, <2>6 DEF Finish, TypeOK
<1>14. ASSUME UNCHANGED vars
       PROVE  TypeOK'
  BY <1>1, <1>14 DEF vars, TypeOK
<1> QED
  BY <1>3, <1>4, <1>5, <1>6, <1>7, <1>8, <1>9, <1>10, <1>11, <1>12, <1>13, <1>14
  DEF Next, Step, Terminated

(* Every step keeps the scopes of the i-th function at 2i and 2i + 1 and   *)
(* the current scope where the program counter says.                       *)
LEMMA StepScopeDiscipline ==
  ASSUME IInv, [Next]_vars
  PROVE  ScopeDiscipline'
<1> DEFINE n == Len(scopes[Top].symbols)
<1>1. /\ scopes \in Seq(ScopeInfo(Name)) /\ TypeOK /\ ScopeDiscipline
      /\ DOMAIN scopes = 1 .. Len(scopes) /\ Len(scopes) \in Nat
      /\ Top \in DOMAIN scopes
      /\ Functions = 1 .. n /\ n \in Nat
  BY ScopeFacts DEF IInv, TypeOK
<1>2. CASE UNCHANGED <<scopes, scope, fun>> /\ pc' \in {pc, "body", "lookup", "crashed"}
            /\ (pc' \in {"body", "lookup"} => pc \in {"body", "lookup"})
            /\ (pc' = "crashed" => pc # "params")
  BY <1>1, <1>2 DEF ScopeDiscipline, Functions
<1>3. ASSUME NEW name \in Name, ProcessFun(name)
      PROVE  ScopeDiscipline'
  <2> DEFINE info == sym_mkfunction(name, Top, Len(scopes) + 1)
  <2>1. /\ scope = Top /\ pc' = "params" /\ Len(scopes) = 2 * n + 1
        /\ scopes' = ctx_push_function(scopes, Top, name)
        /\ scope' = Len(scopes') /\ fun' = Len(scopes')
    BY <1>1, <1>3 DEF ProcessFun, ScopeDiscipline
  <2>2. info.params = 2 * n + 2
    BY <1>1, <2>1 DEF sym_mkfunction
  <2>3. info \in SymbolInfo(Name)
    BY <1>1 DEF sym_mkfunction, SymbolInfo, ScopePtr, NULL, Top
  <2>4. /\ scopes' \in Seq(ScopeInfo(Name)) /\ Len(scopes') = Len(scopes) + 1
        /\ scopes'[Len(scopes) + 1].parent = Top
        /\ \A t \in DOMAIN scopes : scopes'[t].parent = scopes[t].parent
        /\ scopes'[Top].symbols = Append(scopes[Top].symbols, info)
    <3>1. /\ scopes \in Seq(ScopeInfo(Name)) /\ Top \in DOMAIN scopes
          /\ scopes' = ctx_push_function(scopes, Top, name)
      BY <1>1, <2>1
    <3> QED
      BY <3>1, PushFunction
  <2> HIDE DEF info
  <2>5. scopes[Top].symbols \in Seq(SymbolInfo(Name))
    BY <1>1, ScopeFacts
  <2>6. /\ Len(scopes'[Top].symbols) = n + 1
        /\ scopes'[Top].symbols \in Seq(SymbolInfo(Name))
        /\ \A i \in 1 .. n : scopes'[Top].symbols[i] = scopes[Top].symbols[i]
        /\ scopes'[Top].symbols[n + 1] = info
    BY <2>3, <2>4, <2>5, AppendProperties
  <2> HIDE DEF n
  <2>7. /\ Functions' = 1 .. n + 1
        /\ DOMAIN scopes' = 1 .. 2 * n + 2
    BY <1>1, <2>1, <2>4, <2>6, LenProperties DEF Functions
  <2>8. ASSUME NEW i \in Functions'
        PROVE  /\ scopes'[Top].symbols[i].params = 2 * i
               /\ scopes'[2 * i].parent = Top
               /\ 2 * i + 1 \in DOMAIN scopes' => scopes'[2 * i + 1].parent = 2 * i
    <3>1. CASE i = n + 1
      BY <1>1, <2>1, <2>2, <2>4, <2>6, <2>7, <3>1
    <3>2. CASE i # n + 1
      <4>1. /\ i \in Functions /\ 2 * i \in DOMAIN scopes /\ 2 * i + 1 \in DOMAIN scopes
        BY <1>1, <2>1, <2>7, <3>2
      <4>2. /\ scopes[Top].symbols[i].params = 2 * i
            /\ scopes[2 * i].parent = Top
            /\ scopes[2 * i + 1].parent = 2 * i
        BY <1>1, <4>1 DEF ScopeDiscipline
      <4> QED
        BY <1>1, <2>4, <2>6, <4>1, <4>2
    <3> QED
      BY <3>1, <3>2
  <2>9. scopes'[Top].parent = NULL
    BY <1>1, <2>4 DEF ScopeDiscipline
  <2>10. fun' = 2 * (n + 1) /\ fun' # NULL
    BY <1>1, <2>1, <2>4 DEF NULL
  <2>11. Len(scopes') = 2 * Len(scopes'[Top].symbols)
    BY <1>1, <2>1, <2>4, <2>6
  <2>12. fun' = 2 * Len(scopes'[Top].symbols)
    BY <2>6, <2>10
  <2> QED
    BY <2>1, <2>8, <2>9, <2>10, <2>11, <2>12 DEF ScopeDiscipline
<1>4. ASSUME NEW name \in Name, AddParam(name)
      PROVE  ScopeDiscipline'
  <2>1. /\ scope = fun /\ fun = 2 * n /\ fun # NULL /\ pc = "params"
        /\ scopes' = sym_add_symbol(scopes, fun, sym_mkvar(name, fun))
        /\ UNCHANGED <<pc, scope, fun>>
    BY <1>1, <1>4 DEF AddParam, ScopeDiscipline
  <2>2. sym_mkvar(name, fun) \in SymbolInfo(Name) /\ fun \in DOMAIN scopes
    BY <1>1, <2>1 DEF sym_mkvar, SymbolInfo, ScopePtr, NULL, TypeOK
  <2>3. /\ scopes' \in Seq(ScopeInfo(Name)) /\ Len(scopes') = Len(scopes)
        /\ \A t \in DOMAIN scopes : t # fun => scopes'[t] = scopes[t]
        /\ scopes'[fun].parent = scopes[fun].parent
    <3>1. /\ scopes \in Seq(ScopeInfo(Name)) /\ fun \in DOMAIN scopes
          /\ scopes' = sym_add_symbol(scopes, fun, sym_mkvar(name, fun))
          /\ sym_mkvar(name, fun) \in SymbolInfo(Name)
      BY <1>1, <2>1, <2>2
    <3> QED
      BY <3>1, AddSymbol
  <2>4. Top # fun
    BY <1>1, <2>1 DEF Top
  <2>5. scopes'[Top] = scopes[Top] /\ DOMAIN scopes' = DOMAIN scopes
    BY <1>1, <2>3, <2>4, LenProperties
  <2>6. \A t \in DOMAIN scopes : scopes'[t].parent = scopes[t].parent
    BY <2>3
  <2>7. ASSUME NEW i \in Functions
        PROVE  2 * i \in DOMAIN scopes
    BY <1>1, <2>1, <2>2
  <2> QED
    BY <1>1, <2>1, <2>3, <2>5, <2>6, <2>7 DEF ScopeDiscipline, Functions
<1>5. ASSUME PushBody
      PROVE  ScopeDiscipline'
  <2>1. /\ scope = fun /\ fun = 2 * n /\ fun # NULL /\ Len(scopes) = 2 * n
        /\ scopes' = ctx_push_new_scope(scopes, scope)
        /\ pc' = "body" /\ scope' = Len(scopes') /\ fun' = fun
    BY <1>1, <1>5 DEF PushBody, ScopeDiscipline
  <2>2. /\ scopes' \in Seq(ScopeInfo(Name)) /\ Len(scopes') = Len(scopes) + 1
        /\ scopes'[Len(scopes) + 1].parent = fun
        /\ \A t \in DOMAIN scopes : /\ scopes'[t].parent = scopes[t].parent
                                    /\ scopes'[t].symbols = scopes[t].symbols
    <3>1. /\ scopes \in Seq(ScopeInfo(Name)) /\ fun \in DOMAIN scopes
          /\ scopes' = ctx_push_new_scope(scopes, fun)
      BY <1>1, <2>1 DEF TypeOK
    <3> QED
      BY <3>1, PushNewScope
  <2>3. /\ Len(scopes'[Top].symbols) = n /\ Functions' = Functions
        /\ scopes'[Top].symbols = scopes[Top].symbols
        /\ DOMAIN scopes' = 1 .. 2 * n + 1
    BY <1>1, <2>1, <2>2, LenProperties DEF Functions
  <2> HIDE DEF n
  <2>4. ASSUME NEW i \in Functions
        PROVE  /\ scopes'[Top].symbols[i].params = 2 * i
               /\ scopes'[2 * i].parent = Top
               /\ 2 * i + 1 \in DOMAIN scopes' => scopes'[2 * i + 1].parent = 2 * i
    <3>1. /\ 2 * i \in DOMAIN scopes
          /\ i # n => 2 * i + 1 \in DOMAIN scopes
      BY <1>1, <2>1
    <3>2. /\ scopes[Top].symbols[i].params = 2 * i
          /\ scopes[2 * i].parent = Top
          /\ 2 * i + 1 \in DOMAIN scopes => scopes[2 * i + 1].parent = 2 * i
      BY <1>1 DEF ScopeDiscipline
    <3> QED
      BY <1>1, <2>1, <2>2, <2>3, <3>1, <3>2
  <2>5. scopes'[Top].parent = NULL
    BY <1>1, <2>2 DEF ScopeDiscipline
  <2> QED
    BY <1>1, <2>1, <2>2, <2>3, <2>4, <2>5 DEF ScopeDiscipline
<1>6. ASSUME EndBody
      PROVE  ScopeDiscipline'
  <2>1. scope' = Top /\ pc = "body" /\ pc' = "toplevel" /\ UNCHANGED <<scopes, fun>>
    BY <1>6, WayOut DEF EndBody
  <2> QED
    BY <1>1, <2>1 DEF ScopeDiscipline, Functions
<1>7. ASSUME Finish
      PROVE  ScopeDiscipline'
  BY <1>1, <1>7 DEF Finish, ScopeDiscipline, Functions
<1>8. ASSUME \/ \E names \in SUBSET Name : ProcessDecl(names)
             \/ ProcessErrorNode \/ StatementIgnored \/ StatementNull
             \/ \E t \in ImmediateType : ProcessExprImmediate(t)
             \/ \E t \in Text : ProcessExprString(t)
             \/ \E name \in Name : ProcessExprId(name)
             \/ SymFind
             \/ UNCHANGED vars
      PROVE  ScopeDiscipline'
  BY <1>2, <1>8
  DEF ProcessDecl, ProcessErrorNode, StatementIgnored, StatementNull,
      ProcessExprImmediate, ProcessExprString, ProcessExprId, NextStatement,
      SymFind, vars
<1> QED
  BY <1>3, <1>4, <1>5, <1>6, <1>7, <1>8 DEF Next, Step, Terminated

(* Every step keeps the pool numbered: only a string adds to it.           *)
LEMMA StepLiterals ==
  ASSUME IInv, [Next]_vars
  PROVE  LiteralsNumberedOnce'
<1>1. literals \in Seq(LiteralInfo(Text)) /\ NumberedOnce(literals)
  BY DEF IInv, TypeOK, LiteralsNumberedOnce
<1>2. ASSUME NEW t \in Text, ProcessExprString(t)
      PROVE  LiteralsNumberedOnce'
  BY <1>1, <1>2, AddLiteral DEF ProcessExprString, LiteralsNumberedOnce
<1>3. ASSUME UNCHANGED literals
      PROVE  LiteralsNumberedOnce'
  BY <1>1, <1>3 DEF LiteralsNumberedOnce
<1> QED
  BY <1>2, <1>3
  DEF Next, Step, Terminated, vars, ProcessDecl, ProcessFun, ProcessErrorNode,
      AddParam, PushBody, EndBody, StatementIgnored, StatementNull,
      ProcessExprImmediate, ProcessExprId, SymFind, Finish

(* Every step keeps the output the labels of the functions, in order: a    *)
(* function adds its label and its symbol together, and nothing else adds  *)
(* a symbol to the top level.                                              *)
LEMMA StepOutput ==
  ASSUME IInv, [Next]_vars
  PROVE  OutputComplete'
<1> DEFINE n == Len(scopes[Top].symbols)
<1>1. /\ scopes \in Seq(ScopeInfo(Name)) /\ Top \in DOMAIN scopes
      /\ scopes[Top].symbols \in Seq(SymbolInfo(Name))
      /\ Functions = 1 .. n /\ n \in Nat
  BY ScopeFacts DEF IInv, TypeOK
<1>2. OutputComplete
  BY DEF IInv
<1>3. CASE /\ UNCHANGED codes /\ scopes'[Top].symbols = scopes[Top].symbols
           /\ (pc' = "done" <=> pc = "done") /\ UNCHANGED literals
  BY <1>2, <1>3 DEF OutputComplete, FunctionLabels, StringData, Functions
<1>4. ASSUME NEW name \in Name, ProcessFun(name)
      PROVE  OutputComplete'
  <2> DEFINE info == sym_mkfunction(name, Top, Len(scopes) + 1)
  <2>1. /\ pc # "done" /\ pc' # "done" /\ codes' = Append(codes, ir_mklabel(name))
        /\ scopes' = ctx_push_function(scopes, Top, name)
    BY <1>4 DEF ProcessFun, IInv, ScopeDiscipline
  <2>2. info \in SymbolInfo(Name) /\ info.name = name
    <3>1. Len(scopes) \in Nat
      BY ScopeFacts
    <3> QED
      BY <3>1 DEF sym_mkfunction, SymbolInfo, ScopePtr, NULL, Top
  <2>3. scopes'[Top].symbols = Append(scopes[Top].symbols, info)
    BY <1>1, <2>1, PushFunction
  <2> HIDE DEF info
  <2>4. /\ Len(scopes'[Top].symbols) = n + 1
        /\ scopes'[Top].symbols \in Seq(SymbolInfo(Name))
        /\ \A i \in 1 .. n : scopes'[Top].symbols[i] = scopes[Top].symbols[i]
        /\ scopes'[Top].symbols[n + 1] = info
    BY <1>1, <2>2, <2>3, AppendProperties
  <2> DEFINE labels == [i \in 1 .. n |-> ir_mklabel(scopes[Top].symbols[i].name)]
             label(i) == ir_mklabel(scopes'[Top].symbols[i].name)
             more == [i \in 1 .. n + 1 |-> label(i)]
  <2>5. codes = labels
    BY <1>1, <1>2, <2>1 DEF OutputComplete, FunctionLabels
  <2> HIDE DEF n
  <2>6. FunctionLabels' = more
    <3>1. Functions' = 1 .. n + 1
      BY <2>4, LenProperties DEF Functions
    <3> QED
      BY <3>1 DEF FunctionLabels
  <2>7. codes \in Seq(Item) /\ Len(codes) = n
    <3>1. codes \in Seq(Item)
      BY DEF IInv, TypeOK
    <3>2. DOMAIN codes = 1 .. n
      BY <2>5
    <3> QED
      BY <1>1, <3>1, <3>2, LenProperties
  <2>8. ir_mklabel(name) \in Item
    BY DEF ir_mklabel, Item
  <2>9. /\ codes' \in Seq(Item) /\ Len(codes') = n + 1
        /\ \A i \in 1 .. n : codes'[i] = codes[i]
        /\ codes'[n + 1] = ir_mklabel(name)
    BY <2>1, <2>7, <2>8, AppendProperties
  <2>10. ASSUME NEW i \in 1 .. n + 1
         PROVE  label(i) = codes'[i]
    <3>1. CASE i = n + 1
      BY <2>2, <2>4, <2>9, <3>1
    <3>2. CASE i # n + 1
      <4>1. i \in 1 .. n
        BY <1>1, <3>2
      <4> QED
        BY <2>4, <2>5, <2>9, <4>1
    <3> QED
      BY <3>1, <3>2
  <2>11. codes' = [i \in 1 .. n + 1 |-> codes'[i]]
    BY <2>9, LenProperties
  <2>12. codes' = more
    BY <2>10, <2>11
  <2> QED
    BY <2>1, <2>6, <2>12 DEF OutputComplete
<1>5. ASSUME NEW name \in Name, AddParam(name)
      PROVE  OutputComplete'
  <2>1. /\ scopes' = sym_add_symbol(scopes, fun, sym_mkvar(name, fun))
        /\ scope = fun /\ fun = 2 * n /\ fun # NULL /\ UNCHANGED <<pc, codes, literals>>
    BY <1>5 DEF AddParam, IInv, ScopeDiscipline
  <2>2. fun \in DOMAIN scopes /\ fun # Top /\ fun \in ScopePtr
    BY <1>1, <2>1, LenProperties DEF IInv, TypeOK, Top, ScopePtr, NULL
  <2>3. sym_mkvar(name, fun) \in SymbolInfo(Name)
    BY <2>2 DEF sym_mkvar, SymbolInfo, NULL
  <2>4. \A t \in DOMAIN scopes : t # fun => scopes'[t] = scopes[t]
    <3>1. /\ scopes' = sym_add_symbol(scopes, fun, sym_mkvar(name, fun))
          /\ scopes \in Seq(ScopeInfo(Name)) /\ fun \in DOMAIN scopes
      BY <1>1, <2>1, <2>2
    <3> QED
      BY <2>3, <3>1, AddSymbol
  <2> QED
    BY <1>1, <1>3, <2>1, <2>2, <2>4
<1>6. ASSUME PushBody
      PROVE  OutputComplete'
  <2>1. /\ scopes \in Seq(ScopeInfo(Name)) /\ scope \in DOMAIN scopes
        /\ scopes' = ctx_push_new_scope(scopes, scope)
    BY <1>6 DEF PushBody, IInv, TypeOK
  <2>2. scopes'[Top].symbols = scopes[Top].symbols
    BY <1>1, <2>1, PushNewScope
  <2> QED
    BY <1>3, <1>6, <2>2 DEF PushBody
<1>7. ASSUME Finish
      PROVE  OutputComplete'
  <2>1. /\ codes = FunctionLabels /\ pc' = "done" /\ UNCHANGED <<scopes, literals>>
        /\ codes' = StringData \o codes
    BY <1>2, <1>7 DEF OutputComplete, Finish, prepend_strings, StringData
  <2> QED
    BY <2>1 DEF OutputComplete, StringData, FunctionLabels, Functions
<1>8. ASSUME NEW t \in Text, ProcessExprString(t)
      PROVE  OutputComplete'
  BY <1>2, <1>8
  DEF ProcessExprString, NextStatement, OutputComplete, FunctionLabels, Functions
<1>9. ASSUME \/ \E names \in SUBSET Name : ProcessDecl(names)
             \/ ProcessErrorNode \/ EndBody \/ StatementIgnored \/ StatementNull
             \/ \E t \in ImmediateType : ProcessExprImmediate(t)
             \/ \E name \in Name : ProcessExprId(name)
             \/ SymFind
             \/ UNCHANGED vars
      PROVE  OutputComplete'
  BY <1>3, <1>9
  DEF ProcessDecl, ProcessErrorNode, EndBody, StatementIgnored, StatementNull,
      ProcessExprImmediate, ProcessExprId, NextStatement, SymFind, vars
<1> QED
  BY <1>4, <1>5, <1>6, <1>7, <1>8, <1>9 DEF Next, Step, Terminated

(* Every step of a search either ends it or passes a scope without the     *)
(* name, and goes on to the next scope on the way out.                     *)
LEMMA StepSearch ==
  ASSUME IInv, [Next]_vars
  PROVE  SearchPassesOnlyMisses'
<1>1. SearchPassesOnlyMisses
  BY DEF IInv
<1>2. CASE pc' # "lookup"
  BY <1>2 DEF SearchPassesOnlyMisses
<1>3. ASSUME NEW name \in Name, ProcessExprId(name)
      PROVE  SearchPassesOnlyMisses'
  <2>1. /\ pc = "body" /\ at' = scope /\ UNCHANGED <<scope, scopes, fun>>
    BY <1>3 DEF ProcessExprId, NextStatement
  <2>2. scope = fun + 1 /\ fun # Top /\ fun \in DOMAIN scopes
    BY <2>1, WayOut
  <2>3. at' # Top
    BY <2>1, <2>2, ScopeFacts DEF Top
  <2> QED
    BY <2>1, <2>3 DEF SearchPassesOnlyMisses
<1>4. ASSUME SymFind, pc' = "lookup"
      PROVE  SearchPassesOnlyMisses'
  <2>1. /\ sym_find_no_traverse(scopes, key, at) = NULL
        /\ scopes[at].parent # NULL /\ at' = scopes[at].parent
        /\ pc = "lookup" /\ UNCHANGED <<scope, scopes, fun, key>>
    BY <1>4 DEF SymFind
  <2>2. /\ scopes[scope].parent = fun /\ scopes[fun].parent = Top
        /\ scopes[Top].parent = NULL /\ fun # Top
    BY <2>1, WayOut
  <2> QED
    BY <1>1, <2>1, <2>2 DEF SearchPassesOnlyMisses
<1>5. CASE UNCHANGED <<pc, at, scope, scopes, fun, key>>
  BY <1>1, <1>5 DEF SearchPassesOnlyMisses
<1> QED
  BY <1>2, <1>3, <1>4, <1>5
  DEF Next, Step, Terminated, vars, ProcessDecl, ProcessFun, ProcessErrorNode,
      AddParam, PushBody, EndBody, StatementIgnored, StatementNull, NextStatement,
      ProcessExprImmediate, ProcessExprString, Finish

-----------------------------------------------------------------------------
LEMMA StepIInv == IInv /\ [Next]_vars => IInv'
  BY StepTypeOK, StepScopeDiscipline, StepLiterals, StepOutput, StepSearch
  DEF IInv

(* The conjunction of build_ir's safety invariants is inductive: it holds  *)
(* before the first node and is kept by every step of the walk.            *)
THEOREM Invariance == Spec => []IInv
<1> QED
  BY InitIInv, StepIInv, PTL DEF Spec

(* Every variable has its type throughout build_ir; ctx->scope and the     *)
(* scope sym_find looks at are allocated scopes, never NULL.               *)
THEOREM TypeCorrect == Spec => []TypeOK
<1>1. IInv => TypeOK
  BY DEF IInv
<1> QED
  BY <1>1, Invariance, PTL

(* Pushes and pops of process_fun balance, and the scopes of one function  *)
(* are the scopes of no other, whatever the program.                       *)
THEOREM ScopesBalance == Spec => []ScopeDiscipline
<1>1. IInv => ScopeDiscipline
  BY DEF IInv
<1> QED
  BY <1>1, Invariance, PTL

(* sym_add_literal never gives two texts one number nor one text two.      *)
THEOREM LiteralsStayNumbered == Spec => []LiteralsNumberedOnce
<1>1. IInv => LiteralsNumberedOnce
  BY DEF IInv
<1> QED
  BY <1>1, Invariance, PTL

(* The IR build_ir returns is the data of the whole pool, then the label   *)
(* of every function in source order.                                      *)
THEOREM OutputIsComplete == Spec => []OutputComplete
<1>1. IInv => OutputComplete
  BY DEF IInv
<1> QED
  BY <1>1, Invariance, PTL

(* sym_find leaves a scope only when the scope lacks the name.             *)
THEOREM SearchesMissNothing == Spec => []SearchPassesOnlyMisses
<1>1. IInv => SearchPassesOnlyMisses
  BY DEF IInv
<1> QED
  BY <1>1, Invariance, PTL
-----------------------------------------------------------------------------
(* IrGenerator implements LexicalScope                                     *)

(* Nothing is declared in a body: process_decl does not add to its scope.  *)
BodyEmpty == pc \in {"body", "lookup"} => scopes[scope].symbols = << >>

LEMMA StepBodyEmpty ==
  ASSUME IInv, BodyEmpty, [Next]_vars
  PROVE  BodyEmpty'
<1>1. scopes \in Seq(ScopeInfo(Name)) /\ scope \in DOMAIN scopes
  BY DEF IInv, TypeOK
<1>2. ASSUME PushBody
      PROVE  BodyEmpty'
  <2>1. scopes' = ctx_push_new_scope(scopes, scope) /\ scope' = Len(scopes')
    BY <1>2 DEF PushBody
  <2>2. Len(scopes') = Len(scopes) + 1 /\ scopes'[Len(scopes) + 1].symbols = << >>
    BY <1>1, <2>1, PushNewScope
  <2> QED BY <2>1, <2>2 DEF BodyEmpty
<1>3. ASSUME UNCHANGED <<scopes, scope>>, pc' \in {"body", "lookup"} => pc \in {"body", "lookup"}
      PROVE  BodyEmpty'
  BY <1>3 DEF BodyEmpty
<1>4. ASSUME pc' \notin {"body", "lookup"}
      PROVE  BodyEmpty'
  BY <1>4 DEF BodyEmpty
<1>5. ASSUME \/ \E names \in SUBSET Name : ProcessDecl(names)
             \/ ProcessErrorNode \/ EndBody \/ Finish
             \/ \E n \in Name : ProcessFun(n) \/ AddParam(n)
      PROVE  BodyEmpty'
  BY <1>4, <1>5 DEF ProcessDecl, ProcessErrorNode, EndBody, Finish, ProcessFun, AddParam
<1>6. ASSUME \/ StatementIgnored \/ StatementNull
             \/ \E t \in ImmediateType : ProcessExprImmediate(t)
             \/ \E t \in Text : ProcessExprString(t)
             \/ \E n \in Name : ProcessExprId(n)
             \/ SymFind \/ UNCHANGED vars
      PROVE  BodyEmpty'
  BY <1>3, <1>6
  DEF StatementIgnored, StatementNull, ProcessExprImmediate, ProcessExprString,
      ProcessExprId, NextStatement, SymFind, vars
<1> QED
  BY <1>2, <1>5, <1>6 DEF Next, Step, Terminated

(* A search in a scope's list is a search in the names of its symbols.     *)
LEMMA SameFirst ==
  ASSUME NEW s \in DOMAIN scopes, IInv, NEW n
  PROVE  Meanings!First(Names(s), n) = sym_find_no_traverse(scopes, n, s)
<1> DEFINE list == scopes[s].symbols
           names == [k \in DOMAIN list |-> list[k].name]
<1>1. /\ list \in Seq(SymbolInfo(Name))
      /\ Len(list) \in Nat /\ DOMAIN list = 1 .. Len(list)
  BY ScopeFacts, LenProperties
<1>2. Len(names) = Len(list)
  BY <1>1
<1>3. {i \in 1 .. Len(names) : names[i] = n} = {i \in 1 .. Len(list) : list[i].name = n}
  BY <1>1, <1>2
<1>4. Names(s) = names
  BY DEF Names
<1> HIDE DEF names
<1> DEFINE J == {i \in 1 .. Len(names) : names[i] = n}
           K == {i \in 1 .. Len(list) : list[i].name = n}
<1>5. Meanings!First(names, n) = IF J # {} THEN Meanings!Min(J) ELSE 0
  BY Zenon DEF Meanings!First, Meanings!SelectInSeq
<1>6. sym_find_no_traverse(scopes, n, s) = IF K # {} THEN Min(K) ELSE 0
  BY Zenon DEF sym_find_no_traverse, SelectInSeq
<1>7. J = K
  BY <1>3
<1>8. Meanings!Min(K) = Min(K)
  BY Zenon DEF Meanings!Min, Min
<1> QED
  BY <1>4, <1>5, <1>6, <1>7, <1>8

(* Before the first node nothing is in scope and nothing has been asked.   *)
LEMMA InitMeanings == Init => Meanings!Init
<1> SUFFICES ASSUME Init PROVE Meanings!Init
  OBVIOUS
<1>1. scopes[Top].symbols = << >>
  BY DEF Init, EmptyTable, sym_mkscope, Top
<1>2. Names(Top) = << >>
  BY <1>1 DEF Names
<1> QED
  BY <1>2 DEF Init, Meanings!Init, Meanings!Unknown, Phase, Denotes, ImmediateType, Empty, NULL

(* Every step of build_ir is one step of LexicalScope or none: a search is *)
(* over in the abstract specification when it ends in the concrete one.    *)
LEMMA StepMeanings ==
  ASSUME IInv, BodyEmpty, [Next]_vars
  PROVE  [Meanings!Next]_(Meanings!vars)
<1> DEFINE funs   == Names(Top)
           params == IF fun = NULL THEN << >> ELSE Names(fun)
<1>1. /\ scopes \in Seq(ScopeInfo(Name)) /\ scope \in DOMAIN scopes
      /\ Top \in DOMAIN scopes /\ DOMAIN scopes = 1 .. Len(scopes) /\ Len(scopes) \in Nat
      /\ \A s \in DOMAIN scopes : scopes[s].symbols \in Seq(SymbolInfo(Name))
      /\ literals \in Seq(LiteralInfo(Text))
  BY ScopeFacts DEF IInv, TypeOK
<1>2. ASSUME UNCHANGED <<result, literals>>
      PROVE  Denotes(result)' = Denotes(result)
  BY <1>2 DEF Denotes
<1>3. ASSUME UNCHANGED <<scopes, fun>>
      PROVE  funs' = funs /\ params' = params
  BY <1>3 DEF Names
<1>4. ASSUME NEW n \in Name, ProcessFun(n)
      PROVE  Meanings!BeginFunction(n)
  <2> DEFINE info == sym_mkfunction(n, Top, Len(scopes) + 1)
  <2>1. /\ pc = "toplevel" /\ pc' = "params" /\ scope = Top
        /\ scopes' = ctx_push_function(scopes, Top, n)
        /\ fun' = Len(scopes') /\ UNCHANGED <<key, result, literals>>
    BY <1>4 DEF ProcessFun, IInv, ScopeDiscipline
  <2>2. /\ Len(scopes') = Len(scopes) + 1
        /\ scopes'[Len(scopes) + 1].symbols = << >>
        /\ scopes'[Top].symbols = Append(scopes[Top].symbols, info)
    BY <1>1, <2>1, PushFunction
  <2>3. info.name = n
    BY DEF sym_mkfunction
  <2>4. fun' = Len(scopes) + 1 /\ fun' # NULL
    BY <1>1, <2>1, <2>2 DEF NULL
  <2>5. params' = << >>
    BY <2>2, <2>4 DEF Names
  <2>6. funs' = Append(funs, n)
    <3>1. info \in SymbolInfo(Name)
      BY <1>1 DEF sym_mkfunction, SymbolInfo, ScopePtr, NULL, Top
    <3>2. scopes[Top].symbols \in Seq(SymbolInfo(Name))
      BY <1>1
    <3> HIDE DEF info
    <3> QED BY <2>2, <2>3, <3>1, <3>2, NamesAppended DEF Names
  <2>7. Denotes(result)' = Denotes(result)
    BY <1>2, <2>1
  <2> QED
    BY <2>1, <2>5, <2>6, <2>7 DEF Meanings!BeginFunction, Phase
<1>5. ASSUME NEW n \in Name, AddParam(n)
      PROVE  Meanings!AddParam(n)
  <2>1. /\ pc = "params" /\ pc' = "params" /\ scope = fun /\ fun # NULL /\ fun # Top
        /\ scopes' = sym_add_symbol(scopes, fun, sym_mkvar(n, fun))
        /\ UNCHANGED <<fun, key, result, literals>> /\ fun \in DOMAIN scopes
    <3>1. /\ pc = "params" /\ pc' = "params" /\ scope = fun /\ fun # NULL
          /\ scopes' = sym_add_symbol(scopes, scope, sym_mkvar(n, fun))
          /\ UNCHANGED <<fun, key, result, literals>>
          /\ fun = 2 * Len(scopes[Top].symbols)
      BY <1>5 DEF AddParam, IInv, ScopeDiscipline
    <3>2. fun # 1
      <4>1. Len(scopes[Top].symbols) \in Nat
        BY ScopeFacts
      <4> QED BY <3>1, <4>1
    <3> QED BY <1>1, <3>1, <3>2 DEF Top
  <2>2. sym_mkvar(n, fun) \in SymbolInfo(Name) /\ sym_mkvar(n, fun).name = n
    BY <1>1, <2>1 DEF sym_mkvar, SymbolInfo, ScopePtr, NULL
  <2>3. /\ \A t \in DOMAIN scopes : t # fun => scopes'[t] = scopes[t]
        /\ scopes'[fun].symbols = Append(scopes[fun].symbols, sym_mkvar(n, fun))
    <3>1. /\ scopes' = sym_add_symbol(scopes, fun, sym_mkvar(n, fun))
          /\ scopes \in Seq(ScopeInfo(Name)) /\ fun \in DOMAIN scopes
          /\ sym_mkvar(n, fun) \in SymbolInfo(Name)
      BY <1>1, <2>1, <2>2
    <3> QED BY <3>1, AddSymbol
  <2>4. funs' = funs
    BY <1>1, <2>1, <2>3 DEF Names
  <2>5. params' = Append(params, n)
    BY <1>1, <2>1, <2>2, <2>3, NamesAppended DEF Names
  <2>6. Denotes(result)' = Denotes(result)
    BY <1>2, <2>1
  <2> QED
    BY <2>1, <2>4, <2>5, <2>6 DEF Meanings!AddParam, Phase
<1>6. ASSUME PushBody
      PROVE  Meanings!BeginBody
  <2>1. /\ pc = "params" /\ pc' = "body"
        /\ scopes' = ctx_push_new_scope(scopes, scope)
        /\ UNCHANGED <<fun, key, result, literals>>
    BY <1>6 DEF PushBody
  <2>2. \A t \in DOMAIN scopes : scopes'[t].symbols = scopes[t].symbols
    <3>1. /\ scopes' = ctx_push_new_scope(scopes, scope)
          /\ scopes \in Seq(ScopeInfo(Name)) /\ scope \in DOMAIN scopes
      BY <1>1, <2>1
    <3> QED BY <3>1, PushNewScope
  <2>3. fun # NULL => fun \in DOMAIN scopes
    BY DEF IInv, TypeOK
  <2>4. funs' = funs /\ params' = params
    BY <1>1, <2>1, <2>2, <2>3 DEF Names
  <2>5. Denotes(result)' = Denotes(result)
    BY <1>2, <2>1
  <2> QED
    BY <2>1, <2>4, <2>5 DEF Meanings!BeginBody, Phase
<1>7. ASSUME EndBody
      PROVE  Meanings!EndFunction
  BY <1>2, <1>3, <1>7 DEF EndBody, Meanings!EndFunction, Phase
<1>8. ASSUME ProcessErrorNode \/ StatementNull \/ Finish
      PROVE  Meanings!Stop
  BY <1>2, <1>3, <1>8
  DEF ProcessErrorNode, StatementNull, NextStatement, Finish, Meanings!Stop, Phase
<1>9. ASSUME NEW t \in ImmediateType, ProcessExprImmediate(t)
      PROVE  Meanings!Evaluate(Meanings!Number)
  <2>1. Denotes(result)' = Meanings!Number
    BY <1>9 DEF ProcessExprImmediate, Immediate, Denotes, ImmediateType, Meanings!Number
  <2> QED
    BY <1>3, <1>9, <2>1 DEF ProcessExprImmediate, NextStatement, Meanings!Evaluate, Phase
<1>10. ASSUME NEW t \in Text, ProcessExprString(t)
       PROVE  Meanings!Evaluate(Meanings!String(t))
  <2>1. /\ literals' = sym_add_literal(literals, t)
        /\ result' = Literal(LiteralPos(literals', t))
    BY <1>10 DEF ProcessExprString
  <2> DEFINE pos == LiteralPos(literals', t)
  <2>2. literals'[pos].literal = t
    <3>1. literals' \in Seq(LiteralInfo(Text)) /\ \E k \in DOMAIN literals' : literals'[k].literal = t
      <4>1. literals \in Seq(LiteralInfo(Text)) /\ literals' = sym_add_literal(literals, t)
        BY <1>1, <2>1
      <4>2. literals' \in Seq(LiteralInfo(Text))
        BY <4>1, AddLiteral
      <4>3. \E k \in DOMAIN literals' : literals'[k].literal = t
        <5>1. ASSUME NEW new, new = sym_add_literal(literals, t)
              PROVE  \E k \in DOMAIN new : new[k].literal = t
          BY <4>1, <5>1, AddLiteral
        <5> QED BY <4>1, <5>1
      <4> QED BY <4>2, <4>3
    <3> QED BY <3>1, FirstLiteral
  <2> HIDE DEF pos
  <2>3. result' = Literal(pos)
    BY <2>1 DEF pos
  <2>4. Denotes(result)' = Meanings!String(t)
    BY <2>2, <2>3 DEF Literal, Denotes, ImmediateType, Meanings!String, NULL
  <2> QED
    BY <1>3, <1>10, <2>4 DEF ProcessExprString, NextStatement, Meanings!Evaluate, Phase
<1>11. ASSUME NEW n \in Name, ProcessExprId(n)
       PROVE  Meanings!Ask(n)
  BY <1>2, <1>3, <1>11 DEF ProcessExprId, NextStatement, Meanings!Ask, Phase
<1>12. ASSUME SymFind, pc' = "body"
       PROVE  Meanings!Answer
  <2>1. /\ pc = "lookup" /\ UNCHANGED <<scopes, fun, key>>
    BY <1>12 DEF SymFind
  <2>2. /\ fun \in DOMAIN scopes /\ fun # NULL /\ fun # Top /\ scopes[fun].parent = Top
        /\ scope = fun + 1 /\ scopes[scope].parent = fun
    BY <1>1, <2>1, WayOut DEF NULL
  <2>3. params = Names(fun)
    BY <2>2
  <2> DEFINE pos == sym_find_no_traverse(scopes, key, at)
  <2>4. /\ Meanings!First(params, key) = sym_find_no_traverse(scopes, key, fun)
        /\ Meanings!First(funs, key) = sym_find_no_traverse(scopes, key, Top)
    BY <1>1, <2>2, <2>3, SameFirst
  <2>5. /\ at \in {scope, fun, Top}
        /\ at = Top => sym_find_no_traverse(scopes, key, fun) = NULL
    BY <2>1 DEF IInv, SearchPassesOnlyMisses
  <2>6. sym_find_no_traverse(scopes, key, scope) = NULL
    <3>1. scopes[scope].symbols = << >>
      BY <2>1 DEF BodyEmpty
    <3>2. DOMAIN scopes[scope].symbols = {}
      BY <3>1
    <3> QED BY <1>1, <3>2, FirstOfScope
  <2>7. /\ Len(funs) = Len(scopes[Top].symbols) /\ Len(funs) \in Nat
        /\ fun = 2 * Len(funs) /\ fun \div 2 = Len(funs)
    <3>1. /\ scopes[Top].symbols \in Seq(SymbolInfo(Name)) /\ Len(scopes[Top].symbols) \in Nat
      BY <1>1, LenProperties
    <3>2. Len(funs) = Len(scopes[Top].symbols)
      BY <3>1, LenProperties DEF Names
    <3>3. fun = 2 * Len(scopes[Top].symbols)
      BY DEF IInv, ScopeDiscipline
    <3>4. Len(funs) \in Nat /\ fun = 2 * Len(funs)
      BY <3>1, <3>2, <3>3
    <3>5. \A k \in Nat : (2 * k) \div 2 = k
      OBVIOUS
    <3> HIDE DEF funs
    <3> QED BY <3>2, <3>4, <3>5
  <2>8. CASE pos # NULL
    <3>1. result' = Symbol(at, pos) /\ at # scope
      BY <1>12, <2>6, <2>8 DEF SymFind
    <3>2. CASE at = fun
      <4>1. Denotes(result)' = [kind |-> "PARAM", fun |-> fun \div 2, param |-> pos]
        BY <2>2, <3>1, <3>2 DEF Denotes, Symbol, ImmediateType
      <4>2. Meanings!Meaning(key) = [kind |-> "PARAM", fun |-> Len(funs), param |-> pos]
        BY <2>4, <2>8, <3>2 DEF Meanings!Meaning, Meanings!Param, NULL
      <4>3. Denotes(result)' = Meanings!Meaning(key)
        BY <2>7, <4>1, <4>2
      <4> QED BY <1>3, <1>12, <2>1, <4>3 DEF Meanings!Answer, Phase
    <3>3. CASE at = Top
      <4>1. Denotes(result)' = [kind |-> "FUNCTION", fun |-> pos]
        BY <3>1, <3>3 DEF Denotes, Symbol, ImmediateType, Top, NULL
      <4>2. Meanings!Meaning(key) = [kind |-> "FUNCTION", fun |-> pos]
        BY <2>4, <2>5, <2>8, <3>3 DEF Meanings!Meaning, Meanings!Function, NULL
      <4> QED BY <1>3, <1>12, <2>1, <4>1, <4>2 DEF Meanings!Answer, Phase
    <3> QED BY <2>5, <3>1, <3>2, <3>3
  <2>9. CASE pos = NULL
    <3>1. result' = Empty /\ scopes[at].parent = NULL
      BY <1>12, <2>9 DEF SymFind
    <3>2. at = Top
      BY <1>1, <2>2, <2>5, <3>1 DEF Top, NULL
    <3>3. Denotes(result)' = [kind |-> "UNKNOWN"]
      BY <3>1 DEF Denotes, Empty, ImmediateType
    <3>4. Meanings!Meaning(key) = [kind |-> "UNKNOWN"]
      BY <2>4, <2>5, <2>9, <3>2 DEF Meanings!Meaning, Meanings!Unknown, NULL
    <3> QED BY <1>3, <1>12, <2>1, <3>3, <3>4 DEF Meanings!Answer, Phase
  <2> QED BY <2>8, <2>9
<1>13. ASSUME \/ \E names \in SUBSET Name : ProcessDecl(names)
              \/ StatementIgnored
              \/ SymFind /\ pc' # "body"
              \/ UNCHANGED vars
       PROVE  UNCHANGED Meanings!vars
  <2>1. UNCHANGED <<pc, scopes, fun, key, result, literals>>
    BY <1>13 DEF ProcessDecl, StatementIgnored, NextStatement, SymFind, vars
  <2> QED
    BY <1>2, <1>3, <2>1 DEF Meanings!vars, Phase
<1> QED
  BY <1>4, <1>5, <1>6, <1>7, <1>8, <1>9, <1>10, <1>11, <1>12, <1>13
  DEF Next, Step, Terminated, Meanings!Next

(* For every program build_ir resolves names and strings as LexicalScope   *)
(* says: no pointer, scope or search order shows in the result.            *)
THEOREM NamesResolveLexically == Spec => ImplementsLexicalScope
<1>1. Init => IInv /\ BodyEmpty /\ Meanings!Init
  BY InitIInv, InitMeanings DEF Init, BodyEmpty
<1>2. IInv /\ BodyEmpty /\ [Next]_vars => IInv' /\ BodyEmpty'
  BY StepIInv, StepBodyEmpty
<1>3. IInv /\ BodyEmpty /\ [Next]_vars => [Meanings!Next]_(Meanings!vars)
  BY StepMeanings
<1> QED
  BY <1>1, <1>2, <1>3, PTL DEF Spec, ImplementsLexicalScope, Meanings!Spec

-----------------------------------------------------------------------------
(* The listing that main prints                                            *)

Buffer == Seq(Item \cup {Junk})

OutLine == [line : {"directive", "indented", "flush"}, text : {".data", ".text"} \cup Buffer]

(* Before its first node a program has left no trace.                      *)
NothingInv ==
  nodes = 0 => /\ pc \notin {"params", "body", "lookup"}
               /\ scopes = EmptyTable /\ literals = << >>

(* The line of the k-th item: behind one directive or two.                 *)
LineOf(k) == IF k <= Len(literals) THEN k + 1 ELSE k + 2

ShowsItem(line, item) ==
  /\ line.line # "directive"
  /\ Last(line.text) = item
  /\ item.type = "IR_LABEL" => line = ItemLine(FALSE, <<item>>)

(* What the listing is when n items have been printed.                     *)
Listed(n) ==
  /\ Len(out) = IF n <= Len(literals) THEN n + 1 ELSE n + 2
  /\ out[1] = Directive(".data")
  /\ n > Len(literals) => out[Len(literals) + 2] = Directive(".text")
  /\ \A k \in 1 .. n : ShowsItem(out[LineOf(k)], codes[k])

ListingInv ==
  /\ buffer \in Buffer /\ out \in Seq(OutLine)
  /\ stage \in {"building", "listing", "ended"}
  /\ stage = "building" => out = << >> /\ (pc = "done" => nodes > 0)
  /\ stage = "listing" =>
       /\ pc = "done" /\ nodes > 0
       /\ c \in 1 .. Len(codes) + 1 /\ Listed(c - 1)
       /\ prev = IF c - 1 <= Len(literals) THEN "IR_DATA" ELSE "IR_LABEL"
  /\ stage = "ended" =>
       \/ pc = "toplevel" /\ nodes = 0 /\ out = << >>
       \/ pc = "done" /\ nodes > 0 /\ Listed(Len(codes))

CompilerInv == IInv /\ NothingInv /\ ListingInv

-----------------------------------------------------------------------------
(* What build_ir returns                                                   *)

(* The items are those of the literals, then those of the functions.       *)
LEMMA ItemsInOrder ==
  ASSUME IInv
  PROVE  LET d == Len(literals)
             f == Len(scopes[Top].symbols)
         IN  /\ d \in Nat /\ f \in Nat /\ Functions = 1 .. f
             /\ StringData \o FunctionLabels \in Seq(Item)
             /\ Len(StringData \o FunctionLabels) = d + f
             /\ \A k \in 1 .. d + f :
                  (StringData \o FunctionLabels)[k].type =
                    IF k <= d THEN "IR_DATA" ELSE "IR_LABEL"
<1> DEFINE info(i) == scopes[Top].symbols[i]
<1>1. PICK d \in Nat : d = Len(literals)
  BY LenProperties DEF IInv, TypeOK
<1>2. PICK f \in Nat : f = Len(scopes[Top].symbols) /\ Functions = 1 .. f
  BY ScopeFacts
<1>3. literals \in Seq(LiteralInfo(Text)) /\ scopes[Top].symbols \in Seq(SymbolInfo(Name))
  BY ScopeFacts DEF IInv, TypeOK
<1> DEFINE g(k) == ir_mkdata_string(literals[k].name, literals[k].literal)
           h(i) == ir_mklabel(info(i).name)
<1>4. StringData = [k \in 1 .. d |-> g(k)] /\ FunctionLabels = [i \in 1 .. f |-> h(i)]
  <2>1. DOMAIN literals = 1 .. d
    BY <1>1, <1>3, LenProperties
  <2> QED BY <1>2, <2>1 DEF StringData, FunctionLabels
<1>5. \A k \in 1 .. d : g(k) \in Item /\ g(k).type = "IR_DATA"
  <2> SUFFICES ASSUME NEW k \in 1 .. d
               PROVE  g(k) \in Item /\ g(k).type = "IR_DATA"
    OBVIOUS
  <2>1. literals[k] \in LiteralInfo(Text)
    BY <1>1, <1>3, ElementOfSeq
  <2> QED BY <2>1 DEF LiteralInfo, ir_mkdata_string, Item
<1>6. \A i \in 1 .. f : h(i) \in Item /\ h(i).type = "IR_LABEL"
  <2> SUFFICES ASSUME NEW i \in 1 .. f
               PROVE  h(i) \in Item /\ h(i).type = "IR_LABEL"
    OBVIOUS
  <2>1. info(i) \in SymbolInfo(Name)
    BY <1>2, <1>3, ElementOfSeq
  <2> QED BY <2>1 DEF SymbolInfo, ir_mklabel, Item
<1> HIDE DEF g, h
<1>7. PICK S : S = StringData
  OBVIOUS
<1>8. PICK F : F = FunctionLabels
  OBVIOUS
<1>9. /\ S \in Seq(Item) /\ Len(S) = d /\ \A k \in 1 .. d : S[k].type = "IR_DATA"
      /\ F \in Seq(Item) /\ Len(F) = f /\ \A i \in 1 .. f : F[i].type = "IR_LABEL"
  BY <1>4, <1>5, <1>6, <1>7, <1>8
<1>10. PICK T : T = S \o F
  OBVIOUS
<1>11. /\ T \in Seq(Item) /\ Len(T) = d + f
       /\ \A k \in 1 .. d + f : T[k] = IF k <= d THEN S[k] ELSE F[k - d]
  BY <1>9, <1>10, ConcatProperties
<1>12. \A k \in 1 .. d + f : T[k].type = IF k <= d THEN "IR_DATA" ELSE "IR_LABEL"
  <2> SUFFICES ASSUME NEW k \in 1 .. d + f
               PROVE  T[k].type = IF k <= d THEN "IR_DATA" ELSE "IR_LABEL"
    OBVIOUS
  <2>1. CASE k <= d
    BY <1>9, <1>11, <2>1
  <2>2. CASE ~(k <= d)
    <3>1. k - d \in 1 .. f
      BY <2>2
    <3> QED BY <1>9, <1>11, <2>2, <3>1
  <2> QED BY <2>1, <2>2
<1> QED
  BY <1>1, <1>2, <1>7, <1>8, <1>10, <1>11, <1>12

(* A program without nodes leaves the tables as they were.                 *)
LEMMA StepNothing ==
  ASSUME IInv, NothingInv, [Next]_vars
  PROVE  NothingInv'
<1>1. nodes \in Nat /\ (nodes = 0 => pc \notin {"params", "body", "lookup"})
  BY DEF IInv, TypeOK, NothingInv
<1>2. ASSUME nodes' = nodes + 1
      PROVE  NothingInv'
  BY <1>1, <1>2 DEF NothingInv
<1>3. ASSUME pc \in {"params", "body", "lookup"}, nodes' = nodes
      PROVE  NothingInv'
  BY <1>1, <1>3 DEF NothingInv
<1>4. ASSUME nodes' = nodes, scopes' = scopes, literals' = literals,
             pc' = pc \/ pc' \in {"done", "crashed"}
      PROVE  NothingInv'
  BY <1>4 DEF NothingInv
<1>5. ASSUME NEW names \in SUBSET Name, ProcessDecl(names)
      PROVE  NothingInv'
  BY <1>2, <1>5 DEF ProcessDecl
<1>6. ASSUME NEW n \in Name, ProcessFun(n) \/ AddParam(n)
      PROVE  NothingInv'
  BY <1>2, <1>3, <1>6 DEF ProcessFun, AddParam
<1>7. ASSUME PushBody \/ EndBody \/ StatementIgnored \/ StatementNull \/ SymFind
      PROVE  NothingInv'
  BY <1>3, <1>7
  DEF PushBody, EndBody, StatementIgnored, StatementNull, NextStatement, SymFind
<1>8. ASSUME \/ \E t \in ImmediateType : ProcessExprImmediate(t)
             \/ \E t \in Text : ProcessExprString(t)
             \/ \E n \in Name : ProcessExprId(n)
      PROVE  NothingInv'
  BY <1>3, <1>8
  DEF ProcessExprImmediate, ProcessExprString, ProcessExprId, NextStatement
<1>9. ASSUME ProcessErrorNode \/ Finish \/ UNCHANGED vars
      PROVE  NothingInv'
  BY <1>4, <1>9 DEF ProcessErrorNode, Finish, vars
<1> QED
  BY <1>5, <1>6, <1>7, <1>8, <1>9 DEF Next, Step, Terminated

-----------------------------------------------------------------------------
(* Printing an item                                                        *)

(* One more line with text, with or without a directive before it.         *)
LEMMA LinesAppended ==
  ASSUME NEW S, NEW s \in Seq(S), NEW dir \in S, NEW line \in S,
         NEW m \in Nat, m = Len(s)
  PROVE  /\ s \o << >> \o <<line>> \in Seq(S) /\ Len(s \o << >> \o <<line>>) = m + 1
         /\ \A i \in 1 .. m : (s \o << >> \o <<line>>)[i] = s[i]
         /\ (s \o << >> \o <<line>>)[m + 1] = line
         /\ s \o <<dir>> \o <<line>> \in Seq(S) /\ Len(s \o <<dir>> \o <<line>>) = m + 2
         /\ \A i \in 1 .. m : (s \o <<dir>> \o <<line>>)[i] = s[i]
         /\ (s \o <<dir>> \o <<line>>)[m + 1] = dir
         /\ (s \o <<dir>> \o <<line>>)[m + 2] = line
<1>1. PICK t : t = s \o << >> \o <<line>>
  OBVIOUS
<1>2. t = Append(s, line)
  BY <1>1, ConcatEmptySeq, AppendIsConcat
<1>3. /\ t \in Seq(S) /\ Len(t) = m + 1 /\ t[m + 1] = line
      /\ \A i \in 1 .. m : t[i] = s[i]
  BY <1>2, AppendProperties
<1>4. PICK u : u = s \o <<dir>>
  OBVIOUS
<1>5. u = Append(s, dir)
  BY <1>4, AppendIsConcat
<1>6. /\ u \in Seq(S) /\ Len(u) = m + 1 /\ u[m + 1] = dir
      /\ \A i \in 1 .. m : u[i] = s[i]
  BY <1>5, AppendProperties
<1>7. PICK w : w = u \o <<line>>
  OBVIOUS
<1>8. w = Append(u, line)
  BY <1>6, <1>7, AppendIsConcat
<1>9. /\ w \in Seq(S) /\ Len(w) = m + 2 /\ w[m + 2] = line
      /\ \A i \in 1 .. m + 1 : w[i] = u[i]
  <2>1. m + 1 + 1 = m + 2
    OBVIOUS
  <2> QED BY <1>6, <1>8, <2>1, AppendProperties
<1>10. w[m + 1] = dir /\ \A i \in 1 .. m : w[i] = s[i]
  <2>1. m + 1 \in 1 .. m + 1 /\ \A i \in 1 .. m : i \in 1 .. m + 1
    OBVIOUS
  <2> QED BY <1>6, <1>9, <2>1
<1> QED
  BY <1>1, <1>3, <1>4, <1>7, <1>9, <1>10

(* What an item becomes, whatever was in the buffer.                       *)
LEMMA LineShowsItem ==
  ASSUME NEW text \in Buffer, NEW item \in Item
  PROVE  LET to   == ir_pretty_print(text, item)
             line == ItemLine(item.type # "IR_LABEL", to)
         IN  to \in Buffer /\ line \in OutLine /\ ShowsItem(line, item)
<1> DEFINE S == Item \cup {Junk}
<1>1. PICK to : to = ir_pretty_print(text, item)
  OBVIOUS
<1>2. text \in Seq(S) /\ item \in S
  BY DEF Buffer
<1>3. item.type \in {"IR_DATA", "IR_LABEL"}
  BY DEF Item
<1>4. item.type = "IR_DATA"  => to = Append(text, item)
  BY <1>1 DEF ir_pretty_print, print_data
<1>5. item.type = "IR_LABEL" => to = <<item>>
  BY <1>1 DEF ir_pretty_print, print_label_code
<1> HIDE DEF S
<1>6. to \in Seq(S) /\ Last(to) = item
  <2>1. CASE item.type = "IR_DATA"
    <3>1. to \in Seq(S) /\ Len(to) = Len(text) + 1 /\ to[Len(text) + 1] = item
      BY <1>2, <1>4, <2>1, AppendProperties
    <3> QED BY <3>1 DEF Last
  <2>2. CASE item.type = "IR_LABEL"
    <3>1. PICK x \in S : x = item
      BY <1>2
    <3>2. <<x>> \in Seq(S) /\ Len(<<x>>) = 1 /\ <<x>>[1] = x
      OBVIOUS
    <3>3. to \in Seq(S) /\ Len(to) = 1 /\ to[1] = item
      BY <1>5, <2>2, <3>1, <3>2
    <3> QED BY <3>3 DEF Last
  <2> QED BY <1>3, <2>1, <2>2
<1>7. to \in Buffer
  BY <1>6 DEF Buffer, S
<1>8. PICK line : line = ItemLine(item.type # "IR_LABEL", to)
  OBVIOUS
<1>9. line.text = to /\ line.line = IF item.type # "IR_LABEL" THEN "indented" ELSE "flush"
  BY <1>8 DEF ItemLine
<1>10. line \in OutLine
  BY <1>7, <1>8 DEF ItemLine, OutLine
<1>11. line.line # "directive" /\ Last(line.text) = item
  BY <1>6, <1>9
<1>12. item.type = "IR_LABEL" => line = ItemLine(FALSE, <<item>>)
  <2>1. item.type = "IR_LABEL" => (item.type # "IR_LABEL") = FALSE
    OBVIOUS
  <2> QED BY <1>5, <1>8, <2>1 DEF ItemLine
<1> QED
  BY <1>1, <1>7, <1>8, <1>10, <1>11, <1>12 DEF ShowsItem

(* The next item is printed behind the others, with the directive that     *)
(* begins the code before the first label.                                 *)
LEMMA StepPrintItem ==
  ASSUME CompilerInv, PrintItem
  PROVE  ListingInv'
<1>1. PICK d \in Nat, m \in Nat, n \in Nat :
        d = Len(literals) /\ m = Len(codes) /\ n = c - 1
  <2>1. Len(literals) \in Nat /\ Len(codes) \in Nat
    BY LenProperties DEF CompilerInv, IInv, TypeOK
  <2>2. c \in 1 .. Len(codes) + 1
    BY DEF CompilerInv, ListingInv, PrintItem
  <2> QED BY <2>1, <2>2
<1>2. /\ buffer \in Buffer /\ out \in Seq(OutLine) /\ stage = "listing" /\ pc = "done"
      /\ nodes > 0 /\ c \in 1 .. m /\ Listed(n)
      /\ prev = IF n <= d THEN "IR_DATA" ELSE "IR_LABEL"
  BY <1>1 DEF CompilerInv, ListingInv, PrintItem
<1>3. /\ codes \in Seq(Item)
      /\ \A k \in 1 .. m : codes[k].type = IF k <= d THEN "IR_DATA" ELSE "IR_LABEL"
  <2>1. codes = StringData \o FunctionLabels
    BY <1>2 DEF CompilerInv, IInv, OutputComplete
  <2> QED BY <1>1, <2>1, ItemsInOrder DEF CompilerInv
<1> DEFINE item == codes[c]
           to == ir_pretty_print(buffer, item)
           line == ItemLine(item.type # "IR_LABEL", to)
<1>4. /\ stage' = stage /\ pc' = pc /\ nodes' = nodes /\ literals' = literals
      /\ codes' = codes /\ c' = c + 1 /\ buffer' = to /\ prev' = item.type
      /\ out' = out \o Switch(prev, item.type) \o <<line>>
  BY DEF PrintItem, vars
<1>5. item \in Item /\ item.type = IF c <= d THEN "IR_DATA" ELSE "IR_LABEL"
  BY <1>1, <1>2, <1>3, ElementOfSeq
<1>6. to \in Buffer /\ line \in OutLine /\ ShowsItem(line, item)
  <2> HIDE DEF item
  <2> QED BY <1>2, <1>5, LineShowsItem
<1>7. Directive(".text") \in OutLine
  BY DEF Directive, OutLine
<1> HIDE DEF item, to, line
<1>8. n + 1 = c /\ c - 1 = n /\ n < m
  BY <1>1, <1>2
<1>9. PICK o \in Nat : o = Len(out) /\ o = IF n <= d THEN n + 1 ELSE n + 2
  BY <1>1, <1>2 DEF Listed
<1>10. /\ out' \in Seq(OutLine)
       /\ \A i \in 1 .. o : out'[i] = out[i]
       /\ Len(out') = IF c <= d THEN c + 1 ELSE c + 2
       /\ c > d => out'[d + 2] = Directive(".text")
       /\ out'[IF c <= d THEN c + 1 ELSE c + 2] = line
  <2>1. CASE n + 1 = d + 1
    <3>1. Switch(prev, item.type) = <<Directive(".text")>>
      BY <1>2, <1>5, <1>8, <2>1 DEF Switch
    <3>2. out' = out \o <<Directive(".text")>> \o <<line>>
      BY <1>4, <3>1
    <3>3. /\ out' \in Seq(OutLine) /\ Len(out') = o + 2
          /\ \A i \in 1 .. o : out'[i] = out[i]
          /\ out'[o + 1] = Directive(".text") /\ out'[o + 2] = line
      <4>1. out \in Seq(OutLine) /\ line \in OutLine /\ o = Len(out)
        BY <1>2, <1>6, <1>9
      <4> QED BY <1>7, <3>2, <4>1, LinesAppended
    <3>4. o = n + 1 /\ o + 1 = d + 2 /\ o + 2 = c + 2 /\ ~(c <= d)
      BY <1>8, <1>9, <2>1
    <3> QED BY <3>3, <3>4
  <2>2. CASE n + 1 # d + 1
    <3>1. Switch(prev, item.type) = << >>
      BY <1>2, <1>5, <1>8, <2>2 DEF Switch
    <3>2. out' = out \o << >> \o <<line>>
      BY <1>4, <3>1
    <3>3. /\ out' \in Seq(OutLine) /\ Len(out') = o + 1
          /\ \A i \in 1 .. o : out'[i] = out[i]
          /\ out'[o + 1] = line
      <4>1. out \in Seq(OutLine) /\ line \in OutLine /\ o = Len(out)
        BY <1>2, <1>6, <1>9
      <4> QED BY <1>7, <3>2, <4>1, LinesAppended
    <3>4. o + 1 = IF c <= d THEN c + 1 ELSE c + 2
      BY <1>8, <1>9, <2>2
    <3>5. c > d => n > d /\ d + 2 \in 1 .. o
      BY <1>8, <1>9, <2>2
    <3>6. n > d => out[d + 2] = Directive(".text")
      BY <1>1, <1>2 DEF Listed
    <3> QED BY <3>3, <3>4, <3>5, <3>6
  <2> QED BY <2>1, <2>2
<1>11. \A k \in 1 .. c :
         ShowsItem(out'[IF k <= d THEN k + 1 ELSE k + 2], codes[k])
  <2> SUFFICES ASSUME NEW k \in 1 .. c
               PROVE  ShowsItem(out'[IF k <= d THEN k + 1 ELSE k + 2], codes[k])
    OBVIOUS
  <2>1. CASE k = c
    BY <1>6, <1>10, <2>1 DEF item
  <2>2. CASE k # c
    <3>1. k \in 1 .. n /\ (IF k <= d THEN k + 1 ELSE k + 2) \in 1 .. o
      BY <1>8, <1>9, <2>2
    <3>2. ShowsItem(out[IF k <= d THEN k + 1 ELSE k + 2], codes[k])
      BY <1>1, <1>2, <3>1 DEF Listed, LineOf
    <3> QED BY <1>10, <3>1, <3>2
  <2> QED BY <2>1, <2>2
<1>12. out'[1] = Directive(".data")
  <2>1. 1 \in 1 .. o
    BY <1>9
  <2>2. out[1] = Directive(".data")
    BY <1>2 DEF Listed
  <2> QED BY <1>10, <2>1, <2>2
<1>13. c' - 1 = c /\ c' \in 1 .. Len(codes') + 1 /\ d = Len(literals')
  BY <1>1, <1>2, <1>4
<1>14. Listed(c - 1)'
  <2>1. Len(out') = IF c' - 1 <= Len(literals') THEN c' - 1 + 1 ELSE c' - 1 + 2
    BY <1>10, <1>13
  <2>2. c' - 1 > Len(literals') => out'[Len(literals') + 2] = Directive(".text")
    BY <1>10, <1>13
  <2>3. ASSUME NEW k \in 1 .. c' - 1
        PROVE  ShowsItem(out'[IF k <= Len(literals') THEN k + 1 ELSE k + 2], codes'[k])
    BY <1>4, <1>11, <1>13
  <2> QED BY <1>12, <2>1, <2>2, <2>3 DEF Listed, LineOf, ShowsItem
<1>15. prev' = IF c' - 1 <= Len(literals') THEN "IR_DATA" ELSE "IR_LABEL"
  BY <1>4, <1>5, <1>13
<1>16. stage' = "listing" /\ pc' = "done" /\ nodes' > 0 /\ buffer' \in Buffer
  BY <1>2, <1>4, <1>6
<1> QED
  BY <1>10, <1>13, <1>14, <1>15, <1>16 DEF ListingInv

(* build_ir prints nothing and frees nothing of the listing.               *)
LEMMA StepBuildIr ==
  ASSUME CompilerInv, BuildIr
  PROVE  ListingInv'
<1>1. /\ buffer \in Buffer /\ out = << >> /\ out \in Seq(OutLine) /\ stage = "building"
      /\ stage' = stage /\ buffer' = buffer /\ out' = out
      /\ pc' = "done" => nodes > 0
  BY DEF CompilerInv, ListingInv, BuildIr, listing
<1>2. pc' = "done" => nodes' > 0
  <2>1. nodes \in Nat
    BY DEF CompilerInv, IInv, TypeOK
  <2>2. nodes' = nodes \/ nodes' = nodes + 1
    BY DEF BuildIr, Step, ProcessDecl, ProcessFun, AddParam, ProcessErrorNode, PushBody,
           EndBody, NextStatement, StatementIgnored, StatementNull, ProcessExprImmediate,
           ProcessExprString, ProcessExprId, SymFind, Finish
  <2> QED BY <1>1, <2>1, <2>2
<1> QED
  BY <1>1, <1>2 DEF ListingInv

LEMMA CompilerInvariance == CompilerSpec => []CompilerInv
<1>1. CompilerInit => CompilerInv
  <2> SUFFICES ASSUME CompilerInit
               PROVE  CompilerInv
    OBVIOUS
  <2>1. IInv
    BY InitIInv DEF CompilerInit
  <2>2. NothingInv
    BY DEF CompilerInit, Init, NothingInv
  <2>3. buffer \in Buffer
    <3>1. Junk \in Item \cup {Junk}
      OBVIOUS
    <3> HIDE DEF Item
    <3>2. << >> \in Seq(Item \cup {Junk}) /\ <<Junk>> \in Seq(Item \cup {Junk})
      BY <3>1, EmptySeq
    <3> QED BY <3>2 DEF CompilerInit, Buffer
  <2>4. ListingInv
    BY <2>3, EmptySeq DEF CompilerInit, Init, ListingInv
  <2> QED BY <2>1, <2>2, <2>4 DEF CompilerInv
<1>2. CompilerInv /\ [CompilerStep \/ Stopped]_all => CompilerInv'
  <2> SUFFICES ASSUME CompilerInv, [CompilerStep \/ Stopped]_all
               PROVE  CompilerInv'
    OBVIOUS
  <2>1. [Next]_vars
    BY DEF CompilerStep, RejectTree, BuildIr, StartListing, PrintItem, EndListing,
           Stopped, all, Next
  <2>2. IInv' /\ NothingInv'
    BY <2>1, StepIInv, StepNothing DEF CompilerInv
  <2>3. ListingInv
    BY DEF CompilerInv
  <2>4. CASE RejectTree
    <3>1. ListingInv'
      BY <2>3, <2>4 DEF RejectTree, ListingInv, vars, listing
    <3> QED BY <2>2, <3>1 DEF CompilerInv
  <2>5. CASE StartListing
    <3>1. PICK d \in Nat, m \in Nat : d = Len(literals) /\ m = Len(codes)
      BY LenProperties DEF CompilerInv, IInv, TypeOK
    <3>2. /\ stage' = "listing" /\ c' = 1 /\ prev' = "IR_DATA" /\ out' = <<Directive(".data")>>
          /\ buffer' = buffer /\ pc' = "done" /\ nodes' = nodes /\ nodes > 0
          /\ literals' = literals /\ codes' = codes /\ buffer \in Buffer
      BY <2>3, <2>5 DEF StartListing, ListingInv, vars
    <3>3. PICK line \in OutLine : line = Directive(".data")
      BY DEF Directive, OutLine
    <3>4. /\ <<line>> \in Seq(OutLine) /\ Len(<<line>>) = 1 /\ <<line>>[1] = line
      OBVIOUS
    <3>5. out' \in Seq(OutLine) /\ Len(out') = 1 /\ out'[1] = Directive(".data")
      BY <3>2, <3>3, <3>4
    <3>6. c' - 1 = 0 /\ 0 <= d /\ ~(0 > d) /\ c' \in 1 .. m + 1
      BY <3>1, <3>2
    <3>7. Listed(c - 1)'
      BY <3>1, <3>2, <3>5, <3>6 DEF Listed
    <3> QED BY <2>2, <3>1, <3>2, <3>5, <3>6, <3>7 DEF ListingInv, CompilerInv
  <2>6. CASE EndListing
    <3>1. /\ stage = "listing" /\ pc = "done" /\ nodes > 0 /\ c > Len(codes)
          /\ c \in 1 .. Len(codes) + 1 /\ Listed(c - 1) /\ buffer \in Buffer
          /\ out \in Seq(OutLine)
      BY <2>3, <2>6 DEF EndListing, ListingInv
    <3>2. Len(codes) \in Nat
      BY LenProperties DEF CompilerInv, IInv, TypeOK
    <3>3. c - 1 = Len(codes)
      BY <3>1, <3>2
    <3>4. Listed(Len(codes))
      BY <3>1, <3>3
    <3>5. stage' = "ended" /\ UNCHANGED <<vars, listing>>
      BY <2>6 DEF EndListing
    <3>6. ListingInv'
      BY <3>1, <3>4, <3>5 DEF ListingInv, Listed, LineOf, vars, listing
    <3> QED BY <2>2, <3>6 DEF CompilerInv
  <2>7. CASE Stopped \/ UNCHANGED all
    <3>1. UNCHANGED all
      BY <2>7 DEF Stopped
    <3>2. ListingInv'
      BY <2>3, <3>1 DEF ListingInv, Listed, LineOf, all, vars, listing
    <3> QED BY <2>2, <3>2 DEF CompilerInv
  <2> QED
    BY <2>2, <2>4, <2>5, <2>6, <2>7, StepBuildIr, StepPrintItem
    DEF CompilerStep, CompilerInv
<1> QED
  BY <1>1, <1>2, PTL DEF CompilerSpec

-----------------------------------------------------------------------------
(* What is listed                                                          *)

(* A listing has no line yet, or a number of items.                        *)
LEMMA ListingShape ==
  ASSUME CompilerInv
  PROVE  /\ out \in Seq(OutLine)
         /\ \/ out = << >> /\ (stage = "ended" => nodes = 0)
            \/ /\ pc = "done"
               /\ \E n \in 0 .. Len(codes) :
                    Listed(n) /\ (stage = "ended" => n = Len(codes))
<1>1. ListingInv /\ Len(codes) \in Nat
  BY LenProperties DEF CompilerInv, IInv, TypeOK
<1>2. CASE stage = "building"
  BY <1>1, <1>2 DEF ListingInv
<1>3. CASE stage = "listing"
  <2>1. c - 1 \in 0 .. Len(codes) /\ Listed(c - 1) /\ pc = "done" /\ out \in Seq(OutLine)
    BY <1>1, <1>3 DEF ListingInv
  <2> QED BY <1>3, <2>1
<1>4. CASE stage = "ended"
  <2>1. Len(codes) \in 0 .. Len(codes)
    BY <1>1
  <2> QED BY <1>1, <1>4, <2>1 DEF ListingInv
<1> QED
  BY <1>1, <1>2, <1>3, <1>4 DEF ListingInv

(* The directives are the first line and, if there is code, the line       *)
(* before it; the lines with text between them are counted right.          *)
LEMMA DirectivesPlaced ==
  ASSUME out \in Seq(OutLine), NEW d \in Nat, d = Len(literals),
         NEW n \in Nat, Listed(n)
  PROVE  /\ Directives = IF n <= d THEN {1} ELSE {1, d + 2}
         /\ TextNumber(Len(out)) = n
         /\ \A i \in DOMAIN out \ Directives :
              \E k \in 1 .. n : i = LineOf(k) /\ TextNumber(i) = k
<1>1. PICK m \in Nat : m = Len(out) /\ m = (IF n <= d THEN n + 1 ELSE n + 2)
                       /\ DOMAIN out = 1 .. m
  BY LenProperties DEF Listed
<1>2. IsDirective(1) /\ (n > d => IsDirective(d + 2))
  BY DEF Listed, IsDirective, Directive
<1>3. ASSUME NEW i \in 1 .. m, i # 1, n > d => i # d + 2
      PROVE  \E k \in 1 .. n : i = LineOf(k) /\ ~IsDirective(i)
  <2>1. CASE i <= d + 1
    <3>1. i - 1 \in 1 .. n /\ i - 1 <= d /\ i - 1 + 1 = i
      BY <1>1, <1>3, <2>1
    <3> QED BY <3>1 DEF Listed, LineOf, ShowsItem, IsDirective
  <2>2. CASE i > d + 1
    <3>1. i - 2 \in 1 .. n /\ ~(i - 2 <= d) /\ i - 2 + 2 = i
      BY <1>1, <1>3, <2>2
    <3> QED BY <3>1 DEF Listed, LineOf, ShowsItem, IsDirective
  <2> QED BY <2>1, <2>2
<1>4. Directives = IF n <= d THEN {1} ELSE {1, d + 2}
  <2>1. ASSUME NEW i \in 1 .. m
        PROVE  IsDirective(i) <=> i = 1 \/ (n > d /\ i = d + 2)
    BY <1>2, <1>3
  <2>2. 1 \in 1 .. m /\ (n > d => d + 2 \in 1 .. m) /\ (n > d <=> ~(n <= d))
    BY <1>1
  <2> HIDE DEF IsDirective
  <2> QED BY <1>1, <2>1, <2>2 DEF Directives
<1>5. ASSUME NEW i \in 1 .. m
      PROVE  TextNumber(i) = IF n > d /\ d + 2 <= i THEN i - 2 ELSE i - 1
  <2>1. IsFiniteSet(2 .. i) /\ Cardinality(2 .. i) = i - 1
    <3>1. 2 \in Int /\ i \in Int /\ i \in Nat /\ i # 0
      BY <1>1
    <3>2. IsFiniteSet(2 .. i) /\ Cardinality(2 .. i) = IF 2 > i THEN 0 ELSE i - 2 + 1
      BY <3>1, FS_Interval
    <3> QED BY <3>1, <3>2
  <2>2. CASE n > d /\ d + 2 <= i
    <3>1. (1 .. i) \ Directives = (2 .. i) \ {d + 2} /\ d + 2 \in 2 .. i
      BY <1>4, <2>2
    <3>2. Cardinality((2 .. i) \ {d + 2}) = i - 1 - 1
      <4>1. PICK S : S = 2 .. i
        OBVIOUS
      <4>2. Cardinality(S \ {d + 2}) = Cardinality(S) - 1
        BY <2>1, <3>1, <4>1, FS_RemoveElement
      <4> QED BY <2>1, <4>1, <4>2
    <3>3. i - 1 - 1 = i - 2
      OBVIOUS
    <3> QED BY <2>2, <3>1, <3>2, <3>3 DEF TextNumber
  <2>3. CASE ~(n > d /\ d + 2 <= i)
    <3>1. (1 .. i) \ Directives = 2 .. i
      BY <1>4, <2>3
    <3> QED BY <2>1, <2>3, <3>1 DEF TextNumber
  <2> QED BY <2>2, <2>3
<1>6. TextNumber(m) = n
  <2>1. m \in 1 .. m /\ (n > d => d + 2 <= m /\ m - 2 = n) /\ (~(n > d) => m - 1 = n)
    BY <1>1
  <2> QED BY <1>5, <2>1
<1>7. ASSUME NEW i \in DOMAIN out \ Directives
      PROVE  \E k \in 1 .. n : i = LineOf(k) /\ TextNumber(i) = k
  <2>1. i \in 1 .. m /\ i # 1 /\ (n > d => i # d + 2)
    BY <1>1, <1>4, <1>7
  <2>2. PICK k \in 1 .. n : i = LineOf(k)
    BY <1>3, <2>1
  <2>3. i = IF k <= d THEN k + 1 ELSE k + 2
    BY <2>2 DEF LineOf
  <2>4. TextNumber(i) = k
    BY <1>5, <2>1, <2>3
  <2> QED BY <2>2, <2>4
<1> QED
  BY <1>1, <1>4, <1>6, <1>7

(* Every item of the IR, for every program, is on the line with its        *)
(* number, and none is missing when main ends.                             *)
THEOREM AllItemsAreListed == CompilerSpec => []EveryItemListed
<1>1. ASSUME CompilerInv
      PROVE  EveryItemListed
  <2> DEFINE items == StringData \o FunctionLabels
  <2>0. PICK d \in Nat, f \in Nat : d = Len(literals) /\ f = Len(scopes[Top].symbols)
    BY <1>1, LenProperties, ScopeFacts DEF CompilerInv, IInv, TypeOK
  <2>1. /\ items \in Seq(Item) /\ Len(items) = d + f /\ DOMAIN items = 1 .. d + f
    BY <1>1, <2>0, ItemsInOrder, LenProperties DEF CompilerInv
  <2> HIDE DEF items
  <2>2. out \in Seq(OutLine)
    BY <1>1, ListingShape
  <2>3. CASE out = << >> /\ (stage = "ended" => nodes = 0)
    <3>1. DOMAIN out = {} /\ Len(out) = 0
      BY <2>3
    <3>2. TextNumber(0) = 0
      <4>1. (1 .. 0) \ Directives = {}
        OBVIOUS
      <4> QED BY <4>1, FS_EmptySet DEF TextNumber
    <3>3. stage = "ended" => d + f = 0
      <4>1. stage = "ended" => literals = << >> /\ scopes = EmptyTable
        BY <1>1, <2>3 DEF CompilerInv, NothingInv
      <4>2. Len(<< >>) = 0 /\ Len(EmptyTable[Top].symbols) = 0
        BY DEF EmptyTable, sym_mkscope, Top
      <4> QED BY <2>0, <4>1, <4>2
    <3> QED BY <2>1, <3>1, <3>2, <3>3 DEF EveryItemListed, items
  <2>4. CASE /\ pc = "done"
             /\ \E n \in 0 .. Len(codes) : Listed(n) /\ (stage = "ended" => n = Len(codes))
    <3>1. codes = items
      BY <1>1, <2>4 DEF CompilerInv, IInv, OutputComplete, items
    <3>2. PICK n \in 0 .. d + f : Listed(n) /\ (stage = "ended" => n = d + f)
      BY <2>1, <2>4, <3>1
    <3>3. /\ TextNumber(Len(out)) = n
          /\ \A i \in DOMAIN out \ Directives :
               \E k \in 1 .. n : i = LineOf(k) /\ TextNumber(i) = k
      BY <2>0, <2>2, <3>2, DirectivesPlaced
    <3>4. ASSUME NEW i \in DOMAIN out \ Directives
          PROVE  /\ TextNumber(i) \in DOMAIN items
                 /\ Last(out[i].text) = items[TextNumber(i)]
                 /\ items[TextNumber(i)].type = "IR_LABEL" =>
                      out[i] = ItemLine(FALSE, <<items[TextNumber(i)]>>)
      <4>1. PICK k \in 1 .. n : i = LineOf(k) /\ TextNumber(i) = k
        BY <3>3
      <4>2. k \in 1 .. d + f
        OBVIOUS
      <4>3. ShowsItem(out[i], items[k])
        BY <3>1, <3>2, <4>1 DEF Listed
      <4> QED BY <2>1, <4>1, <4>2, <4>3 DEF ShowsItem
    <3> QED BY <2>1, <3>2, <3>3, <3>4 DEF EveryItemListed, items
  <2> QED BY <1>1, <2>3, <2>4, ListingShape
<1> QED
  BY <1>1, CompilerInvariance, PTL

(* Every line is in its section, for every program, and there is one data  *)
(* section and, if there is code, one text section behind it.              *)
THEOREM SectionsAreRight == CompilerSpec => []SectionsRight
<1>1. ASSUME CompilerInv
      PROVE  SectionsRight
  <2>0. PICK d \in Nat, f \in Nat :
          d = Len(literals) /\ f = Len(scopes[Top].symbols) /\ Functions = 1 .. f
    BY <1>1, LenProperties, ScopeFacts DEF CompilerInv, IInv, TypeOK
  <2>1. out \in Seq(OutLine)
    BY <1>1, ListingShape
  <2>2. CASE out = << >> /\ (stage = "ended" => nodes = 0)
    <3>1. DOMAIN out = {} /\ nodes \in Nat
      BY <1>1, <2>2 DEF CompilerInv, IInv, TypeOK
    <3> QED BY <2>2, <3>1 DEF SectionsRight
  <2>3. CASE /\ pc = "done"
             /\ \E n \in 0 .. Len(codes) : Listed(n) /\ (stage = "ended" => n = Len(codes))
    <3>1. /\ Len(codes) = d + f
          /\ \A k \in 1 .. d + f : codes[k].type = IF k <= d THEN "IR_DATA" ELSE "IR_LABEL"
      <4>1. codes = StringData \o FunctionLabels
        BY <1>1, <2>3 DEF CompilerInv, IInv, OutputComplete
      <4> QED BY <1>1, <2>0, <4>1, ItemsInOrder DEF CompilerInv
    <3>2. PICK n \in 0 .. d + f : Listed(n) /\ (stage = "ended" => n = d + f)
      BY <2>3, <3>1
    <3>3. /\ Directives = IF n <= d THEN {1} ELSE {1, d + 2}
          /\ \A i \in DOMAIN out \ Directives : \E k \in 1 .. n : i = LineOf(k)
      <4>1. n \in Nat /\ d \in Nat /\ d = Len(literals) /\ Listed(n)
        BY <2>0, <3>2
      <4>2. /\ Directives = IF n <= d THEN {1} ELSE {1, d + 2}
            /\ \A i \in DOMAIN out \ Directives :
                 \E k \in 1 .. n : i = LineOf(k) /\ TextNumber(i) = k
        BY <2>1, <4>1, DirectivesPlaced
      <4> QED BY <4>2
    <3>4. /\ DOMAIN out = IF n <= d THEN 1 .. n + 1 ELSE 1 .. n + 2
          /\ out[1] = Directive(".data")
          /\ n > d => out[d + 2] = Directive(".text")
      BY <2>0, <2>1, <3>2, LenProperties DEF Listed
    <3>5. \A e \in DOMAIN out : IsDirective(e) <=> e \in Directives
      BY DEF Directives
    <3>6. ASSUME NEW i \in DOMAIN out \ Directives
          PROVE  SectionOf(i) = IF Last(out[i].text).type = "IR_DATA" THEN ".data" ELSE ".text"
      <4>1. PICK k \in 1 .. n : i = LineOf(k)
        BY <3>3
      <4>2. k \in 1 .. d + f /\ i = IF k <= d THEN k + 1 ELSE k + 2
        BY <2>0, <4>1 DEF LineOf
      <4>3. Last(out[i].text).type = IF k <= d THEN "IR_DATA" ELSE "IR_LABEL"
        <5>1. Last(out[i].text) = codes[k]
          BY <3>2, <4>1 DEF Listed, ShowsItem
        <5> QED BY <3>1, <4>2, <5>1
      <4> DEFINE start == IF k <= d THEN 1 ELSE d + 2
                 Begins(e) == IsDirective(e) /\ \A g \in e + 1 .. i : ~IsDirective(g)
      <4>4. ASSUME NEW e \in 1 .. i
            PROVE  IsDirective(e) <=> e = 1 \/ (n > d /\ e = d + 2)
        <5>1. e \in DOMAIN out
          BY <3>4, <4>2
        <5> QED BY <3>3, <3>5, <5>1
      <4>5. start \in 1 .. i /\ \A e \in 1 .. i : Begins(e) <=> e = start
        <5>1. start \in 1 .. i /\ (k > d => n > d)
          BY <4>2
        <5>2. Begins(start)
          <6>1. IsDirective(start)
            BY <4>4, <5>1
          <6>2. ASSUME NEW g \in start + 1 .. i
                PROVE  g \in 1 .. i /\ g # 1 /\ (n > d => g # d + 2)
            BY <4>2, <5>1
          <6> QED BY <4>4, <6>1, <6>2
        <5>3. ASSUME NEW e \in 1 .. i, Begins(e), e # start
              PROVE  FALSE
          <6>1. e = 1 \/ (n > d /\ e = d + 2)
            BY <4>4, <5>3
          <6>2. start \in e + 1 .. i
            BY <4>2, <5>1, <5>3, <6>1
          <6> HIDE DEF start
          <6> QED BY <5>2, <5>3, <6>2
        <5> HIDE DEF start, Begins
        <5> QED BY <5>1, <5>2, <5>3
      <4>6. out[start].text = IF k <= d THEN ".data" ELSE ".text"
        BY <3>4, <4>2 DEF Directive
      <4>7. SectionOf(i) = out[CHOOSE e \in 1 .. i : Begins(e)].text
        BY DEF SectionOf
      <4> HIDE DEF start, Begins
      <4>8. (CHOOSE e \in 1 .. i : Begins(e)) = start
        BY <4>5
      <4> QED BY <4>3, <4>6, <4>7, <4>8
    <3>7. ASSUME stage = "ended"
          PROVE  /\ out[1] = Directive(".data")
                 /\ IF Functions = {}
                      THEN Directives = {1}
                      ELSE \E e \in DOMAIN out \ {1} :
                             Directives = {1, e} /\ out[e] = Directive(".text")
      <4>1. n = d + f
        BY <3>2, <3>7
      <4>2. CASE f = 0
        BY <2>0, <3>3, <3>4, <4>1, <4>2
      <4>3. CASE f # 0
        <5>1. Functions # {} /\ n > d /\ ~(n <= d) /\ d + 2 \in 1 .. n + 2 /\ d + 2 # 1
          <6>1. 1 \in Functions /\ d \in Nat /\ f \in Nat
            BY <2>0, <4>3
          <6> QED BY <4>1, <4>3, <6>1
        <5>2. d + 2 \in DOMAIN out \ {1} /\ Directives = {1, d + 2}
              /\ out[d + 2] = Directive(".text")
          BY <3>3, <3>4, <5>1
        <5> QED BY <3>4, <5>1, <5>2
      <4> QED BY <4>2, <4>3
    <3> QED BY <3>6, <3>7 DEF SectionsRight
  <2> QED BY <1>1, <2>2, <2>3, ListingShape
<1> QED
  BY <1>1, CompilerInvariance, PTL
=============================================================================
