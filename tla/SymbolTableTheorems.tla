------------------------ MODULE SymbolTableTheorems -------------------------
(***************************************************************************)
(* What the operations of SymbolTable return, for every table and name:    *)
(* the facts that proofs about its clients rest on.                        *)
(***************************************************************************)
EXTENDS SymbolTable, SequenceTheorems, Induction, TLAPS

-----------------------------------------------------------------------------
(* Searching a list                                                        *)

(* sym_find_no_traverse answers NULL exactly when no symbol of the scope   *)
(* has the name, and else with the first symbol that has it.               *)
LEMMA FirstOfScope ==
  ASSUME NEW Name, NEW scopes \in Seq(ScopeInfo(Name)),
         NEW s \in DOMAIN scopes, NEW name,
         NEW pos, pos = sym_find_no_traverse(scopes, name, s)
  PROVE  /\ pos = NULL => \A k \in DOMAIN scopes[s].symbols :
                             scopes[s].symbols[k].name # name
         /\ pos # NULL => /\ pos \in DOMAIN scopes[s].symbols
                          /\ scopes[s].symbols[pos].name = name
                          /\ \A k \in DOMAIN scopes[s].symbols :
                               k < pos => scopes[s].symbols[k].name # name
<1> DEFINE list == scopes[s].symbols
           hits == {k \in 1 .. Len(list) : list[k].name = name}
<1>1. list \in Seq(SymbolInfo(Name))
  <2>1. scopes[s] \in ScopeInfo(Name)
    BY ElementOfSeq, LenProperties
  <2> QED
    BY <2>1 DEF ScopeInfo
<1>2. DOMAIN list = 1 .. Len(list) /\ Len(list) \in Nat
  BY <1>1, LenProperties
<1>3. pos = IF hits # {} THEN Min(hits) ELSE 0
  BY DEF sym_find_no_traverse, SelectInSeq
<1>4. CASE hits = {}
  BY <1>2, <1>3, <1>4 DEF NULL
<1>5. CASE hits # {}
  <2>1. hits \subseteq Nat
    BY <1>2
  <2>2. pos \in hits /\ \A k \in hits : pos <= k
    BY <1>3, <1>5, <2>1, MinIsLeast
  <2> QED
    BY <1>2, <2>2 DEF NULL
<1> QED
  BY <1>4, <1>5

-----------------------------------------------------------------------------
(* The literal pool                                                        *)

(* LiteralPos answers NULL exactly when the pool lacks the text.           *)
LEMMA FirstLiteral ==
  ASSUME NEW Text, NEW pool \in Seq(LiteralInfo(Text)), NEW text,
         NEW pos, pos = LiteralPos(pool, text)
  PROVE  /\ pos = NULL => \A k \in DOMAIN pool : pool[k].literal # text
         /\ pos # NULL => pos \in DOMAIN pool /\ pool[pos].literal = text
<1> DEFINE hits == {k \in 1 .. Len(pool) : pool[k].literal = text}
<1>1. DOMAIN pool = 1 .. Len(pool) /\ Len(pool) \in Nat
  BY LenProperties
<1>2. pos = IF hits # {} THEN Min(hits) ELSE 0
  BY DEF LiteralPos, SelectInSeq
<1>3. hits # {} => Min(hits) \in hits
  BY <1>1, MinIsLeast
<1> QED
  BY <1>1, <1>2, <1>3 DEF NULL

(* sym_add_literal answers with a pool that has the text, keeps the old    *)
(* literals where they were, and stays numbered, each text once.           *)
THEOREM AddLiteral ==
  ASSUME NEW Text, NEW pool \in Seq(LiteralInfo(Text)), NEW text \in Text,
         NEW new, new = sym_add_literal(pool, text)
  PROVE  /\ new \in Seq(LiteralInfo(Text))
         /\ \A k \in DOMAIN pool : k \in DOMAIN new /\ new[k] = pool[k]
         /\ \E k \in DOMAIN new : new[k].literal = text
         /\ NumberedOnce(pool) => NumberedOnce(new)
<1>1. DOMAIN pool = 1 .. Len(pool) /\ Len(pool) \in Nat
  BY LenProperties
<1>2. CASE LiteralPos(pool, text) # NULL
  <2>1. new = pool
    BY <1>2 DEF sym_add_literal
  <2> QED
    BY <1>2, <2>1, FirstLiteral
<1>3. CASE LiteralPos(pool, text) = NULL
  <2> DEFINE info == [name |-> Len(pool) + 1, literal |-> text]
  <2>1. new = Append(pool, info)
    BY <1>3 DEF sym_add_literal
  <2>2. info \in LiteralInfo(Text)
    BY <1>1 DEF LiteralInfo
  <2>3. \A k \in DOMAIN pool : pool[k].literal # text
    BY <1>3, FirstLiteral
  <2>4. info.name = Len(pool) + 1 /\ info.literal = text
    OBVIOUS
  <2> HIDE DEF info
  <2>5. /\ new \in Seq(LiteralInfo(Text)) /\ Len(new) = Len(pool) + 1
        /\ \A k \in 1 .. Len(pool) : new[k] = pool[k]
        /\ new[Len(pool) + 1] = info
    BY <2>1, <2>2, AppendProperties
  <2>6. DOMAIN new = 1 .. Len(pool) + 1
    BY <2>5, LenProperties
  <2>7. ASSUME NumberedOnce(pool)
        PROVE  NumberedOnce(new)
    <3> SUFFICES ASSUME NEW k \in DOMAIN new, NEW j \in DOMAIN new
                 PROVE  /\ new[k].name = k
                        /\ new[j].literal = new[k].literal => j = k
      BY DEF NumberedOnce
    <3>1. new[k].name = k
      BY <1>1, <2>4, <2>5, <2>6, <2>7 DEF NumberedOnce
    <3>2. CASE j \in DOMAIN pool /\ k \in DOMAIN pool
      BY <1>1, <2>5, <2>7, <3>1, <3>2 DEF NumberedOnce
    <3>3. CASE j \in DOMAIN pool /\ k \notin DOMAIN pool
      BY <1>1, <2>3, <2>4, <2>5, <2>6, <3>1, <3>3
    <3>4. CASE j \notin DOMAIN pool
      BY <1>1, <2>3, <2>4, <2>5, <2>6, <3>1, <3>4
    <3> QED
      BY <3>2, <3>3, <3>4
  <2> QED
    BY <1>1, <2>4, <2>5, <2>6, <2>7
<1> QED
  BY <1>2, <1>3

-----------------------------------------------------------------------------
(* Growing the scope tree                                                  *)

(* A symbol appended to a list appends its name to the list's names.       *)
LEMMA NamesAppended ==
  ASSUME NEW Name, NEW list \in Seq(SymbolInfo(Name)), NEW info, info \in SymbolInfo(Name)
  PROVE  LET more == Append(list, info)
         IN  [k \in DOMAIN more |-> more[k].name] =
               Append([k \in DOMAIN list |-> list[k].name], info.name)
  OBVIOUS

(* sym_add_symbol puts the symbol at the end of its scope's list and       *)
(* leaves the rest of the table alone.                                     *)
LEMMA AddSymbol ==
  ASSUME NEW Name, NEW scopes \in Seq(ScopeInfo(Name)),
         NEW s \in DOMAIN scopes, NEW info, info \in SymbolInfo(Name),
         NEW new, new = sym_add_symbol(scopes, s, info)
  PROVE  /\ new \in Seq(ScopeInfo(Name))
         /\ Len(new) = Len(scopes)
         /\ \A t \in DOMAIN scopes : t # s => new[t] = scopes[t]
         /\ new[s].parent = scopes[s].parent
         /\ new[s].symbols = Append(scopes[s].symbols, info)
         /\ new[s].children = scopes[s].children
<1>1. /\ DOMAIN scopes = 1 .. Len(scopes) /\ Len(scopes) \in Nat
      /\ scopes[s] \in ScopeInfo(Name)
  BY LenProperties, ElementOfSeq
<1> DEFINE grown == [scopes[s] EXCEPT !.symbols = Append(@, info)]
<1>2. /\ grown \in ScopeInfo(Name)
      /\ grown.parent = scopes[s].parent
      /\ grown.symbols = Append(scopes[s].symbols, info)
      /\ grown.children = scopes[s].children
  BY <1>1, AppendProperties DEF ScopeInfo
<1>3. new = [scopes EXCEPT ![s] = grown]
  BY DEF sym_add_symbol, append_symbol
<1> HIDE DEF grown
<1> QED
  BY <1>1, <1>2, <1>3, ExceptSeq

(* sym_mkscope allocates a scope and touches none that was there.          *)
LEMMA MakeScope ==
  ASSUME NEW Name, NEW scopes \in Seq(ScopeInfo(Name)),
         NEW parent, parent \in Nat,
         NEW new, new = sym_mkscope(scopes, parent)
  PROVE  /\ new \in Seq(ScopeInfo(Name))
         /\ Len(new) = Len(scopes) + 1
         /\ \A t \in DOMAIN scopes : new[t] = scopes[t]
         /\ new[Len(scopes) + 1].parent = parent
         /\ new[Len(scopes) + 1].symbols = << >>
         /\ new[Len(scopes) + 1].children = << >>
<1> DEFINE fresh == [parent |-> parent, symbols |-> << >>, children |-> << >>]
<1>1. fresh \in ScopeInfo(Name)
  BY EmptySeq DEF ScopeInfo
<1>2. DOMAIN scopes = 1 .. Len(scopes)
  BY LenProperties
<1>3. new = Append(scopes, fresh)
  BY DEF sym_mkscope
<1>4. fresh.parent = parent /\ fresh.symbols = << >> /\ fresh.children = << >>
  OBVIOUS
<1> HIDE DEF fresh
<1> QED
  BY <1>1, <1>2, <1>3, <1>4, AppendProperties

(* sym_add_child_scope changes one list of children and nothing else.      *)
LEMMA AddChildScope ==
  ASSUME NEW Name, NEW scopes \in Seq(ScopeInfo(Name)),
         NEW s \in DOMAIN scopes, NEW child \in ScopePtr,
         NEW new, new = sym_add_child_scope(scopes, s, child)
  PROVE  /\ new \in Seq(ScopeInfo(Name))
         /\ Len(new) = Len(scopes)
         /\ \A t \in DOMAIN scopes : /\ t # s => new[t] = scopes[t]
                                     /\ new[t].parent = scopes[t].parent
                                     /\ new[t].symbols = scopes[t].symbols
         /\ new[s].children = Append(scopes[s].children, child)
<1>1. /\ DOMAIN scopes = 1 .. Len(scopes) /\ Len(scopes) \in Nat
      /\ scopes[s] \in ScopeInfo(Name)
  BY LenProperties, ElementOfSeq
<1> DEFINE linked == [scopes[s] EXCEPT !.children = Append(@, child)]
<1>2. /\ linked \in ScopeInfo(Name)
      /\ linked.parent = scopes[s].parent /\ linked.symbols = scopes[s].symbols
      /\ linked.children = Append(scopes[s].children, child)
  BY <1>1, AppendProperties DEF ScopeInfo
<1>3. new = [scopes EXCEPT ![s] = linked]
  BY DEF sym_add_child_scope
<1> HIDE DEF linked
<1>4. /\ new \in Seq(ScopeInfo(Name)) /\ Len(new) = Len(scopes)
      /\ \A t \in 1 .. Len(scopes) : new[t] = IF t = s THEN linked ELSE scopes[t]
  BY <1>1, <1>2, <1>3, ExceptSeq
<1> QED
  BY <1>1, <1>2, <1>4

(* The new scope hangs last in the list of the current one, and no other   *)
(* list of children changes.                                               *)
LinksChild(scopes, s, new) ==
  /\ new[s].children = Append(scopes[s].children, Len(scopes) + 1)
  /\ new[Len(scopes) + 1].children = << >>
  /\ \A t \in DOMAIN scopes : t # s => new[t].children = scopes[t].children

(* ctx_push_new_scope allocates one scope, under the current one, with no  *)
(* symbols in it; the scopes there were keep their symbols and parents.    *)
LEMMA PushNewScope ==
  ASSUME NEW Name, NEW scopes \in Seq(ScopeInfo(Name)),
         NEW s \in DOMAIN scopes,
         NEW new, new = ctx_push_new_scope(scopes, s)
  PROVE  /\ new \in Seq(ScopeInfo(Name))
         /\ Len(new) = Len(scopes) + 1
         /\ new[Len(scopes) + 1].parent = s
         /\ new[Len(scopes) + 1].symbols = << >>
         /\ \A t \in DOMAIN scopes : /\ new[t].parent = scopes[t].parent
                                     /\ new[t].symbols = scopes[t].symbols
         /\ LinksChild(scopes, s, new)
<1> DEFINE made == sym_mkscope(scopes, s)
<1>1. DOMAIN scopes = 1 .. Len(scopes) /\ Len(scopes) \in Nat /\ s \in Nat
  BY LenProperties
<1>2. /\ made \in Seq(ScopeInfo(Name)) /\ Len(made) = Len(scopes) + 1
      /\ \A t \in DOMAIN scopes : made[t] = scopes[t]
      /\ made[Len(scopes) + 1].parent = s
      /\ made[Len(scopes) + 1].symbols = << >>
      /\ made[Len(scopes) + 1].children = << >>
  <2>1. made = sym_mkscope(scopes, s)
    OBVIOUS
  <2> HIDE DEF made
  <2> QED
    BY <1>1, <2>1, MakeScope
<1>3. new = sym_add_child_scope(made, s, Len(scopes) + 1)
  BY DEF ctx_push_new_scope
<1>4. Len(scopes) + 1 \in ScopePtr
  BY <1>1 DEF ScopePtr, NULL
<1> HIDE DEF made
<1>5. DOMAIN made = 1 .. Len(scopes) + 1
  BY <1>2, LenProperties
<1>6. /\ new \in Seq(ScopeInfo(Name)) /\ Len(new) = Len(made)
      /\ \A t \in DOMAIN made : /\ t # s => new[t] = made[t]
                                /\ new[t].parent = made[t].parent
                                /\ new[t].symbols = made[t].symbols
      /\ new[s].children = Append(made[s].children, Len(scopes) + 1)
  <2> DEFINE child == Len(scopes) + 1
  <2>1. /\ made \in Seq(ScopeInfo(Name)) /\ s \in DOMAIN made /\ child \in ScopePtr
        /\ new = sym_add_child_scope(made, s, child)
    BY <1>1, <1>2, <1>3, <1>4, <1>5
  <2> HIDE DEF child
  <2>2. /\ new \in Seq(ScopeInfo(Name)) /\ Len(new) = Len(made)
        /\ new[s].children = Append(made[s].children, child)
        /\ \A t \in DOMAIN made : /\ t # s => new[t] = made[t]
                                  /\ new[t].parent = made[t].parent
                                  /\ new[t].symbols = made[t].symbols
    BY <2>1, AddChildScope
  <2> QED
    BY <2>2 DEF child
<1>7. LinksChild(scopes, s, new)
  BY <1>1, <1>2, <1>5, <1>6 DEF LinksChild
<1> QED
  BY <1>1, <1>2, <1>5, <1>6, <1>7

(* Beginning a function declares it in the current scope and opens a scope *)
(* for its parameters; every other scope keeps its symbols and parent.     *)
LEMMA PushFunction ==
  ASSUME NEW Name, NEW scopes \in Seq(ScopeInfo(Name)),
         NEW s \in DOMAIN scopes, NEW n \in Name,
         NEW new, new = ctx_push_function(scopes, s, n)
  PROVE  /\ new \in Seq(ScopeInfo(Name))
         /\ Len(new) = Len(scopes) + 1
         /\ new[Len(scopes) + 1].parent = s
         /\ new[Len(scopes) + 1].symbols = << >>
         /\ \A t \in DOMAIN scopes :
              /\ new[t].parent = scopes[t].parent
              /\ t # s => new[t].symbols = scopes[t].symbols
         /\ new[s].symbols =
              Append(scopes[s].symbols, sym_mkfunction(n, s, Len(scopes) + 1))
         /\ LinksChild(scopes, s, new)
<1> DEFINE made  == sym_mkscope(scopes, s)
           info  == sym_mkfunction(n, s, Len(scopes) + 1)
           added == sym_add_symbol(made, s, info)
<1>1. DOMAIN scopes = 1 .. Len(scopes) /\ Len(scopes) \in Nat /\ s \in ScopePtr
  BY LenProperties DEF ScopePtr, NULL
<1>2. /\ made \in Seq(ScopeInfo(Name)) /\ Len(made) = Len(scopes) + 1
      /\ \A t \in DOMAIN scopes : made[t] = scopes[t]
      /\ made[Len(scopes) + 1].parent = s
      /\ made[Len(scopes) + 1].symbols = << >>
      /\ made[Len(scopes) + 1].children = << >>
  <2>1. made = sym_mkscope(scopes, s) /\ s \in Nat
    BY <1>1 DEF ScopePtr
  <2> HIDE DEF made
  <2> QED
    BY <1>1, <2>1, MakeScope
<1>3. info \in SymbolInfo(Name)
  BY <1>1 DEF sym_mkfunction, SymbolInfo
<1>4. Len(scopes) + 1 \in ScopePtr
  BY <1>1 DEF ScopePtr, NULL
<1>5. new = sym_add_child_scope(added, s, Len(scopes) + 1)
  BY DEF ctx_push_function
<1> HIDE DEF made, info
<1>6. DOMAIN made = 1 .. Len(scopes) + 1
  BY <1>2, LenProperties
<1>7. /\ added \in Seq(ScopeInfo(Name)) /\ Len(added) = Len(made)
      /\ \A t \in DOMAIN made : t # s => added[t] = made[t]
      /\ added[s].parent = scopes[s].parent
      /\ added[s].symbols = Append(scopes[s].symbols, info)
      /\ added[s].children = scopes[s].children
  <2>1. /\ added = sym_add_symbol(made, s, info)
        /\ made \in Seq(ScopeInfo(Name)) /\ s \in DOMAIN made
    BY <1>1, <1>2, <1>6
  <2> HIDE DEF added
  <2>2. /\ added \in Seq(ScopeInfo(Name)) /\ Len(added) = Len(made)
        /\ \A t \in DOMAIN made : t # s => added[t] = made[t]
        /\ added[s].parent = made[s].parent
        /\ added[s].symbols = Append(made[s].symbols, info)
        /\ added[s].children = made[s].children
    BY <1>3, <2>1, AddSymbol
  <2>3. made[s] = scopes[s]
    BY <1>2
  <2> QED
    BY <2>2, <2>3
<1> HIDE DEF added
<1>8. DOMAIN added = 1 .. Len(scopes) + 1
  BY <1>2, <1>7, LenProperties
<1>9. /\ new \in Seq(ScopeInfo(Name)) /\ Len(new) = Len(added)
      /\ \A t \in DOMAIN added : /\ t # s => new[t] = added[t]
                                 /\ new[t].parent = added[t].parent
                                 /\ new[t].symbols = added[t].symbols
      /\ new[s].children = Append(added[s].children, Len(scopes) + 1)
  <2> DEFINE child == Len(scopes) + 1
  <2>1. /\ added \in Seq(ScopeInfo(Name)) /\ s \in DOMAIN added /\ child \in ScopePtr
        /\ new = sym_add_child_scope(added, s, child)
    BY <1>1, <1>4, <1>5, <1>7, <1>8
  <2> HIDE DEF child
  <2>2. /\ new \in Seq(ScopeInfo(Name)) /\ Len(new) = Len(added)
        /\ new[s].children = Append(added[s].children, child)
        /\ \A t \in DOMAIN added : /\ t # s => new[t] = added[t]
                                   /\ new[t].parent = added[t].parent
                                   /\ new[t].symbols = added[t].symbols
    BY <2>1, AddChildScope
  <2> QED
    BY <2>2 DEF child
<1>10. new[s].symbols = Append(scopes[s].symbols, info)
  BY <1>1, <1>7, <1>8, <1>9
<1>11. ASSUME NEW t \in DOMAIN scopes
       PROVE  /\ new[t].parent = scopes[t].parent
              /\ t # s => new[t].symbols = scopes[t].symbols
  <2>1. t \in DOMAIN made /\ t \in DOMAIN added
    BY <1>1, <1>6, <1>8
  <2>2. CASE t = s
    BY <1>2, <1>7, <1>9, <2>1, <2>2
  <2>3. CASE t # s
    BY <1>2, <1>7, <1>9, <2>1, <2>3
  <2> QED
    BY <2>2, <2>3
<1>12. /\ new[Len(scopes) + 1].parent = s
       /\ new[Len(scopes) + 1].symbols = << >>
  BY <1>1, <1>2, <1>6, <1>7, <1>8, <1>9, SMTT(60)
<1>13. LinksChild(scopes, s, new)
  BY <1>1, <1>2, <1>6, <1>7, <1>8, <1>9 DEF LinksChild
<1> QED
  BY <1>2, <1>7, <1>9, <1>10, <1>11, <1>12, <1>13 DEF info
=============================================================================
