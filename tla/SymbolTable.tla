---------------------------- MODULE SymbolTable ----------------------------
(***************************************************************************)
(* The operations of symbol_table.c, as operators on the values they       *)
(* change.  A scope_info pointer is a position in the sequence `scopes'    *)
(* of all the scopes allocated so far (malloc appends one) and NULL is 0.  *)
(* The linked lists `symbols' and `children' are sequences: the code only  *)
(* ever appends to them.  A symbol_info pointer is the place of the symbol *)
(* in its scope's list, since a symbol is put in one list and never moves. *)
(***************************************************************************)
EXTENDS Naturals, Sequences, SequencesExt

NULL == 0

(* What the find operations return when there is no such symbol.           *)
NotFound == [scope |-> NULL, pos |-> NULL]

(* The types of symbol_info and scope_info, for a set of identifiers.      *)
ScopePtr == Nat \ {NULL}

SymbolInfo(Name) ==
  [symbol_type : {"SYM_FUN", "SYM_VAR"}, name : Name, scope : ScopePtr,
   params : Nat]

ScopeInfo(Name) ==
  [parent : Nat, symbols : Seq(SymbolInfo(Name)), children : Seq(ScopePtr)]

LiteralInfo(Text) == [name : Nat, literal : Text]

-----------------------------------------------------------------------------
(* Scopes                                                                  *)

sym_mkscope(scopes, parent) ==
  Append(scopes, [parent |-> parent, symbols |-> << >>, children |-> << >>])

sym_mkvar(name, scope) ==
  [symbol_type |-> "SYM_VAR", name |-> name, scope |-> scope, params |-> NULL]

(* The scope of the formal parameters is allocated by the caller of this   *)
(* operator, in the same step: `params' is its place.                      *)
sym_mkfunction(name, scope, params) ==
  [symbol_type |-> "SYM_FUN", name |-> name, scope |-> scope,
   params |-> params]

(* Mutant: a list that grows at its head.                                  *)
append_symbol_at_head(list, node) == <<node>> \o list

append_symbol(list, node) == Append(list, node)

sym_add_symbol(scopes, scope, symbol) ==
  [scopes EXCEPT ![scope].symbols = append_symbol(@, symbol)]

sym_add_child_scope(scopes, parent, child) ==
  [scopes EXCEPT ![parent].children = Append(@, child)]

-----------------------------------------------------------------------------
(* Look-up                                                                 *)

(* The position of the first symbol of the scope with that name, or NULL.  *)
sym_find_no_traverse(scopes, name, scope) ==
  SelectInSeq(scopes[scope].symbols, LAMBDA info : info.name = name)

(* Mutant: the search stops one scope too early, at the top level.         *)
sym_find_below_top(scopes, name, scope) ==
  LET find[s \in DOMAIN scopes] ==
        LET pos == sym_find_no_traverse(scopes, name, s)
        IN  IF pos = NULL /\ scopes[s].parent > 1
              THEN find[scopes[s].parent]
              ELSE IF pos = NULL THEN NotFound ELSE [scope |-> s, pos |-> pos]
  IN  find[scope]

sym_find(scopes, name, scope) ==
  LET find[s \in DOMAIN scopes] ==
        LET pos == sym_find_no_traverse(scopes, name, s)
        IN  IF pos # NULL
              THEN [scope |-> s, pos |-> pos]
              ELSE IF scopes[s].parent # NULL
                     THEN find[scopes[s].parent]
                     ELSE NotFound
  IN  find[scope]

-----------------------------------------------------------------------------
(* The pool of string literals                                             *)

LiteralPos(literals, literal) ==
  SelectInSeq(literals, LAMBDA info : info.literal = literal)

(* Mutant: the search stops before the last literal of the list.           *)
add_literal_misses_last(literals, literal) ==
  IF LiteralPos(literals, literal) \in 1 .. Len(literals) - 1
    THEN literals
    ELSE Append(literals, [name |-> Len(literals) + 1, literal |-> literal])

(* The number n of a new literal's name __STR_n counts the list's nodes,   *)
(* itself included.  The literal returned is at LiteralPos of the result.  *)
sym_add_literal(literals, literal) ==
  IF LiteralPos(literals, literal) # NULL
    THEN literals
    ELSE Append(literals, [name |-> Len(literals) + 1, literal |-> literal])

(* What makes a pool usable: no text twice, and the k-th one is __STR_k.   *)
NumberedOnce(literals) ==
  \A k \in DOMAIN literals :
    /\ literals[k].name = k
    /\ \A j \in DOMAIN literals :
         literals[j].literal = literals[k].literal => j = k

-----------------------------------------------------------------------------
(* The context's use of the table (ir_generator.c)                         *)

(* clean_symbol_table, then the top-level scope build_ir allocates.        *)
Top == 1
EmptyTable == sym_mkscope(<< >>, NULL)

ctx_push_new_scope(scopes, scope) ==
  sym_add_child_scope(sym_mkscope(scopes, scope), scope, Len(scopes) + 1)

(* Mutants: sym_mkfunction links the parameters' scope to its parent, as   *)
(* its commented-out line would, and the caller links it again; the scope  *)
(* of the parameters starts a tree of its own; the function is added when  *)
(* that scope is already the current one.                                  *)
ctx_push_function_linked_twice(scopes, scope, name) ==
  LET params == Len(scopes) + 1
      made   == sym_mkscope(scopes, scope)
      linked == sym_add_child_scope(made, scope, params)
      added  == sym_add_symbol(linked, scope,
                               sym_mkfunction(name, scope, params))
  IN  sym_add_child_scope(added, scope, params)
ctx_push_function_no_parent(scopes, scope, name) ==
  LET params == Len(scopes) + 1
      made   == sym_mkscope(scopes, NULL)
      added  == sym_add_symbol(made, scope,
                               sym_mkfunction(name, scope, params))
  IN  sym_add_child_scope(added, scope, params)
ctx_push_function_inside(scopes, scope, name) ==
  LET params == Len(scopes) + 1
      made   == sym_mkscope(scopes, scope)
      added  == sym_add_symbol(made, params,
                               sym_mkfunction(name, params, params))
  IN  sym_add_child_scope(added, scope, params)

(* sym_mkfunction, which allocates the scope of the formal parameters,     *)
(* ctx_add_symbol, and ctx_push_scope of the parameters' scope.            *)
ctx_push_function(scopes, scope, name) ==
  LET params == Len(scopes) + 1
      made   == sym_mkscope(scopes, scope)
      added  == sym_add_symbol(made, scope,
                               sym_mkfunction(name, scope, params))
  IN  sym_add_child_scope(added, scope, params)
=============================================================================
