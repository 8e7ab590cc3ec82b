---------------------------- MODULE IrGenerator -----------------------------
(***************************************************************************)
(* build_ir (ir_generator.c): one walk over the syntax tree that fills the *)
(* scope tree and the literal pool and emits the IR list.  The tree is the *)
(* input, read node by node: every action that consumes a node takes any   *)
(* node the parser can have put there.  What the generator does not look   *)
(* at (declarations, sub-statements, operands) is not in the nodes.        *)
(***************************************************************************)
EXTENDS SymbolTable

CONSTANTS
  Name,        \* the identifiers
  NoName,      \* no identifier: before the first look-up
  Text,        \* the texts of string literals
  MaxNodes,    \* bound: top-level nodes of the program
  MaxParams,   \* bound: parameters of one function
  MaxStms      \* bound: statements of one function

ASSUME NoNameAssumption == NoName \notin Name
ASSUME BoundsAssumption == MaxNodes \in Nat /\ MaxParams \in Nat /\ MaxStms \in Nat

VARIABLES
  pc,          \* where build_ir is
  nodes,       \* top-level nodes consumed: the cursor `ast'
  stms,        \* statements of the current body consumed: the cursor `stms'
  scopes,      \* every scope_info allocated; the first is table.top_level
  scope,       \* ctx->scope
  fun,         \* fun->params of the function last begun, or NULL
  literals,    \* table.literals
  codes,       \* code->codes
  key, at,     \* sym_find's arguments while it searches
  result,      \* the address process_expr last returned
  globals      \* history: the variables that top-level declarations declared

vars == <<pc, nodes, stms, scopes, scope, fun, literals, codes, key, at,
          result, globals>>

Empty        == [type |-> "ADDR_EMPTY",      scope |-> NULL, pos |-> NULL]
Symbol(s, k) == [type |-> "ADDR_SYMBOL",     scope |-> s,    pos |-> k]
Literal(k)   == [type |-> "ADDR_SYMBOL",     scope |-> NULL, pos |-> k]
Immediate(t) == [type |-> t,                 scope |-> NULL, pos |-> NULL]

ir_mklabel(name) == [type |-> "IR_LABEL", name |-> name]
ir_mkdata_string(name, text) == [type |-> "IR_DATA", name |-> name, text |-> text]

Init ==
  /\ pc = "toplevel" /\ nodes = 0 /\ stms = 0
  /\ scopes = EmptyTable /\ scope = Top /\ fun = NULL
  /\ literals = << >> /\ codes = << >>
  /\ key = NoName /\ at = NULL /\ result = Empty
  /\ globals = {}

-----------------------------------------------------------------------------
(* Top-level nodes                                                         *)

(* process_decl does nothing: only the history sees what it declares.      *)
ProcessDecl(names) ==
  /\ pc = "toplevel" /\ nodes < MaxNodes
  /\ nodes' = nodes + 1
  /\ globals' = globals \cup names
  /\ UNCHANGED <<pc, stms, scopes, scope, fun, literals, codes, key, at, result>>

(* Up to the loop over the parameters.                                     *)
ProcessFun(n) ==
  /\ pc = "toplevel" /\ nodes < MaxNodes
  /\ pc' = "params"
  /\ nodes' = nodes + 1
  /\ codes' = Append(codes, ir_mklabel(n))
  /\ scopes' = ctx_push_function(scopes, scope, n)
  /\ scope' = Len(scopes')
  /\ fun' = Len(scopes')
  /\ UNCHANGED <<stms, literals, key, at, result, globals>>

(* A node the parser left without its function (`function : error') or     *)
(* without its declarator (an invalid argument list): a NULL is followed.  *)
ProcessErrorNode ==
  /\ pc = "toplevel" /\ nodes < MaxNodes
  /\ pc' = "crashed"
  /\ UNCHANGED <<nodes, stms, scopes, scope, fun, literals, codes, key, at,
                 result, globals>>

AddParam(n) ==
  /\ pc = "params" /\ Len(scopes[fun].symbols) < MaxParams
  /\ scopes' = sym_add_symbol(scopes, scope, sym_mkvar(n, fun))
  /\ UNCHANGED <<pc, nodes, stms, scope, fun, literals, codes, key, at, result,
                 globals>>

PushBody ==
  /\ pc = "params"
  /\ pc' = "body"
  /\ stms' = 0
  /\ scopes' = ctx_push_new_scope(scopes, scope)
  /\ scope' = Len(scopes')
  /\ UNCHANGED <<nodes, fun, literals, codes, key, at, result, globals>>

(* Mutant: the scope of the parameters is not popped.                      *)
EndBodyPopsOnce ==
  /\ pc = "body"
  /\ pc' = "toplevel"
  /\ scope' = scopes[scope].parent
  /\ UNCHANGED <<nodes, stms, scopes, fun, literals, codes, key, at, result,
                 globals>>

EndBody ==
  /\ pc = "body"
  /\ pc' = "toplevel"
  /\ scope' = scopes[scopes[scope].parent].parent
  /\ UNCHANGED <<nodes, stms, scopes, fun, literals, codes, key, at, result,
                 globals>>

-----------------------------------------------------------------------------
(* Statements and expressions                                              *)

NextStatement ==
  /\ pc = "body" /\ stms < MaxStms
  /\ stms' = stms + 1

(* Assignments, compounds, loops, conditionals and returns are passed over;*)
(* so is an operator's expression, for which process_expr falls off its    *)
(* switch: the value it leaves is not used.                                *)
StatementIgnored ==
  /\ NextStatement
  /\ UNCHANGED <<pc, nodes, scopes, scope, fun, literals, codes, key, at,
                 result, globals>>

(* The empty statement is NULL in the list, and the expression of a call   *)
(* with erroneous arguments is NULL: the tag is read through the NULL.     *)
StatementNull ==
  /\ NextStatement
  /\ pc' = "crashed"
  /\ UNCHANGED <<nodes, scopes, scope, fun, literals, codes, key, at, result,
                 globals>>

(* Numbers, characters, and calls, whose address is the number 3.          *)
ProcessExprImmediate(t) ==
  /\ NextStatement
  /\ result' = Immediate(t)
  /\ UNCHANGED <<pc, nodes, scopes, scope, fun, literals, codes, key, at,
                 globals>>

ProcessExprString(t) ==
  /\ NextStatement
  /\ literals' = sym_add_literal(literals, t)
  /\ result' = Literal(LiteralPos(literals', t))
  /\ UNCHANGED <<pc, nodes, scopes, scope, fun, codes, key, at, globals>>

(* Mutant: the search starts at the top level.                             *)
ProcessExprIdGlobal(n) ==
  /\ NextStatement
  /\ pc' = "lookup"
  /\ key' = n
  /\ at' = Top
  /\ UNCHANGED <<nodes, scopes, scope, fun, literals, codes, result, globals>>

ProcessExprId(n) ==
  /\ NextStatement
  /\ pc' = "lookup"
  /\ key' = n
  /\ at' = scope
  /\ UNCHANGED <<nodes, scopes, scope, fun, literals, codes, result, globals>>

(* Mutants: a scope without the name is searched again; the first scope to *)
(* be searched is skipped.                                                 *)
SymFindStuck ==
  /\ pc = "lookup"
  /\ LET pos == sym_find_no_traverse(scopes, key, at)
     IN  \/ /\ pos # NULL
            /\ pc' = "body" /\ result' = Symbol(at, pos)
         \/ /\ pos = NULL /\ scopes[at].parent # NULL
            /\ UNCHANGED <<pc, result>>
  /\ UNCHANGED <<nodes, stms, scopes, scope, fun, literals, codes, key, at, globals>>
SymFindFromTop ==
  /\ pc = "lookup"
  /\ LET pos == sym_find_no_traverse(scopes, key, Top)
     IN  result' = IF pos # NULL THEN Symbol(Top, pos) ELSE Empty
  /\ pc' = "body"
  /\ UNCHANGED <<nodes, stms, scopes, scope, fun, literals, codes, key, at, globals>>

(* One call of sym_find in its recursion: the scope has the name, or its   *)
(* parent is searched, or there is no parent and the identifier is unknown.*)
SymFind ==
  /\ pc = "lookup"
  /\ LET pos == sym_find_no_traverse(scopes, key, at)
     IN  \/ /\ pos # NULL
            /\ pc' = "body" /\ result' = Symbol(at, pos) /\ UNCHANGED at
         \/ /\ pos = NULL /\ scopes[at].parent # NULL
            /\ at' = scopes[at].parent /\ UNCHANGED <<pc, result>>
         \/ /\ pos = NULL /\ scopes[at].parent = NULL
            /\ pc' = "body" /\ result' = Empty /\ UNCHANGED at
  /\ UNCHANGED <<nodes, stms, scopes, scope, fun, literals, codes, key, globals>>

-----------------------------------------------------------------------------
(* The end of the program                                                  *)

(* Mutant: the last string is not linked to the code that was there.       *)
prepend_strings_unlinked(list, pool) ==
  IF pool = << >>
    THEN list
    ELSE [k \in DOMAIN pool |-> ir_mkdata_string(pool[k].name, pool[k].literal)]

prepend_strings(list, pool) ==
  [k \in DOMAIN pool |-> ir_mkdata_string(pool[k].name, pool[k].literal)] \o list

Finish ==
  /\ pc = "toplevel"
  /\ pc' = "done"
  /\ codes' = prepend_strings(codes, literals)
  /\ UNCHANGED <<nodes, stms, scopes, scope, fun, literals, key, at, result,
                 globals>>

Terminated ==
  /\ pc \in {"done", "crashed"}
  /\ UNCHANGED vars

ImmediateType == {"ADDR_IMM_INT", "ADDR_IMM_CHAR"}

Step ==
  \/ \E names \in SUBSET Name : ProcessDecl(names)
  \/ \E n \in Name : ProcessFun(n) \/ AddParam(n)
  \/ ProcessErrorNode \/ PushBody \/ EndBody
  \/ StatementIgnored \/ StatementNull
  \/ \E t \in ImmediateType : ProcessExprImmediate(t)
  \/ \E t \in Text : ProcessExprString(t)
  \/ \E n \in Name : ProcessExprId(n)
  \/ SymFind
  \/ Finish

Next == Step \/ Terminated

Spec == Init /\ [][Next]_vars

-----------------------------------------------------------------------------
Address ==
  [type : {"ADDR_EMPTY", "ADDR_SYMBOL"} \cup ImmediateType,
   scope : Nat, pos : Nat]

Item ==
  [type : {"IR_LABEL"}, name : Name]
    \cup [type : {"IR_DATA"}, name : Nat, text : Text]

(* Every field has its type, and ctx->scope and the scope being searched   *)
(* are scopes that were allocated: neither pops nor look-ups reach NULL.   *)
TypeOK ==
  /\ pc \in {"toplevel", "params", "body", "lookup", "done", "crashed"}
  /\ nodes \in Nat /\ stms \in Nat
  /\ scopes \in Seq(ScopeInfo(Name))
  /\ scope \in DOMAIN scopes
  /\ fun \in DOMAIN scopes \cup {NULL}
  /\ literals \in Seq(LiteralInfo(Text))
  /\ codes \in Seq(Item)
  /\ key \in Name \cup {NoName}
  /\ at \in DOMAIN scopes \cup {NULL}
  /\ result \in Address
  /\ globals \subseteq Name

Functions == DOMAIN scopes[Top].symbols

(* Pushes and pops balance: between two top-level nodes the current scope  *)
(* is the top level, in a body it is the newest scope, inside the scope of *)
(* the parameters of the newest function.  No other scopes exist: the i-th *)
(* function owns the scopes 2i and 2i + 1, so no two functions share one.  *)
ScopeDiscipline ==
  /\ scopes[Top].parent = NULL
  /\ Len(scopes) = 2 * Len(scopes[Top].symbols) + (IF pc = "params" THEN 0 ELSE 1)
  /\ \A i \in Functions :
       /\ scopes[Top].symbols[i].params = 2 * i
       /\ scopes[2 * i].parent = Top
       /\ 2 * i + 1 \in DOMAIN scopes => scopes[2 * i + 1].parent = 2 * i
  /\ fun = 2 * Len(scopes[Top].symbols)
  /\ pc \in {"params", "body", "lookup"} => fun # NULL
  /\ pc \in {"toplevel", "done"} => scope = Top
  /\ pc = "params" => scope = fun
  /\ pc \in {"body", "lookup"} => scope = fun + 1

(* The pool has every text once, and the k-th literal is named __STR_k: a  *)
(* label of the data section never stands for two texts.                   *)
LiteralsNumberedOnce == NumberedOnce(literals)

FunctionLabels ==
  [i \in Functions |-> ir_mklabel(scopes[Top].symbols[i].name)]

StringData ==
  [k \in DOMAIN literals |-> ir_mkdata_string(literals[k].name, literals[k].literal)]

(* The output has the label of every function defined, in source order,    *)
(* whatever the bodies did, and in the end also the data of every literal  *)
(* of the pool, all of it before the first label: main switches from .data *)
(* to .text once.                                                          *)
OutputComplete ==
  codes = IF pc = "done" THEN StringData \o FunctionLabels ELSE FunctionLabels

(* While a name is searched for, the scopes already passed do not have it, *)
(* and the search stays on the way from the body to the top level.         *)
SearchPassesOnlyMisses ==
  pc = "lookup" =>
    /\ at \in {scope, fun, Top}
    /\ at # scope => sym_find_no_traverse(scopes, key, scope) = NULL
    /\ at = Top   => sym_find_no_traverse(scopes, key, fun) = NULL

(* "Processes top level entity - function/global variable declaration, or  *)
(* function definition" (the comment over process_toplevel): an identifier *)
(* that an earlier declaration declared would not be unknown.              *)
DeclaredGlobalsResolve ==
  [][pc = "lookup" /\ pc' = "body" /\ result' = Empty => key \notin globals]_vars

-----------------------------------------------------------------------------
(* IrGenerator implements LexicalScope.                                    *)

Names(s) == [k \in DOMAIN scopes[s].symbols |-> scopes[s].symbols[k].name]

(* What an address returned by process_expr means, with no pointer in it.  *)
Denotes(a) ==
  CASE a.type = "ADDR_EMPTY"     -> [kind |-> "UNKNOWN"]
    [] a.type \in ImmediateType  -> [kind |-> "NUMBER"]
    [] a.type = "ADDR_SYMBOL"    ->
         IF a.scope = NULL
           THEN [kind |-> "STRING", text |-> literals[a.pos].literal]
           ELSE IF a.scope = Top
                  THEN [kind |-> "FUNCTION", fun |-> a.pos]
                  ELSE [kind |-> "PARAM", fun |-> a.scope \div 2, param |-> a.pos]

Phase ==
  CASE pc = "toplevel" -> "outside"
    [] pc = "params"   -> "header"
    [] pc = "body"     -> "body"
    [] pc = "lookup"   -> "asked"
    [] OTHER           -> "stopped"

Meanings == INSTANCE LexicalScope WITH
  funs    <- Names(Top),
  params  <- IF fun = NULL THEN << >> ELSE Names(fun),
  phase   <- Phase,
  meaning <- Denotes(result)

(* Whatever scopes, symbols and literals the generator has built up by the *)
(* time, an identifier is resolved to the first parameter of the current   *)
(* function with its name, else to the first function with its name, and a *)
(* string to the literal with its text.                                    *)
ImplementsLexicalScope == Meanings!Spec
=============================================================================
