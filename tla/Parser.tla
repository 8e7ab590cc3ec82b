------------------------------- MODULE Parser -------------------------------
(***************************************************************************)
(* bison's parser on the rules of Grammar, and the tree that their actions *)
(* build and free (ast.c): shifts, reductions, error recovery and the      *)
(* destructors.  A pointer is a position in `heap'; names are strings on   *)
(* the heap, numbers and types are left out.                               *)
(***************************************************************************)
EXTENDS Grammar

CONSTANTS
  Prologues,  \* what the program may begin with: sequences of tokens
  MaxTokens   \* bound: the tokens that follow, of any kind

ASSUME PrologueAssumption == Prologues \subseteq Seq(Token)
ASSUME BoundAssumption == MaxTokens \in Nat

NULL == 0

VARIABLES
  ahead,         \* what is left of the prologue
  tokens,        \* how many tokens follow it so far
  la,            \* yychar: the lookahead token, or "none"
  yylval,        \* its string, if it has one
  stack,         \* states with values
  heap,          \* every node, list cell and name allocated
  freed,         \* those freed
  yyerrstatus,
  program_root,
  status,        \* "parsing", "accepted" or "aborted"
  reported,      \* history: an error has been reported
  emptied        \* history: an empty statement has been read

vars == <<ahead, tokens, la, yylval, stack, heap, freed, yyerrstatus, program_root,
          status, reported, emptied>>

Init ==
  /\ ahead \in Prologues /\ tokens = 0
  /\ la = "none" /\ yylval = NULL /\ stack = <<[state |-> Start, val |-> NULL]>>
  /\ heap = << >> /\ freed = {} /\ yyerrstatus = 0
  /\ program_root = NULL /\ status = "parsing" /\ reported = FALSE /\ emptied = FALSE

Top == Last(stack).state

-----------------------------------------------------------------------------
(* The tree.  A node has a type and its pointers, a list cell its element  *)
(* and the next cell.                                                      *)

Made(h, type, pointers) ==
  [heap |-> Append(h, [type |-> type, to |-> pointers]), val |-> Len(h) + 1]

(* The cell at the end of a list.                                          *)
ListType ==
  {"NODE_FUN", "NODE_DECL", "decl_list", "decltor_list", "stmt_list", "expr_list"}
Cells(h) == {p \in DOMAIN h : h[p].type \in ListType}
LastCell(h, list) ==
  LET end[cell \in Cells(h)] == IF h[cell].to[2] = NULL THEN cell ELSE end[h[cell].to[2]]
  IN  end[list]

(* Mutants: the new cell is returned; the new cell becomes the first.      *)
append_returning_cell(h, type, list, element) ==
  LET cell == Made(h, type, <<element, NULL>>)
  IN  IF list = NULL THEN cell
      ELSE [cell EXCEPT !.heap[LastCell(h, list)].to[2] = cell.val]
append_in_front(h, type, list, element) == Made(h, type, <<element, list>>)

(* A new cell behind the last.  ast.c has a copy of it for each type of    *)
(* list; the cells of functions and declarations are the program's.        *)
append(h, type, list, element) ==
  LET cell == Made(h, type, <<element, NULL>>)
  IN  IF list = NULL THEN cell
      ELSE [cell EXCEPT !.heap[LastCell(h, list)].to[2] = cell.val, !.val = list]

append_fun_node(h, list, function)     == append(h, "NODE_FUN", list, function)
append_decl_node(h, list, declaration) == append(h, "NODE_DECL", list, declaration)
append_decl(h, list, d)    == append(h, "decl_list", list, d)
append_decltor(h, list, d) == append(h, "decltor_list", list, d)
append_stmt(h, list, s)    == append(h, "stmt_list", list, s)

(* The copy for arguments returns the new cell: it is the list from now on.*)
append_expr(h, list, e) == [append(h, "expr_list", list, e) EXCEPT !.val = Len(h) + 1]

make_function(h, signature, decls, stmts) == Made(h, "fun_def", <<signature, decls, stmts>>)
make_decl(h, list) == Made(h, "decl", <<list>>)

(* Mutant: the declarator itself is put in place of its list.              *)
make_singular_decl_unlisted(h, declarator) == make_decl(h, declarator)

make_singular_decl(h, declarator) ==
  LET list == Made(h, "decltor_list", <<declarator, NULL>>) IN make_decl(list.heap, list.val)

make_decltor_id(h, name) == Made(h, "DECLTOR_SIMPLE", <<name>>)

(* The size, or 0 for a parameter, is an expression of its own.            *)
make_decltor_array(h, name) ==
  LET size == Made(h, "EXP_INT", << >>)
  IN  Made(size.heap, "DECLTOR_ARRAY", <<name, size.val>>)

make_decltor_fun(h, name, params) == Made(h, "DECLTOR_FUN", <<name, params>>)

(* What the action does with its arguments a.  The functions that make     *)
(* statements and expressions only fill a node.                            *)
Do(action, h, a) ==
  CASE action = "program_root" -> [heap |-> h, val |-> NULL]
    [] action = "value" -> [heap |-> h, val |-> a[1]]
    [] action = "append_fun_node" -> append_fun_node(h, a[1], a[2])
    [] action = "append_decl_node" -> append_decl_node(h, a[1], a[2])
    [] action = "append_decl" -> append_decl(h, a[1], a[2])
    [] action = "append_decltor" -> append_decltor(h, a[1], a[2])
    [] action = "append_stmt" -> append_stmt(h, a[1], a[2])
    [] action = "append_expr" -> append_expr(h, a[1], a[2])
    [] action = "fun_def" -> make_function(h, a[1], a[2], a[3])
    [] action = "decl" -> make_decl(h, a[1])
    [] action = "make_singular_decl" -> make_singular_decl(h, a[1])
    [] action = "DECLTOR_SIMPLE" -> make_decltor_id(h, a[1])
    [] action = "make_decltor_array" -> make_decltor_array(h, a[1])
    [] action = "DECLTOR_FUN" -> make_decltor_fun(h, a[1], a[2])
    [] action = "singular_id" ->
         LET id == make_decltor_id(h, a[1]) IN make_singular_decl(id.heap, id.val)
    [] action = "singular_array" ->
         LET array == make_decltor_array(h, a[1])
         IN  make_singular_decl(array.heap, array.val)
    [] OTHER -> Made(h, action, a)

(* The symbols by the types of their values: none that is allocated, a     *)
(* name's string, a list; and the actions by what they take.               *)
Valueless == (Token \ {"ID"}) \cup {"type", "error"}
ListSymbol ==
  {"program", "declarator_list", "function_declarators", "param_types", "var_declaration_list",
   "stmt_list", "expr_list", "nonempty_expr_list"}
ArgumentSymbol == {"expr_list", "nonempty_expr_list"}
Appending ==
  {"append_fun_node", "append_decl_node", "append_decl", "append_decltor", "append_stmt"}
Unary ==
  {"value", "decl", "make_singular_decl", "DECLTOR_SIMPLE", "make_decltor_array", "singular_id",
   "singular_array"}

(* An action takes all values that there are, and of the types it expects; *)
(* but for the names that the error rules pass over.                       *)
WellTyped ==
  \A rule \in Range(Rules) :
    LET args == rule.args
        null == rule.action = "value" /\ args = <<0>>
    IN  /\ args \in Seq(0 .. Len(rule.rhs))
        /\ \A n \in DOMAIN rule.rhs :
             \/ n \in Range(args) \/ rule.rhs[n] \in Valueless
             \/ rule.rhs[n] = "ID" /\ "error" \in Range(rule.rhs)
        /\ rule.lhs \notin {"ID", "error"} /\ (rule.lhs \in Valueless => null)
        /\ rule.lhs \in ListSymbol \ ArgumentSymbol =>
             null \/ rule.action \in Appending \cup (ListType \ {"expr_list"})
        /\ rule.lhs \in ArgumentSymbol =>
             \/ null \/ rule.action \in {"expr_list", "append_expr"}
             \/ rule.action = "value" /\ args = <<1>> /\ rule.rhs = <<"nonempty_expr_list">>
        /\ rule.lhs = "full_program" <=> rule.action = "program_root"
        /\ rule.action = "program_root" => args = <<1>> /\ rule.rhs = <<"program">>
        /\ rule.action \in Unary => Len(args) = 1
        /\ rule.action = "DECLTOR_FUN" => Len(args) = 2
        /\ rule.action = "fun_def" => Len(args) = 3
        /\ rule.action \in ListType => Len(args) = 2 /\ args[2] = 0
        /\ rule.action \in Appending =>
             /\ Len(args) = 2 /\ args[1] = 1 /\ args[2] > 1
             /\ rule.rhs[1] \in ListSymbol \ ArgumentSymbol
        /\ rule.action = "append_expr" =>
             Len(args) = 2 /\ args[1] = 1 /\ args[2] > 1 /\ rule.rhs[1] \in ArgumentSymbol

ASSUME ActionsAssumption == WellTyped

(* The pointers that the free function of a node follows: all it has.      *)
Follows(node) == Range(node.to)

(* What is freed with a pointer: all that hangs on it.                     *)
Hanging(pointer) ==
  LET below[p \in 0 .. Len(heap)] ==
        IF p = NULL THEN {} ELSE {p} \cup UNION {below[q] : q \in Follows(heap[p])}
  IN  below[pointer]

Destroyed(entries) == UNION {Hanging(entries[k].val) : k \in DOMAIN entries}

-----------------------------------------------------------------------------
(* The parser                                                              *)

yylex ==
  /\ status = "parsing" /\ la = "none" /\ ~Consistent(Top)
  /\ IF ahead # << >>
       THEN la' = Head(ahead) /\ ahead' = Tail(ahead) /\ UNCHANGED tokens
       ELSE /\ UNCHANGED ahead
            /\ \/ la' = "end" /\ UNCHANGED tokens
               \/ tokens < MaxTokens /\ tokens' = tokens + 1 /\ la' \in Token
  /\ IF la' = "ID"
       THEN LET name == Made(heap, "string", << >>)
            IN  heap' = name.heap /\ yylval' = name.val
       ELSE yylval' = NULL /\ UNCHANGED heap
  /\ UNCHANGED <<stack, freed, yyerrstatus, program_root, status, reported, emptied>>

(* Mutant: yyerrstatus is counted down without end.                        *)
ShiftCounting ==
  /\ status = "parsing" /\ Shifts(Top, la)
  /\ stack' = Append(stack, [state |-> Goto[Top][la], val |-> yylval])
  /\ la' = "none" /\ yylval' = NULL
  /\ yyerrstatus' = yyerrstatus - 1
  /\ UNCHANGED <<ahead, tokens, heap, freed, program_root, status, reported, emptied>>

Shift ==
  /\ status = "parsing" /\ Shifts(Top, la)
  /\ stack' = Append(stack, [state |-> Goto[Top][la], val |-> yylval])
  /\ la' = "none" /\ yylval' = NULL
  /\ yyerrstatus' = IF yyerrstatus > 0 THEN yyerrstatus - 1 ELSE 0
  /\ UNCHANGED <<ahead, tokens, heap, freed, program_root, status, reported, emptied>>

(* The statement without anything in it, which is NULL.                    *)
Empties(rule) == rule.lhs = "stmt" /\ rule.rhs = <<";">>

Reduce ==
  /\ status = "parsing" /\ (la # "none" \/ Consistent(Top))
  /\ \E rule \in Reductions(Top, la) :
       LET below == SubSeq(stack, 1, Len(stack) - Len(rule.rhs))
           value(n) == IF n = 0 THEN NULL ELSE stack[Len(below) + n].val
           args  == [k \in DOMAIN rule.args |-> value(rule.args[k])]
           done  == Do(rule.action, heap, args)
       IN  /\ heap' = done.heap
           /\ program_root' = IF rule.action = "program_root" THEN args[1] ELSE program_root
           /\ IF rule.lhs = "full_program"
                THEN status' = "accepted" /\ stack' = below
                ELSE /\ UNCHANGED status
                     /\ stack' = Append(below, [state |-> Goto[Last(below).state][rule.lhs],
                                                val |-> done.val])
           /\ emptied' = (emptied \/ Empties(rule))
  /\ UNCHANGED <<ahead, tokens, la, yylval, freed, yyerrstatus, reported>>

(* yyerrlab: the state has no action for the token.                        *)
NoAction ==
  /\ status = "parsing" /\ la # "none"
  /\ ~Shifts(Top, la) /\ Reductions(Top, la) = {}

(* Mutant: all is popped that can be.                                      *)
ErrorStateOutermost == SelectInSeq(stack, LAMBDA entry : Shifts(entry.state, "error"))

(* The program below the nodes being built can always shift an error.      *)
ErrorState == SelectLastInSeq(stack, LAMBDA entry : Shifts(entry.state, "error"))

PushError ==
  stack' = Append(SubSeq(stack, 1, ErrorState),
                  [state |-> Goto[stack[ErrorState].state]["error"], val |-> NULL])
Popped == SubSeq(stack, ErrorState + 1, Len(stack))

Recover ==
  /\ NoAction /\ yyerrstatus < 3
  /\ PushError /\ freed' = freed \cup Destroyed(Popped)
  /\ yyerrstatus' = 3 /\ reported' = TRUE
  /\ UNCHANGED <<ahead, tokens, la, yylval, heap, program_root, status, emptied>>

(* Mutant: the token is kept.                                              *)
DiscardNothing ==
  /\ NoAction /\ yyerrstatus = 3 /\ la # "end"
  /\ PushError /\ freed' = freed \cup Destroyed(Popped)
  /\ UNCHANGED <<ahead, tokens, la, yylval, heap, yyerrstatus, program_root, status,
                 reported, emptied>>

(* An error right behind the last: the token is given up.                  *)
Discard ==
  /\ NoAction /\ yyerrstatus = 3 /\ la # "end"
  /\ la' = "none" /\ yylval' = NULL
  /\ PushError /\ freed' = freed \cup Destroyed(Popped) \cup Hanging(yylval)
  /\ UNCHANGED <<ahead, tokens, heap, yyerrstatus, program_root, status, reported, emptied>>

(* The program ends while tokens are given up.                             *)
Abort ==
  /\ NoAction /\ yyerrstatus = 3 /\ la = "end"
  /\ status' = "aborted" /\ freed' = freed \cup Destroyed(stack)
  /\ stack' = SubSeq(stack, 1, 1)
  /\ UNCHANGED <<ahead, tokens, la, yylval, heap, yyerrstatus, program_root, reported, emptied>>

Stopped == status # "parsing" /\ UNCHANGED vars

Step == yylex \/ Shift \/ Reduce \/ Recover \/ Discard \/ Abort

Spec == Init /\ [][Step \/ Stopped]_vars

(* yyparse returns only when it has accepted or given up.                  *)
FairSpec == Spec /\ WF_vars(Step)
-----------------------------------------------------------------------------
(* Properties                                                              *)

TypeOK ==
  /\ la \in Token \cup {"none", "end"} /\ yylval \in 0 .. Len(heap)
  /\ stack # << >> /\ stack[1].state = Start
  /\ \A k \in DOMAIN stack : stack[k].state \in DOMAIN Kernel /\ stack[k].val \in 0 .. Len(heap)
  /\ \A p \in DOMAIN heap : \A q \in Range(heap[p].to) : q \in 0 .. Len(heap)
  /\ freed \subseteq DOMAIN heap /\ program_root \in 0 .. Len(heap)
  /\ yyerrstatus \in 0 .. 3
  /\ status \in {"parsing", "accepted", "aborted"} /\ reported \in BOOLEAN /\ emptied \in BOOLEAN

(* The pointers the parser holds, in the order of the text.                *)
Held == [k \in DOMAIN stack |-> stack[k].val] \o <<yylval, program_root>>

(* The cells of arguments that have another behind them: append_expr has   *)
(* returned that one in the place of the list.                             *)
Lost == {p \in DOMAIN heap : heap[p].type = "expr_list" /\ heap[p].to[2] # NULL}

(* What hangs on a node: on a lost cell its argument.                      *)
Owned(q) == IF q \in Lost THEN {heap[q].to[1]} ELSE Range(heap[q].to)

(* Every node, cell and name is reached by one pointer until it is freed,  *)
(* and then by none: no destructor or free function frees twice, and what  *)
(* is popped is not in what stays.  All arguments of a call but the last   *)
(* are lost, in cells that nothing leads to, and that are never freed,     *)
(* though the last cell has a pointer from them; and so are the names      *)
(* before erroneous parentheses, but nothing else.                         *)
OwnedOnce ==
  \A p \in DOMAIN heap :
    LET held   == {k \in DOMAIN Held : Held[k] = p}
        linked == {q \in DOMAIN heap \ freed : p \in Owned(q)}
        owners == Cardinality(held) + Cardinality(linked)
    IN  /\ p \notin freed \cap Lost
        /\ IF p \in freed \cup Lost THEN owners = 0
           ELSE owners = 1 \/ (owners = 0 /\ heap[p].type = "string" /\ reported)

(* The names below a pointer, in the order of the pointers.                *)
Names(pointer) ==
  LET names[p \in 0 .. Len(heap)] ==
        IF p = NULL THEN << >>
        ELSE IF heap[p].type = "string" THEN <<p>>
        ELSE FlattenSeq([k \in DOMAIN heap[p].to |-> names[heap[p].to[k]]])
  IN  names[pointer]

(* As long as no error is met the values on the stack, read from left to   *)
(* right, have the names of the program in its order, and all of them but  *)
(* those in the arguments that calls have lost: no other list is cut, none *)
(* is turned round, and no action takes a value that is another's.         *)
NamesInOrder ==
  LET lost == UNION {Hanging(heap[p].to[1]) : p \in Lost}
  IN  ~reported =>
        FlattenSeq([k \in DOMAIN Held |-> Names(Held[k])]) =
          SelectSeq([p \in DOMAIN heap |-> p],
                    LAMBDA p : heap[p].type = "string" /\ p \notin lost)

(* Does the statement end in an `if' that has no `else'?                   *)
EndsOpen(pointer) ==
  LET open[p \in 0 .. Len(heap)] ==
        IF p = NULL THEN FALSE
        ELSE CASE heap[p].type = "STM_IF" -> Len(heap[p].to) = 2 \/ open[heap[p].to[3]]
               [] heap[p].type \in {"STM_WHILE", "STM_FOR"} -> open[Last(heap[p].to)]
               [] OTHER -> FALSE
  IN  open[pointer]

(* An else belongs to the nearest if that has none.                        *)
ElseBindsNearest ==
  \A p \in DOMAIN heap :
    heap[p].type = "STM_IF" /\ Len(heap[p].to) = 3 => ~EndsOpen(heap[p].to[2])

(* Behind a statement only an `else' can be shifted, and it is where an    *)
(* `if' is complete without; a statement is not handed on as it is, and is *)
(* the last part of those that end with it.                                *)
Branching == {"STM_IF", "STM_WHILE", "STM_FOR"}
ElsesShift ==
  /\ "ELSE_K" \in Symbol \ NonTerminal
  /\ \A s \in DOMAIN Kernel :
       /\ "stmt" \in DOMAIN Goto[s] => DOMAIN Goto[Goto[s]["stmt"]] \subseteq {"ELSE_K"}
       /\ \A rule \in Complete[s] :
            rule.action = "STM_IF" /\ Len(rule.args) = 2 => Shifts(s, "ELSE_K")
  /\ \A rule \in Range(Rules) :
       LET args == rule.args
       IN  /\ rule.action = "value" /\ args[1] # 0 => rule.rhs[args[1]] # "stmt"
           /\ rule.action \in Branching => rule.lhs = "stmt" /\ args # << >>
           /\ rule.action = "STM_IF" =>
                Len(args) = 2 \/ (Len(args) = 3 /\ args[2] < Len(rule.rhs))

ASSUME ElseAssumption == ElsesShift

(* What build_ir gets.  The signature of a function has one declarator,    *)
(* that of a function with a name, and a parameter one that is an          *)
(* identifier or an array (process_fun).  A function or its declarator, or *)
(* the expression of a statement, is NULL only where an error has been     *)
(* reported.  A statement is NULL there, too, and for an empty statement,  *)
(* which is correct but which process_statement does not expect            *)
(* (ir_generator.c:142); any other is of a type it knows.  And the tree is *)
(* NULL, which main takes for a failure (main.c:11), of no program that    *)
(* the parser accepts but the empty one.                                   *)
OnlyDeclarator(p, types) ==
  LET list == heap[heap[p].to[1]]
  IN  /\ heap[p].type = "decl" /\ list.type = "decltor_list" /\ list.to[2] = NULL
      /\ \/ list.to[1] = NULL /\ reported /\ types = {"DECLTOR_FUN"}
         \/ heap[list.to[1]].type \in types /\ heap[heap[list.to[1]].to[1]].type = "string"
Statements ==
  {"STM_ASSIGN", "STM_COMPOUND", "STM_EXP", "STM_FOR", "STM_IF", "STM_RETURN", "STM_WHILE"}
Expressions == {"EXP_ID", "EXP_INT", "EXP_CALL"}
TreeForBuildIr ==
  /\ status = "accepted" /\ program_root = NULL => tokens = 0 /\ heap = << >>
  /\ \A p \in DOMAIN heap :
       LET node == heap[p]
       IN  CASE node.type = "NODE_FUN" -> node.to[1] # NULL \/ reported
             [] node.type = "fun_def" -> OnlyDeclarator(node.to[1], {"DECLTOR_FUN"})
             [] node.type = "DECLTOR_FUN" ->
                  LET ok[cell \in Cells(heap) \cup {NULL}] ==
                        cell # NULL =>
                          /\ OnlyDeclarator(heap[cell].to[1], {"DECLTOR_SIMPLE", "DECLTOR_ARRAY"})
                          /\ ok[heap[cell].to[2]]
                  IN  ok[node.to[2]]
             [] node.type = "stmt_list" ->
                  IF node.to[1] = NULL THEN reported \/ emptied
                                       ELSE heap[node.to[1]].type \in Statements
             [] node.type = "STM_EXP" ->
                  IF node.to[1] = NULL THEN reported
                                       ELSE heap[node.to[1]].type \in Expressions
             [] OTHER -> TRUE

(* What the rules of functions, declarators, parameters, statements and    *)
(* expressions take and give; a program is begun once, in the first state. *)
Takes(rule, k, X) == rule.args[k] # 0 /\ rule.rhs[rule.args[k]] = X
Nothing(rule) == rule.action = "value" /\ rule.args = <<0>>
Failed(rule) == Nothing(rule) /\ "error" \in Range(rule.rhs)
PassesOn(rule, X) == rule.action = "value" /\ Takes(rule, 1, X)
ShapesFit ==
  /\ ListSymbol \cup {"function", "fun_sig", "function_declarator", "param_type", "stmt", "assg",
                       "expr"} \subseteq NonTerminal
  /\ DOMAIN Goto[Start] = {"program"}
  /\ \A s \in DOMAIN Kernel :
       /\ \A X \in DOMAIN Goto[s] : Goto[s][X] # Start
       /\ \A i \in Items[s] : i.rule.lhs = "full_program" /\ i.dot = 1 => s = Start
  /\ \A rule \in Range(Rules) :
       /\ rule.lhs = "program" => (Nothing(rule) /\ rule.rhs = << >>) \/ rule.action \in Appending
       /\ rule.lhs = "function" => rule.action = "fun_def" \/ Failed(rule)
       /\ rule.lhs = "fun_sig" => rule.action = "make_singular_decl"
       /\ rule.lhs = "function_declarator" => rule.action = "DECLTOR_FUN" \/ Failed(rule)
       /\ rule.lhs = "param_type" => rule.action \in {"singular_id", "singular_array"}
       /\ rule.lhs = "param_types" =>
            \/ Nothing(rule)
            \/ rule.action = "decl_list" /\ Takes(rule, 1, "param_type")
            \/ rule.action = "append_decl" /\ Takes(rule, 2, "param_type")
       /\ rule.lhs = "stmt" =>
            \/ Empties(rule) \/ Failed(rule) \/ PassesOn(rule, "assg")
            \/ rule.action \in Statements
       /\ Empties(rule) => Nothing(rule)
       /\ rule.lhs = "assg" => rule.action = "STM_ASSIGN"
       /\ rule.lhs = "expr" =>
            rule.action \in Expressions \/ Failed(rule) \/ PassesOn(rule, "expr")
       /\ rule.action = "value" /\ rule.lhs \in ListSymbol =>
            \/ Nothing(rule)
            \/ PassesOn(rule, "nonempty_expr_list") /\ rule.lhs = "expr_list"
       /\ rule.action \in Appending \cup {"append_expr"} => rule.lhs = rule.rhs[1]
       /\ rule.action \notin {"NODE_FUN", "stmt_list", "DECLTOR_ARRAY"}
       /\ rule.action \in ListType => rule.lhs \in ListSymbol
       /\ rule.action = "append_fun_node" => Takes(rule, 2, "function")
       /\ rule.action = "append_stmt" => Takes(rule, 2, "stmt")
       /\ rule.action = "STM_EXP" => Len(rule.args) = 1 /\ Takes(rule, 1, "expr")
       /\ rule.action = "fun_def" => Takes(rule, 1, "fun_sig")
       /\ rule.action = "make_singular_decl" => Takes(rule, 1, "function_declarator")
       /\ rule.action = "DECLTOR_FUN" => Takes(rule, 1, "ID") /\ Takes(rule, 2, "param_types")
       /\ rule.action \in {"DECLTOR_SIMPLE", "make_decltor_array", "singular_id", "singular_array"}
            => Takes(rule, 1, "ID")

ASSUME ShapeAssumption == ShapesFit

(* Are the statements of a function being read?                            *)
InBody(s) == \E i \in Items[s] : i.dot = 5 /\ i.rule.lhs = "function"

(* The number of the entry that holds them, or 0.                          *)
BodyOf(entries) == SelectInSeq(entries, LAMBDA entry : InBody(entry.state))

(* An error among the statements of a function costs no more than the      *)
(* statement: until its closing brace what came before, and the function,  *)
(* stay on the stack, unless the whole parse is given up.                  *)
ErrorsKeepTheBody ==
  [][BodyOf(stack) # 0 /\ status' # "aborted"
       /\ (\A rule \in Complete[Top] : rule.lhs # "function")
     => LET below == BodyOf(stack) - 1
        IN  BodyOf(stack') = below + 1 /\ SubSeq(stack', 1, below) = SubSeq(stack, 1, below)]_vars

(* Where the statements are being read an error can be shifted; but for    *)
(* the function only their own list goes on there.                         *)
Shelters ==
  \A s \in DOMAIN Kernel : InBody(s) =>
    /\ Shifts(s, "error")
    /\ \A i \in Items[s] : i.dot > 1 /\ i.rule.lhs # "function" =>
         i.dot = 2 /\ i.rule.lhs = i.rule.rhs[1]

ASSUME BodyAssumption == Shelters

(* The parser ends, whatever it reads and however often it recovers.       *)
Terminates == <>(status # "parsing")
=============================================================================
