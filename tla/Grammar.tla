------------------------------ MODULE Grammar -------------------------------
(***************************************************************************)
(* The rules of parser.yy from the program down to statements, and the     *)
(* automaton bison makes of them: its states are kernels of LR(0) items.   *)
(* An expression is a name, a number, a call or one of them in parentheses;*)
(* the operators are in ExprParser.                                        *)
(***************************************************************************)
EXTENDS Integers, Sequences, FiniteSets, FiniteSetsExt, SequencesExt

(* A rule with its action: a function and its arguments as numbers of      *)
(* values, 0 for NULL.  An action that makes one node is given by the      *)
(* node's type; "value" hands a value on.                                  *)
Rule(lhs, rhs, action, args) == [lhs |-> lhs, rhs |-> rhs, action |-> action, args |-> args]

ProgramRules == <<
  Rule("full_program", <<"program">>, "program_root", <<1>>),
  Rule("program", << >>, "value", <<0>>),
  Rule("program", <<"program", "function">>, "append_fun_node", <<1, 2>>),
  Rule("program", <<"program", "declaration", ";">>, "append_decl_node", <<1, 2>>),
  Rule("function", <<"fun_sig", "{", "var_declaration_list", "stmt_list", "}">>,
       "fun_def", <<1, 3, 4>>),
  Rule("fun_sig", <<"type", "function_declarator">>, "make_singular_decl", <<2>>),
  Rule("fun_sig", <<"VOID_K", "function_declarator">>, "make_singular_decl", <<2>>)>>

DeclarationRules == <<
  Rule("declaration", <<"type", "declarator_list">>, "decl", <<2>>),
  Rule("declaration", <<"type", "function_declarators">>, "decl", <<2>>),
  Rule("declaration", <<"EXTERN_K", "type", "function_declarators">>, "decl", <<3>>),
  Rule("declaration", <<"VOID_K", "function_declarators">>, "decl", <<2>>),
  Rule("declaration", <<"EXTERN_K", "VOID_K", "function_declarators">>, "decl", <<3>>),
  Rule("type", <<"INT_K">>, "value", <<0>>),
  Rule("declarator_list", <<"declarator">>, "decltor_list", <<1, 0>>),
  Rule("declarator_list", <<"declarator_list", ",", "declarator">>, "append_decltor", <<1, 3>>),
  Rule("declarator", <<"ID">>, "DECLTOR_SIMPLE", <<1>>),
  Rule("declarator", <<"ID", "[", "NUM", "]">>, "make_decltor_array", <<1>>),
  Rule("function_declarators", <<"function_declarator">>, "decltor_list", <<1, 0>>),
  Rule("function_declarators", <<"function_declarators", ",", "function_declarator">>,
       "append_decltor", <<1, 3>>),
  Rule("function_declarator", <<"ID", "(", "param_types", ")">>, "DECLTOR_FUN", <<1, 3>>),
  Rule("param_types", <<"VOID_K">>, "value", <<0>>),
  Rule("param_types", <<"param_type">>, "decl_list", <<1, 0>>),
  Rule("param_types", <<"param_types", ",", "param_type">>, "append_decl", <<1, 3>>),
  Rule("param_type", <<"type", "ID">>, "singular_id", <<2>>),
  Rule("param_type", <<"type", "ID", "[", "]">>, "singular_array", <<2>>),
  Rule("var_declaration_list", << >>, "value", <<0>>),
  Rule("var_declaration_list", <<"var_declaration_list", "var_declaration", ";">>,
       "append_decl", <<1, 2>>),
  Rule("var_declaration", <<"type", "declarator_list">>, "decl", <<2>>)>>

StatementRules == <<
  Rule("stmt_list", << >>, "value", <<0>>),
  Rule("stmt_list", <<"stmt_list", "stmt">>, "append_stmt", <<1, 2>>),
  Rule("opt_assg", << >>, "value", <<0>>),
  Rule("opt_assg", <<"assg">>, "value", <<1>>),
  Rule("opt_expr", << >>, "value", <<0>>),
  Rule("opt_expr", <<"expr">>, "value", <<1>>),
  Rule("stmt", <<"IF_K", "(", "expr", ")", "stmt">>, "STM_IF", <<3, 5>>),
  Rule("stmt", <<"IF_K", "(", "expr", ")", "stmt", "ELSE_K", "stmt">>, "STM_IF", <<3, 5, 7>>),
  Rule("stmt", <<"WHILE_K", "(", "expr", ")", "stmt">>, "STM_WHILE", <<3, 5>>),
  Rule("stmt", <<"FOR_K", "(", "opt_assg", ";", "opt_expr", ";", "opt_assg", ")", "stmt">>,
       "STM_FOR", <<3, 5, 7, 9>>),
  Rule("stmt", <<"RETURN_K", "opt_expr", ";">>, "STM_RETURN", <<2>>),
  Rule("stmt", <<"assg", ";">>, "value", <<1>>),
  Rule("stmt", <<"{", "stmt_list", "}">>, "STM_COMPOUND", <<2>>),
  Rule("stmt", <<";">>, "value", <<0>>),
  Rule("stmt", <<"expr", ";">>, "STM_EXP", <<1>>),
  Rule("assg", <<"ID", "=", "expr">>, "STM_ASSIGN", <<1, 3>>),
  Rule("assg", <<"ID", "[", "expr", "]", "=", "expr">>, "STM_ASSIGN", <<1, 3, 6>>)>>

ExpressionRules == <<
  Rule("expr", <<"ID">>, "EXP_ID", <<1>>),
  Rule("expr", <<"NUM">>, "EXP_INT", << >>),
  Rule("expr", <<"(", "expr", ")">>, "value", <<2>>),
  Rule("expr", <<"ID", "(", "expr_list", ")">>, "EXP_CALL", <<1, 3>>)>>

ArgumentRules == <<
  Rule("expr_list", << >>, "value", <<0>>),
  Rule("expr_list", <<"nonempty_expr_list">>, "value", <<1>>),
  Rule("nonempty_expr_list", <<"expr">>, "expr_list", <<1, 0>>),
  Rule("nonempty_expr_list", <<"nonempty_expr_list", ",", "expr">>, "append_expr", <<1, 3>>)>>

(* They report a second time and yield NULL.  A name before the            *)
(* parenthesis is not freed.                                               *)
ErrorRules == <<
  Rule("function", <<"error">>, "value", <<0>>),
  Rule("function_declarator", <<"ID", "(", "error", ")">>, "value", <<0>>),
  Rule("stmt", <<"error", ";">>, "value", <<0>>),
  Rule("expr", <<"ID", "(", "error", ")">>, "value", <<0>>)>>

Rules ==
  ProgramRules \o DeclarationRules \o StatementRules \o ExpressionRules \o ArgumentRules
    \o ErrorRules

NonTerminal == {rule.lhs : rule \in Range(Rules)}
Symbol == NonTerminal \cup UNION {Range(rule.rhs) : rule \in Range(Rules)}
Token == Symbol \ (NonTerminal \cup {"error"})

-----------------------------------------------------------------------------
(* The automaton.  An item is a rule and the place of its dot.             *)

Remaining(items) == {i \in items : i.dot <= Len(i.rule.rhs)}
AtDot(items) == {i.rule.rhs[i.dot] : i \in Remaining(items)}
Advance(items, X) ==
  {[i EXCEPT !.dot = @ + 1] : i \in {i \in Remaining(items) : i.rule.rhs[i.dot] = X}}

Initial ==
  [X \in Symbol |->
     {[rule |-> rule, dot |-> 1] : rule \in {rule \in Range(Rules) : rule.lhs = X}}]

(* With what a nonterminal at the dot begins, and so on.                   *)
Closure(kernel) ==
  LET within[n \in 0 .. 8] ==
        IF n = 0 THEN kernel
        ELSE LET items == within[n - 1] IN items \cup UNION {Initial[X] : X \in AtDot(items)}
  IN  within[8]

StartKernel == Initial["full_program"]

(* Twenty symbols lead to any state, which AutomatonAssumption confirms.   *)
Kernels ==
  LET Successors(items) == {Advance(items, X) : X \in AtDot(items)}
      reached[n \in 0 .. 20] ==
        IF n = 0 THEN {StartKernel}
        ELSE LET R == reached[n - 1] IN R \cup UNION {Successors(Closure(K)) : K \in R}
  IN  reached[20]

(* The states are numbered.                                                *)
Kernel == FoldSet(LAMBDA K, s : Append(s, K), << >>, Kernels)
Items  == [s \in DOMAIN Kernel |-> Closure(Kernel[s])]
Start  == CHOOSE s \in DOMAIN Kernel : Kernel[s] = StartKernel

(* The state a symbol leads to, if any.                                    *)
Transitions(kernel, items) ==
  [s \in DOMAIN kernel |->
     [X \in AtDot(items[s]) |->
        CHOOSE t \in DOMAIN kernel : kernel[t] = Advance(items[s], X)]]
Goto == Transitions(Kernel, Items)

(* The rules that are complete in a state.                                 *)
Completed(items) == {i.rule : i \in items \ Remaining(items)}
Complete == [s \in DOMAIN Items |-> Completed(Items[s])]

Shifts(s, token) == token \in DOMAIN Goto[s]

(* A rule is reduced by default, whatever the lookahead, but for those     *)
(* complete in a state that shifts `error', and the signature, which       *)
(* competes with a list of declarators.                                    *)
Lookahead(rule) ==
  CASE rule.lhs = "full_program" -> {"end"}
    [] rule.lhs = "fun_sig" -> {"{"}
    [] rule.lhs = "expr_list" /\ rule.rhs = << >> -> {")"}
    [] OTHER -> {}

Defaults(s) == {rule \in Complete[s] : Lookahead(rule) = {}}

(* A state that only reduces by default needs no lookahead.                *)
Consistent(s) ==
  /\ \A token \in Symbol \ NonTerminal : ~Shifts(s, token)
  /\ \A rule \in Complete[s] : Lookahead(rule) = {}

(* Mutant: the conflict of %expect 1 is resolved the other way.            *)
ReductionsFirst(s, token) ==
  LET called == {rule \in Complete[s] : token \in Lookahead(rule)}
  IN  IF called # {} THEN called ELSE Defaults(s)

(* The rule to reduce, if any.  A token that can be shifted is shifted:    *)
(* of the two readings of a second `else' the nearer `if' gets it.         *)
Reductions(s, token) ==
  LET called == {rule \in Complete[s] : token \in Lookahead(rule)}
  IN  IF Shifts(s, token) THEN {} ELSE IF called # {} THEN called ELSE Defaults(s)

(* The automaton is finished, and each state has one default at most, none *)
(* where an error can be shifted.                                          *)
Deterministic ==
  \A s \in DOMAIN Kernel :
    /\ \A X \in AtDot(Items[s]) : Initial[X] \subseteq Items[s]
    /\ \A X \in AtDot(Items[s]) : Advance(Items[s], X) \in Range(Kernel)
    /\ Cardinality(Defaults(s)) <= IF Shifts(s, "error") THEN 0 ELSE 1

(* A transition on X leads to items behind X, from what they were before   *)
(* it; a rule that is begun in a state can go on there with its left side; *)
(* the first state waits for no token, and those behind it shift an error. *)
Retraceable ==
  /\ "none" \notin Symbol /\ "end" \notin Symbol
  /\ \A rule \in Range(Rules) : rule.rhs \in Seq(Symbol)
  /\ Start \in DOMAIN Kernel /\ \A i \in Items[Start] : i.dot = 1
  /\ \A X \in DOMAIN Goto[Start] : Shifts(Goto[Start][X], "error")
  /\ \A token \in Token \cup {"end"} : Reductions(Start, token) # {}
  /\ \A s \in DOMAIN Kernel :
       /\ \A X \in DOMAIN Goto[s] :
            /\ X \in Symbol /\ Goto[s][X] \in DOMAIN Kernel
            /\ \A i \in Items[Goto[s][X]] : i.dot > 1 =>
                 /\ i.rule.rhs[i.dot - 1] = X
                 /\ [rule |-> i.rule, dot |-> i.dot - 1] \in Items[s]
       /\ \A i \in Items[s] :
            /\ i.rule \in Range(Rules) /\ i.dot \in 1 .. Len(i.rule.rhs) + 1
            /\ i.dot = 1 => i.rule.lhs \in DOMAIN Goto[s] \cup {"full_program"}

ASSUME AutomatonAssumption == Deterministic /\ Retraceable
=============================================================================
