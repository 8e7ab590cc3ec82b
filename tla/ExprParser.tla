----------------------------- MODULE ExprParser ------------------------------
(***************************************************************************)
(* bison's parser on the expression rules of parser.yy, and the heap of    *)
(* nodes that their actions build (ast.c).  Unit productions hand the      *)
(* value on and are left out: what is shifted or reduced is decided by the *)
(* levels of the binary operators.  The expression stands after `ID ='; a  *)
(* statement's end is the token ";".  A pointer is a position in `heap',   *)
(* and a node names its token by position in place of its string or value. *)
(***************************************************************************)
EXTENDS Integers, Sequences, FiniteSets, FiniteSetsExt, SequencesExt

CONSTANTS
  BinOp,      \* the binary operators of the program
  Prefix,     \* its prefix operators
  MaxTokens   \* bound: length of the expression

NULL == 0

(* logical_or_expr, logical_and_expr, equality_expr, relational_expr,      *)
(* additive_expr and multiplicative_expr.                                  *)
Levels == <<{"||"}, {"&&"}, {"==", "!="}, {"<", ">", "<=", ">="}, {"+", "-"}, {"*", "/"}>>

ASSUME OperatorAssumption ==
  /\ BinOp \subseteq {"||", "&&", "==", "!=", "<", ">", "<=", ">=", "+", "-", "*", "/"}
  /\ Prefix \subseteq {"-", "!"}
ASSUME BoundAssumption == MaxTokens \in Nat

(* Mutant: multiplication and addition are of one level.                   *)
LevelFlat(op) ==
  CHOOSE l \in 1 .. 5 : op \in Levels[l] \/ (l = 5 /\ op \in Levels[6])

Level(op) == CHOOSE l \in DOMAIN Levels : op \in Levels[l]

(* The node that the action of the operator's rule makes.                  *)
BinType(op) ==
  CASE op = "||" -> "EXP_AND"    [] op = "&&" -> "EXP_OR"
    [] op = "==" -> "EXP_EQ"     [] op = "!=" -> "EXP_NEQ"
    [] op = "<"  -> "EXP_LT"     [] op = ">"  -> "EXP_GT"
    [] op = "<=" -> "EXP_LTE"    [] op = ">=" -> "EXP_GTE"
    [] op = "+"  -> "EXP_PLUS"   [] op = "-"  -> "EXP_PLUS"
    [] op = "*"  -> "EXP_TIMES"  [] op = "/"  -> "EXP_DIV"
UnType(op) == IF op = "-" THEN "EXP_UNMINUS" ELSE "EXP_NEG"

(* The token "num" is any literal: NUM, CHAR or STRING.                    *)
BeginExpr == {"id", "num", "(", "-", "!"}
Token == BinOp \cup Prefix \cup {"id", "num", "(", ")", ",", ";"}

VARIABLES
  read,       \* the tokens that yylex has returned
  la,         \* the lookahead token, or "none"
  stack,      \* symbols with their values
  heap,       \* every node allocated
  freed,      \* those freed
  status,     \* "parsing", "accepted" or "rejected" (to the rule of stmt)
  recovered   \* history: an error was recovered from

vars == <<read, la, stack, heap, freed, status, recovered>>

Init ==
  /\ read = << >> /\ la = "none" /\ stack = << >>
  /\ heap = << >> /\ freed = {} /\ status = "parsing" /\ recovered = FALSE

-----------------------------------------------------------------------------
(* The stack: Sym(1) is the top.  A prefix operator and the parenthesis of *)
(* a call have symbols of their own, for the states they lead to.          *)

Sym(k) == IF k <= Len(stack) THEN stack[Len(stack) + 1 - k].sym ELSE "bottom"
Val(k) == stack[Len(stack) + 1 - k].val
Tok(k) == stack[Len(stack) + 1 - k].tok

Symbol(s)   == [sym |-> s, val |-> NULL, tok |-> Len(read)]
Replace(n, sym, val) ==
  SubSeq(stack, 1, Len(stack) - n) \o <<[sym |-> sym, val |-> val, tok |-> NULL]>>

Shift(s) == stack' = Append(stack, Symbol(s)) /\ la' = "none"

ExprExpected == Sym(1) \in {"bottom", "(", "call(", ",", "neg", "not"} \cup BinOp

(* A node or list cell, and its pointers.                                  *)
Node(type, tok, kids) == [type |-> type, tok |-> tok, kids |-> kids]
Malloc(node) == heap' = Append(heap, node)
New == Len(heap) + 1

-----------------------------------------------------------------------------
(* Tokens                                                                  *)

yylex ==
  /\ status = "parsing" /\ la = "none"
  /\ \/ la' = "end" /\ UNCHANGED read
     \/ Len(read) < MaxTokens /\ la' \in Token /\ read' = Append(read, la')
  /\ UNCHANGED <<stack, heap, freed, status, recovered>>

Parsing == status = "parsing" /\ la # "none" /\ UNCHANGED <<read, status>>
Building == Parsing /\ UNCHANGED <<freed, recovered>>

ShiftPrefix ==
  /\ Building /\ ExprExpected
  /\ \/ la = "-" /\ Shift("neg")
     \/ la = "!" /\ Shift("not")
     \/ la = "(" /\ Shift("(")
  /\ UNCHANGED heap

ShiftId == Building /\ ExprExpected /\ la = "id" /\ Shift("id") /\ UNCHANGED heap

make_literal ==
  /\ Building /\ ExprExpected /\ la = "num"
  /\ Malloc(Node("EXP_LITERAL", Len(read), << >>))
  /\ stack' = Replace(0, "expr", New) /\ la' = "none"

make_id ==
  /\ Building /\ Sym(1) = "id" /\ la # "("
  /\ Malloc(Node("EXP_ID", Tok(1), << >>))
  /\ stack' = Replace(1, "expr", New) /\ UNCHANGED la

-----------------------------------------------------------------------------
(* Operators                                                               *)

make_unop ==
  /\ Building /\ Sym(1) = "expr" /\ Sym(2) \in {"neg", "not"}
  /\ Malloc(Node(UnType(IF Sym(2) = "neg" THEN "-" ELSE "!"), Tok(2), <<Val(1)>>))
  /\ stack' = Replace(2, "expr", New) /\ UNCHANGED la

(* The lookahead is an operator of a level below that of the one before.   *)
BindsTighter == la \in BinOp /\ (Sym(2) \in BinOp => Level(la) > Level(Sym(2)))

make_binop ==
  /\ Building /\ Sym(1) = "expr" /\ Sym(2) \in BinOp /\ ~BindsTighter
  /\ Malloc(Node(BinType(Sym(2)), Tok(2), <<Val(3), Val(1)>>))
  /\ stack' = Replace(3, "expr", New) /\ UNCHANGED la

ShiftBinary ==
  /\ Building /\ Sym(1) = "expr" /\ Sym(2) \notin {"neg", "not"} /\ BindsTighter
  /\ Shift(la) /\ UNCHANGED heap

Parenthesized ==
  /\ Building /\ Sym(1) = "expr" /\ Sym(2) = "(" /\ la = ")"
  /\ stack' = Replace(2, "expr", Val(1)) /\ la' = "none"
  /\ UNCHANGED heap

-----------------------------------------------------------------------------
(* Calls.  A list cell points to its expression and the next cell.         *)

ShiftCall == Building /\ Sym(1) = "id" /\ la = "(" /\ Shift("call(") /\ UNCHANGED heap

ArgEnds == Sym(1) = "expr" /\ la \notin BinOp

make_expr_singleton ==
  /\ Building /\ ArgEnds /\ Sym(2) = "call("
  /\ Malloc(Node("expr_list", NULL, <<Val(1), NULL>>))
  /\ stack' = Replace(1, "args", New) /\ UNCHANGED la

ShiftComma ==
  Building /\ Sym(1) = "args" /\ la = "," /\ Shift(",") /\ UNCHANGED heap

(* The new cell is linked behind the list's last and returned; the value   *)
(* of a list with two arguments or more is thus its last cell, and has no  *)
(* cell behind it.                                                         *)
append_expr ==
  /\ Building /\ ArgEnds /\ Sym(2) = ","
  /\ heap' = Append([heap EXCEPT ![Val(3)].kids[2] = New],
                    Node("expr_list", NULL, <<Val(1), NULL>>))
  /\ stack' = Replace(3, "args", New) /\ UNCHANGED la

(* Mutant: without arguments there is no call.                             *)
make_call_none ==
  /\ Building /\ la = ")"
  /\ \/ /\ Sym(1) = "args" /\ stack' = Replace(3, "expr", New)
        /\ Malloc(Node("EXP_CALL", Tok(3), <<Val(1)>>))
     \/ /\ Sym(1) = "call(" /\ stack' = Replace(2, "expr", NULL)
        /\ UNCHANGED heap
     \/ /\ Sym(1) = "error" /\ stack' = Replace(3, "expr", NULL)
        /\ UNCHANGED heap
  /\ la' = "none"

(* The list is NULL where there is no argument, and the call itself where  *)
(* its arguments were in error.                                            *)
make_call ==
  /\ Building /\ la = ")"
  /\ \/ /\ Sym(1) = "args" /\ stack' = Replace(3, "expr", New)
        /\ Malloc(Node("EXP_CALL", Tok(3), <<Val(1)>>))
     \/ /\ Sym(1) = "call(" /\ stack' = Replace(2, "expr", New)
        /\ Malloc(Node("EXP_CALL", Tok(2), <<NULL>>))
     \/ /\ Sym(1) = "error" /\ stack' = Replace(3, "expr", NULL)
        /\ UNCHANGED heap
  /\ la' = "none"

-----------------------------------------------------------------------------
(* Errors                                                                  *)

(* No state has an action for the lookahead once all reductions are done.  *)
NoAction ==
  \/ ExprExpected /\ la \notin BeginExpr
                  /\ ~(Sym(1) = "call(" /\ la = ")")
  \/ /\ Sym(1) = "expr" /\ Sym(2) \in {"bottom", "("} /\ la \notin BinOp
     /\ <<Sym(2), la>> \notin {<<"(", ")">>, <<"bottom", ";">>}
  \/ Sym(1) = "args" /\ la \notin {",", ")"}

(* What free_expr and free_expr_list free: all that hangs on the pointer.  *)
Hanging(pointer) ==
  LET below[p \in 0 .. Len(heap)] ==
        IF p = NULL THEN {}
        ELSE {p} \cup UNION {below[k] : k \in Range(heap[p].kids)}
  IN  below[pointer]

Destroyed(symbols) == UNION {Hanging(symbols[k].val) : k \in DOMAIN symbols}

(* The innermost call whose arguments can be given up, or 0.               *)
OpenCall == SelectLastInSeq(stack, LAMBDA s : s.sym = "call(")

(* Mutant: they are destroyed where they are.                              *)
RecoverUnpopped ==
  /\ Parsing /\ NoAction /\ OpenCall # 0
  /\ LET popped == SubSeq(stack, OpenCall + 1, Len(stack))
     IN  freed' = freed \cup Destroyed(popped)
  /\ stack' = stack \o <<[sym |-> "error", val |-> NULL, tok |-> NULL]>>
  /\ recovered' = TRUE
  /\ UNCHANGED <<la, heap>>

(* The symbols above it are popped, and destroyed.                         *)
Recover ==
  /\ Parsing /\ NoAction /\ OpenCall # 0
  /\ LET popped == SubSeq(stack, OpenCall + 1, Len(stack))
     IN  freed' = freed \cup Destroyed(popped)
  /\ stack' = SubSeq(stack, 1, OpenCall) \o <<[sym |-> "error", val |-> NULL, tok |-> NULL]>>
  /\ recovered' = TRUE
  /\ UNCHANGED <<la, heap>>

DiscardToken ==
  /\ Parsing /\ Sym(1) = "error" /\ la \notin {")", "end"}
  /\ la' = "none"
  /\ UNCHANGED <<stack, heap, freed, recovered>>

(* No call is open, and it is for the rule `stmt : error' to go on; or the *)
(* program ends in the arguments, and yyparse gives up.                    *)
Reject ==
  /\ status = "parsing" /\ la # "none"
  /\ \/ NoAction /\ OpenCall = 0
     \/ Sym(1) = "error" /\ la = "end"
  /\ status' = "rejected"
  /\ freed' = freed \cup Destroyed(stack) /\ stack' = << >>
  /\ UNCHANGED <<read, la, heap, recovered>>

(* Mutant: what follows the expression is left for the next statement.     *)
AcceptAnything ==
  /\ status = "parsing" /\ Sym(1) = "expr" /\ Sym(2) = "bottom"
  /\ la \notin BinOp \cup {"none"}
  /\ status' = "accepted"
  /\ UNCHANGED <<read, la, stack, heap, freed, recovered>>

Accept ==
  /\ status = "parsing" /\ Sym(1) = "expr" /\ Sym(2) = "bottom" /\ la = ";"
  /\ status' = "accepted"
  /\ UNCHANGED <<read, la, stack, heap, freed, recovered>>

Stopped == status # "parsing" /\ UNCHANGED vars

Step ==
  \/ yylex \/ ShiftPrefix \/ ShiftId \/ make_literal \/ make_id
  \/ make_unop \/ make_binop \/ ShiftBinary \/ Parenthesized
  \/ ShiftCall \/ make_expr_singleton \/ ShiftComma \/ append_expr \/ make_call
  \/ Recover \/ DiscardToken \/ Reject \/ Accept

Spec == Init /\ [][Step \/ Stopped]_vars
-----------------------------------------------------------------------------
(* Properties                                                              *)

Symbols == {"expr", "args", "error", "neg", "not", "(", "call(", ",", "id"} \cup BinOp
Positions == 0 .. MaxTokens

(* Symbols and nodes are of their types, and an expression that is NULL,   *)
(* on which the generator would die, is left on the stack or in a tree     *)
(* only where an error has been reported.                                  *)
TypeOK ==
  /\ read \in Seq(Token) /\ Len(read) <= MaxTokens
  /\ la \in Token \cup {"none", "end"}
  /\ \A k \in DOMAIN stack :
       /\ stack[k].sym \in Symbols /\ stack[k].tok \in Positions
       /\ stack[k].val \in 0 .. Len(heap)
       /\ stack[k].sym = "expr" => stack[k].val # NULL \/ recovered
  /\ \A p \in DOMAIN heap :
       /\ heap[p].tok \in Positions /\ \A k \in Range(heap[p].kids) : k \in 0 .. Len(heap)
       /\ heap[p].type # "EXP_CALL" /\ heap[p].kids # << >> =>
            heap[p].kids[1] # NULL \/ recovered
  /\ freed \subseteq DOMAIN heap
  /\ status \in {"parsing", "accepted", "rejected"} /\ recovered \in BOOLEAN

(* Reference: the tokens i .. j read as the grammar's nonterminals say.    *)

EndsOperand(k) == read[k] \in {"id", "num", ")"}

Depth(i, k) ==
  Cardinality({m \in i .. k : read[m] = "("}) - Cardinality({m \in i .. k : read[m] = ")"})

(* The binary operators and the commas in no parentheses of i .. j.        *)
Operators(i, j) ==
  {k \in i + 1 .. j : read[k] \in BinOp /\ EndsOperand(k - 1) /\ Depth(i, k) = 0}
Commas(i, j) == {k \in i .. j : read[k] = "," /\ Depth(i, k) = 0}

LooserOrLater(k, m) ==
  \E a, b \in DOMAIN Levels :
    read[k] \in Levels[a] /\ read[m] \in Levels[b] /\ (a < b \/ (a = b /\ k >= m))

(* Is i .. j an expression?  Precedence aside: some operator splits it.    *)
IsExpr(i, j) ==
  LET is[a \in 1 .. Len(read), b \in 0 .. Len(read)] ==
        \/ a = b /\ read[a] \in {"id", "num"}
        \/ a < b /\ read[a] \in {"-", "!"} /\ is[a + 1, b]
        \/ a < b /\ read[a] = "(" /\ read[b] = ")" /\ is[a + 1, b - 1]
        \/ \E k \in a + 1 .. b - 1 :
             read[k] \in BinOp /\ is[a, k - 1] /\ is[k + 1, b]
        \/ /\ a + 1 < b /\ read[a] = "id" /\ read[a + 1] = "(" /\ read[b] = ")"
           /\ LET cuts == Commas(a + 2, b - 1) \cup {a + 1, b}
              IN  \/ b = a + 2
                  \/ \A k \in cuts \ {b} :
                       is[k + 1, Min({m \in cuts : m > k}) - 1]
  IN  i <= j /\ is[i, j]

(* The tree of an expression: the position of its token and its subtrees,  *)
(* for a call that of its last argument, which append_expr returns.        *)
Meaning ==
  LET tree[i \in 1 .. Len(read), j \in 0 .. Len(read)] ==
        LET ops == Operators(i, j)
            last == Max(Commas(i + 2, j - 1) \cup {i + 1})
        IN IF ops # {} THEN
             LET k == CHOOSE k \in ops : \A m \in ops : LooserOrLater(k, m)
             IN  <<k, tree[i, k - 1], tree[k + 1, j]>>
           ELSE IF i = j THEN <<i>>
           ELSE IF read[i] \in {"-", "!"} THEN <<i, tree[i + 1, j]>>
           ELSE IF read[i] = "(" THEN tree[i + 1, j - 1]
           ELSE IF j = i + 2 THEN <<i>>
           ELSE <<i, tree[last + 1, j - 1]>>
  IN  tree[1, Len(read) - 1]

(* The same of what was built.                                             *)
Built(pointer) ==
  LET tree[p \in 1 .. Len(heap)] ==
        LET kids == heap[p].kids
        IN CASE heap[p].type = "expr_list" ->
                  <<tree[kids[1]]>> \o (IF kids[2] = NULL THEN << >> ELSE tree[kids[2]])
             [] heap[p].type = "EXP_CALL" ->
                  <<heap[p].tok>> \o (IF kids[1] = NULL THEN << >> ELSE tree[kids[1]])
             [] OTHER -> <<heap[p].tok>> \o [n \in DOMAIN kids |-> tree[kids[n]]]
  IN  tree[pointer]

(* An expression is accepted without a complaint exactly when it is one:   *)
(* the parser's states and the default reductions that it does before it   *)
(* looks at a wrong token neither let one pass nor refuse a right one.     *)
AcceptsExpressions ==
  status # "parsing" =>
    ((status = "accepted" /\ ~recovered) <=>
       (read # << >> /\ Last(read) = ";" /\ IsExpr(1, Len(read) - 1)))

(* The tree of an accepted expression groups as the six levels and the     *)
(* prefix operators say, to the left in one level; a call has the last of  *)
(* its arguments, and nothing else hangs on it.                            *)
TreeFollowsPrecedence ==
  status = "accepted" /\ ~recovered => Built(stack[1].val) = Meaning

(* What hangs on a symbol of the stack is not freed, and hangs on no other *)
(* symbol: no destructor frees twice or frees what a later action uses.    *)
StackOwnsItsNodes ==
  /\ Destroyed(stack) \cap freed = {}
  /\ \A k, m \in DOMAIN stack :
       k # m => Hanging(stack[k].val) \cap Hanging(stack[m].val) = {}

(* ast.h:53-64 has a tag for each operator; a node carries its operator's. *)
Tag(op) ==
  CASE op = "||" -> "EXP_OR"     [] op = "&&" -> "EXP_AND"
    [] op = "-"  -> "EXP_MINUS"  [] OTHER -> BinType(op)
TypesAreOperators ==
  \A p \in DOMAIN heap :
    Len(heap[p].kids) = 2 /\ heap[p].type # "expr_list" =>
      heap[p].type = Tag(read[heap[p].tok])
=============================================================================
