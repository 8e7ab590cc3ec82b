------------------------------- MODULE IrItem --------------------------------
(***************************************************************************)
(* The items of the intermediate code (ir.c, ir_list.c): what their        *)
(* constructors put into them, the strings they own, how they are printed, *)
(* and ir_free_list.  A client appends items to one list and then frees    *)
(* the list; it makes the addresses of an item for that item alone.        *)
(***************************************************************************)
EXTENDS Integers, Sequences, TLC

CONSTANTS
  AddrType,   \* the types of the addresses the client uses
  Name,       \* identifiers: of symbols, functions, labels and data
  Magnitude,  \* the magnitudes of the integers it uses
  MaxItems    \* bound: length of the list

ASSUME ClientAssumption ==
  /\ AddrType \subseteq {"ADDR_SYMBOL", "ADDR_SYMBOL_NAME", "ADDR_IMM_INT",
                         "ADDR_IMM_CHAR", "ADDR_IMM_STRING"}
  /\ Magnitude \subseteq Nat /\ MaxItems \in Nat

Number == Magnitude \cup {-n : n \in Magnitude}

VARIABLES
  made,       \* the number of items made
  heap,       \* the strings allocated and not freed
  codes,      \* the list
  freeing     \* ir_free_list has begun

vars == <<made, heap, codes, freeing>>

Init == made = 0 /\ heap = {} /\ codes = << >> /\ freeing = FALSE

-----------------------------------------------------------------------------
(* Addresses.  `value' is the name or number, `own' the string that holds  *)
(* it, or NoString where it is no string of this address.  A string is     *)
(* known by the item it was duplicated for and its place in it.            *)

NoString == <<0, "none">>

(* Mutant: one copy serves all the addresses of an item.                   *)
StrdupOnce(place) == <<made + 1, IF place = "text" THEN place ELSE "x">>

Strdup(place) == <<made + 1, place>>

Address(type, value, own) == [type |-> type, value |-> value, own |-> own]

ir_mkempty == Address("ADDR_EMPTY", "", NoString)

Owning == {"ADDR_SYMBOL_NAME", "ADDR_IMM_STRING"}

(* ir_mkint and ir_mkchar; ir_mksymbol; and, with a string of their own,   *)
(* ir_mkstring and ir_mksymbol_string.                                     *)
Plain(type) == IF type \in {"ADDR_IMM_INT", "ADDR_IMM_CHAR"} THEN Number ELSE Name
Addresses(place) ==
  {Address(a[1], a[2], IF a[1] \in Owning THEN Strdup(place) ELSE NoString) :
     a \in UNION {{t} \X Plain(t) : t \in AddrType}}

ir_mksymbol_string(name, place) == Address("ADDR_SYMBOL_NAME", name, Strdup(place))

ir_free_address(addr) == IF addr.type \in Owning THEN {addr.own} ELSE {}

-----------------------------------------------------------------------------
(* Items.  The string of a label and the name of data lie in x's place in  *)
(* the union, the text of string data in y's.                              *)

ir_mkitem(type, x, y, z, op) == [type |-> type, x |-> x, y |-> y, z |-> z, op |-> op]

CharPointer(value, place) == Address("char*", value, Strdup(place))

ir_binop == {"IR_PLUS", "IR_MINUS", "IR_TIMES", "IR_DIV", "IR_AND", "IR_OR"}
ir_relop == {"IR_EQ", "IR_NEQ", "IR_GT", "IR_GTE", "IR_LT", "IR_LTE"}

None == ir_mkempty

(* Items with three addresses, with two, with one, and with one that is a  *)
(* copy of a name.                                                         *)
Items3(type, op) ==
  {ir_mkitem(type, x, y, z, op) :
     x \in Addresses("x"), y \in Addresses("y"), z \in Addresses("z")}
Items2(type, op) == {ir_mkitem(type, x, y, None, op) : x \in Addresses("x"), y \in Addresses("y")}
Items1(type) == {ir_mkitem(type, x, None, None, "none") : x \in Addresses("x")}
Named(type) ==
  {ir_mkitem(type, ir_mksymbol_string(name, "x"), None, None, "none") : name \in Name}

ir_mkbinop == UNION {Items3("IR_BINOP", op) : op \in ir_binop}
ir_mkunop  == Items2("IR_UNOP", "IR_NEG")
ir_mkcopy  == Items2("IR_COPY", "none")
ir_mkgoto  == Named("IR_GOTO")
ir_mkbranch ==
  {ir_mkitem("IR_BRANCH", x, y, ir_mksymbol_string(label, "z"), op) :
     op \in ir_relop, x \in Addresses("x"), y \in Addresses("y"), label \in Name}

(* Reading and writing elements of arrays; taking and following addresses. *)
Indexing   == Items3("IR_LIDX", "none") \cup Items3("IR_RIDX", "none")
Addressing ==
  UNION {Items2(type, "none") : type \in {"IR_ADDR", "IR_LDEREF", "IR_RDEREF"}}

EnterLeave  == Named("IR_ENTER") \cup Named("IR_LEAVE")
ir_mkparam  == Items1("IR_PARAM")
ir_mkcall   == Named("IR_CALL")
ir_mkcall_ptr == Items1("IR_CALL")
Returned    == Items1("IR_RET_VAL") \cup Items1("IR_RETRIEVE")

ir_mkret == ir_mkitem("IR_RET", None, None, None, "none")

ir_mklabel == {ir_mkitem("IR_LABEL", CharPointer(l, "x"), None, None, "none") : l \in Name}
ir_mkdata_raw ==
  {ir_mkitem("IR_DATA", CharPointer(n, "x"), Address("int", bytes, NoString), None, "DATA_RAW") :
     n \in Name, bytes \in Magnitude}
ir_mkdata_string ==
  {ir_mkitem("IR_DATA", CharPointer(n, "x"), CharPointer(text, "text"), None, "DATA_STRING") :
     n \in Name, text \in Name}

(* Mutant: the name of data is left to the addresses' branch.              *)
ir_free_item_default(item) ==
  IF item.type = "IR_LABEL" THEN {item.x.own}
  ELSE UNION {ir_free_address(a) : a \in {item.x, item.y, item.z}}

ir_free_item(item) ==
  IF item.type \in {"IR_LABEL", "IR_DATA"} THEN {item.x.own}
  ELSE UNION {ir_free_address(a) : a \in {item.x, item.y, item.z}}

-----------------------------------------------------------------------------
(* The list                                                                *)

(* What the item's pointers point to.                                      *)
Strings(item) == {a.own : a \in {item.x, item.y, item.z}} \ {NoString}

ir_append_item(items) ==
  /\ ~freeing /\ made < MaxItems
  /\ \E item \in items :
       codes' = Append(codes, item) /\ heap' = heap \cup Strings(item)
  /\ made' = made + 1
  /\ UNCHANGED freeing

AppendData == ir_append_item(ir_mkdata_raw) \/ ir_append_item(ir_mkdata_string)
AppendCode ==
  \/ ir_append_item(ir_mkbinop) \/ ir_append_item(ir_mkunop) \/ ir_append_item(ir_mkcopy)
  \/ ir_append_item(ir_mkgoto) \/ ir_append_item(ir_mkbranch) \/ ir_append_item(Indexing)
  \/ ir_append_item(Addressing) \/ ir_append_item(EnterLeave) \/ ir_append_item(ir_mkparam)
  \/ ir_append_item(ir_mkcall) \/ ir_append_item(ir_mkcall_ptr) \/ ir_append_item({ir_mkret})
  \/ ir_append_item(Returned) \/ ir_append_item(ir_mklabel)

(* One turn of its loop.                                                   *)
ir_free_list ==
  /\ codes # << >>
  /\ freeing' = TRUE
  /\ heap' = heap \ ir_free_item(Head(codes))
  /\ codes' = Tail(codes)
  /\ UNCHANGED made

Ended == freeing /\ codes = << >> /\ UNCHANGED vars

Next == AppendData \/ AppendCode \/ ir_free_list \/ Ended

Spec == Init /\ [][Next]_vars

-----------------------------------------------------------------------------
(* Printing.  A line is the sequence of the texts put into the buffer, a   *)
(* number's sign and digits apart.  No text here has a character to escape.*)

ir_print_address(addr) ==
  IF addr.type \in {"ADDR_IMM_INT", "ADDR_IMM_CHAR"} /\ addr.value < 0
  THEN <<"-", ToString(-addr.value)>> ELSE <<ToString(addr.value)>>

print_binop(op) ==
  CASE op = "IR_PLUS" -> "+" [] op = "IR_MINUS" -> "-" [] op = "IR_TIMES" -> "*"
    [] op = "IR_DIV"  -> "/" [] op = "IR_AND"   -> "&" [] op = "IR_OR"    -> "|"
print_unop(op) == "-"
print_relop(op) ==
  CASE op = "IR_EQ"  -> "="  [] op = "IR_NEQ" -> "=/=" [] op = "IR_GT"  -> ">"
    [] op = "IR_GTE" -> ">=" [] op = "IR_LT"  -> "<"   [] op = "IR_LTE" -> "<="

(* Mutant: an item that reads from an array prints as one that writes.     *)
print_ridx_code_left(x, y, z) == x \o <<"[">> \o y \o <<"]", ":=">> \o z

print_ridx_code(x, y, z) == x \o <<":=">> \o y \o <<"[">> \o z \o <<"]">>

Line(item) ==
  LET x == ir_print_address(item.x)
      y == ir_print_address(item.y)
      z == ir_print_address(item.z)
      t == item.type
  IN CASE t = "IR_DATA" ->
            x \o <<IF item.op = "DATA_RAW" THEN ".space" ELSE ".ascii">> \o y
       [] t = "IR_BINOP"    -> x \o <<":=">> \o y \o <<print_binop(item.op), " ">> \o z
       [] t = "IR_UNOP"     -> x \o <<":=", print_unop(item.op)>> \o y
       [] t = "IR_COPY"     -> x \o <<":=">> \o y
       [] t = "IR_GOTO"     -> <<"jump">> \o x
       [] t = "IR_BRANCH"   ->
            <<"if">> \o x \o <<print_relop(item.op)>> \o y \o <<"goto">> \o z
       [] t = "IR_LABEL"    -> x \o <<":">>
       [] t = "IR_LIDX"     -> x \o <<"[">> \o y \o <<"]", ":=">> \o z
       [] t = "IR_RIDX"     -> print_ridx_code(x, y, z)
       [] t = "IR_ADDR"     -> x \o <<":=", "&">> \o y
       [] t = "IR_LDEREF"   -> <<"*">> \o x \o <<":=">> \o y
       [] t = "IR_RDEREF"   -> x \o <<":=", "*">> \o y
       [] t = "IR_ENTER"    -> <<"enter">> \o x
       [] t \in {"IR_LEAVE", "IR_CALL"} -> <<"leave">> \o x
       [] t = "IR_PARAM"    -> <<"param">> \o x
       [] t = "IR_RET"      -> << >>       \* "ret" is returned, not written
       [] t = "IR_RET_VAL"  -> <<"ret">> \o x
       [] t = "IR_RETRIEVE" -> <<"retrieve">> \o x

-----------------------------------------------------------------------------
(* Properties                                                              *)

(* What freeing the rest of the list will free is allocated, and no two    *)
(* items, and no two addresses of one, share it.                           *)
FreesOnce ==
  LET freed(k) == ir_free_item(codes[k])
  IN  \A k \in DOMAIN codes :
        /\ freed(k) \subseteq heap
        /\ \A m \in DOMAIN codes : k # m => freed(k) \cap freed(m) = {}
        /\ \A a, b \in {"x", "y", "z"} :
             a # b /\ codes[k][a].own = codes[k][b].own => codes[k][a].own = NoString

(* Of the items freed no string stays behind but the text of string data,  *)
(* which ir_free_item forgets.                                             *)
OnlyTextsLeak ==
  \A s \in heap \ UNION {Strings(codes[k]) : k \in DOMAIN codes} : s[2] = "text"

(* ir.c's constructors put the same shapes into very different items; a    *)
(* line of the listing tells which it was: its operation, its operator     *)
(* and the texts of its addresses.  Left out are calls, which print as     *)
(* leaves, returns, which write nothing, and negations, which may print as *)
(* copies of negative numbers.                                             *)
Shown(item) ==
  <<item.type, item.op, ir_print_address(item.x), ir_print_address(item.y),
    ir_print_address(item.z)>>
LinesTellItems ==
  \A k, m \in DOMAIN codes :
    /\ Line(codes[k]) = Line(codes[m])
    /\ {codes[k].type, codes[m].type} \cap {"IR_CALL", "IR_RET", "IR_UNOP"} = {}
    => Shown(codes[k]) = Shown(codes[m])
=============================================================================
