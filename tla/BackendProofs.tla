---------------------------- MODULE BackendProofs ----------------------------
(***************************************************************************)
(* Proofs about Backend, and the items it translates, for all names,       *)
(* numbers, registers and bounds: who owns which string, and that the      *)
(* lines follow the instructions; and about Escape, with which ir.c shows  *)
(* the strings of those items, for every text.                             *)
(***************************************************************************)
EXTENDS Backend, Escape, Induction, SequenceTheorems

-----------------------------------------------------------------------------
(* The inductive invariant                                                 *)

(* Each type of items has its own way to keep its strings.                 *)
Special == {"IR_LABEL", "IR_DATA"}
ItemType == Special \cup {"IR_GOTO", "IR_ENTER"} \cup Unwritten

Operator == ir_binop \cup ir_relop \cup {"IR_NEG", "DATA_RAW", "DATA_STRING", "none"}
AddressType ==
  {"ADDR_EMPTY", "ADDR_SYMBOL", "ADDR_SYMBOL_NAME", "ADDR_IMM_INT", "ADDR_IMM_CHAR",
   "ADDR_IMM_STRING", "char*", "int"}

Value == Name \cup Int \cup {""}
Place == {"x", "y", "z", "text", "none"}
AnyAddress == [type : AddressType, value : Value, own : Nat \X Place]
AnyItem ==
  [type : ItemType, x : AnyAddress, y : AnyAddress, z : AnyAddress, op : Operator]

(* The strings of the n-th item made are its own, one for each place, and  *)
(* ir_free_item knows them by the types of the addresses, except in labels *)
(* and data.                                                               *)
Keeps(addr, n, place) == addr.own = IF addr.type \in Owning THEN <<n, place>> ELSE NoString
WellMade(item, n) ==
  IF item.type \in Special
    THEN /\ item.x.own = <<n, "x">> /\ item.y.own \in {NoString, <<n, "text">>}
         /\ item.z.own = NoString
    ELSE Keeps(item.x, n, "x") /\ Keeps(item.y, n, "y") /\ Keeps(item.z, n, "z")

(* The list holds the items made last: the k-th of it is the NumberOf(k)th.*)
NumberOf(k) == made - Len(codes) + k

ItemsInv ==
  /\ made \in Nat /\ codes \in Seq(AnyItem) /\ Len(codes) <= made
  /\ freeing \in BOOLEAN /\ (~freeing => Len(codes) = made)
  /\ \A k \in 1 .. Len(codes) : WellMade(codes[k], NumberOf(k))
  /\ heap \subseteq Nat \X {"x", "y", "z", "text"}
  /\ \A k \in 1 .. Len(codes) : Strings(codes[k]) \subseteq heap
  /\ \A s \in heap :
       s[2] = "text" \/ \E k \in 1 .. Len(codes) : s \in Strings(codes[k])

-----------------------------------------------------------------------------
(* What the constructors make                                              *)

Made(items) == \A item \in items : item \in AnyItem /\ WellMade(item, made + 1)

LEMMA AddressesKeep ==
  ASSUME made \in Nat, NEW place \in Place, NEW a \in Addresses(place)
  PROVE  a \in AnyAddress /\ Keeps(a, made + 1, place)
<1>1a. PICK t \in AddrType : \E v \in Plain(t) :
         a = Address(t, v, IF t \in Owning THEN Strdup(place) ELSE NoString)
  BY DEF Addresses
<1>1. PICK v \in Plain(t) : a = Address(t, v, IF t \in Owning THEN Strdup(place) ELSE NoString)
  BY <1>1a
<1>2. t \in AddressType /\ v \in Value
  BY <1>1, ClientAssumption DEF AddressType, Plain, Number, Value
<1>3. Strdup(place) = <<made + 1, place>> /\ <<made + 1, place>> \in Nat \X Place
  BY DEF Strdup
<1>4. NoString \in Nat \X Place
  BY DEF NoString, Place
<1> QED
  BY <1>1, <1>2, <1>3, <1>4 DEF Address, AddressType, Place, AnyAddress, Keeps

LEMMA NoAddressKeeps ==
  ASSUME NEW n, NEW place
  PROVE  None \in AnyAddress /\ Keeps(None, n, place)
  BY DEF None, ir_mkempty, Address, AddressType, Place, AnyAddress, Value, NoString, Keeps, Owning

LEMMA SymbolStringKeeps ==
  ASSUME made \in Nat, NEW place \in Place, NEW name \in Name
  PROVE  /\ ir_mksymbol_string(name, place) \in AnyAddress
         /\ Keeps(ir_mksymbol_string(name, place), made + 1, place)
<1>1. <<made + 1, place>> \in Nat \X Place
  OBVIOUS
<1> QED
  BY <1>1 DEF ir_mksymbol_string, Strdup, Address, AddressType, Place, AnyAddress, Value, Keeps, Owning

LEMMA PlainItem ==
  ASSUME NEW type \in ItemType \ Special, NEW op \in Operator,
         NEW x \in AnyAddress, NEW y \in AnyAddress, NEW z \in AnyAddress,
         NEW n, Keeps(x, n, "x"), Keeps(y, n, "y"), Keeps(z, n, "z")
  PROVE  ir_mkitem(type, x, y, z, op) \in AnyItem /\ WellMade(ir_mkitem(type, x, y, z, op), n)
  BY DEF ir_mkitem, AnyItem, WellMade

LEMMA PlainItems ==
  ASSUME made \in Nat, NEW type \in ItemType \ Special
  PROVE  /\ \A op \in Operator : Made(Items3(type, op)) /\ Made(Items2(type, op))
         /\ Made(Items1(type)) /\ Made(Named(type))
<1>0. "x" \in Place /\ "y" \in Place /\ "z" \in Place /\ "none" \in Operator
  BY DEF Place, Operator
<1>1. \A op \in Operator : Made(Items3(type, op))
  BY <1>0, AddressesKeep, PlainItem DEF Items3, Made
<1>2. \A op \in Operator : Made(Items2(type, op))
  BY <1>0, AddressesKeep, NoAddressKeeps, PlainItem DEF Items2, Made
<1>3. Made(Items1(type))
  BY <1>0, AddressesKeep, NoAddressKeeps, PlainItem DEF Items1, Made
<1>4. Made(Named(type))
  BY <1>0, SymbolStringKeeps, NoAddressKeeps, PlainItem DEF Named, Made
<1> QED
  BY <1>1, <1>2, <1>3, <1>4

LEMMA CodeIsMade ==
  ASSUME made \in Nat
  PROVE  /\ Made(ir_mkbinop) /\ Made(ir_mkunop) /\ Made(ir_mkcopy) /\ Made(ir_mkgoto)
         /\ Made(ir_mkbranch) /\ Made(Indexing) /\ Made(Addressing) /\ Made(EnterLeave)
         /\ Made(ir_mkparam) /\ Made(ir_mkcall) /\ Made(ir_mkcall_ptr) /\ Made({ir_mkret})
         /\ Made(Returned)
<1>1. \A type \in {"IR_GOTO", "IR_ENTER"} \cup Unwritten : type \in ItemType \ Special
  BY DEF ItemType, Special, Unwritten
<1>2. /\ \A op \in ir_binop \cup ir_relop : op \in Operator
      /\ "none" \in Operator /\ "IR_NEG" \in Operator
      /\ "x" \in Place /\ "y" \in Place /\ "z" \in Place
  BY DEF Operator, Place
<1>3. \A A, B : Made(A) /\ Made(B) => Made(A \cup B)
  BY DEF Made
<1>4. Made(ir_mkbinop)
  <2>1. "IR_BINOP" \in ItemType \ Special
    BY <1>1 DEF Unwritten
  <2>2. \A op \in ir_binop : Made(Items3("IR_BINOP", op))
    BY <1>2, <2>1, PlainItems
  <2> QED BY <2>2 DEF ir_mkbinop, Made
<1>5. Made(ir_mkunop) /\ Made(ir_mkcopy) /\ Made(ir_mkgoto)
  <2>1. {"IR_UNOP", "IR_COPY", "IR_GOTO"} \subseteq ItemType \ Special
    BY <1>1 DEF Unwritten
  <2> QED BY <1>2, <2>1, PlainItems DEF ir_mkunop, ir_mkcopy, ir_mkgoto
<1>6. Made(ir_mkbranch)
  <2> SUFFICES ASSUME NEW op \in ir_relop, NEW x \in Addresses("x"), NEW y \in Addresses("y"),
                      NEW label \in Name,
                      NEW item, item = ir_mkitem("IR_BRANCH", x, y, ir_mksymbol_string(label, "z"), op)
               PROVE  item \in AnyItem /\ WellMade(item, made + 1)
    BY DEF ir_mkbranch, Made
  <2>1. "IR_BRANCH" \in ItemType \ Special
    BY <1>1 DEF Unwritten
  <2>2. /\ x \in AnyAddress /\ Keeps(x, made + 1, "x")
        /\ y \in AnyAddress /\ Keeps(y, made + 1, "y")
    BY <1>2, AddressesKeep
  <2>3. /\ ir_mksymbol_string(label, "z") \in AnyAddress
        /\ Keeps(ir_mksymbol_string(label, "z"), made + 1, "z")
    BY <1>2, SymbolStringKeeps
  <2> QED BY <1>2, <2>1, <2>2, <2>3, PlainItem
<1>7. Made(Indexing) /\ Made(Returned) /\ Made(EnterLeave)
  <2>1. {"IR_LIDX", "IR_RIDX", "IR_RET_VAL", "IR_RETRIEVE", "IR_ENTER", "IR_LEAVE"}
          \subseteq ItemType \ Special
    BY <1>1 DEF Unwritten
  <2>2. Made(Items3("IR_LIDX", "none")) /\ Made(Items3("IR_RIDX", "none"))
    BY <1>2, <2>1, PlainItems
  <2>3. Made(Items1("IR_RET_VAL")) /\ Made(Items1("IR_RETRIEVE"))
    BY <2>1, PlainItems
  <2>4. Made(Named("IR_ENTER")) /\ Made(Named("IR_LEAVE"))
    BY <2>1, PlainItems
  <2> QED BY <1>3, <2>2, <2>3, <2>4 DEF Indexing, Returned, EnterLeave
<1>8. Made(Addressing)
  <2>1. {"IR_ADDR", "IR_LDEREF", "IR_RDEREF"} \subseteq ItemType \ Special
    BY <1>1 DEF Unwritten
  <2>2. \A type \in {"IR_ADDR", "IR_LDEREF", "IR_RDEREF"} : Made(Items2(type, "none"))
    BY <1>2, <2>1, PlainItems
  <2> QED BY <2>2 DEF Addressing, Made
<1>9. Made(ir_mkparam) /\ Made(ir_mkcall) /\ Made(ir_mkcall_ptr)
  <2>1. {"IR_PARAM", "IR_CALL"} \subseteq ItemType \ Special
    BY <1>1 DEF Unwritten
  <2> QED BY <2>1, PlainItems DEF ir_mkparam, ir_mkcall, ir_mkcall_ptr
<1>10. Made({ir_mkret})
  <2>1. "IR_RET" \in ItemType \ Special
    BY <1>1 DEF Unwritten
  <2>2. ir_mkret \in AnyItem /\ WellMade(ir_mkret, made + 1)
    BY <1>2, <2>1, NoAddressKeeps, PlainItem DEF ir_mkret
  <2> QED BY <2>2 DEF Made
<1> QED
  BY <1>4, <1>5, <1>6, <1>7, <1>8, <1>9, <1>10

LEMMA SpecialsAreMade ==
  ASSUME made \in Nat
  PROVE  Made(ir_mklabel) /\ Made(ir_mkdata_raw) /\ Made(ir_mkdata_string)
<1>1. /\ \A v \in Name, place \in Place :
           /\ CharPointer(v, place) \in AnyAddress
           /\ CharPointer(v, place).own = <<made + 1, place>>
      /\ \A bytes \in Magnitude :
           /\ Address("int", bytes, NoString) \in AnyAddress
           /\ Address("int", bytes, NoString).own = NoString
  <2>1. ASSUME NEW v \in Name, NEW place \in Place
        PROVE  /\ CharPointer(v, place) \in AnyAddress
               /\ CharPointer(v, place).own = <<made + 1, place>>
    <3>1. <<made + 1, place>> \in Nat \X Place
      OBVIOUS
    <3>2. v \in Value /\ "char*" \in AddressType
      BY DEF Value, AddressType
    <3> QED BY <3>1, <3>2 DEF CharPointer, Strdup, Address, AnyAddress
  <2>2. ASSUME NEW bytes \in Magnitude
        PROVE  /\ Address("int", bytes, NoString) \in AnyAddress
               /\ Address("int", bytes, NoString).own = NoString
    <3>1. bytes \in Value /\ NoString \in Nat \X Place /\ "int" \in AddressType
      BY ClientAssumption DEF Value, NoString, Place, AddressType
    <3> QED BY <3>1 DEF Address, AnyAddress
  <2> QED BY <2>1, <2>2
<1>2. None \in AnyAddress /\ None.own = NoString
  BY DEF None, ir_mkempty, Address, AddressType, Place, AnyAddress, Value, NoString
<1>3. /\ "x" \in Place /\ "text" \in Place /\ "none" \in Operator
      /\ "DATA_RAW" \in Operator /\ "DATA_STRING" \in Operator
  BY DEF Place, Operator
<1>4. ASSUME NEW type \in Special, NEW op \in Operator,
             NEW x \in AnyAddress, NEW y \in AnyAddress,
             x.own = <<made + 1, "x">>, y.own \in {NoString, <<made + 1, "text">>}
      PROVE  /\ ir_mkitem(type, x, y, None, op) \in AnyItem
             /\ WellMade(ir_mkitem(type, x, y, None, op), made + 1)
  BY <1>2, <1>4 DEF ir_mkitem, AnyItem, ItemType, WellMade
<1>5. "IR_LABEL" \in Special /\ "IR_DATA" \in Special
  BY DEF Special
<1>6. Made(ir_mklabel)
  BY <1>1, <1>2, <1>3, <1>4, <1>5 DEF ir_mklabel, Made
<1>7. Made(ir_mkdata_raw)
  BY <1>1, <1>3, <1>4, <1>5 DEF ir_mkdata_raw, Made
<1>8. Made(ir_mkdata_string)
  <2> SUFFICES ASSUME NEW n \in Name, NEW t \in Name
               PROVE  LET item == ir_mkitem("IR_DATA", CharPointer(n, "x"),
                                            CharPointer(t, "text"), None, "DATA_STRING")
                      IN  item \in AnyItem /\ WellMade(item, made + 1)
    BY DEF ir_mkdata_string, Made
  <2> QED BY <1>1, <1>3, <1>4, <1>5
<1> QED
  BY <1>6, <1>7, <1>8

-----------------------------------------------------------------------------
(* The list of items                                                       *)

LEMMA InitItems == Init => ItemsInv
<1> SUFFICES ASSUME Init PROVE ItemsInv
  OBVIOUS
<1>1. made = 0 /\ heap = {} /\ codes = << >> /\ freeing = FALSE
  BY DEF Init
<1>2. Len(codes) = 0 /\ codes \in Seq(AnyItem) /\ \A k \in 1 .. Len(codes) : FALSE
  BY <1>1, EmptySeq
<1>3. made \in Nat /\ Len(codes) <= made /\ Len(codes) = made
  BY <1>1, <1>2
<1>4. freeing \in BOOLEAN
  BY <1>1
<1>5. heap \subseteq Nat \X {"x", "y", "z", "text"} /\ \A s \in heap : FALSE
  BY <1>1
<1> QED
  BY <1>2, <1>3, <1>4, <1>5 DEF ItemsInv

(* The strings of an item of the list, and those of them that are freed    *)
(* with it: all but the texts.                                             *)
LEMMA OwnStrings ==
  ASSUME NEW item \in AnyItem, NEW n \in Nat \ {0}, WellMade(item, n)
  PROVE  /\ Strings(item) \subseteq {n} \X {"x", "y", "z", "text"}
         /\ ir_free_item(item) \subseteq Strings(item)
         /\ \A s \in Strings(item) \ ir_free_item(item) : s[2] = "text"
<1>1. \A place \in Place : <<n, place>> # NoString
  BY DEF NoString
<1>2. /\ "x" \in Place /\ "y" \in Place /\ "z" \in Place /\ "text" \in Place
      /\ <<n, "text">>[2] = "text"
  BY DEF Place
<1>3. CASE item.type \in Special
  <2>1. /\ item.x.own = <<n, "x">> /\ item.y.own \in {NoString, <<n, "text">>}
        /\ item.z.own = NoString
    BY <1>3 DEF WellMade
  <2>2. ir_free_item(item) = {<<n, "x">>}
    BY <1>3, <2>1 DEF ir_free_item, Special
  <2>3. /\ Strings(item) \subseteq {<<n, "x">>, <<n, "text">>}
        /\ <<n, "x">> \in Strings(item)
    BY <1>1, <1>2, <2>1 DEF Strings
  <2> QED BY <1>2, <2>2, <2>3
<1>4. CASE item.type \notin Special
  <2>1. Keeps(item.x, n, "x") /\ Keeps(item.y, n, "y") /\ Keeps(item.z, n, "z")
    BY <1>4 DEF WellMade
  <2>2. ir_free_item(item) =
          ir_free_address(item.x) \cup ir_free_address(item.y) \cup ir_free_address(item.z)
    BY <1>4 DEF ir_free_item, Special
  <2>3. /\ ir_free_address(item.x) = {item.x.own} \ {NoString}
        /\ ir_free_address(item.y) = {item.y.own} \ {NoString}
        /\ ir_free_address(item.z) = {item.z.own} \ {NoString}
    BY <1>1, <1>2, <2>1 DEF ir_free_address, Keeps
  <2>4. ir_free_item(item) = Strings(item)
    BY <2>2, <2>3 DEF Strings
  <2>5. Strings(item) \subseteq {<<n, "x">>, <<n, "y">>, <<n, "z">>}
    BY <2>1 DEF Strings, Keeps
  <2> QED BY <2>4, <2>5
<1> QED
  BY <1>3, <1>4

LEMMA NumbersOfItems ==
  ASSUME ItemsInv
  PROVE  /\ \A k \in 1 .. Len(codes) : NumberOf(k) \in Nat \ {0} /\ codes[k] \in AnyItem
         /\ \A j, k \in 1 .. Len(codes) : NumberOf(j) = NumberOf(k) => j = k
         /\ Len(codes) \in Nat /\ DOMAIN codes = 1 .. Len(codes)
<1>1. /\ Len(codes) \in Nat /\ DOMAIN codes = 1 .. Len(codes) /\ made \in Nat
      /\ Len(codes) <= made /\ codes \in Seq(AnyItem)
  BY LenProperties DEF ItemsInv
<1>2. \A k \in 1 .. Len(codes) : codes[k] \in AnyItem
  BY <1>1, ElementOfSeq
<1> DEFINE n == Len(codes)
<1>0. n \in Nat /\ made \in Nat /\ n <= made
  BY <1>1
<1> HIDE DEF n
<1>3. \A k \in 1 .. n : made - n + k \in Nat \ {0}
  BY <1>0
<1>4. \A j, k \in 1 .. n : made - n + j = made - n + k => j = k
  BY <1>0
<1> QED
  BY <1>1, <1>2, <1>3, <1>4 DEF NumberOf, n

LEMMA AppendItemStep ==
  ASSUME ItemsInv, NEW items, Made(items), ir_append_item(items)
  PROVE  ItemsInv'
<1>1. PICK item \in items : codes' = Append(codes, item) /\ heap' = heap \cup Strings(item)
  BY DEF ir_append_item
<1>2. made' = made + 1 /\ freeing' = freeing /\ made \in Nat /\ ~freeing
  BY DEF ir_append_item, ItemsInv
<1>0. PICK n : n = Len(codes)
  OBVIOUS
<1>3. /\ codes \in Seq(AnyItem) /\ n \in Nat /\ n <= made /\ freeing \in BOOLEAN
      /\ (~freeing => n = made)
      /\ heap \subseteq Nat \X {"x", "y", "z", "text"}
      /\ \A k \in 1 .. n : WellMade(codes[k], NumberOf(k))
      /\ \A k \in 1 .. n : Strings(codes[k]) \subseteq heap
      /\ \A s \in heap : s[2] = "text" \/ \E k \in 1 .. n : s \in Strings(codes[k])
  BY <1>0, NumbersOfItems DEF ItemsInv
<1>4. item \in AnyItem /\ WellMade(item, made + 1)
  BY DEF Made
<1>5. /\ codes' \in Seq(AnyItem) /\ Len(codes') = n + 1 /\ codes'[n + 1] = item
      /\ \A k \in 1 .. n : codes'[k] = codes[k]
  BY <1>0, <1>1, <1>3, <1>4, AppendProperties
<1>6. Strings(item) \subseteq {made + 1} \X {"x", "y", "z", "text"}
  BY <1>2, <1>4, OwnStrings
<1>7. \A k \in 1 .. n + 1 : k = n + 1 \/ k \in 1 .. n
  BY <1>3
<1>8. /\ \A k \in 1 .. n : NumberOf(k)' = NumberOf(k)
      /\ NumberOf(n + 1)' = made + 1
  <2>1. \A k \in Nat : made + 1 - (n + 1) + k = made - n + k
    BY <1>2, <1>3
  <2>2. made + 1 - (n + 1) + (n + 1) = made + 1
    BY <1>2, <1>3
  <2>3. \A k \in Nat : NumberOf(k)' = made + 1 - (n + 1) + k
    BY <1>2, <1>5 DEF NumberOf
  <2>4. \A k \in Nat : NumberOf(k) = made - n + k
    BY <1>0 DEF NumberOf
  <2>5. n + 1 \in Nat /\ \A k \in 1 .. n : k \in Nat
    BY <1>3
  <2> QED BY <2>1, <2>2, <2>3, <2>4, <2>5
<1>9. \A k \in 1 .. n + 1 : WellMade(codes'[k], NumberOf(k)')
  <2> SUFFICES ASSUME NEW k \in 1 .. n + 1
               PROVE  WellMade(codes'[k], NumberOf(k)')
    OBVIOUS
  <2>1. CASE k = n + 1
    <3>1. codes'[k] = item /\ NumberOf(k)' = made + 1
      BY <1>5, <1>8, <2>1
    <3> QED BY <1>4, <3>1
  <2>2. CASE k \in 1 .. n
    BY <1>3, <1>5, <1>8, <2>2
  <2> QED BY <1>7, <2>1, <2>2
<1>10. \A k \in 1 .. n + 1 : Strings(codes'[k]) \subseteq heap'
  BY <1>1, <1>3, <1>5, <1>7
<1>11. \A s \in heap' : s[2] = "text" \/ \E k \in 1 .. n + 1 : s \in Strings(codes'[k])
  <2>1. \A k \in 1 .. n : k \in 1 .. n + 1
    BY <1>3
  <2>2. n + 1 \in 1 .. n + 1
    BY <1>3
  <2> QED BY <1>1, <1>3, <1>5, <2>1, <2>2
<1>12. heap' \subseteq Nat \X {"x", "y", "z", "text"}
  BY <1>1, <1>2, <1>3, <1>6
<1>13. /\ made' \in Nat /\ Len(codes') <= made' /\ freeing' \in BOOLEAN
       /\ (~freeing' => Len(codes') = made')
  BY <1>2, <1>3, <1>5
<1>14. \A k \in 1 .. n + 1 : Strings(codes[k])' = Strings(codes'[k])
  BY DEF Strings
<1> QED
  BY <1>5, <1>9, <1>10, <1>11, <1>12, <1>13 DEF ItemsInv, WellMade, Strings, NumberOf

LEMMA FreeListStep ==
  ASSUME ItemsInv, ir_free_list
  PROVE  ItemsInv'
<1> DEFINE n == Len(codes)
           item == Head(codes)
<1>1. /\ codes # << >> /\ freeing' = TRUE /\ heap' = heap \ ir_free_item(item)
      /\ codes' = Tail(codes) /\ made' = made
  BY DEF ir_free_list
<1>2. /\ codes \in Seq(AnyItem) /\ n \in Nat /\ n <= made /\ made \in Nat
      /\ heap \subseteq Nat \X {"x", "y", "z", "text"}
      /\ \A k \in 1 .. n : WellMade(codes[k], NumberOf(k)) /\ Strings(codes[k]) \subseteq heap
      /\ \A s \in heap : s[2] = "text" \/ \E k \in 1 .. n : s \in Strings(codes[k])
      /\ \A k \in 1 .. n : NumberOf(k) \in Nat \ {0} /\ codes[k] \in AnyItem
      /\ \A j, k \in 1 .. n : NumberOf(j) = NumberOf(k) => j = k
  BY NumbersOfItems DEF ItemsInv
<1>3. /\ codes' \in Seq(AnyItem) /\ Len(codes') = n - 1 /\ n # 0 /\ item = codes[1]
      /\ \A k \in 1 .. n - 1 : codes'[k] = codes[k + 1]
  BY <1>1, <1>2, HeadTailProperties, EmptySeq
<1> HIDE DEF item
<1>4. \A k \in 1 .. n - 1 : k + 1 \in 1 .. n /\ k + 1 # 1
  BY <1>2
<1>5. 1 \in 1 .. n
  BY <1>2, <1>3
<1>6. \A k \in 1 .. n - 1 : NumberOf(k)' = NumberOf(k + 1)
  <2>1. \A k \in Nat : made - (n - 1) + k = made - n + (k + 1)
    <3> HIDE DEF n
    <3> QED BY <1>2
  <2>2. \A k \in Nat : NumberOf(k)' = made - (n - 1) + k
    BY <1>1, <1>3 DEF NumberOf
  <2>3. \A k \in Nat : NumberOf(k + 1) = made - n + (k + 1)
    BY DEF NumberOf
  <2>4. \A k \in 1 .. n - 1 : k \in Nat
    OBVIOUS
  <2> HIDE DEF n
  <2> QED BY <2>1, <2>2, <2>3, <2>4
<1> HIDE DEF n
<1>7. \A k \in 1 .. n :
        /\ Strings(codes[k]) \subseteq {NumberOf(k)} \X {"x", "y", "z", "text"}
        /\ ir_free_item(codes[k]) \subseteq Strings(codes[k])
        /\ \A s \in Strings(codes[k]) \ ir_free_item(codes[k]) : s[2] = "text"
  BY <1>2, OwnStrings
<1>8. \A k \in 1 .. n - 1 : Strings(codes'[k]) \subseteq heap'
  <2> SUFFICES ASSUME NEW k \in 1 .. n - 1, NEW s \in Strings(codes[k + 1])
               PROVE  s \in heap'
    BY <1>3
  <2>1. s \in heap /\ s \in {NumberOf(k + 1)} \X {"x", "y", "z", "text"}
    BY <1>2, <1>4, <1>7
  <2>2. NumberOf(k + 1) # NumberOf(1)
    BY <1>2, <1>4, <1>5
  <2>3. s \notin ir_free_item(item)
    BY <1>3, <1>5, <1>7, <2>1, <2>2
  <2> QED BY <1>1, <2>1, <2>3
<1>9. \A s \in heap' : s[2] = "text" \/ \E k \in 1 .. n - 1 : s \in Strings(codes'[k])
  <2> SUFFICES ASSUME NEW s \in heap', s[2] # "text"
               PROVE  \E k \in 1 .. n - 1 : s \in Strings(codes'[k])
    OBVIOUS
  <2>1. s \in heap /\ s \notin ir_free_item(item)
    BY <1>1
  <2>2. PICK k \in 1 .. n : s \in Strings(codes[k])
    BY <1>2, <2>1
  <2>3. k # 1
    BY <1>3, <1>7, <2>1, <2>2
  <2>4. k - 1 \in 1 .. n - 1 /\ k - 1 + 1 = k
    BY <1>2, <2>3
  <2>5. codes'[k - 1] = codes[k]
    BY <1>3, <2>4
  <2> QED BY <2>2, <2>4, <2>5
<1>10. \A k \in 1 .. n - 1 : WellMade(codes'[k], NumberOf(k)')
  BY <1>2, <1>3, <1>4, <1>6
<1>11. heap' \subseteq Nat \X {"x", "y", "z", "text"} /\ made' \in Nat /\ Len(codes') <= made'
  BY <1>1, <1>2, <1>3
<1> QED
  BY <1>1, <1>3, <1>8, <1>9, <1>10, <1>11 DEF ItemsInv, WellMade, Strings, NumberOf

LEMMA ItemsStep == ItemsInv /\ [Next]_vars => ItemsInv'
<1> SUFFICES ASSUME ItemsInv, [Next]_vars PROVE ItemsInv'
  OBVIOUS
<1>1. made \in Nat
  BY DEF ItemsInv
<1>2. CASE AppendData
  BY <1>1, <1>2, SpecialsAreMade, AppendItemStep DEF AppendData
<1>3. CASE AppendCode
  BY <1>1, <1>3, CodeIsMade, SpecialsAreMade, AppendItemStep DEF AppendCode
<1>4. CASE ir_free_list
  BY <1>4, FreeListStep
<1>5. CASE Ended \/ UNCHANGED vars
  BY <1>5 DEF Ended, vars, ItemsInv, WellMade, Strings, NumberOf
<1> QED
  BY <1>2, <1>3, <1>4, <1>5 DEF Next

LEMMA ItemsFreeOnce == ItemsInv => FreesOnce
<1> SUFFICES ASSUME ItemsInv PROVE FreesOnce
  OBVIOUS
<1>1. /\ \A k \in 1 .. Len(codes) :
           /\ NumberOf(k) \in Nat \ {0} /\ codes[k] \in AnyItem
           /\ WellMade(codes[k], NumberOf(k)) /\ Strings(codes[k]) \subseteq heap
      /\ \A j, k \in 1 .. Len(codes) : NumberOf(j) = NumberOf(k) => j = k
      /\ DOMAIN codes = 1 .. Len(codes)
  BY NumbersOfItems DEF ItemsInv
<1>2. \A k \in 1 .. Len(codes) :
        /\ Strings(codes[k]) \subseteq {NumberOf(k)} \X {"x", "y", "z", "text"}
        /\ ir_free_item(codes[k]) \subseteq Strings(codes[k])
  BY <1>1, OwnStrings
<1>3. ASSUME NEW k \in DOMAIN codes, NEW m \in DOMAIN codes, k # m
      PROVE  ir_free_item(codes[k]) \cap ir_free_item(codes[m]) = {}
  <2>1. NumberOf(k) # NumberOf(m)
    BY <1>1, <1>3
  <2> QED BY <1>1, <1>2, <2>1
<1>4. ASSUME NEW k \in DOMAIN codes, NEW a \in {"x", "y", "z"}, NEW b \in {"x", "y", "z"},
             a # b, codes[k][a].own = codes[k][b].own
      PROVE  codes[k][a].own = NoString
  <2> DEFINE item == codes[k]
             n == NumberOf(k)
  <2>1. WellMade(item, n)
    BY <1>1
  <2> HIDE DEF item, n
  <2>2. /\ item.x.own \in {NoString, <<n, "x">>}
        /\ item.y.own \in {NoString, <<n, "y">>, <<n, "text">>}
        /\ item.z.own \in {NoString, <<n, "z">>}
    BY <2>1 DEF WellMade, Keeps
  <2>3. item[a].own = item[b].own
    BY <1>4 DEF item
  <2>4. item[a].own = NoString
    BY <1>4, <2>2, <2>3
  <2> QED BY <2>4 DEF item
<1> QED
  BY <1>1, <1>2, <1>3, <1>4 DEF FreesOnce

LEMMA ItemsLeakTexts == ItemsInv => OnlyTextsLeak
<1> SUFFICES ASSUME ItemsInv PROVE OnlyTextsLeak
  OBVIOUS
<1>1. DOMAIN codes = 1 .. Len(codes)
  BY NumbersOfItems
<1> QED
  BY <1>1 DEF ItemsInv, OnlyTextsLeak

-----------------------------------------------------------------------------
(* Instructions and their lines                                            *)

(* An operand's string, if any, is the instruction's: the k-th of the list *)
(* has the string <<k, "mips">>.                                           *)
OperandType == {"MIPS_OPERAND_NONE", "MIPS_REG", "MIPS_OFFSET", "MIPS_IMM_32", "MIPS_SYMBOL"}
AnyOperand == [type : OperandType, value : Value, own : Nat \X {"none", "mips"}]
AnyOpcode == ThreeOperands \cup TwoOperands \cup InMemory \cup OneOperand
AnyInstr ==
  [opcode : AnyOpcode,
   x : AnyOperand, y : AnyOperand, z : AnyOperand]

InstrsInv ==
  /\ mips \in Seq(AnyInstr)
  /\ \A k \in 1 .. Len(mips) : Owned(mips[k]) \subseteq {<<k, "mips">>}
  /\ names = UNION {Owned(mips[k]) : k \in 1 .. Len(mips)}

(* The nodes hold the lines of the instructions written so far, each node  *)
(* but the last with the next as its successor.                            *)
LinesInv ==
  /\ phase \in {"idle", "writing", "returned", "crashed"}
  /\ mp \in Nat /\ mp <= Len(mips)
  /\ phase = "idle" => mp = 0 /\ nodes = << >> /\ lines = NULL /\ end = NULL
  /\ phase = "writing" =>
       /\ nodes = [k \in 1 .. mp |-> [line |-> MIPS_write_instr(mips[k]),
                                      next |-> IF k = mp THEN NULL ELSE k + 1]]
       /\ lines = IF mp = 0 THEN NULL ELSE 1
       /\ end = mp
  /\ phase = "returned" => mips = << >> /\ mp = 0

IInv == ItemsInv /\ InstrsInv /\ LinesInv /\ output \in Nat

-----------------------------------------------------------------------------
(* Making instructions                                                     *)

Unowned(o) == o \in AnyOperand /\ o.own = NoString
Owns(o, s) == o \in AnyOperand /\ o.own \in {NoString, s}

LEMMA Operands ==
  /\ \A v \in Int :
       Unowned(MIPS_mkreg(v)) /\ Unowned(MIPS_mkoffset(v)) /\ Unowned(MIPS_mkimm32(v))
  /\ Unowned(empty_operand)
<1>1. NoString \in Nat \X {"none", "mips"}
  BY DEF NoString
<1>2. /\ \A v \in Int : v \in Value
      /\ "" \in Value
      /\ \A t \in {"MIPS_OPERAND_NONE", "MIPS_REG", "MIPS_OFFSET", "MIPS_IMM_32"} : t \in OperandType
  BY DEF Value, OperandType
<1> HIDE DEF NoString
<1> QED
  BY <1>1, <1>2
  DEF Unowned, MIPS_mkreg, MIPS_mkoffset, MIPS_mkimm32, empty_operand, Operand, AnyOperand

LEMMA SymbolOperand ==
  ASSUME NEW v \in Value, Len(mips) \in Nat
  PROVE  Owns(MIPS_mksymbol(v), <<Len(mips) + 1, "mips">>)
<1>1. <<Len(mips) + 1, "mips">> \in Nat \X {"none", "mips"}
  OBVIOUS
<1> QED
  BY <1>1 DEF Owns, MIPS_mksymbol, Operand, AnyOperand, OperandType

(* What an instruction owns, from what its operands do.                    *)
LEMMA InstrOwns ==
  ASSUME NEW op \in AnyOpcode, NEW x, NEW y, NEW z, NEW s,
         Owns(x, s), Unowned(y), Unowned(z), NEW instr, instr = MIPS_mk3(op, x, y, z)
  PROVE  instr \in AnyInstr /\ Owned(instr) \subseteq {s}
  BY DEF Unowned, Owns, MIPS_mk3, AnyInstr, Owned

LEMMA Fewer ==
  ASSUME NEW op, NEW x, NEW y
  PROVE  /\ MIPS_mk1(op, x) = MIPS_mk3(op, x, empty_operand, empty_operand)
         /\ MIPS_mk2(op, x, y) = MIPS_mk3(op, x, y, empty_operand)
  BY DEF MIPS_mk1, MIPS_mk2, MIPS_mk3

LEMMA ClientMakes ==
  ASSUME Len(mips) \in Nat, NEW instr \in ClientInstr
  PROVE  instr \in AnyInstr /\ Owned(instr) \subseteq {<<Len(mips) + 1, "mips">>}
<1> DEFINE s == <<Len(mips) + 1, "mips">>
           reg == {MIPS_mkreg(r) : r \in Register}
           imm == {MIPS_mkimm32(n) : n \in Number}
           offset == {MIPS_mkoffset(n) : n \in Number}
<1>1. \A r \in Register : r \in Int
  BY BackendAssumption
<1>2. \A n \in Number : n \in Int
  BY ClientAssumption DEF Number
<1>3. \A o \in reg \cup imm \cup offset \cup {empty_operand} : Unowned(o) /\ Owns(o, s)
  BY <1>1, <1>2, Operands DEF Unowned, Owns
<1>4. \A n \in Name : Owns(MIPS_mksymbol(n), s)
  BY SymbolOperand DEF Value
<1> HIDE DEF s, reg, imm, offset
<1>0. /\ ThreeOperands \subseteq AnyOpcode /\ InMemory \subseteq AnyOpcode
      /\ TwoOperands \subseteq AnyOpcode /\ OneOperand \subseteq AnyOpcode
  BY DEF AnyOpcode
<1>5. \/ \E op \in OneOperand, x \in reg : instr = MIPS_mk1(op, x)
      \/ \E op \in OneOperand, n \in Name : instr = MIPS_mk1(op, MIPS_mksymbol(n))
      \/ \E op \in TwoOperands, x \in reg, y \in reg \cup imm : instr = MIPS_mk2(op, x, y)
      \/ \E op \in ThreeOperands \cup InMemory, x \in reg, y \in reg, z \in reg \cup imm \cup offset :
           instr = MIPS_mk3(op, x, y, z)
  <2>1. "MIPS_jal" \in OneOperand /\ "MIPS_b" \in OneOperand /\ {"MIPS_mult", "MIPS_div", "MIPS_li"} \subseteq TwoOperands
    BY DEF OneOperand, TwoOperands
  <2>2. instr \in {MIPS_mk1(op, x) : op \in (Opcode \cap OneOperand) \ {"MIPS_jal", "MIPS_b"}, x \in reg}
          \cup {MIPS_mk1(op, MIPS_mksymbol(n)) : op \in Opcode \cap {"MIPS_jal", "MIPS_b"}, n \in Name}
          \cup {MIPS_mk2(op, x, y) : op \in Opcode \cap {"MIPS_mult", "MIPS_div"}, x \in reg, y \in reg}
          \cup {MIPS_mk2(op, x, y) : op \in Opcode \cap {"MIPS_li"}, x \in reg, y \in imm}
          \cup {MIPS_mk3(op, x, y, z) :
                  op \in Opcode \cap InMemory, x \in reg, y \in reg, z \in offset}
          \cup {MIPS_mk3(op, x, y, z) :
                  op \in Opcode \cap ThreeOperands, x \in reg, y \in reg, z \in reg \cup imm}
    BY DEF ClientInstr, reg, imm, offset
  <2> QED BY <2>1, <2>2
<1>6. ASSUME NEW op \in OneOperand, NEW x \in reg, instr = MIPS_mk1(op, x)
      PROVE  instr \in AnyInstr /\ Owned(instr) \subseteq {s}
  <2>1. instr = MIPS_mk3(op, x, empty_operand, empty_operand)
    BY <1>6, Fewer
  <2>2. /\ op \in AnyOpcode /\ Owns(x, s)
        /\ Unowned(empty_operand)
    BY <1>0, <1>3
  <2> QED BY <2>1, <2>2, InstrOwns
<1>7. ASSUME NEW op \in OneOperand, NEW n \in Name, instr = MIPS_mk1(op, MIPS_mksymbol(n))
      PROVE  instr \in AnyInstr /\ Owned(instr) \subseteq {s}
  <2>1. instr = MIPS_mk3(op, MIPS_mksymbol(n), empty_operand, empty_operand)
    BY <1>7, Fewer
  <2> DEFINE x == MIPS_mksymbol(n)
  <2>2. /\ op \in AnyOpcode /\ Owns(x, s)
        /\ Unowned(empty_operand)
    BY <1>0, <1>3, <1>4
  <2> HIDE DEF x
  <2> QED BY <2>1, <2>2, InstrOwns DEF x
<1>8. ASSUME NEW op \in TwoOperands, NEW x \in reg, NEW y \in reg \cup imm,
             instr = MIPS_mk2(op, x, y)
      PROVE  instr \in AnyInstr /\ Owned(instr) \subseteq {s}
  <2>1. instr = MIPS_mk3(op, x, y, empty_operand)
    BY <1>8, Fewer
  <2>2. /\ op \in AnyOpcode /\ Owns(x, s)
        /\ Unowned(y) /\ Unowned(empty_operand)
    BY <1>0, <1>3
  <2> QED BY <2>1, <2>2, InstrOwns
<1>9. ASSUME NEW op \in ThreeOperands \cup InMemory, NEW x \in reg, NEW y \in reg,
             NEW z \in reg \cup imm \cup offset, instr = MIPS_mk3(op, x, y, z)
      PROVE  instr \in AnyInstr /\ Owned(instr) \subseteq {s}
  <2>1. /\ op \in AnyOpcode /\ Owns(x, s)
        /\ Unowned(y) /\ Unowned(z)
    BY <1>0, <1>3
  <2> QED BY <1>9, <2>1, InstrOwns
<1> QED
  BY <1>5, <1>6, <1>7, <1>8, <1>9 DEF s

LEMMA Translated ==
  ASSUME mips = << >>, NEW item \in AnyItem, item.type \notin Special
  PROVE  /\ MIPS_translate(item) \in Seq(AnyInstr)
         /\ \A k \in 1 .. Len(MIPS_translate(item)) :
              Owned(MIPS_translate(item)[k]) \subseteq {<<k, "mips">>}
<1>1. Len(mips) = 0
  OBVIOUS
<1>2. CASE item.type = "IR_GOTO"
  <2> DEFINE x == MIPS_mksymbol(item.x.value)
             instr == MIPS_mk1("MIPS_b", x)
  <2>1. item.x.value \in Value
    BY DEF AnyItem, AnyAddress
  <2>2. Owns(x, <<1, "mips">>)
    <3>1. Owns(x, <<Len(mips) + 1, "mips">>)
      BY <1>1, <2>1, SymbolOperand
    <3> QED BY <1>1, <3>1
  <2>3. "MIPS_b" \in AnyOpcode /\ Unowned(empty_operand)
    BY Operands DEF AnyOpcode, OneOperand
  <2>4. instr = MIPS_mk3("MIPS_b", x, empty_operand, empty_operand)
    BY Fewer
  <2> HIDE DEF x
  <2>5. instr \in AnyInstr /\ Owned(instr) \subseteq {<<1, "mips">>}
    <3> HIDE DEF instr
    <3> QED BY <2>2, <2>3, <2>4, InstrOwns
  <2>6. MIPS_translate(item) = <<instr>>
    BY <1>2 DEF MIPS_translate, MIPS_make_goto, Unwritten, x
  <2> HIDE DEF instr
  <2>7. MIPS_translate(item) \in Seq(AnyInstr) /\ Len(MIPS_translate(item)) = 1
        /\ MIPS_translate(item)[1] = instr
    BY <2>5, <2>6
  <2> QED BY <2>5, <2>7
<1>3. CASE item.type = "IR_ENTER"
  <2>1. /\ Unowned(R_SP) /\ Unowned(R_FP) /\ Unowned(R_RA)
        /\ Unowned(MIPS_mkoffset(-4)) /\ Unowned(MIPS_mkoffset(-8))
        /\ Unowned(MIPS_mkoffset(0)) /\ Unowned(MIPS_mkoffset(-3))
    BY Operands DEF R_SP, R_FP, R_RA
  <2> DEFINE Good(i) == i \in AnyInstr /\ Owned(i) \subseteq {}
  <2>2. ASSUME NEW op \in {"MIPS_sw", "MIPS_la"}, NEW x, NEW y, NEW z,
               Unowned(x), Unowned(y), Unowned(z)
        PROVE  Good(MIPS_mk3(op, x, y, z))
    <3>1. op \in AnyOpcode
      BY DEF AnyOpcode, InMemory
    <3> QED BY <2>2, <3>1 DEF Unowned, MIPS_mk3, AnyInstr, Owned
  <2> DEFINE a == MIPS_mk3("MIPS_sw", R_FP, R_SP, MIPS_mkoffset(-4))
             b == MIPS_mk3("MIPS_sw", R_RA, R_SP, MIPS_mkoffset(-8))
             c == MIPS_mk3("MIPS_la", R_FP, R_SP, MIPS_mkoffset(0))
             d == MIPS_mk3("MIPS_la", R_SP, R_SP, MIPS_mkoffset(-3))
             list == MIPS_make_enter(item)
  <2>3. Good(a) /\ Good(b) /\ Good(c) /\ Good(d)
    <3> HIDE DEF Good
    <3> QED BY <2>1, <2>2
  <2>4. list = <<a, b, c, d>>
    BY DEF MIPS_make_enter
  <2> HIDE DEF a, b, c, d, list
  <2>5. list \in Seq(AnyInstr) /\ Len(list) = 4 /\ \A k \in 1 .. 4 : Good(list[k])
    <3>1. a \in AnyInstr /\ b \in AnyInstr /\ c \in AnyInstr /\ d \in AnyInstr
      BY <2>3
    <3>2. list \in Seq(AnyInstr) /\ Len(list) = 4
      BY <2>4, <3>1
    <3>3. list[1] = a /\ list[2] = b /\ list[3] = c /\ list[4] = d
      BY <2>4
    <3>4. \A k \in 1 .. 4 : k = 1 \/ k = 2 \/ k = 3 \/ k = 4
      OBVIOUS
    <3> HIDE DEF Good
    <3> QED BY <2>3, <3>2, <3>3, <3>4
  <2>6. MIPS_translate(item) = list
    BY <1>3 DEF MIPS_translate, Unwritten, list
  <2> QED BY <2>5, <2>6
<1>4. CASE item.type \in Unwritten
  <2>1. MIPS_translate(item) = << >>
    BY <1>4 DEF MIPS_translate, Unwritten
  <2> QED BY <2>1, EmptySeq
<1> QED
  BY <1>2, <1>3, <1>4 DEF AnyItem, ItemType

-----------------------------------------------------------------------------
(* The steps of the back end                                               *)

LEMMA InitIInv == BackendInit => IInv
<1> SUFFICES ASSUME BackendInit PROVE IInv
  OBVIOUS
<1>1. ItemsInv
  BY InitItems DEF BackendInit
<1>2. /\ mips = << >> /\ mp = 0 /\ names = {} /\ nodes = << >> /\ lines = NULL /\ end = NULL
      /\ phase = "idle"
  BY DEF BackendInit
<1>3. Len(mips) = 0 /\ mips \in Seq(AnyInstr)
  BY <1>2, EmptySeq
<1>4. InstrsInv
  BY <1>2, <1>3 DEF InstrsInv
<1>5. LinesInv
  BY <1>2, <1>3 DEF LinesInv
<1> QED
  BY <1>1, <1>4, <1>5 DEF IInv, BackendInit

LEMMA ItemsStay == ItemsInv /\ UNCHANGED vars => ItemsInv'
  BY ItemsStep

LEMMA NoInstrs ==
  ASSUME mips' = << >>, names' = {}
  PROVE  InstrsInv'
<1>1. Len(mips') = 0 /\ mips' \in Seq(AnyInstr)
  BY EmptySeq
<1> QED
  BY <1>1 DEF InstrsInv

LEMMA InstrsStay ==
  ASSUME InstrsInv, UNCHANGED <<mips, names>>
  PROVE  InstrsInv'
  BY DEF InstrsInv, Owned

(* While it writes, the list of lines grows by the next instruction's.     *)
LEMMA WriteStep ==
  ASSUME IInv, Write
  PROVE  IInv'
<1> DEFINE written(k) == MIPS_write_instr(mips[k])
           Node == [line : {written(k) : k \in 1 .. Len(mips)}, next : Nat]
           node == [line |-> written(mp + 1), next |-> NULL]
           linked == IF end = NULL THEN nodes ELSE [nodes EXCEPT ![end].next = Len(nodes) + 1]
<1>1. /\ phase = "writing" /\ phase' = "writing" /\ mp < Len(mips) /\ mp' = mp + 1
      /\ nodes' = Append(linked, node) /\ end' = Len(nodes) + 1
      /\ lines' = IF lines = NULL THEN end' ELSE lines
      /\ UNCHANGED <<vars, mips, names>>
  BY DEF Write, append_line
<1>2. /\ mp \in Nat /\ Len(mips) \in Nat
      /\ nodes = [k \in 1 .. mp |-> [line |-> written(k), next |-> IF k = mp THEN NULL ELSE k + 1]]
      /\ lines = IF mp = 0 THEN NULL ELSE 1
      /\ end = mp
  BY <1>1, LenProperties DEF IInv, InstrsInv, LinesInv
<1>3. /\ \A k \in 1 .. mp + 1 : written(k) \in {written(j) : j \in 1 .. Len(mips)}
      /\ \A k \in 1 .. mp : (IF k = mp THEN NULL ELSE k + 1) \in Nat
      /\ NULL \in Nat
  BY <1>1, <1>2 DEF NULL
<1> HIDE DEF written
<1>4. nodes \in Seq(Node) /\ Len(nodes) = mp
  <2>1. \A k \in 1 .. mp :
          [line |-> written(k), next |-> IF k = mp THEN NULL ELSE k + 1] \in Node
    BY <1>2, <1>3
  <2> HIDE DEF Node
  <2> QED BY <1>2, <2>1
<1>5. node \in Node
  BY <1>2, <1>3
<1>6. linked = [k \in 1 .. mp |-> [line |-> written(k), next |-> k + 1]]
  <2>1. CASE mp = 0
    BY <1>2, <2>1 DEF NULL
  <2>2. CASE mp # 0
    <3>1. linked = [nodes EXCEPT ![mp].next = mp + 1]
      BY <1>2, <1>4, <2>2 DEF NULL
    <3>2. linked = [k \in 1 .. mp |-> IF k = mp THEN [nodes[mp] EXCEPT !.next = mp + 1]
                                                ELSE nodes[k]]
      BY <1>2, <3>1
    <3>3. mp \in 1 .. mp
      BY <1>2, <2>2
    <3>4. /\ nodes[mp] = [line |-> written(mp), next |-> NULL]
          /\ \A k \in 1 .. mp : k # mp => nodes[k] = [line |-> written(k), next |-> k + 1]
      BY <1>2, <3>3
    <3>5. [nodes[mp] EXCEPT !.next = mp + 1] = [line |-> written(mp), next |-> mp + 1]
      BY <3>4
    <3> HIDE DEF linked
    <3> QED BY <3>2, <3>4, <3>5
  <2> QED BY <2>1, <2>2
<1> HIDE DEF linked, node
<1>7. linked \in Seq(Node) /\ Len(linked) = mp
  <2>1. \A k \in 1 .. mp : [line |-> written(k), next |-> k + 1] \in Node
    BY <1>2, <1>3
  <2> HIDE DEF Node
  <2> QED BY <1>2, <1>6, <2>1
<1> HIDE DEF Node
<1>8. /\ nodes' \in Seq(Node) /\ Len(nodes') = mp + 1 /\ nodes'[mp + 1] = node
      /\ \A k \in 1 .. mp : nodes'[k] = linked[k]
  BY <1>1, <1>5, <1>7, AppendProperties
<1>9. nodes' = [k \in 1 .. mp + 1 |->
                  [line |-> written(k), next |-> IF k = mp + 1 THEN NULL ELSE k + 1]]
  <2>1. \A k \in 1 .. mp + 1 :
          nodes'[k] = [line |-> written(k), next |-> IF k = mp + 1 THEN NULL ELSE k + 1]
    BY <1>2, <1>6, <1>8 DEF node
  <2>2. nodes' = [k \in 1 .. mp + 1 |-> nodes'[k]]
    BY <1>2, <1>8
  <2> QED BY <2>1, <2>2
<1>10. \A k : MIPS_write_instr(mips'[k]) = written(k)
  BY <1>1 DEF written
<1>11. nodes' = [k \in 1 .. mp' |-> [line |-> MIPS_write_instr(mips'[k]),
                                     next |-> IF k = mp' THEN NULL ELSE k + 1]]
  BY <1>1, <1>9, <1>10
<1>12. lines' = (IF mp' = 0 THEN NULL ELSE 1) /\ end' = mp'
  BY <1>1, <1>2, <1>4 DEF NULL
<1>13. mp' \in Nat /\ mp' <= Len(mips')
  BY <1>1, <1>2
<1>14. LinesInv'
  BY <1>1, <1>11, <1>12, <1>13 DEF LinesInv
<1> QED
  BY <1>1, <1>14, ItemsStay, InstrsStay DEF IInv, Write

LEMMA OutputStep ==
  ASSUME IInv, ir_output
  PROVE  IInv'
<1>1. /\ phase = "idle" /\ mips = << >> /\ ~freeing /\ output < made /\ UNCHANGED vars
  BY DEF ir_output
<1>2. /\ mp = 0 /\ nodes = << >> /\ lines = NULL /\ end = NULL /\ names = {} /\ Len(mips) = 0
      /\ ItemsInv /\ output' \in Nat
  BY <1>1 DEF IInv, LinesInv, InstrsInv, ItemsInv, ir_output
<1>3. CASE \E t : single_line(t)
  <2>1. /\ mips' = << >> /\ names' = {} /\ mp' = 0 /\ phase' = "returned"
    BY <1>1, <1>2, <1>3 DEF single_line
  <2>2. Len(mips') = 0
    BY <2>1
  <2>3. LinesInv'
    BY <2>1, <2>2 DEF LinesInv
  <2> QED BY <1>1, <1>2, <2>1, <2>3, ItemsStay, NoInstrs DEF IInv
<1>4. ASSUME NEW item \in AnyItem, item.type \notin Special,
             mips' = MIPS_translate(item), names' = UNION {Owned(mips'[k]) : k \in DOMAIN mips'},
             phase' \in {"writing", "crashed"}, UNCHANGED <<mp, nodes, lines, end>>
      PROVE  IInv'
  <2>1. /\ mips' \in Seq(AnyInstr)
        /\ \A k \in 1 .. Len(mips') : Owned(mips'[k]) \subseteq {<<k, "mips">>}
    BY <1>1, <1>4, Translated
  <2>2. DOMAIN mips' = 1 .. Len(mips') /\ Len(mips') \in Nat
    BY <2>1, LenProperties
  <2>3. InstrsInv'
    BY <1>4, <2>1, <2>2 DEF InstrsInv, Owned
  <2>4. mp' = 0 /\ nodes' = << >> /\ lines' = NULL /\ end' = NULL
    BY <1>2, <1>4
  <2>5. << >> = [k \in 1 .. 0 |-> [line |-> MIPS_write_instr(mips'[k]),
                                   next |-> IF k = 0 THEN NULL ELSE k + 1]]
    OBVIOUS
  <2>6. LinesInv'
    BY <1>4, <2>2, <2>4, <2>5 DEF LinesInv, NULL
  <2> QED BY <1>1, <1>2, <2>3, <2>6, ItemsStay DEF IInv
<1> DEFINE item == Last(codes)
<1>5. item \in AnyItem
  <2>1. codes \in Seq(AnyItem) /\ Len(codes) \in Nat /\ Len(codes) = made
    BY <1>1, <1>2, LenProperties DEF ItemsInv
  <2>2. Len(codes) \in 1 .. Len(codes)
    <3>1. made # 0
      BY <1>1, <2>1 DEF IInv
    <3> QED BY <2>1, <3>1
  <2> QED BY <2>1, <2>2, ElementOfSeq DEF Last
<1>6. \/ \E t : single_line(t)
      \/ /\ item.type \notin Special
         /\ mips' = MIPS_translate(item) /\ names' = UNION {Owned(mips'[k]) : k \in DOMAIN mips'}
         /\ phase' \in {"writing", "crashed"} /\ UNCHANGED <<mp, nodes, lines, end>>
  <2>1. CASE item.type = "IR_DATA"
    BY <2>1 DEF ir_output
  <2>2. CASE item.type = "IR_LABEL"
    BY <2>2 DEF ir_output
  <2>3. CASE item.type \notin Special
    BY <2>3 DEF ir_output, Special
  <2> QED BY <2>1, <2>2, <2>3 DEF Special
<1> HIDE DEF item
<1> QED
  BY <1>3, <1>4, <1>5, <1>6

LEMMA AppendInstrStep ==
  ASSUME IInv, MIPS_append_item
  PROVE  IInv'
<1>1. PICK instr \in ClientInstr :
        mips' = Append(mips, instr) /\ names' = names \cup Owned(instr)
  BY DEF MIPS_append_item
<1>0. PICK n : n = Len(mips)
  OBVIOUS
<1>2. /\ mips \in Seq(AnyInstr) /\ n \in Nat /\ mp \in Nat /\ mp <= n
      /\ \A k \in 1 .. n : Owned(mips[k]) \subseteq {<<k, "mips">>}
      /\ names = UNION {Owned(mips[k]) : k \in 1 .. n}
  BY <1>0, LenProperties DEF IInv, InstrsInv, LinesInv
<1>3. instr \in AnyInstr /\ Owned(instr) \subseteq {<<n + 1, "mips">>}
  BY <1>0, <1>2, ClientMakes
<1>4. /\ mips' \in Seq(AnyInstr) /\ Len(mips') = n + 1 /\ mips'[n + 1] = instr
      /\ \A k \in 1 .. n : mips'[k] = mips[k]
  BY <1>0, <1>1, <1>2, <1>3, AppendProperties
<1>5. /\ \A k \in 1 .. n + 1 : k = n + 1 \/ k \in 1 .. n
      /\ n + 1 \in 1 .. n + 1 /\ \A k \in 1 .. n : k \in 1 .. n + 1
  BY <1>2
<1>6. \A k \in 1 .. n + 1 : Owned(mips'[k]) \subseteq {<<k, "mips">>}
  BY <1>2, <1>3, <1>4, <1>5
<1>7. names' = UNION {Owned(mips'[k]) : k \in 1 .. n + 1}
  BY <1>1, <1>2, <1>4, <1>5
<1>8. InstrsInv'
  BY <1>4, <1>6, <1>7 DEF InstrsInv, Owned
<1>9. phase = "idle" /\ UNCHANGED <<vars, output, mp, nodes, lines, end, phase>>
  BY DEF MIPS_append_item
<1>10. LinesInv'
  BY <1>2, <1>4, <1>9 DEF IInv, LinesInv
<1> QED
  BY <1>8, <1>9, <1>10, ItemsStay DEF IInv

LEMMA BackendStep == IInv /\ [BackendNext]_<<vars, asm>> => IInv'
<1> SUFFICES ASSUME IInv, [BackendNext]_<<vars, asm>>
             PROVE  IInv'
  OBVIOUS
<1>1. CASE Items
  <2>1. ItemsInv'
    BY <1>1, ItemsStep DEF Items, IInv
  <2>2. UNCHANGED asm
    BY <1>1 DEF Items
  <2> QED BY <2>1, <2>2, InstrsStay DEF IInv, asm, LinesInv
<1>2. CASE Skip
  <2>1. /\ UNCHANGED <<vars, mips, mp, names, nodes, lines, end, phase>>
        /\ output' = made
    BY <1>2 DEF Skip
  <2> QED BY <2>1, ItemsStay, InstrsStay DEF IInv, LinesInv, ItemsInv
<1>3. CASE ir_output
  BY <1>3, OutputStep
<1>4. CASE Write
  BY <1>4, WriteStep
<1>5. CASE MIPS_free_list
  <2>1. /\ mips' = << >> /\ mp' = 0 /\ phase' = "returned"
        /\ names' = names \ UNION {Owned(mips[k]) : k \in DOMAIN mips}
        /\ UNCHANGED <<vars, output>>
    BY <1>5 DEF MIPS_free_list
  <2>2. names' = {}
    <3>1. mips \in Seq(AnyInstr) /\ names = UNION {Owned(mips[k]) : k \in 1 .. Len(mips)}
      BY DEF IInv, InstrsInv
    <3>2. DOMAIN mips = 1 .. Len(mips)
      BY <3>1, LenProperties
    <3> QED BY <2>1, <3>1, <3>2
  <2>3. Len(mips') = 0
    BY <2>1
  <2>4. LinesInv'
    BY <2>1, <2>3 DEF LinesInv
  <2> QED BY <2>1, <2>2, <2>4, NoInstrs, ItemsStay DEF IInv
<1>6. CASE free_line_list
  <2>1. /\ mips = << >> /\ mp = 0 /\ nodes' = << >> /\ lines' = NULL /\ end' = NULL
        /\ phase' = "idle" /\ UNCHANGED <<vars, output, mips, mp, names>>
    BY <1>6 DEF free_line_list, IInv, LinesInv
  <2>2. LinesInv'
    BY <2>1 DEF IInv, LinesInv
  <2> QED BY <2>1, <2>2, ItemsStay, InstrsStay DEF IInv
<1>7. CASE MIPS_append_item
  BY <1>7, AppendInstrStep
<1>8. CASE WriteAll
  <2>1. /\ phase = "idle" /\ phase' = "writing"
        /\ UNCHANGED <<vars, output, mips, mp, names, nodes, lines, end>>
    BY <1>8 DEF WriteAll
  <2>2. mp = 0 /\ nodes = << >> /\ lines = NULL /\ end = NULL /\ mp <= Len(mips)
    BY <2>1 DEF IInv, LinesInv
  <2>3. << >> = [k \in 1 .. 0 |-> [line |-> MIPS_write_instr(mips'[k]),
                                   next |-> IF k = 0 THEN NULL ELSE k + 1]]
    OBVIOUS
  <2>4. LinesInv'
    BY <2>1, <2>2, <2>3 DEF LinesInv, NULL
  <2> QED BY <2>1, <2>4, ItemsStay, InstrsStay DEF IInv
<1>9. CASE Crashed \/ UNCHANGED <<vars, asm>>
  <2>1. UNCHANGED <<vars, output, mips, mp, names, nodes, lines, end, phase>>
    BY <1>9 DEF Crashed, asm
  <2> QED BY <2>1, ItemsStay, InstrsStay DEF IInv, LinesInv
<1> QED
  BY <1>1, <1>2, <1>3, <1>4, <1>5, <1>6, <1>7, <1>8, <1>9 DEF BackendNext

LEMMA Invariance == BackendSpec => []IInv
<1> QED
  BY InitIInv, BackendStep, PTL DEF BackendSpec

-----------------------------------------------------------------------------
(* What follows                                                            *)

(* In whatever order items are made, turned into lines and freed, freeing  *)
(* the list frees strings that are allocated, each once: no constructor    *)
(* gives two addresses one string.                                         *)
THEOREM ItemsFreedOnce == BackendSpec => []FreesOnce
<1>1. IInv => FreesOnce
  BY ItemsFreeOnce DEF IInv
<1> QED
  BY <1>1, Invariance, PTL

(* ir_free_item frees all that an item owns but the text of string data.   *)
THEOREM TextsAloneLeak == BackendSpec => []OnlyTextsLeak
<1>1. IInv => OnlyTextsLeak
  BY ItemsLeakTexts DEF IInv
<1> QED
  BY <1>1, Invariance, PTL

(* The names in instructions are copies: freeing the items first, or the   *)
(* instructions first, frees no string twice, and none stays behind.       *)
THEOREM NamesComeBack == BackendSpec => []NamesReturned
<1>1. ASSUME IInv
      PROVE  NamesReturned
  <2>1. /\ mips \in Seq(AnyInstr)
        /\ \A k \in 1 .. Len(mips) : Owned(mips[k]) \subseteq {<<k, "mips">>}
        /\ names = UNION {Owned(mips[k]) : k \in 1 .. Len(mips)}
        /\ heap \subseteq Nat \X {"x", "y", "z", "text"}
    BY <1>1 DEF IInv, InstrsInv, ItemsInv
  <2>2. DOMAIN mips = 1 .. Len(mips)
    BY <2>1, LenProperties
  <2>3. names \cap heap = {}
    BY <2>1
  <2>4. ASSUME NEW j \in DOMAIN mips, NEW k \in DOMAIN mips, j # k
        PROVE  Owned(mips[j]) \cap Owned(mips[k]) = {}
    BY <2>1, <2>2, <2>4
  <2> QED BY <2>1, <2>2, <2>3, <2>4 DEF NamesReturned
<1> QED
  BY <1>1, Invariance, PTL

(* What following the list from a node gives.                              *)
IsFollowing(f) ==
  f = [n \in 0 .. Len(nodes) |->
         IF n = NULL THEN << >> ELSE <<nodes[n].line>> \o f[nodes[n].next]]

LEMMA FollowingExists ==
  ASSUME Len(nodes) \in Nat,
         \A n \in 1 .. Len(nodes) : nodes[n].next = IF n = Len(nodes) THEN NULL ELSE n + 1
  PROVE  \E f : IsFollowing(f)
<1> DEFINE D == 0 .. Len(nodes)
           L == {nodes[n].line : n \in 1 .. Len(nodes)}
           V == Seq(L)
           line == [n \in 1 .. Len(nodes) |-> nodes[n].line]
           next == [n \in 1 .. Len(nodes) |-> nodes[n].next]
           rank == [n \in D |-> IF n = 0 THEN 0 ELSE Len(nodes) + 1 - n]
           F == [e \in D \X [D -> V] |->
                   IF e[1] = NULL THEN << >> ELSE <<line[e[1]]>> \o e[2][next[e[1]]]]
<1>0. PICK m \in Nat : m = Len(nodes)
  OBVIOUS
<1>1. /\ D = 0 .. m /\ \A n \in D : n # NULL => n \in 1 .. m
      /\ \A n \in 1 .. m : next[n] = IF n = m THEN NULL ELSE n + 1
  BY <1>0 DEF NULL
<1>2. rank = [n \in D |-> IF n = 0 THEN 0 ELSE m + 1 - n] /\ rank \in [D -> 0 .. m]
  BY <1>0
<1>3. \A n \in 1 .. m : line[n] \in L
  BY <1>0
<1>4. V # {} /\ << >> \in V
  BY EmptySeq
<1>5. \A n \in D, g \in [D -> V] :
        F[<<n, g>>] = IF n = NULL THEN << >> ELSE <<line[n]>> \o g[next[n]]
  <2> HIDE DEF D, V, line, next
  <2> QED OBVIOUS
<1>6. \A n \in D : n # NULL => next[n] \in D /\ rank[next[n]] < rank[n]
  <2> SUFFICES ASSUME NEW n \in 1 .. m
               PROVE  next[n] \in D /\ rank[next[n]] < rank[n]
    BY <1>1
  <2>1. CASE n = m
    BY <1>1, <1>2, <2>1, SMTT(60) DEF NULL
  <2>2. CASE n # m
    <3>1. next[n] = n + 1 /\ n + 1 \in 1 .. m
      BY <1>1, <2>2
    <3> HIDE DEF next
    <3> QED BY <1>1, <1>2, <3>1
  <2> QED BY <2>1, <2>2
<1>7. F \in [D \X [D -> V] -> V]
  <2> HIDE DEF line, next
  <2> SUFFICES ASSUME NEW n \in D, NEW g \in [D -> V], n # NULL
               PROVE  <<line[n]>> \o g[next[n]] \in V
    <3> HIDE DEF V
    <3> QED BY <1>4
  <2>1. line[n] \in L /\ g[next[n]] \in Seq(L)
    BY <1>1, <1>3, <1>6
  <2> HIDE DEF L
  <2>2. <<line[n]>> \in Seq(L)
    BY <2>1
  <2> QED BY <2>1, <2>2, ConcatProperties
<1> HIDE DEF F, V, D, L, line, next, rank
<1>8. \A n \in D : \A g, h \in [D -> V] :
        (\A e \in D : rank[e] < rank[n] => g[e] = h[e]) => F[<<n, g>>] = F[<<n, h>>]
  <2> SUFFICES ASSUME NEW n \in D, NEW g \in [D -> V], NEW h \in [D -> V],
                      \A e \in D : rank[e] < rank[n] => g[e] = h[e]
               PROVE  F[<<n, g>>] = F[<<n, h>>]
    OBVIOUS
  <2>1. CASE n = NULL
    BY <1>5, <2>1
  <2>2. CASE n # NULL
    <3>1. g[next[n]] = h[next[n]]
      BY <1>6, <2>2
    <3>2. F[<<n, g>>] = <<line[n]>> \o g[next[n]] /\ F[<<n, h>>] = <<line[n]>> \o h[next[n]]
      BY <1>5, <2>2
    <3> QED BY <3>1, <3>2
  <2> QED BY <2>1, <2>2
<1>9. ByRank(F, D, V, rank, m)
  BY <1>2, <1>4, <1>7, <1>8 DEF ByRank
<1>10. PICK f \in [D -> V] : \A n \in D : f[n] = F[<<n, f>>]
  BY <1>9, RecursionByRank
<1>11. f = [n \in D |-> f[n]]
  OBVIOUS
<1>12. f = [n \in D |-> IF n = NULL THEN << >> ELSE <<line[n]>> \o f[next[n]]]
  BY <1>5, <1>10, <1>11
<1>13. \A n \in D : n # NULL => line[n] = nodes[n].line /\ next[n] = nodes[n].next
  BY <1>0, <1>1 DEF line, next
<1>14. f = [n \in D |-> IF n = NULL THEN << >> ELSE <<nodes[n].line>> \o f[nodes[n].next]]
  BY <1>12, <1>13
<1> QED
  BY <1>14 DEF IsFollowing, D

(* A chain of m + 1 nodes, followed from node m - k, gives the last lines. *)
LEMMA Followed ==
  ASSUME NEW m \in Nat, Len(nodes) = m, NEW f, IsFollowing(f),
         \A n \in 1 .. m : nodes[n].next = IF n = m THEN NULL ELSE n + 1
  PROVE  f[IF m = 0 THEN NULL ELSE 1] = [j \in 1 .. m |-> nodes[j].line]
<1> DEFINE L == {nodes[n].line : n \in 1 .. m}
           Rest(n) == [j \in 1 .. m + 1 - n |-> nodes[n + j - 1].line]
           S == {k \in Nat : k < m => f[m - k] = Rest(m - k)}
<1>1. \A n \in 0 .. m : f[n] = IF n = NULL THEN << >> ELSE <<nodes[n].line>> \o f[nodes[n].next]
  BY DEF IsFollowing
<1>2. f[0] = << >>
  <2>1. 0 \in 0 .. m /\ 0 = NULL
    BY DEF NULL
  <2> QED BY <1>1, <2>1
<1>3. 0 \in S
  <2> SUFFICES ASSUME m # 0
               PROVE  f[m] = Rest(m)
    OBVIOUS
  <2>1. f[m] = <<nodes[m].line>> \o << >>
    <3>1. m \in 0 .. m /\ m \in 1 .. m /\ m # NULL
      BY DEF NULL
    <3>2. nodes[m].next = 0
      BY <3>1 DEF NULL
    <3>3. f[m] = <<nodes[m].line>> \o f[nodes[m].next]
      BY <1>1, <3>1
    <3> QED BY <1>2, <3>2, <3>3
  <2>2. <<nodes[m].line>> \o << >> = <<nodes[m].line>>
    OBVIOUS
  <2>3. Rest(m) = [j \in 1 .. 1 |-> nodes[m].line]
    <3>1. m + 1 - m = 1 /\ \A j \in 1 .. 1 : m + j - 1 = m
      OBVIOUS
    <3> QED BY <3>1
  <2> QED BY <2>1, <2>2, <2>3
<1>4. ASSUME NEW k \in 0 .. m, k \in S, k < m
      PROVE  k + 1 \in S
  <2> SUFFICES ASSUME k + 1 < m
               PROVE  f[m - (k + 1)] = Rest(m - (k + 1))
    OBVIOUS
  <2>0. PICK n : n = m - (k + 1)
    OBVIOUS
  <2>1. n \in 1 .. m /\ n # m /\ n + 1 = m - k /\ n \in 0 .. m /\ n # 0 /\ n + 1 \in 1 .. m
    BY <2>0
  <2>2. f[n + 1] = Rest(n + 1)
    BY <1>4, <2>1
  <2>3. f[n] = <<nodes[n].line>> \o f[n + 1]
    <3>1. nodes[n].next = n + 1
      BY <2>1
    <3> QED BY <1>1, <2>1, <3>1 DEF NULL
  <2> DEFINE line(j) == nodes[j].line
  <2>4. \A j \in 1 .. m : line(j) \in L
    OBVIOUS
  <2>5. Rest(n + 1) = [j \in 1 .. m - n |-> line(n + j)]
    <3>1. m + 1 - (n + 1) = m - n /\ \A j \in Nat : n + 1 + j - 1 = n + j
      BY <2>1
    <3> QED BY <3>1
  <2>6. Rest(n) = [j \in 1 .. m + 1 - n |-> line(n + j - 1)]
    OBVIOUS
  <2> HIDE DEF L, line, Rest
  <2>7. \A j \in 1 .. m - n : n + j \in 1 .. m
    BY <2>1
  <2>8. Rest(n + 1) \in Seq(L) /\ Len(Rest(n + 1)) = m - n
    <3>1. m - n \in Nat /\ \A j \in 1 .. m - n : line(n + j) \in L
      BY <2>1, <2>4, <2>7
    <3>2. PICK i \in Nat : i = m - n
      BY <3>1
    <3> DEFINE g(j) == line(n + j)
    <3>3. Rest(n + 1) = [j \in 1 .. i |-> g(j)] /\ \A j \in 1 .. i : g(j) \in L
      BY <2>5, <3>1, <3>2
    <3> HIDE DEF g
    <3>4. Rest(n + 1) \in Seq(L) /\ Len(Rest(n + 1)) = i
      BY <3>3
    <3> QED BY <3>2, <3>4
  <2>9. <<line(n)>> \in Seq(L) /\ Len(<<line(n)>>) = 1 /\ <<line(n)>>[1] = line(n)
    BY <2>1, <2>4
  <2>10. /\ f[n] \in Seq(L) /\ Len(f[n]) = 1 + (m - n)
         /\ \A j \in 1 .. 1 + (m - n) :
              f[n][j] = IF j <= 1 THEN <<line(n)>>[j] ELSE Rest(n + 1)[j - 1]
    <3>1. f[n] = <<line(n)>> \o Rest(n + 1)
      BY <2>2, <2>3 DEF line
    <3> QED BY <2>8, <2>9, <3>1, ConcatProperties
  <2>11. 1 + (m - n) = m + 1 - n
    BY <2>1
  <2>12. \A j \in 1 .. m + 1 - n : f[n][j] = line(n + j - 1)
    <3> SUFFICES ASSUME NEW j \in 1 .. m + 1 - n
                 PROVE  f[n][j] = line(n + j - 1)
      OBVIOUS
    <3>1. CASE j = 1
      <4>1. n + 1 - 1 = n
        BY <2>1
      <4> QED BY <2>9, <2>10, <2>11, <3>1, <4>1
    <3>2. CASE j # 1
      <4>1. j - 1 \in 1 .. m - n /\ n + (j - 1) = n + j - 1 /\ ~(j <= 1)
        BY <2>1, <3>2
      <4>2. Rest(n + 1)[j - 1] = line(n + j - 1)
        BY <2>5, <4>1
      <4> QED BY <2>10, <2>11, <4>1, <4>2
    <3> QED BY <3>1, <3>2
  <2>13. f[n] = [j \in 1 .. m + 1 - n |-> f[n][j]]
    BY <2>10, <2>11
  <2>14. f[n] = Rest(n)
    BY <2>6, <2>12, <2>13
  <2> QED BY <2>0, <2>14
<1>5. 0 .. m \subseteq S
  <2>1. \A k \in 0 .. m : k \in S /\ k < m => k + 1 \in S
    BY <1>4
  <2> HIDE DEF S
  <2> QED BY <1>3, <2>1, InductionUpTo
<1>6. CASE m = 0
  BY <1>2, <1>6 DEF NULL
<1>7. CASE m # 0
  <2>1. m - 1 \in 0 .. m /\ m - 1 < m /\ m - (m - 1) = 1
    BY <1>7
  <2>2. f[1] = Rest(1)
    <3>1. m - 1 \in S
      BY <1>5, <2>1
    <3> HIDE DEF Rest
    <3> QED BY <2>1, <3>1
  <2>3. Rest(1) = [j \in 1 .. m |-> nodes[j].line]
    <3>1. m + 1 - 1 = m /\ \A j \in Nat : 1 + j - 1 = j
      OBVIOUS
    <3> QED BY <3>1
  <2> QED BY <1>7, <2>2, <2>3
<1> QED
  BY <1>6, <1>7

(* The list that ir_output builds, followed through its `next' pointers,   *)
(* gives the lines of the instructions in their order, however many there  *)
(* are; and between items nothing of it is left.                           *)
THEOREM LinesFollow == BackendSpec => []LinesFollowInstructions
<1>1. ASSUME IInv
      PROVE  LinesFollowInstructions
  <2> DEFINE chain == CHOOSE f : IsFollowing(f)
  <2>1. SUFFICES /\ phase = "writing" =>
                      chain[lines] = [k \in 1 .. mp |-> MIPS_write_instr(mips[k])]
                 /\ phase = "idle" => mp = 0 /\ chain[lines] = << >> /\ end = NULL
    BY Zenon DEF LinesFollowInstructions, IsFollowing
  <2>2. phase \in {"idle", "writing"} =>
          /\ mp \in Nat /\ Len(nodes) = mp /\ lines = IF mp = 0 THEN NULL ELSE 1
          /\ \A n \in 1 .. mp : /\ nodes[n].next = IF n = mp THEN NULL ELSE n + 1
                                /\ nodes[n].line = MIPS_write_instr(mips[n])
    BY <1>1 DEF IInv, LinesInv
  <2>3. ASSUME phase \in {"idle", "writing"}
        PROVE  chain[lines] = [k \in 1 .. mp |-> MIPS_write_instr(mips[k])]
    <3>1. IsFollowing(chain)
      BY <2>2, <2>3, FollowingExists
    <3> HIDE DEF chain
    <3>2. chain[lines] = [k \in 1 .. mp |-> nodes[k].line]
      BY <2>2, <2>3, <3>1, Followed
    <3> QED BY <2>2, <2>3, <3>2
  <2>4. ASSUME phase = "idle"
        PROVE  mp = 0 /\ end = NULL
    BY <1>1, <2>4 DEF IInv, LinesInv
  <2>5. [k \in 1 .. 0 |-> MIPS_write_instr(mips[k])] = << >>
    OBVIOUS
  <2> HIDE DEF chain
  <2> QED BY <2>3, <2>4, <2>5
<1> QED
  BY <1>1, Invariance, PTL
-----------------------------------------------------------------------------
(* The code of an enter                                                    *)

(* While lines are written after an enter the instructions are its code;   *)
(* or they are the client's own, who then has no items.                    *)
OfItem ==
  /\ phase = "idle" /\ mips # << >> => made = 0
  /\ phase = "writing" =>
       \/ made = 0 \/ Last(codes).type # "IR_ENTER"
       \/ mips = MIPS_make_enter(Last(codes))

LEMMA EnterCode ==
  ASSUME NEW item, item.type = "IR_ENTER"
  PROVE  MIPS_translate(item) = MIPS_make_enter(item)
<1>1. item.type # "IR_GOTO" /\ item.type \notin Unwritten
  BY DEF Unwritten
<1> QED
  BY <1>1 DEF MIPS_translate

LEMMA OfItemStep == IInv /\ OfItem /\ [BackendNext]_<<vars, asm>> => OfItem'
<1> SUFFICES ASSUME IInv, OfItem, [BackendNext]_<<vars, asm>>
             PROVE  OfItem'
  OBVIOUS
<1>1. CASE Items
  BY <1>1 DEF Items, asm, OfItem
<1>2. CASE Skip
  BY <1>2 DEF Skip, OfItem, vars
<1>3. CASE ir_output
  <2>1. mips = << >> /\ phase = "idle" /\ UNCHANGED vars
    BY <1>3 DEF ir_output
  <2>2. /\ phase' # "idle"
        /\ phase' = "writing" /\ Last(codes).type = "IR_ENTER" =>
             mips' = MIPS_make_enter(Last(codes))
    <3>1. CASE Last(codes).type = "IR_DATA"
      BY <1>3, <3>1 DEF ir_output, single_line
    <3>2. CASE Last(codes).type = "IR_LABEL"
      BY <1>3, <3>2 DEF ir_output, single_line
    <3>3. CASE Last(codes).type # "IR_DATA" /\ Last(codes).type # "IR_LABEL"
      <4>1. mips' = MIPS_translate(Last(codes)) /\ phase' # "idle"
        BY <1>3, <3>3 DEF ir_output
      <4> QED BY <4>1, EnterCode
    <3> QED BY <3>1, <3>2, <3>3
  <2> QED BY <2>1, <2>2 DEF OfItem, vars
<1>4. CASE Write
  BY <1>4 DEF Write, OfItem, vars
<1>5. CASE MIPS_free_list
  BY <1>5 DEF MIPS_free_list, OfItem
<1>6. CASE free_line_list
  BY <1>6 DEF free_line_list, OfItem, IInv, LinesInv
<1>7. CASE MIPS_append_item
  BY <1>7 DEF MIPS_append_item, OfItem, vars
<1>8. CASE WriteAll
  BY <1>8 DEF WriteAll, OfItem, vars
<1>9. CASE Crashed \/ UNCHANGED <<vars, asm>>
  BY <1>9 DEF Crashed, OfItem, vars, asm
<1> QED
  BY <1>1, <1>2, <1>3, <1>4, <1>5, <1>6, <1>7, <1>8, <1>9 DEF BackendNext

(* The machine before the code of an enter and after n of its four         *)
(* instructions.                                                           *)
Caller == [reg |-> [r \in 29 .. 31 |-> (r - 29) * 1000],
           mem |-> [a \in -16 .. 15 |-> <<0, 0>>]]
Ran(f) ==
  f = [k \in 0 .. Len(mips) |-> IF k = 0 THEN Caller ELSE Execute(f[k - 1], mips[k])]

LEMMA FourRun ==
  ASSUME Len(mips) = 4
  PROVE  Entered = Execute(Execute(Execute(Execute(Caller, mips[1]), mips[2]), mips[3]), mips[4])
<1> DEFINE m1 == Execute(Caller, mips[1])
           m2 == Execute(m1, mips[2])
           m3 == Execute(m2, mips[3])
           m4 == Execute(m3, mips[4])
           run == [k \in 0 .. 4 |-> IF k = 0 THEN Caller ELSE IF k = 1 THEN m1
                                    ELSE IF k = 2 THEN m2 ELSE IF k = 3 THEN m3 ELSE m4]
           after == CHOOSE f : Ran(f)
<1>1. Entered = after[4]
  BY Zenon DEF Entered, Ran, Caller
<1>2. Ran(run)
  <2>1. ASSUME NEW k \in 0 .. 4
        PROVE  run[k] = IF k = 0 THEN Caller ELSE Execute(run[k - 1], mips[k])
    <3>1. k = 0 \/ k = 1 \/ k = 2 \/ k = 3 \/ k = 4
      OBVIOUS
    <3>2. /\ run[0] = Caller /\ run[1] = m1 /\ run[2] = m2 /\ run[3] = m3 /\ run[4] = m4
      OBVIOUS
    <3> HIDE DEF run
    <3>3. 1 - 1 = 0 /\ 2 - 1 = 1 /\ 3 - 1 = 2 /\ 4 - 1 = 3
      OBVIOUS
    <3> QED BY <3>1, <3>2, <3>3
  <2>2. run = [k \in 0 .. 4 |-> run[k]]
    OBVIOUS
  <2> HIDE DEF run
  <2>3. run = [k \in 0 .. 4 |-> IF k = 0 THEN Caller ELSE Execute(run[k - 1], mips[k])]
    BY <2>1, <2>2, Zenon
  <2> QED BY <2>3 DEF Ran
<1>3. Ran(after)
  BY <1>2, Zenon
<1> HIDE DEF after, run
<1>4. /\ after[0] = Caller /\ after[1] = Execute(after[0], mips[1])
      /\ after[2] = Execute(after[1], mips[2]) /\ after[3] = Execute(after[2], mips[3])
      /\ after[4] = Execute(after[3], mips[4])
  <2>1. \A k \in 0 .. 4 : after[k] = IF k = 0 THEN Caller ELSE Execute(after[k - 1], mips[k])
    BY <1>3, Zenon DEF Ran
  <2>2. 1 - 1 = 0 /\ 2 - 1 = 1 /\ 3 - 1 = 2 /\ 4 - 1 = 3
    OBVIOUS
  <2> HIDE DEF Execute
  <2> QED BY <2>1, <2>2
<1> QED
  BY <1>1, <1>4

(* A store into four bytes, and an addition to a register.                 *)
Stores(instr, x, base, offset) ==
  /\ instr.opcode = "MIPS_sw"
  /\ instr.x.value = x /\ instr.y.value = base /\ instr.z.value = offset
Loads(instr, x, base, offset) ==
  /\ instr.opcode = "MIPS_la"
  /\ instr.x.value = x /\ instr.y.value = base /\ instr.z.value = offset

LEMMA EnterIs ==
  ASSUME NEW item
  PROVE  LET code == MIPS_make_enter(item)
         IN  /\ Len(code) = 4
             /\ Stores(code[1], 30, 29, -4) /\ Stores(code[2], 31, 29, -8)
             /\ Loads(code[3], 30, 29, 0) /\ Loads(code[4], 29, 29, -3)
  BY DEF MIPS_make_enter, MIPS_mk3, R_FP, R_SP, R_RA, MIPS_mkreg, MIPS_mkoffset, Operand,
         Stores, Loads

(* What a store and an addition do to the machine.                         *)
Put(M, address, value) ==
  [a \in DOMAIN M |-> IF a \in address .. address + 3 THEN <<value, a - address>> ELSE M[a]]
Set(R, x, value) == [R EXCEPT ![x] = value]

LEMMA Stored ==
  ASSUME NEW R, NEW M, NEW instr, NEW x, NEW base, NEW offset, NEW address, NEW value,
         Stores(instr, x, base, offset), address = R[base] + offset, value = R[x]
  PROVE  Execute([reg |-> R, mem |-> M], instr) = [reg |-> R, mem |-> Put(M, address, value)]
<1> DEFINE m == [reg |-> R, mem |-> M]
           after == Put(M, address, value)
<1>1. m.reg = R /\ m.mem = M
  OBVIOUS
<1>2. Execute(m, instr) = [m EXCEPT !.mem = after]
  <2>1. "MIPS_sw" # "MIPS_la"
    OBVIOUS
  <2> HIDE DEF m
  <2> QED BY <1>1, <2>1, Zenon DEF Execute, Stores, Put
<1>3. [m EXCEPT !.mem = after] = [reg |-> R, mem |-> after]
  <2> HIDE DEF after
  <2> QED OBVIOUS
<1> QED
  BY <1>2, <1>3

LEMMA Loaded ==
  ASSUME NEW R, NEW M, NEW instr, NEW x, NEW base, NEW offset, NEW address,
         Loads(instr, x, base, offset), address = R[base] + offset
  PROVE  Execute([reg |-> R, mem |-> M], instr) = [reg |-> Set(R, x, address), mem |-> M]
<1> DEFINE m == [reg |-> R, mem |-> M]
<1>1. m.reg = R /\ m.mem = M
  OBVIOUS
<1>2. Execute(m, instr) = [m EXCEPT !.reg[x] = address]
  <2> HIDE DEF m
  <2> QED BY <1>1, Zenon DEF Execute, Loads
<1>3. [m EXCEPT !.reg[x] = address] = [reg |-> [R EXCEPT ![x] = address], mem |-> M]
  OBVIOUS
<1> QED
  BY <1>2, <1>3 DEF Set

LEMMA WordIs ==
  ASSUME NEW machine, NEW address \in Int, NEW value,
         \A k \in 0 .. 3 : machine.mem[address + k] = <<value, k>>
  PROVE  Word(machine, address) = {<<value, k>> : k \in 0 .. 3}
<1>1. \A a : a \in address .. address + 3 => a - address \in 0 .. 3 /\ a = address + (a - address)
  OBVIOUS
<1>2. \A k \in 0 .. 3 : address + k \in address .. address + 3
  OBVIOUS
<1>3. Word(machine, address) \subseteq {<<value, k>> : k \in 0 .. 3}
  <2> SUFFICES ASSUME NEW a \in address .. address + 3
               PROVE  machine.mem[a] \in {<<value, k>> : k \in 0 .. 3}
    BY Zenon DEF Word
  <2>1. PICK k \in 0 .. 3 : a = address + k
    BY <1>1
  <2>2. machine.mem[a] = <<value, k>>
    BY <2>1
  <2> QED BY <2>2
<1>4. {<<value, k>> : k \in 0 .. 3} \subseteq Word(machine, address)
  BY <1>2 DEF Word
<1> QED
  BY <1>3, <1>4, Zenon

(* Whatever was made and freed before, after the code of an enter the      *)
(* caller's frame pointer and the return address are in the words below    *)
(* the new frame pointer, and the stack has grown.                         *)
THEOREM EnterSaves == BackendSpec => []EnterSavesFrame
<1>1. ASSUME IInv, OfItem
      PROVE  EnterSavesFrame
  <2> SUFFICES ASSUME phase = "writing", codes # << >>, Last(codes).type = "IR_ENTER"
               PROVE  LET fp == Entered.reg[30]
                      IN  /\ fp = 0 /\ Entered.reg[29] < fp
                          /\ Word(Entered, fp - 4) = {<<1000, k>> : k \in 0 .. 3}
                          /\ Word(Entered, fp - 8) = {<<2000, k>> : k \in 0 .. 3}
    BY DEF EnterSavesFrame
  <2>1. made # 0
    <3>1. codes \in Seq(AnyItem) /\ Len(codes) <= made /\ made \in Nat
      BY <1>1 DEF IInv, ItemsInv
    <3>2. Len(codes) # 0 /\ Len(codes) \in Nat
      BY <3>1, EmptySeq, LenProperties
    <3> QED BY <3>1, <3>2
  <2>2. mips = MIPS_make_enter(Last(codes))
    BY <1>1, <2>1 DEF OfItem
  <2>3. /\ Len(mips) = 4
        /\ Stores(mips[1], 30, 29, -4) /\ Stores(mips[2], 31, 29, -8)
        /\ Loads(mips[3], 30, 29, 0) /\ Loads(mips[4], 29, 29, -3)
    BY <2>2, EnterIs
  <2> DEFINE R0 == [r \in 29 .. 31 |-> (r - 29) * 1000]
             R1 == Set(R0, 30, 0)
             R2 == Set(R1, 29, -3)
             M0 == [a \in -16 .. 15 |-> <<0, 0>>]
             M1 == Put(M0, -4, 1000)
             M2 == Put(M1, -8, 2000)
  <2>4. /\ -4 = R0[29] + (-4) /\ 1000 = R0[30] /\ -8 = R0[29] + (-8) /\ 2000 = R0[31]
        /\ 0 = R0[29] + 0
    OBVIOUS
  <2>5. -3 = R1[29] + (-3) /\ R2[29] = -3 /\ R2[30] = 0
    BY DEF Set
  <2>6. Caller = [reg |-> R0, mem |-> M0]
    BY Zenon DEF Caller
  <2>7. /\ \A k \in 0 .. 3 : M2[-4 + k] = <<1000, k>>
        /\ \A k \in 0 .. 3 : M2[-8 + k] = <<2000, k>>
    BY DEF Put
  <2> HIDE DEF R0, R1, R2, M0, M1, M2
  <2>8. Execute(Caller, mips[1]) = [reg |-> R0, mem |-> M1]
    BY <2>3, <2>4, <2>6, Stored DEF M1
  <2>9. Execute([reg |-> R0, mem |-> M1], mips[2]) = [reg |-> R0, mem |-> M2]
    BY <2>3, <2>4, Stored DEF M2
  <2>10. Execute([reg |-> R0, mem |-> M2], mips[3]) = [reg |-> R1, mem |-> M2]
    BY <2>3, <2>4, Loaded DEF R1
  <2>11. Execute([reg |-> R1, mem |-> M2], mips[4]) = [reg |-> R2, mem |-> M2]
    BY <2>3, <2>5, Loaded DEF R2
  <2>12. Entered = [reg |-> R2, mem |-> M2]
    BY <2>3, <2>8, <2>9, <2>10, <2>11, FourRun, Zenon
  <2>13. Entered.reg[30] = 0 /\ Entered.reg[29] = -3 /\ Entered.mem = M2
    BY <2>5, <2>12
  <2>14. /\ Word(Entered, -4) = {<<1000, k>> : k \in 0 .. 3}
         /\ Word(Entered, -8) = {<<2000, k>> : k \in 0 .. 3}
    <3>1. -4 \in Int /\ -8 \in Int
      OBVIOUS
    <3> QED BY <2>7, <2>13, <3>1, WordIs
  <2>15. 0 - 4 = -4 /\ 0 - 8 = -8 /\ -3 < 0
    OBVIOUS
  <2> QED BY <2>13, <2>14, <2>15, Zenon
<1>2. BackendInit => OfItem
  BY DEF BackendInit, OfItem
<1> QED
  BY <1>1, <1>2, Invariance, OfItemStep, PTL DEF BackendSpec
-----------------------------------------------------------------------------
(* What TLC checks of escape_alloc on texts of five characters is proved   *)
(* for every text: the two passes agree, and what was written reads back.  *)

(* The cell at which the i-th character of the text begins.                *)
Cell(i) == 1 + CountedAfter(text)[i - 1]

(* The cells of a character of the text that was written.                  *)
Holds(i) ==
  IF text[i] \in DOMAIN Letter
    THEN dest[Cell(i)] = "backslash" /\ dest[Cell(i) + 1] = Letter[text[i]]
    ELSE dest[Cell(i)] = text[i]

(* The part of the text that was written.                                  *)
WrittenInv ==
  /\ text \in Seq(Char) /\ src \in 1 .. Len(text) + 1
  /\ p = Cell(src)
  /\ \A i \in 1 .. src - 1 : Holds(i)

(* What is behind a character when it is written.                          *)
Behind(c) == IF c \in DOMAIN Letter THEN "NUL" ELSE "unwritten"

(* The room: the part of it that was written, and the part that was not.   *)
RoomInv ==
  /\ size = CountedAfter(text)[Len(text)]
  /\ DOMAIN dest = 1 .. size + 1
  /\ \A k \in p + 1 .. size + 1 : dest[k] = "unwritten"
  /\ dest[p] = IF src > 1 THEN Behind(text[src - 1]) ELSE "unwritten"
  /\ \A k \in 1 .. p - 1 : dest[k] \notin {"NUL", "unwritten"}

EscapeInv == WrittenInv /\ RoomInv

-----------------------------------------------------------------------------
(* The first pass                                                          *)

IsCount(f, n, w) ==
  f = [k \in 0 .. n |-> IF k = 0 THEN 0 ELSE f[k - 1] + w[k]]

(* Numbers can be added up.                                                *)
LEMMA CountExists ==
  ASSUME NEW n \in Nat, NEW w, \A k \in 1 .. n : w[k] \in Nat
  PROVE  \E f \in [0 .. n -> Nat] : IsCount(f, n, w)
<1> DEFINE step == [e \in (1 .. n) \X Nat |-> e[2] + w[e[1]]]
<1>1. \A k \in 1 .. n, m \in Nat : step[<<k, m>>] = m + w[k] /\ m + w[k] \in Nat
  OBVIOUS
<1>2. step \in [(1 .. n) \X Nat -> Nat]
  OBVIOUS
<1> HIDE DEF step
<1>3. PICK f \in [0 .. n -> Nat] : Looped(f, n, 0, step)
  BY <1>2, LoopHasValues
<1>4. \A k \in 0 .. n : k # 0 => k \in 1 .. n /\ f[k - 1] \in Nat
  OBVIOUS
<1>5. f = [k \in 0 .. n |-> IF k = 0 THEN 0 ELSE f[k - 1] + w[k]]
  BY <1>1, <1>3, <1>4 DEF Looped
<1> QED
  BY <1>5 DEF IsCount

(* What calc_escaped_size has counted grows by one or two a character.     *)
LEMMA Counted ==
  ASSUME NEW t \in Seq(Char)
  PROVE  /\ CountedAfter(t) \in [0 .. Len(t) -> Nat]
         /\ CountedAfter(t)[0] = 0
         /\ \A k \in 1 .. Len(t) :
              CountedAfter(t)[k] = CountedAfter(t)[k - 1] + escaped_size(t[k])
<1> DEFINE w == [k \in 1 .. Len(t) |-> escaped_size(t[k])]
           IsIt(f) == f = [k \in 0 .. Len(t) |->
                             IF k = 0 THEN 0 ELSE f[k - 1] + escaped_size(t[k])]
           counted == CHOOSE f : IsIt(f)
<1>1. PICK n \in Nat : n = Len(t)
  BY LenProperties
<1>2. CountedAfter(t) = counted
  BY Zenon DEF CountedAfter
<1>3. \A k \in 1 .. n : w[k] \in Nat
  BY <1>1 DEF escaped_size
<1>4. \A f : IsIt(f) <=> IsCount(f, n, w)
  BY <1>1 DEF IsCount
<1> HIDE DEF IsIt, w
<1>5. PICK f \in [0 .. n -> Nat] : IsCount(f, n, w)
  BY <1>3, CountExists
<1>6. IsIt(counted)
  BY <1>4, <1>5
<1> HIDE DEF counted
<1>7. counted = [k \in 0 .. n |-> IF k = 0 THEN 0 ELSE counted[k - 1] + escaped_size(t[k])]
  BY <1>1, <1>6 DEF IsIt
<1>8. \A k \in 0 .. n : counted[k] = IF k = 0 THEN 0 ELSE counted[k - 1] + escaped_size(t[k])
  BY <1>7
<1>9. 0 .. n \subseteq {k \in 0 .. n : counted[k] \in Nat}
  <2> DEFINE S == {k \in 0 .. n : counted[k] \in Nat}
  <2>1. 0 \in S
    BY <1>8
  <2>2. \A k \in 0 .. n : k \in S /\ k < n => k + 1 \in S
    <3> SUFFICES ASSUME NEW k \in 0 .. n, k \in S, k < n
                 PROVE  k + 1 \in S
      OBVIOUS
    <3>1. k + 1 \in 0 .. n /\ k + 1 # 0 /\ k + 1 - 1 = k
      OBVIOUS
    <3>2. counted[k + 1] = counted[k] + escaped_size(t[k + 1])
      BY <1>8, <3>1
    <3>3. escaped_size(t[k + 1]) \in Nat
      BY DEF escaped_size
    <3> QED BY <3>1, <3>2, <3>3
  <2> HIDE DEF S
  <2> QED BY <2>1, <2>2, InductionUpTo DEF S
<1>10. counted \in [0 .. n -> Nat]
  BY <1>7, <1>9
<1>11. \A k \in 1 .. n : counted[k] = counted[k - 1] + escaped_size(t[k])
  BY <1>8
<1>12. counted[0] = 0
  BY <1>8
<1> QED
  BY <1>1, <1>2, <1>10, <1>11, <1>12

(* So it is larger for more of the text.                                   *)
LEMMA CountedGrows ==
  ASSUME NEW t \in Seq(Char), NEW i \in 0 .. Len(t)
  PROVE  \A j \in i .. Len(t) :
           CountedAfter(t)[i] + (j - i) <= CountedAfter(t)[j]
<1>1. PICK n \in Nat : n = Len(t)
  BY LenProperties
<1>2. PICK c \in [0 .. n -> Nat] : c = CountedAfter(t)
  BY <1>1, Counted
<1>3. \A k \in 1 .. n : c[k] >= c[k - 1] + 1
  <2> SUFFICES ASSUME NEW k \in 1 .. n
               PROVE  c[k] >= c[k - 1] + 1
    OBVIOUS
  <2>1. c[k] = c[k - 1] + escaped_size(t[k])
    BY <1>1, <1>2, Counted
  <2>2. escaped_size(t[k]) \in {1, 2}
    BY DEF escaped_size
  <2>3. c[k] \in Nat /\ c[k - 1] \in Nat
    OBVIOUS
  <2> QED BY <2>1, <2>2, <2>3
<1> DEFINE Grown(k) == i + k <= n => c[i] + k <= c[i + k]
           S == {k \in Nat : Grown(k)}
<1>4. 0 \in S
  BY <1>1
<1>5. \A k \in 0 .. n : k \in S /\ k < n => k + 1 \in S
  <2> SUFFICES ASSUME NEW k \in 0 .. n, k \in S, i + (k + 1) <= n
               PROVE  c[i] + (k + 1) <= c[i + (k + 1)]
    <3>1. \A k \in 0 .. n : k + 1 \in Nat
      OBVIOUS
    <3>2. ASSUME NEW k \in 0 .. n, k \in S, ~Grown(k + 1)
          PROVE  i + (k + 1) <= n /\ ~(c[i] + (k + 1) <= c[i + (k + 1)])
      BY <3>2
    <3> HIDE DEF Grown
    <3> QED BY <3>1, <3>2
  <2>1. i \in Nat /\ c[i] + k <= c[i + k] /\ i + (k + 1) \in 1 .. n /\ i + (k + 1) - 1 = i + k
    BY <1>1
  <2>2. c[i + (k + 1)] >= c[i + k] + 1
    BY <1>3, <2>1
  <2>3. c[i] \in Nat /\ c[i + k] \in Nat /\ c[i + (k + 1)] \in Nat
    BY <1>1, <2>1
  <2> QED BY <2>1, <2>2, <2>3
<1>6. 0 .. n \subseteq S
  <2> HIDE DEF S
  <2> QED BY <1>4, <1>5, InductionUpTo
<1>7. ASSUME NEW j \in i .. n
      PROVE  c[i] + (j - i) <= c[j]
  <2>1. j - i \in 0 .. n /\ i + (j - i) = j /\ j <= n
    BY <1>1
  <2>2. j - i \in S
    <3> HIDE DEF S
    <3> QED BY <1>6, <2>1
  <2> QED BY <2>1, <2>2
<1> QED
  BY <1>1, <1>2, <1>7

-----------------------------------------------------------------------------
(* The second pass                                                         *)

LEMMA TwoAndOne ==
  ASSUME NEW a, NEW b, NEW d
  PROVE  /\ <<a, b>> \o <<d>> = <<a, b, d>>
         /\ Len(<<a, b>>) = 2 /\ Len(<<a, b, d>>) = 3
<1> DEFINE S == {a, b, d}
<1>1. <<a, b>> \in Seq(S) /\ <<d>> \in Seq(S)
  OBVIOUS
<1>2. PICK s, u, v : s = <<a, b>> /\ u = <<d>> /\ v = <<a, b, d>>
  OBVIOUS
<1>3. /\ s \in Seq(S) /\ u \in Seq(S) /\ Len(s) = 2 /\ Len(u) = 1 /\ Len(v) = 3
      /\ s[1] = a /\ s[2] = b /\ u[1] = d
      /\ v = [i \in 1 .. 3 |-> IF i = 1 THEN a ELSE IF i = 2 THEN b ELSE d]
  BY <1>2
<1> HIDE DEF S
<1>4. /\ s \o u \in Seq(S) /\ Len(s \o u) = 3
      /\ \A i \in 1 .. 3 : (s \o u)[i] = IF i <= 2 THEN s[i] ELSE u[i - 2]
  BY <1>3, ConcatProperties
<1>5. s \o u = [i \in 1 .. 3 |-> (s \o u)[i]]
  <2>1. PICK w \in Seq(S) : w = s \o u
    BY <1>4
  <2>2. w = [i \in 1 .. Len(w) |-> w[i]]
    OBVIOUS
  <2> QED BY <1>4, <2>1, <2>2
<1>6. \A i \in 1 .. 3 : (s \o u)[i] = IF i = 1 THEN a ELSE IF i = 2 THEN b ELSE d
  BY <1>3, <1>4
<1>7. s \o u = v
  BY <1>3, <1>5, <1>6
<1> QED
  BY <1>2, <1>3, <1>7

LEMMA EscapeInvariance == EscapeSpec => []EscapeInv
<1>1. EscapeInit => EscapeInv
  <2> SUFFICES ASSUME EscapeInit
               PROVE  EscapeInv
    OBVIOUS
  <2>1. text \in Seq(Char) /\ Len(text) \in Nat
    <3>1. text \in UNION {[1 .. m -> Char] : m \in 0 .. MaxText}
      BY DEF EscapeInit, SeqOf
    <3>2. PICK m \in 0 .. MaxText : text \in [1 .. m -> Char]
      BY <3>1
    <3>3. m \in Nat
      BY TextAssumption
    <3> QED BY <3>2, <3>3
  <2>2. src = 1 /\ p = 1 /\ dest = [k \in 1 .. size + 1 |-> "unwritten"]
        /\ size = CountedAfter(text)[Len(text)]
    BY DEF EscapeInit, calc_escaped_size
  <2>3. CountedAfter(text)[0] = 0 /\ size \in Nat
    BY <2>1, <2>2, Counted
  <2>4. Cell(1) = 1
    BY <2>3 DEF Cell
  <2>5. WrittenInv
    BY <2>1, <2>2, <2>4 DEF WrittenInv
  <2>6. RoomInv
    BY <2>2, <2>3 DEF RoomInv
  <2> QED BY <2>5, <2>6 DEF EscapeInv
<1>2. EscapeInv /\ [EscapeNext]_escape_vars => EscapeInv'
  <2> SUFFICES ASSUME EscapeInv, [EscapeNext]_escape_vars
               PROVE  EscapeInv'
    OBVIOUS
  <2>1. ASSUME UNCHANGED escape_vars
        PROVE  EscapeInv'
    BY <2>1 DEF EscapeInv, WrittenInv, RoomInv, Holds, Cell, escape_vars
  <2>2. ASSUME EscapeChar
        PROVE  EscapeInv'
    <3> DEFINE c == text[src]
               size_c == escaped_size(c)
    <3>1. PICK n \in Nat : n = Len(text)
      BY LenProperties DEF EscapeInv, WrittenInv
    <3>2. /\ text \in Seq(Char) /\ src \in 1 .. n /\ p = Cell(src)
          /\ size = CountedAfter(text)[n] /\ DOMAIN dest = 1 .. size + 1
          /\ text' = text /\ size' = size /\ src' = src + 1
      BY <2>2, <3>1 DEF EscapeInv, WrittenInv, RoomInv, EscapeChar
    <3>3. /\ CountedAfter(text) \in [0 .. n -> Nat]
          /\ \A k \in 1 .. n :
               CountedAfter(text)[k] = CountedAfter(text)[k - 1] + escaped_size(text[k])
      BY <3>1, <3>2, Counted
    <3>4. \A i \in 1 .. n : /\ Cell(i) \in Nat \ {0}
                            /\ Cell(i + 1) = Cell(i) + escaped_size(text[i])
                            /\ Cell(i + 1) = 1 + CountedAfter(text)[i]
      <4> SUFFICES ASSUME NEW i \in 1 .. n
                   PROVE  /\ Cell(i) \in Nat \ {0}
                          /\ Cell(i + 1) = Cell(i) + escaped_size(text[i])
                          /\ Cell(i + 1) = 1 + CountedAfter(text)[i]
        OBVIOUS
      <4>1. i - 1 \in 0 .. n /\ i \in 0 .. n /\ i + 1 - 1 = i
        OBVIOUS
      <4>2. CountedAfter(text)[i - 1] \in Nat /\ CountedAfter(text)[i] \in Nat
        BY <3>3, <4>1
      <4>3. CountedAfter(text)[i] = CountedAfter(text)[i - 1] + escaped_size(text[i])
        BY <3>3
      <4>4. escaped_size(text[i]) \in Nat
        BY DEF escaped_size
      <4> QED BY <4>1, <4>2, <4>3, <4>4 DEF Cell
    <3>5. p \in Nat \ {0} /\ Cell(src + 1) = p + size_c /\ size \in Nat
      BY <3>2, <3>3, <3>4
    <3>6. p + size_c <= size + 1
      <4>1. CountedAfter(text)[src] <= CountedAfter(text)[n]
        <5>1. src \in 0 .. n /\ n \in src .. n /\ n - src \in Nat
          BY <3>2
        <5>2. CountedAfter(text)[src] + (n - src) <= CountedAfter(text)[n]
          BY <3>1, <3>2, <5>1, CountedGrows
        <5>3. CountedAfter(text)[src] \in Nat /\ CountedAfter(text)[n] \in Nat
          BY <3>3, <5>1
        <5> QED BY <5>1, <5>2, <5>3
      <4>2. Cell(src + 1) = 1 + CountedAfter(text)[src]
        BY <3>2, <3>4
      <4>3. CountedAfter(text)[src] \in Nat
        BY <3>2, <3>3
      <4> QED BY <3>2, <3>5, <4>1, <4>2, <4>3
    <3>7. \A i \in 1 .. src - 1 : /\ Cell(i) \in 1 .. p - 1
                                  /\ text[i] \in DOMAIN Letter => Cell(i) + 1 \in 1 .. p - 1
      <4> SUFFICES ASSUME NEW i \in 1 .. src - 1
                   PROVE  /\ Cell(i) \in 1 .. p - 1
                          /\ text[i] \in DOMAIN Letter => Cell(i) + 1 \in 1 .. p - 1
        OBVIOUS
      <4>1. i \in 1 .. n /\ i \in 0 .. n /\ src - 1 \in i .. n /\ src - 1 - i \in Nat
            /\ i + 1 - 1 = i
        BY <3>2
      <4>2. CountedAfter(text)[i] + (src - 1 - i) <= CountedAfter(text)[src - 1]
        BY <3>1, <3>2, <4>1, CountedGrows
      <4>3. CountedAfter(text)[i] \in Nat /\ CountedAfter(text)[src - 1] \in Nat
        BY <3>3, <4>1
      <4>4. Cell(i + 1) <= p
        BY <3>2, <4>1, <4>2, <4>3 DEF Cell
      <4>5. escaped_size(text[i]) = IF text[i] \in DOMAIN Letter THEN 2 ELSE 1
        BY DEF escaped_size
      <4>6. Cell(i) \in Nat \ {0} /\ Cell(i + 1) = Cell(i) + escaped_size(text[i])
        BY <3>4, <4>1
      <4> HIDE DEF Cell
      <4> QED BY <3>5, <4>4, <4>5, <4>6
    <3> DEFINE Before == \A k \in 1 .. p - 1 : dest'[k] = dest[k]
               Here   == IF c \in DOMAIN Letter
                           THEN dest'[p] = "backslash" /\ dest'[p + 1] = Letter[c]
                           ELSE dest'[p] = c
               Beyond == \A k \in p' + 1 .. size + 1 : dest'[k] = "unwritten"
               AtEnd  == dest'[p'] = Behind(c)
               Writes == /\ DOMAIN dest' = 1 .. size + 1 /\ p' = p + size_c
                         /\ Before /\ Here /\ Beyond /\ AtEnd
    <3>8. \A k \in p + 1 .. size + 1 : dest[k] = "unwritten"
      BY DEF EscapeInv, RoomInv
    <3>9. ASSUME c \in DOMAIN Letter
          PROVE  Writes
      <4>1. size_c = 2 /\ escaped(c) = <<"backslash", Letter[c]>>
        BY <3>9 DEF escaped, escaped_size
      <4>2. PICK chars : chars = <<"backslash", Letter[c], "NUL">>
        OBVIOUS
      <4>3. /\ dest' = [k \in DOMAIN dest \cup p .. p + 2 |->
                          IF k \in p .. p + 2 THEN chars[k - p + 1] ELSE dest[k]]
            /\ p' = p + 2
        <5>1. PICK out : out = <<"backslash", Letter[c]>>
          OBVIOUS
        <5>2. Len(out) = 2 /\ out \o <<"NUL">> = chars /\ Len(chars) = 3
          BY <4>2, <5>1, TwoAndOne
        <5>3. p + 3 - 1 = p + 2
          BY <3>5
        <5> QED BY <2>2, <4>1, <5>1, <5>2, <5>3 DEF EscapeChar
      <4>4. DOMAIN dest' = 1 .. size + 1
        <5>1. DOMAIN dest' = DOMAIN dest \cup p .. p + 2
          BY <4>3
        <5>2. (1 .. size + 1) \cup p .. p + 2 = 1 .. size + 1
          BY <3>5, <3>6, <4>1
        <5> QED BY <3>2, <5>1, <5>2
      <4>5. \A k \in 1 .. size + 1 :
              dest'[k] = IF k \in p .. p + 2 THEN chars[k - p + 1] ELSE dest[k]
        BY <3>2, <4>3
      <4>6. p \in 1 .. size + 1 /\ p + 1 \in 1 .. size + 1 /\ p + 2 \in 1 .. size + 1
        BY <3>5, <3>6, <4>1
      <4>7. dest'[p] = "backslash" /\ dest'[p + 1] = Letter[c] /\ dest'[p + 2] = "NUL"
        <5>1. p \in p .. p + 2 /\ p + 1 \in p .. p + 2 /\ p + 2 \in p .. p + 2
              /\ p - p + 1 = 1 /\ p + 1 - p + 1 = 2 /\ p + 2 - p + 1 = 3
          BY <3>5
        <5>2. dest'[p] = chars[1] /\ dest'[p + 1] = chars[2] /\ dest'[p + 2] = chars[3]
          BY <4>5, <4>6, <5>1
        <5> HIDE DEF c
        <5> QED BY <4>2, <5>2
      <4>8. Before
        <5>1. \A k \in 1 .. p - 1 : k \in 1 .. size + 1 /\ k \notin p .. p + 2
          BY <3>5, <4>6
        <5> QED BY <4>5, <5>1
      <4>9. Beyond
        <5>1. \A k \in p' + 1 .. size + 1 :
                k \in 1 .. size + 1 /\ k \notin p .. p + 2 /\ k \in p + 1 .. size + 1
          BY <3>5, <4>3
        <5> QED BY <3>8, <4>5, <5>1
      <4>10. AtEnd
        BY <3>9, <4>3, <4>7 DEF Behind
      <4> QED BY <3>9, <4>1, <4>3, <4>4, <4>7, <4>8, <4>9, <4>10
    <3>10. ASSUME c \notin DOMAIN Letter
           PROVE  Writes
      <4>1. size_c = 1 /\ escaped(c) = <<c>>
        BY <3>10 DEF escaped, escaped_size
      <4>2. PICK chars : chars = <<c>>
        OBVIOUS
      <4>3. /\ dest' = [k \in DOMAIN dest \cup p .. p |->
                          IF k \in p .. p THEN chars[k - p + 1] ELSE dest[k]]
            /\ p' = p + 1
        <5>1. PICK out : out = <<c>>
          OBVIOUS
        <5>2. Len(out) = 1 /\ out \o << >> = chars /\ Len(chars) = 1
          BY <4>2, <5>1
        <5>3. p + 1 - 1 = p
          BY <3>5
        <5>4. (IF Len(out) = 2 THEN <<"NUL">> ELSE << >>) = << >>
          BY <5>2
        <5> QED BY <2>2, <4>1, <5>1, <5>2, <5>3, <5>4 DEF EscapeChar
      <4>4. DOMAIN dest' = 1 .. size + 1
        <5>1. DOMAIN dest' = DOMAIN dest \cup p .. p
          BY <4>3
        <5>2. (1 .. size + 1) \cup p .. p = 1 .. size + 1
          BY <3>5, <3>6, <4>1
        <5> QED BY <3>2, <5>1, <5>2
      <4>5. \A k \in 1 .. size + 1 :
              dest'[k] = IF k \in p .. p THEN chars[k - p + 1] ELSE dest[k]
        BY <3>2, <4>3
      <4>6. p \in 1 .. size + 1 /\ p + 1 \in 1 .. size + 1
        BY <3>5, <3>6, <4>1
      <4>7. dest'[p] = c
        <5>1. p \in p .. p /\ p - p + 1 = 1
          BY <3>5
        <5>2. dest'[p] = chars[1]
          BY <4>5, <4>6, <5>1
        <5> HIDE DEF c
        <5> QED BY <4>2, <5>2
      <4>8. Before
        <5>1. \A k \in 1 .. p - 1 : k \in 1 .. size + 1 /\ k \notin p .. p
          BY <3>5, <4>6
        <5> QED BY <4>5, <5>1
      <4>9. \A k \in p' .. size + 1 : dest'[k] = "unwritten"
        <5>1. \A k \in p' .. size + 1 :
                k \in 1 .. size + 1 /\ k \notin p .. p /\ k \in p + 1 .. size + 1
          BY <3>5, <4>3
        <5> QED BY <3>8, <4>5, <5>1
      <4>10. p' \in p' .. size + 1 /\ \A k \in p' + 1 .. size + 1 : k \in p' .. size + 1
        BY <3>5, <4>3, <4>6
      <4>11. AtEnd /\ Beyond
        BY <3>10, <4>9, <4>10 DEF Behind
      <4> QED BY <3>10, <4>1, <4>3, <4>4, <4>7, <4>8, <4>11
    <3>11. Writes
      BY <3>9, <3>10
    <3>12. \A i \in 1 .. src : Holds(i)'
      <4> SUFFICES ASSUME NEW i \in 1 .. src
                   PROVE  Holds(i)'
        OBVIOUS
      <4>0. Cell(i)' = Cell(i)
        BY <3>2 DEF Cell
      <4>1. CASE i = src
        <5>1. Cell(i)' = p /\ text'[i] = c
          BY <3>2, <4>0, <4>1
        <5> HIDE DEF c
        <5> QED BY <3>11, <5>1 DEF Holds
      <4>2. CASE i # src
        <5>1. i \in 1 .. src - 1
          BY <3>2, <4>2
        <5>2. Holds(i)
          BY <5>1 DEF EscapeInv, WrittenInv
        <5> QED BY <3>2, <3>7, <3>11, <4>0, <5>1, <5>2 DEF Holds
      <4> QED BY <4>1, <4>2
    <3>13. WrittenInv'
      <4>1. src' \in 1 .. Len(text') + 1
        BY <3>1, <3>2
      <4>2. \A i \in 1 .. src' - 1 : i \in 1 .. src
        BY <3>2
      <4>3. p' = 1 + CountedAfter(text')[src' - 1]
        <5>1. src' - 1 = src /\ p' = 1 + CountedAfter(text)[src]
          BY <3>2, <3>4, <3>5, <3>11
        <5> QED BY <3>2, <5>1
      <4>4. \A i \in 1 .. src' - 1 : Holds(i)'
        BY <3>12, <4>2
      <4>5. text' \in Seq(Char)
        BY <3>2
      <4> QED BY <4>1, <4>3, <4>4, <4>5 DEF WrittenInv, Cell
    <3>14. RoomInv'
      <4>1. src' > 1 /\ text'[src' - 1] = c
        <5>1. src' - 1 = src
          BY <3>2
        <5> QED BY <3>2, <5>1
      <4>2. size' = CountedAfter(text')[Len(text')]
        BY <3>1, <3>2
      <4>3. \A k \in 1 .. p' - 1 : dest'[k] \notin {"NUL", "unwritten"}
        <5> SUFFICES ASSUME NEW k \in 1 .. p' - 1
                     PROVE  dest'[k] \notin {"NUL", "unwritten"}
          OBVIOUS
        <5>1. CASE k \in 1 .. p - 1
          BY <3>11, <5>1 DEF EscapeInv, RoomInv
        <5>2. CASE k \notin 1 .. p - 1 /\ c \in DOMAIN Letter
          <6>1. k = p \/ k = p + 1
            BY <3>5, <3>11, <5>2 DEF escaped_size
          <6>2. Letter[c] \in {"t", "n", "quote", "backslash", "r"}
            BY <5>2 DEF Letter
          <6>3. dest'[k] = "backslash" \/ dest'[k] = Letter[c]
            BY <3>11, <5>2, <6>1
          <6> HIDE DEF c
          <6> QED BY <6>2, <6>3
        <5>3. CASE k \notin 1 .. p - 1 /\ c \notin DOMAIN Letter
          <6>1. k = p
            BY <3>5, <3>11, <5>3 DEF escaped_size
          <6>2. c \in Char
            BY <3>1, <3>2, ElementOfSeq
          <6>3. dest'[k] = c
            BY <3>11, <5>3, <6>1
          <6> HIDE DEF c
          <6> QED BY <6>2, <6>3, TextAssumption
        <5> QED BY <5>1, <5>2, <5>3
      <4>4. dest'[p'] = Behind(text'[src' - 1])
        BY <3>11, <4>1
      <4>5. DOMAIN dest' = 1 .. size' + 1
            /\ \A k \in p' + 1 .. size' + 1 : dest'[k] = "unwritten"
        BY <3>2, <3>11
      <4> HIDE DEF c
      <4> QED BY <4>1, <4>2, <4>3, <4>4, <4>5 DEF RoomInv
    <3> QED BY <3>13, <3>14 DEF EscapeInv
  <2> QED BY <2>1, <2>2 DEF EscapeNext, EscapeReturned
<1> QED
  BY <1>1, <1>2, PTL DEF EscapeSpec

(* For every text, the second pass writes into all of the cells that the   *)
(* first counted; behind them it writes the NUL of a last escape sequence, *)
(* and nothing if the text ends otherwise.                                 *)
THEOREM PassesAgree == EscapeSpec => []FillsTheRoom
<1>1. ASSUME EscapeInv
      PROVE  FillsTheRoom
  <2>1. PICK n \in Nat : n = Len(text)
    BY <1>1, LenProperties DEF EscapeInv, WrittenInv
  <2>2. /\ text \in Seq(Char) /\ src \in 1 .. n + 1 /\ p = 1 + CountedAfter(text)[src - 1]
        /\ size = CountedAfter(text)[n] /\ DOMAIN dest = 1 .. size + 1
    BY <1>1, <2>1 DEF EscapeInv, WrittenInv, RoomInv, Cell
  <2>3. /\ p \in Nat /\ size \in Nat
        /\ p + (n - (src - 1)) <= size + 1
    <3>1. src - 1 \in 0 .. n /\ n \in src - 1 .. n /\ n - (src - 1) \in Nat
      BY <2>2
    <3>2. CountedAfter(text)[src - 1] + (n - (src - 1)) <= CountedAfter(text)[n]
      BY <2>1, <2>2, <3>1, CountedGrows
    <3>3. CountedAfter(text)[src - 1] \in Nat /\ CountedAfter(text)[n] \in Nat
      <4>1. CountedAfter(text) \in [0 .. n -> Nat] /\ n \in 0 .. n
        BY <2>1, <2>2, Counted
      <4> QED BY <3>1, <4>1
    <3> QED BY <2>2, <3>1, <3>2, <3>3
  <2>4. p <= size + 1
    BY <2>2, <2>3
  <2>5. src > n => p = size + 1
    <3>1. src > n => src - 1 = n
      BY <2>2
    <3> QED BY <2>2, <2>3, <3>1
  <2>6. \A k \in 1 .. p - 1 : dest[k] \notin {"NUL", "unwritten"}
    BY <1>1 DEF EscapeInv, RoomInv
  <2>7. ASSUME NEW k \in p .. size + 1
        PROVE  dest[k] = IF k = p /\ src > 1 /\ text[src - 1] \in DOMAIN Letter
                           THEN "NUL" ELSE "unwritten"
    <3>1. CASE k = p
      BY <1>1, <3>1 DEF EscapeInv, RoomInv, Behind
    <3>2. CASE k # p
      <4>1. k \in p + 1 .. size + 1
        BY <2>3, <3>2
      <4> QED BY <1>1, <3>2, <4>1 DEF EscapeInv, RoomInv
    <3> QED BY <3>1, <3>2
  <2> QED BY <2>1, <2>2, <2>4, <2>5, <2>6, <2>7 DEF FillsTheRoom
<1> QED
  BY <1>1, EscapeInvariance, PTL

-----------------------------------------------------------------------------
(* Reading what was written                                                *)

(* f reads n characters from any of them on: v is what is read at a place, *)
(* and s how many characters that takes.                                   *)
IsReading(f, n, v, s) ==
  f = [k \in 1 .. n + 1 |-> IF k > n THEN << >> ELSE <<v[k]>> \o f[k + s[k]]]

LEMMA ReadingExists ==
  ASSUME NEW n \in Nat, NEW v, NEW s,
         \A k \in 1 .. n : s[k] \in Nat \ {0} /\ k + s[k] <= n + 1
  PROVE  \E f : IsReading(f, n, v, s)
<1> DEFINE D == 1 .. n + 1
           L == {v[k] : k \in 1 .. n}
           V == Seq(L)
           rank == [k \in D |-> n + 1 - k]
           F == [e \in D \X [D -> V] |->
                   IF e[1] > n THEN << >> ELSE <<v[e[1]]>> \o e[2][e[1] + s[e[1]]]]
<1>1. \A k \in D : k <= n => k + s[k] \in D /\ rank[k + s[k]] < rank[k]
  <2> SUFFICES ASSUME NEW k \in D, k <= n
               PROVE  k + s[k] \in D /\ rank[k + s[k]] < rank[k]
    OBVIOUS
  <2>1. k \in 1 .. n /\ s[k] \in Nat \ {0} /\ k + s[k] <= n + 1
    OBVIOUS
  <2>2. PICK j : j = k + s[k]
    OBVIOUS
  <2>3. j \in D /\ k < j
    BY <2>1, <2>2
  <2>4. rank[j] = n + 1 - j /\ rank[k] = n + 1 - k
    BY <2>3
  <2> QED BY <2>1, <2>2, <2>3, <2>4
<1>2. rank \in [D -> 0 .. n]
  OBVIOUS
<1>3. \A k \in D : k \in Nat /\ (k <= n => v[k] \in L) /\ (~(k > n) <=> k <= n)
  OBVIOUS
<1>4. V # {} /\ << >> \in V
  BY EmptySeq
<1>5. \A k \in D, g \in [D -> V] :
        F[<<k, g>>] = IF k > n THEN << >> ELSE <<v[k]>> \o g[k + s[k]]
  <2> HIDE DEF D, V
  <2> QED OBVIOUS
<1>6. F \in [D \X [D -> V] -> V]
  <2> HIDE DEF D, L, rank
  <2> SUFFICES ASSUME NEW k \in D, NEW g \in [D -> V], ~(k > n)
               PROVE  <<v[k]>> \o g[k + s[k]] \in V
    <3> HIDE DEF V
    <3> QED BY <1>4
  <2>1. v[k] \in L /\ g[k + s[k]] \in Seq(L)
    BY <1>1, <1>3
  <2>2. <<v[k]>> \in Seq(L)
    BY <2>1
  <2> QED BY <2>1, <2>2, ConcatProperties
<1> HIDE DEF F, V, D, L, rank
<1>7. \A k \in D : \A g, h \in [D -> V] :
        (\A e \in D : rank[e] < rank[k] => g[e] = h[e]) => F[<<k, g>>] = F[<<k, h>>]
  <2> SUFFICES ASSUME NEW k \in D, NEW g \in [D -> V], NEW h \in [D -> V],
                      \A e \in D : rank[e] < rank[k] => g[e] = h[e]
               PROVE  F[<<k, g>>] = F[<<k, h>>]
    OBVIOUS
  <2>1. CASE k > n
    BY <1>5, <2>1
  <2>2. CASE ~(k > n)
    <3>1. g[k + s[k]] = h[k + s[k]]
      BY <1>1, <1>3, <2>2
    <3> QED BY <1>5, <2>2, <3>1
  <2> QED BY <2>1, <2>2
<1>8. PICK f \in [D -> V] : \A k \in D : f[k] = F[<<k, f>>]
  <2>1. ByRank(F, D, V, rank, n)
    BY <1>2, <1>4, <1>6, <1>7 DEF ByRank
  <2> QED BY <2>1, RecursionByRank
<1>9. f = [k \in D |-> f[k]]
  OBVIOUS
<1>10. f = [k \in D |-> IF k > n THEN << >> ELSE <<v[k]>> \o f[k + s[k]]]
  BY <1>5, <1>8, <1>9
<1> QED
  BY <1>10 DEF IsReading, D

(* If the m elements of t are what is read from at[1], at[2] and so on,    *)
(* reading from at[1] gives t.                                             *)
LEMMA ReadsInOrder ==
  ASSUME NEW n \in Nat, NEW v, NEW s, NEW f, IsReading(f, n, v, s),
         NEW C, NEW t \in Seq(C), NEW at, at[Len(t) + 1] = n + 1,
         \A i \in 1 .. Len(t) : /\ at[i] \in 1 .. n /\ v[at[i]] = t[i]
                                /\ at[i] + s[at[i]] = at[i + 1]
  PROVE  f[at[1]] = t
<1>1. PICK m \in Nat : m = Len(t)
  BY LenProperties
<1> DEFINE Reads(k) ==
             LET r == f[at[m + 1 - k]]
             IN  /\ r \in Seq(C) /\ Len(r) = k
                 /\ \A j \in 1 .. k : r[j] = t[m - k + j]
           S == {k \in Nat : k <= m => Reads(k)}
<1>2. 0 \in S
  <2>1. m + 1 - 0 = m + 1 /\ n + 1 \in 1 .. n + 1 /\ n + 1 > n
    OBVIOUS
  <2>2. f[at[m + 1 - 0]] = << >>
    BY <1>1, <2>1 DEF IsReading
  <2>3. << >> \in Seq(C) /\ Len(<< >>) = 0 /\ 1 .. 0 = {}
    BY EmptySeq
  <2>4. Reads(0)
    BY <2>2, <2>3
  <2> HIDE DEF Reads
  <2> QED BY <2>4
<1>3. ASSUME NEW k \in 0 .. m, k \in S, k < m
      PROVE  k + 1 \in S
  <2>1. PICK i \in Nat : i = m - k
    BY <1>3
  <2>2. /\ i \in 1 .. m /\ m + 1 - (k + 1) = i /\ m + 1 - k = i + 1
        /\ m - (k + 1) + 1 = i /\ \A j \in 2 .. k + 1 : m - (k + 1) + j = m - k + (j - 1)
    <3>1. m \in Nat /\ k \in Nat /\ i = m - k /\ k < m
      BY <1>3, <2>1
    <3>2. \A j \in 2 .. k + 1 : j \in Nat
      BY <3>1
    <3> QED BY ONLY <3>1, <3>2
  <2>3. PICK r : r = f[at[i + 1]]
    OBVIOUS
  <2>4. r \in Seq(C) /\ Len(r) = k /\ \A j \in 1 .. k : r[j] = t[m - k + j]
    <3>1. Reads(k)
      <4> HIDE DEF Reads
      <4> QED BY <1>3
    <3> QED BY <2>2, <2>3, <3>1
  <2>5. f[at[i]] = <<t[i]>> \o r
    <3>1. at[i] \in 1 .. n /\ v[at[i]] = t[i] /\ at[i] + s[at[i]] = at[i + 1]
      BY <1>1, <2>2
    <3>2. at[i] \in 1 .. n + 1 /\ ~(at[i] > n)
      BY <3>1
    <3>3. f[at[i]] = <<v[at[i]]>> \o f[at[i] + s[at[i]]]
      BY <3>2 DEF IsReading
    <3> QED BY <2>3, <3>1, <3>3
  <2>6. t[i] \in C
    BY <1>1, <2>2
  <2>7. <<t[i]>> \in Seq(C) /\ Len(<<t[i]>>) = 1 /\ <<t[i]>>[1] = t[i]
    BY <2>6
  <2>8. PICK q : q = f[at[i]]
    OBVIOUS
  <2>9. /\ q \in Seq(C) /\ Len(q) = 1 + k
        /\ \A j \in 1 .. 1 + k : q[j] = IF j <= 1 THEN <<t[i]>>[j] ELSE r[j - 1]
    <3>1. PICK o : o = <<t[i]>>
      OBVIOUS
    <3>2. o \in Seq(C) /\ Len(o) = 1 /\ r \in Seq(C) /\ Len(r) = k /\ q = o \o r
      BY <2>4, <2>5, <2>7, <2>8, <3>1
    <3>3. /\ o \o r \in Seq(C) /\ Len(o \o r) = Len(o) + Len(r)
          /\ \A j \in 1 .. Len(o) + Len(r) :
               (o \o r)[j] = IF j <= Len(o) THEN o[j] ELSE r[j - Len(o)]
      BY ONLY <3>2, ConcatProperties
    <3>4. /\ q \in Seq(C) /\ Len(q) = 1 + k
          /\ \A j \in 1 .. 1 + k : q[j] = IF j <= 1 THEN o[j] ELSE r[j - 1]
      BY ONLY <3>2, <3>3
    <3> QED BY <3>1, <3>4
  <2>10. \A j \in 1 .. k + 1 : q[j] = t[m - (k + 1) + j]
    <3> SUFFICES ASSUME NEW j \in 1 .. k + 1
                 PROVE  q[j] = t[m - (k + 1) + j]
      OBVIOUS
    <3>1. CASE j = 1
      BY <2>2, <2>7, <2>9, <3>1
    <3>2. CASE j # 1
      <4>1. j \in 2 .. k + 1 /\ j - 1 \in 1 .. k /\ ~(j <= 1) /\ j \in 1 .. 1 + k
        BY <3>2
      <4>2. q[j] = r[j - 1]
        BY <2>9, <4>1
      <4>3. r[j - 1] = t[m - k + (j - 1)]
        BY <2>4, <4>1
      <4> QED BY <2>2, <4>1, <4>2, <4>3
    <3> QED BY <3>1, <3>2
  <2>11. Len(q) = k + 1
    BY <2>9
  <2>12. Reads(k + 1)
    BY <2>2, <2>8, <2>9, <2>10, <2>11
  <2> HIDE DEF Reads
  <2> QED BY <2>12
<1>4. Reads(m)
  <2>1. 0 .. m \subseteq S
    <3>1. \A k \in 0 .. m : k \in S /\ k < m => k + 1 \in S
      BY <1>3
    <3> HIDE DEF S
    <3> QED BY <1>2, <3>1, InductionUpTo
  <2>2. m \in 0 .. m /\ m <= m
    OBVIOUS
  <2> HIDE DEF Reads
  <2> QED BY <2>1, <2>2
<1>5. PICK q : q = f[at[1]]
  OBVIOUS
<1>6. q \in Seq(C) /\ Len(q) = m /\ \A j \in 1 .. m : q[j] = t[j]
  <2>1. m + 1 - m = 1 /\ \A j \in 1 .. m : m - m + j = j
    OBVIOUS
  <2> QED BY <1>4, <1>5, <2>1
<1>7. q = [j \in 1 .. m |-> q[j]] /\ t = [j \in 1 .. m |-> t[j]]
  BY <1>1, <1>6
<1>8. q = t
  BY <1>6, <1>7
<1> QED
  BY <1>5, <1>8

(* No two characters have the same letter.                                 *)
LEMMA LettersDiffer ==
  ASSUME NEW c \in DOMAIN Letter
  PROVE  (CHOOSE e \in DOMAIN Letter : Letter[e] = Letter[c]) = c
<1>1. /\ DOMAIN Letter = {"tab", "newline", "quote", "backslash", "return"}
      /\ Letter["tab"] = "t" /\ Letter["newline"] = "n" /\ Letter["quote"] = "quote"
      /\ Letter["backslash"] = "backslash" /\ Letter["return"] = "r"
  BY DEF Letter
<1>2. \A e, f \in DOMAIN Letter : Letter[e] = Letter[f] => e = f
  BY <1>1
<1> QED
  BY <1>2

(* For every text, what the code writes is read back as the text, at each  *)
(* point of the writing: no two texts are escaped alike.                   *)
THEOREM EscapedReadsBack == EscapeSpec => []ReadsBack
<1>1. ASSUME EscapeInv
      PROVE  ReadsBack
  <2> DEFINE t == SubSeq(text, 1, src - 1)
             n == p - 1
             chars == [k \in 1 .. n |-> dest[k]]
             Meant(c) == CHOOSE e \in DOMAIN Letter : Letter[e] = c
             IsRead(f) ==
               f = [k \in 1 .. Len(chars) + 1 |->
                      IF k > Len(chars) THEN << >>
                      ELSE IF chars[k] = "backslash" /\ k < Len(chars)
                             THEN <<Meant(chars[k + 1])>> \o f[k + 2]
                             ELSE <<chars[k]>> \o f[k + 1]]
             read == CHOOSE f : IsRead(f)
             Escapes(k) == chars[k] = "backslash" /\ k < n
             v == [k \in 1 .. n |-> IF Escapes(k) THEN Meant(chars[k + 1]) ELSE chars[k]]
             s == [k \in 1 .. n |-> IF Escapes(k) THEN 2 ELSE 1]
             at == [i \in 1 .. src |-> Cell(i)]
  <2>1. PICK m \in Nat : m = Len(text)
    BY <1>1, LenProperties DEF EscapeInv, WrittenInv
  <2>2. /\ text \in Seq(Char) /\ src \in 1 .. m + 1 /\ p = Cell(src)
        /\ \A i \in 1 .. src - 1 : Holds(i)
    BY <1>1, <2>1 DEF EscapeInv, WrittenInv
  <2>3. t \in Seq(Char) /\ Len(t) = src - 1 /\ \A i \in 1 .. src - 1 : t[i] = text[i]
    BY <2>1, <2>2, SubSeqProperties
  <2>4. /\ CountedAfter(text) \in [0 .. m -> Nat] /\ CountedAfter(text)[0] = 0
        /\ \A i \in 1 .. m : CountedAfter(text)[i] = CountedAfter(text)[i - 1] + escaped_size(text[i])
    BY <2>1, <2>2, Counted
  <2>5. \A i \in 1 .. src : Cell(i) \in Nat \ {0} /\ Cell(1) = 1
    BY <2>2, <2>4 DEF Cell
  <2>6. n \in Nat /\ n + 1 = p /\ 1 \in 1 .. src
    BY <2>2, <2>5
  <2>7. \A i \in 1 .. src - 1 :
          Cell(i + 1) = Cell(i) + escaped_size(text[i]) /\ Cell(i + 1) <= p
    <3> SUFFICES ASSUME NEW i \in 1 .. src - 1
                 PROVE  Cell(i + 1) = Cell(i) + escaped_size(text[i]) /\ Cell(i + 1) <= p
      OBVIOUS
    <3>1. i \in 1 .. m /\ i \in 0 .. m /\ i - 1 \in 0 .. m /\ src - 1 \in i .. m
          /\ src - 1 \in 0 .. m /\ src - 1 - i \in Nat /\ i + 1 - 1 = i
      BY <2>2
    <3>2. CountedAfter(text)[i] + (src - 1 - i) <= CountedAfter(text)[src - 1]
      BY <2>1, <2>2, <3>1, CountedGrows
    <3>3. /\ CountedAfter(text)[i] \in Nat /\ CountedAfter(text)[src - 1] \in Nat
          /\ CountedAfter(text)[i - 1] \in Nat /\ escaped_size(text[i]) \in Nat
          /\ CountedAfter(text)[i] = CountedAfter(text)[i - 1] + escaped_size(text[i])
      BY <2>4, <3>1 DEF escaped_size
    <3>4. Cell(i) = 1 + CountedAfter(text)[i - 1] /\ p = 1 + CountedAfter(text)[src - 1]
      BY <2>2 DEF Cell
    <3>5. Cell(i + 1) = 1 + CountedAfter(text)[i]
      BY <3>1, <3>3 DEF Cell
    <3> QED BY <3>1, <3>2, <3>3, <3>4, <3>5
  <2>8. Len(chars) = n /\ \A k \in 1 .. n : chars[k] = dest[k]
    BY <2>6
  <2>9. ReadsBack <=> read[1] = t
    BY Zenon DEF ReadsBack, Unescaped
  <2> HIDE DEF chars, n, t, Meant
  <2>10. \A f : IsRead(f) <=> IsReading(f, n, v, s)
    <3> SUFFICES ASSUME NEW f
                 PROVE  IsRead(f) <=> IsReading(f, n, v, s)
      OBVIOUS
    <3>1. ASSUME NEW k \in 1 .. n + 1
          PROVE  (IF k > n THEN << >>
                  ELSE IF Escapes(k) THEN <<Meant(chars[k + 1])>> \o f[k + 2]
                                     ELSE <<chars[k]>> \o f[k + 1])
                 = IF k > n THEN << >> ELSE <<v[k]>> \o f[k + s[k]]
      <4>1. CASE k > n
        BY <4>1
      <4>2. CASE ~(k > n) /\ Escapes(k)
        <5>1. k \in 1 .. n
          BY <2>6, <4>2
        <5>2. v[k] = Meant(chars[k + 1]) /\ s[k] = 2
          BY <4>2, <5>1
        <5> HIDE DEF v, s
        <5> QED BY <4>2, <5>2
      <4>3. CASE ~(k > n) /\ ~Escapes(k)
        <5>1. k \in 1 .. n
          BY <2>6, <4>3
        <5>2. v[k] = chars[k] /\ s[k] = 1
          BY <4>3, <5>1
        <5> HIDE DEF v, s
        <5> QED BY <4>3, <5>2
      <4> QED BY <4>1, <4>2, <4>3
    <3> HIDE DEF v, s
    <3> QED BY <2>8, <3>1 DEF IsReading
  <2>11. \A k \in 1 .. n : s[k] \in Nat \ {0} /\ k + s[k] <= n + 1
    BY <2>6
  <2>12. \A i \in 1 .. src - 1 : /\ at[i] \in 1 .. n /\ v[at[i]] = text[i]
                                 /\ at[i] + s[at[i]] = at[i + 1]
    <3> SUFFICES ASSUME NEW i \in 1 .. src - 1
                 PROVE  /\ at[i] \in 1 .. n /\ v[at[i]] = text[i]
                        /\ at[i] + s[at[i]] = at[i + 1]
      OBVIOUS
    <3>1. i \in 1 .. src /\ i + 1 \in 1 .. src
      BY <2>2
    <3>2. PICK k \in Nat \ {0} : k = Cell(i)
      BY <2>5, <3>1
    <3>3. at[i] = k /\ at[i + 1] = k + escaped_size(text[i]) /\ k + escaped_size(text[i]) <= p
      BY <2>7, <3>1, <3>2
    <3>4. escaped_size(text[i]) = IF text[i] \in DOMAIN Letter THEN 2 ELSE 1
      BY DEF escaped_size
    <3> HIDE DEF at
    <3>5. k \in 1 .. n
      BY <2>6, <3>3, <3>4
    <3>6. Holds(i)
      BY <2>2
    <3>7. CASE text[i] \in DOMAIN Letter
      <4>1. k + 1 \in 1 .. n /\ k < n
        BY <2>6, <3>3, <3>4, <3>7
      <4>2. chars[k] = "backslash" /\ chars[k + 1] = Letter[text[i]]
        BY <2>8, <3>2, <3>5, <3>6, <3>7, <4>1 DEF Holds
      <4>3. v[k] = Meant(Letter[text[i]]) /\ s[k] = 2
        BY <3>5, <4>1, <4>2
      <4>4. Meant(Letter[text[i]]) = text[i]
        BY <3>7, LettersDiffer DEF Meant
      <4> HIDE DEF v, s
      <4> QED BY <3>3, <3>4, <3>5, <3>7, <4>3, <4>4
    <3>8. CASE text[i] \notin DOMAIN Letter
      <4>1. chars[k] = text[i]
        BY <2>8, <3>2, <3>5, <3>6, <3>8 DEF Holds
      <4>2. text[i] # "backslash"
        BY <3>8 DEF Letter
      <4>3. v[k] = text[i] /\ s[k] = 1
        BY <3>5, <4>1, <4>2
      <4> HIDE DEF v, s
      <4> QED BY <3>3, <3>4, <3>5, <3>8, <4>3
    <3> QED BY <3>7, <3>8
  <2>13. at[1] = 1 /\ at[Len(t) + 1] = n + 1
    <3>1. src - 1 + 1 = src /\ src \in 1 .. src
      BY <2>2
    <3>2. at[src] = p /\ at[1] = 1
      BY <2>2, <2>5, <2>6, <3>1
    <3> HIDE DEF at
    <3> QED BY <2>3, <2>6, <3>1, <3>2
  <2> HIDE DEF IsRead, v, s, at
  <2>14. \E f : IsReading(f, n, v, s)
    BY <2>6, <2>11, ReadingExists
  <2>15. IsReading(read, n, v, s)
    BY <2>10, <2>14
  <2> HIDE DEF read
  <2>16. \A i \in 1 .. Len(t) : /\ at[i] \in 1 .. n /\ v[at[i]] = t[i]
                                /\ at[i] + s[at[i]] = at[i + 1]
    BY <2>3, <2>12
  <2>17. read[at[1]] = t
    BY <2>3, <2>6, <2>13, <2>15, <2>16, ReadsInOrder, SMTT(60)
  <2> QED BY <2>9, <2>13, <2>17
<1> QED
  BY <1>1, EscapeInvariance, PTL
=============================================================================
