------------------------------ MODULE Backend -------------------------------
(***************************************************************************)
(* The back end (ir_to_mips.c, mips.c, mips_list.c, generator.c and        *)
(* line_list.c): ir_output turns one item of the intermediate code into    *)
(* lines of assembly.  Nothing calls it yet.  A client appends items, has  *)
(* each turned into lines that it then frees, and frees the items; or it   *)
(* makes a list of instructions of its own and has them written.           *)
(***************************************************************************)
EXTENDS IrItem, SequencesExt

CONSTANTS
  Register,  \* the registers the client uses
  Opcode,    \* the opcodes it uses
  MaxInstr   \* bound: length of its list of instructions

(* The opcodes by the operands that they are written with.                 *)
ThreeOperands ==
  {"MIPS_add", "MIPS_sub", "MIPS_addi", "MIPS_and", "MIPS_andi", "MIPS_or", "MIPS_ori",
   "MIPS_slt", "MIPS_slti", "MIPS_sll", "MIPS_srl", "MIPS_bgt", "MIPS_bge", "MIPS_blt",
   "MIPS_ble", "MIPS_beq", "MIPS_bne"}
TwoOperands == {"MIPS_mult", "MIPS_div", "MIPS_li"}
InMemory    == {"MIPS_lw", "MIPS_lb", "MIPS_la", "MIPS_sw", "MIPS_sb"}
OneOperand  == {"MIPS_mfhi", "MIPS_mflo", "MIPS_jal", "MIPS_jr", "MIPS_b"}

ASSUME BackendAssumption ==
  /\ Register \subseteq 0 .. 31 /\ MaxInstr \in Nat
  /\ Opcode \subseteq ThreeOperands \cup TwoOperands \cup InMemory \cup OneOperand

NULL == 0

VARIABLES
  output,   \* how many items have been turned into lines
  mips,     \* the list of instructions
  mp,       \* how many of them have been written
  names,    \* the strings of their operands
  nodes,    \* the nodes of the list of lines
  lines,    \* its first node
  end,      \* its last node
  phase     \* "idle", "writing", "returned" (lines) or "crashed"

asm == <<output, mips, mp, names, nodes, lines, end, phase>>

BackendInit ==
  /\ Init
  /\ output = 0 /\ mips = << >> /\ mp = 0 /\ names = {}
  /\ nodes = << >> /\ lines = NULL /\ end = NULL /\ phase = "idle"

-----------------------------------------------------------------------------
(* Operands and instructions.  A symbol is a string of the instruction's.  *)

Operand(type, value, own) == [type |-> type, value |-> value, own |-> own]

empty_operand == Operand("MIPS_OPERAND_NONE", "", NoString)
MIPS_mkreg(reg)    == Operand("MIPS_REG", reg, NoString)
MIPS_mkoffset(n)   == Operand("MIPS_OFFSET", n, NoString)
MIPS_mkimm32(n)    == Operand("MIPS_IMM_32", n, NoString)

(* Mutant: the symbol is the item's own string.                            *)
MIPS_mksymbol_shared(symbol) ==
  Operand("MIPS_SYMBOL", symbol,
          IF codes = << >> THEN <<Len(mips) + 1, "mips">> ELSE Last(codes).x.own)

MIPS_mksymbol(symbol) == Operand("MIPS_SYMBOL", symbol, <<Len(mips) + 1, "mips">>)

MIPS_mk1(op, x) == [opcode |-> op, x |-> x, y |-> empty_operand, z |-> empty_operand]
MIPS_mk2(op, x, y) == [opcode |-> op, x |-> x, y |-> y, z |-> empty_operand]
MIPS_mk3(op, x, y, z) == [opcode |-> op, x |-> x, y |-> y, z |-> z]

(* MIPS_free_instr                                                         *)
Owned(instr) == {o.own : o \in {instr.x, instr.y, instr.z}} \ {NoString}

(* What the client makes: the operands that the opcode is written with.    *)
ClientInstr ==
  LET reg == {MIPS_mkreg(r) : r \in Register}
      imm == {MIPS_mkimm32(n) : n \in Number}
      offset == {MIPS_mkoffset(n) : n \in Number}
  IN  {MIPS_mk1(op, x) : op \in (Opcode \cap OneOperand) \ {"MIPS_jal", "MIPS_b"}, x \in reg}
      \cup {MIPS_mk1(op, MIPS_mksymbol(n)) : op \in Opcode \cap {"MIPS_jal", "MIPS_b"}, n \in Name}
      \cup {MIPS_mk2(op, x, y) : op \in Opcode \cap {"MIPS_mult", "MIPS_div"}, x \in reg, y \in reg}
      \cup {MIPS_mk2(op, x, y) : op \in Opcode \cap {"MIPS_li"}, x \in reg, y \in imm}
      \cup {MIPS_mk3(op, x, y, z) :
              op \in Opcode \cap InMemory, x \in reg, y \in reg, z \in offset}
      \cup {MIPS_mk3(op, x, y, z) :
              op \in Opcode \cap ThreeOperands, x \in reg, y \in reg, z \in reg \cup imm}

-----------------------------------------------------------------------------
(* Writing                                                                 *)

(* Mutant: the second run of t's is numbered from its own first.           *)
RegisterFromZero(r) ==
  CASE r = 0 -> "$zero" [] r = 1 -> "$at" [] r = 28 -> "$gp" [] r = 29 -> "$sp"
    [] r = 30 -> "$fp"  [] r = 31 -> "$ra"
    [] r \in 2 .. 3   -> "$v" \o ToString(r - 2)
    [] r \in 4 .. 7   -> "$a" \o ToString(r - 4)
    [] r \in 8 .. 15  -> "$t" \o ToString(r - 8)
    [] r \in 16 .. 23 -> "$s" \o ToString(r - 16)
    [] r \in 24 .. 25 -> "$t" \o ToString(r - 24)
    [] r \in 26 .. 27 -> "$k" \o ToString(r - 26)

RegisterName(r) ==
  CASE r = 0 -> "$zero" [] r = 1 -> "$at" [] r = 28 -> "$gp" [] r = 29 -> "$sp"
    [] r = 30 -> "$fp"  [] r = 31 -> "$ra"
    [] r \in 2 .. 3   -> "$v" \o ToString(r - 2)
    [] r \in 4 .. 7   -> "$a" \o ToString(r - 4)
    [] r \in 8 .. 15  -> "$t" \o ToString(r - 8)
    [] r \in 16 .. 23 -> "$s" \o ToString(r - 16)
    [] r \in 24 .. 25 -> "$t" \o ToString(r - 16)
    [] r \in 26 .. 27 -> "$k" \o ToString(r - 26)

MIPS_write_operand(operand) ==
  CASE operand.type = "MIPS_REG" -> <<RegisterName(operand.value)>>
    [] operand.type = "MIPS_SYMBOL" -> <<operand.value>>
    [] OTHER -> IF operand.value < 0 THEN <<"-", ToString(-operand.value)>>
                                     ELSE <<ToString(operand.value)>>

MIPS_op_name(opcode) == IF opcode = "MIPS_mfhi" THEN "MIPS_mhfi" ELSE opcode

MIPS_write_instr(instr) ==
  LET op == <<MIPS_op_name(instr.opcode)>>
      x == MIPS_write_operand(instr.x)
      y == MIPS_write_operand(instr.y)
      z == MIPS_write_operand(instr.z)
  IN  CASE instr.opcode \in ThreeOperands ->
             op \o x \o <<",">> \o y \o <<",">> \o z
        [] instr.opcode \in TwoOperands -> op \o x \o <<",">> \o y
        [] instr.opcode \in InMemory ->
             op \o x \o <<",">> \o z \o <<"(">> \o y \o <<")">>
        [] instr.opcode \in OneOperand -> op \o x

-----------------------------------------------------------------------------
(* Translation                                                             *)

R_SP == MIPS_mkreg(29)
R_FP == MIPS_mkreg(30)
R_RA == MIPS_mkreg(31)

MIPS_make_goto(item) == <<MIPS_mk1("MIPS_b", MIPS_mksymbol(item.x.value))>>

(* Mutant: the frame pointer is set before it is saved.                    *)
MIPS_make_enter_fp_first(item) ==
  <<MIPS_mk3("MIPS_la", R_FP, R_SP, MIPS_mkoffset(0)),
    MIPS_mk3("MIPS_sw", R_FP, R_SP, MIPS_mkoffset(-4)),
    MIPS_mk3("MIPS_sw", R_RA, R_SP, MIPS_mkoffset(-8)),
    MIPS_mk3("MIPS_la", R_SP, R_SP, MIPS_mkoffset(-3))>>

MIPS_make_enter(item) ==
  <<MIPS_mk3("MIPS_sw", R_FP, R_SP, MIPS_mkoffset(-4)),
    MIPS_mk3("MIPS_sw", R_RA, R_SP, MIPS_mkoffset(-8)),
    MIPS_mk3("MIPS_la", R_FP, R_SP, MIPS_mkoffset(0)),
    MIPS_mk3("MIPS_la", R_SP, R_SP, MIPS_mkoffset(-3))>>

(* The types whose functions have an empty body: their caller takes for    *)
(* the list what the register held.                                        *)
Unwritten ==
  {"IR_BINOP", "IR_UNOP", "IR_COPY", "IR_BRANCH", "IR_LIDX", "IR_RIDX", "IR_ADDR", "IR_LDEREF",
   "IR_RDEREF", "IR_LEAVE", "IR_PARAM", "IR_CALL", "IR_RET", "IR_RET_VAL", "IR_RETRIEVE"}

(* Without a function: the empty list, if it is a list at all.             *)
MIPS_translate(item) ==
  CASE item.type = "IR_GOTO"  -> MIPS_make_goto(item)
    [] item.type = "IR_ENTER" -> MIPS_make_enter(item)
    [] item.type \in Unwritten -> << >>

out_data(item) ==
  ir_print_address(item.x)
    \o <<":", IF item.op = "DATA_RAW" THEN ".space" ELSE ".ascii">> \o ir_print_address(item.y)

(* A label has no colon here.                                              *)
out_label(item) == ir_print_address(item.x)

single_line(text) ==
  /\ nodes' = <<[line |-> text, next |-> NULL]>> /\ lines' = 1
  /\ phase' = "returned"
  /\ UNCHANGED <<mips, mp, names, end>>

append_line(text) ==
  LET node == [line |-> text, next |-> NULL]
  IN  /\ nodes' = Append(IF end = NULL THEN nodes
                         ELSE [nodes EXCEPT ![end].next = Len(nodes) + 1], node)
      /\ end' = Len(nodes) + 1

(* ir_output takes a copy of the item.                                     *)
ir_output ==
  /\ phase = "idle" /\ mips = << >> /\ ~freeing /\ output < made
  /\ output' = made
  /\ LET item == Last(codes)
     IN  CASE item.type = "IR_DATA"  -> single_line(out_data(item))
           [] item.type = "IR_LABEL" -> single_line(out_label(item))
           [] OTHER ->
                /\ mips' = MIPS_translate(item)
                /\ names' = UNION {Owned(mips'[k]) : k \in DOMAIN mips'}
                /\ phase' \in {"writing"} \cup
                               IF item.type \in Unwritten THEN {"crashed"} ELSE {}
                /\ UNCHANGED <<mp, nodes, lines, end>>
  /\ UNCHANGED vars

(* Mutant: the list is known by its last line.                             *)
WriteKeepingLast ==
  /\ phase = "writing" /\ mp < Len(mips)
  /\ append_line(MIPS_write_instr(mips[mp + 1]))
  /\ lines' = end'
  /\ mp' = mp + 1
  /\ UNCHANGED <<vars, output, mips, names, phase>>

(* One turn of its loop.                                                   *)
Write ==
  /\ phase = "writing" /\ mp < Len(mips)
  /\ append_line(MIPS_write_instr(mips[mp + 1]))
  /\ lines' = IF lines = NULL THEN end' ELSE lines
  /\ mp' = mp + 1
  /\ UNCHANGED <<vars, output, mips, names, phase>>

MIPS_free_list ==
  /\ phase = "writing" /\ mp = Len(mips)
  /\ names' = names \ UNION {Owned(mips[k]) : k \in DOMAIN mips}
  /\ mips' = << >> /\ mp' = 0 /\ phase' = "returned"
  /\ UNCHANGED <<vars, output, nodes, lines, end>>

free_line_list ==
  /\ phase = "returned"
  /\ nodes' = << >> /\ lines' = NULL /\ end' = NULL /\ phase' = "idle"
  /\ UNCHANGED <<vars, output, mips, mp, names>>

(* A client without items makes its own instructions, and has them written.*)
MIPS_append_item ==
  /\ phase = "idle" /\ made = 0 /\ Len(mips) < MaxInstr
  /\ \E instr \in ClientInstr :
       mips' = Append(mips, instr) /\ names' = names \cup Owned(instr)
  /\ UNCHANGED <<vars, output, mp, nodes, lines, end, phase>>

WriteAll ==
  /\ phase = "idle" /\ mips # << >> /\ phase' = "writing"
  /\ UNCHANGED <<vars, output, mips, mp, names, nodes, lines, end>>

Items == phase = "idle" /\ mips = << >> /\ output = made /\ Next /\ UNCHANGED asm

(* The client of the items is free not to have them turned into lines.     *)
Skip == phase = "idle" /\ output < made /\ output' = made
          /\ UNCHANGED <<vars, mips, mp, names, nodes, lines, end, phase>>

Crashed == phase = "crashed" /\ UNCHANGED <<vars, asm>>

BackendNext ==
  \/ Items \/ Skip \/ ir_output \/ Write \/ MIPS_free_list \/ free_line_list
  \/ MIPS_append_item \/ WriteAll \/ Crashed

BackendSpec == BackendInit /\ [][BackendNext]_<<vars, asm>>

-----------------------------------------------------------------------------
(* Properties                                                              *)

(* The lines that ir_output will return, followed from the first node, are *)
(* the instructions written so far, in their order; and nothing of them is *)
(* left for the next item.                                                 *)
LinesFollowInstructions ==
  LET chain[n \in 0 .. Len(nodes)] ==
        IF n = NULL THEN << >> ELSE <<nodes[n].line>> \o chain[nodes[n].next]
  IN  /\ phase = "writing" => chain[lines] = [k \in 1 .. mp |-> MIPS_write_instr(mips[k])]
      /\ phase = "idle" => mp = 0 /\ chain[lines] = << >> /\ end = NULL

(* Instructions live on names of their own: none of them is a string of an *)
(* item, which ir_free_list will free, each is freed with its instruction  *)
(* alone, and none is left when ir_output has returned.                    *)
NamesReturned ==
  /\ names \cap heap = {}
  /\ names = UNION {Owned(mips[k]) : k \in DOMAIN mips}
  /\ \A j, k \in DOMAIN mips : j # k => Owned(mips[j]) \cap Owned(mips[k]) = {}

(* Instructions that are written alike have the same opcode and operands,  *)
(* up to the copies of symbols: the numbering of the registers in groups   *)
(* gives no two of them one name, and no two opcodes or orders of operands *)
(* make one line.                                                          *)
Told(instr) ==
  <<instr.opcode, [o \in {"x", "y", "z"} |-> <<instr[o].type, instr[o].value>>]>>
LinesTellInstructions ==
  \A j, k \in DOMAIN mips :
    MIPS_write_instr(mips[j]) = MIPS_write_instr(mips[k]) => Told(mips[j]) = Told(mips[k])

(* The machine: registers relative to the stack pointer at the entry, and  *)
(* memory as bytes.                                                        *)
Execute(machine, instr) ==
  LET address == machine.reg[instr.y.value] + instr.z.value
      x == instr.x.value
  IN  IF instr.opcode = "MIPS_la" THEN [machine EXCEPT !.reg[x] = address]
      ELSE [machine EXCEPT !.mem = [a \in DOMAIN @ |->
             IF a \in address .. address + 3 THEN <<machine.reg[x], a - address>> ELSE @[a]]]
Entered ==
  LET caller == [reg |-> [r \in 29 .. 31 |-> (r - 29) * 1000],
                 mem |-> [a \in -16 .. 15 |-> <<0, 0>>]]
      after[k \in 0 .. Len(mips)] == IF k = 0 THEN caller ELSE Execute(after[k - 1], mips[k])
  IN  after[Len(mips)]
Word(machine, address) ==
  {machine.mem[a] : a \in address .. address + 3}

(* After the code of an enter the caller's frame pointer and the return    *)
(* address can be read below the new frame pointer, which is the caller's  *)
(* stack pointer, and the stack has grown.                                 *)
EnterSavesFrame ==
  phase = "writing" /\ Len(codes) = output /\ codes # << >> /\ Last(codes).type = "IR_ENTER" =>
    LET fp == Entered.reg[30]
    IN  /\ fp = 0 /\ Entered.reg[29] < fp
        /\ Word(Entered, fp - 4) = {<<1000, k>> : k \in 0 .. 3}
        /\ Word(Entered, fp - 8) = {<<2000, k>> : k \in 0 .. 3}
=============================================================================
