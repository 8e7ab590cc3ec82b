------------------------------ MODULE Compiler ------------------------------
(***************************************************************************)
(* main (main.c): the tree from the parser, build_ir, as IrGenerator has   *)
(* it, and then the loop that prints the IR item by item, every item       *)
(* through the same buffer on main's stack.  A text is the sequence of the *)
(* items whose printed form it is made of.                                 *)
(***************************************************************************)
EXTENDS IrGenerator

CONSTANT Junk   \* what an uninitialized buffer may hold

ASSUME JunkAssumption == Junk \notin Item

VARIABLES
  parsed,    \* yyparse has succeeded
  stage,     \* "building", "listing" or "ended"
  c,         \* the position in codes of the next item to print
  prev,      \* the type of the item printed last
  buffer,    \* main's buffer
  out        \* the lines printed: directives, and lines with an item's text

listing == <<c, prev, buffer, out>>
all     == <<vars, parsed, stage, listing>>

Directive(name) == [line |-> "directive", text |-> name]
ItemLine(indented, text) ==
  [line |-> IF indented THEN "indented" ELSE "flush", text |-> text]

CompilerInit ==
  /\ Init /\ parsed \in BOOLEAN
  /\ stage = "building" /\ c = 0 /\ prev = "IR_DATA"
  /\ buffer \in {<< >>, <<Junk>>}
  /\ out = << >>

-----------------------------------------------------------------------------
(* parse_stdin returns NULL when yyparse failed, which has left            *)
(* program_root alone, and when the program has no node.                   *)
RejectTree ==
  /\ stage = "building" /\ pc = "toplevel" /\ nodes = 0
  /\ stage' = "ended"
  /\ UNCHANGED <<vars, parsed, listing>>

(* Any other tree has a node: whether the program has one is not known     *)
(* before its first is read or it is rejected.                             *)
BuildIr ==
  /\ stage = "building" /\ parsed /\ Step
  /\ pc' = "done" => nodes > 0
  /\ UNCHANGED <<parsed, stage, listing>>

StartListing ==
  /\ stage = "building" /\ pc = "done"
  /\ stage' = "listing"
  /\ c' = 1 /\ prev' = "IR_DATA"
  /\ out' = <<Directive(".data")>>
  /\ UNCHANGED <<vars, parsed, buffer>>

(* A definition of data is put behind what the buffer holds (strcat).      *)
print_data(text, item) == Append(text, item)

(* Mutant: a label, too.                                                   *)
print_label_code_behind(text, item) == Append(text, item)

(* A label is put in its place (sprintf).                                  *)
print_label_code(text, item) == <<item>>

ir_pretty_print(text, item) ==
  IF item.type = "IR_DATA" THEN print_data(text, item)
                           ELSE print_label_code(text, item)

(* The directive that an item needs before it, if any.                     *)
Switch(before, type) ==
  IF      type = "IR_DATA" /\ before # "IR_DATA" THEN <<Directive(".data")>>
  ELSE IF type # "IR_DATA" /\ before = "IR_DATA" THEN <<Directive(".text")>>
  ELSE << >>

(* Mutant: the type of the item is not remembered.                         *)
PrintItemForgetting ==
  /\ stage = "listing" /\ c <= Len(codes)
  /\ buffer' = ir_pretty_print(buffer, codes[c])
  /\ out' = out \o Switch(prev, codes[c].type)
                \o <<ItemLine(codes[c].type # "IR_LABEL", buffer')>>
  /\ c' = c + 1
  /\ UNCHANGED <<vars, parsed, stage, prev>>

PrintItem ==
  /\ stage = "listing" /\ c <= Len(codes)
  /\ buffer' = ir_pretty_print(buffer, codes[c])
  /\ out' = out \o Switch(prev, codes[c].type)
                \o <<ItemLine(codes[c].type # "IR_LABEL", buffer')>>
  /\ prev' = codes[c].type
  /\ c' = c + 1
  /\ UNCHANGED <<vars, parsed, stage>>

EndListing ==
  /\ stage = "listing" /\ c > Len(codes)
  /\ stage' = "ended"
  /\ UNCHANGED <<vars, parsed, listing>>

Stopped ==
  /\ stage = "ended" \/ pc = "crashed"
  /\ UNCHANGED all

CompilerStep == RejectTree \/ BuildIr \/ StartListing \/ PrintItem \/ EndListing

CompilerSpec == CompilerInit /\ [][CompilerStep \/ Stopped]_all

(* main is sequential code.                                                *)
FairCompilerSpec == CompilerSpec /\ WF_all(CompilerStep)

-----------------------------------------------------------------------------
(* Properties                                                              *)

IsDirective(i) == out[i].line = "directive"

(* The directive in force at line i.                                       *)
SectionOf(i) ==
  out[CHOOSE d \in 1 .. i :
        IsDirective(d) /\ \A e \in d + 1 .. i : ~IsDirective(e)].text

Directives == {i \in DOMAIN out : IsDirective(i)}

(* Whatever data and code the generator emits, data is listed under .data  *)
(* and labels under .text; and the listing has one data section, then one  *)
(* text section if the program defines a function: every string is defined *)
(* before the code.                                                        *)
SectionsRight ==
  /\ \A i \in DOMAIN out \ Directives :
       SectionOf(i) = IF Last(out[i].text).type = "IR_DATA" THEN ".data" ELSE ".text"
  /\ stage = "ended" /\ nodes > 0 =>
       /\ out[1] = Directive(".data")
       /\ IF Functions = {}
            THEN Directives = {1}
            ELSE \E d \in DOMAIN out \ {1} :
                   Directives = {1, d} /\ out[d] = Directive(".text")

(* The number of the line's text among the texts listed.                   *)
TextNumber(i) == Cardinality((1 .. i) \ Directives)

(* From the program to the paper: the k-th line with text ends with the    *)
(* k-th item of data for the literals, then of labels for the functions,   *)
(* and a label is all that its line has, at the margin.                    *)
EveryItemListed ==
  LET items == StringData \o FunctionLabels
  IN  /\ stage = "ended" => TextNumber(Len(out)) = Len(items)
      /\ \A i \in DOMAIN out \ Directives :
           LET k == TextNumber(i)
           IN  /\ k \in DOMAIN items /\ Last(out[i].text) = items[k]
               /\ items[k].type = "IR_LABEL" => out[i] = ItemLine(FALSE, <<items[k]>>)

(* main ends, unless build_ir died on a NULL of the tree.                  *)
MainEnds == <>(stage = "ended" \/ pc = "crashed")

(* test.s:2-3: the data section has one definition in a line.              *)
OneDefinitionInALine ==
  \A i \in DOMAIN out : ~IsDirective(i) => Len(out[i].text) = 1
=============================================================================
