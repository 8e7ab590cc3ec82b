# A verification development for cmm-compiler

`cmm-compiler` compiles C--, a small C, to MIPS assembly. At this commit it
scans and parses a program from standard input, walks the tree into a list of
intermediate code (IR), and prints that list. Expressions are looked at but not
translated yet. A MIPS back end can turn one item of IR into lines of assembly,
but translates two kinds of code only, and is not called.

This directory has TLA+ models of the parts that do something, TLC
configurations that check them on small instances, and TLAPS proofs of what
holds for every instance.

## 1. The system

| component | source | state | operations |
|---|---|---|---|
| scanner | `lexer.lex` | position and `yylloc`, the start condition and its stack, `nested_comments`, `string_buffer` | one action per flex rule |
| parser | `parser.yy` | bison's stack, `yyerrstatus`, `program_root` | shifts, reductions, recovery; four error rules that yield NULL |
| syntax tree | `ast.c` | heap lists and nodes | make, append, free |
| symbol table | `symbol_table.c` | the tree of `scope_info`s, a list of symbols in each, the pool of literals | add symbol, child scope, literal; find; free |
| IR generator | `ir_generator.c` | `context`: current scope, last item; `ir_code`: list and table | `build_ir` and the `process_*` functions |
| IR items | `ir.c`, `ir_list.c` | items, addresses with numbers and strings of their own | constructors, printers, append |
| driver | `main.c` | one buffer, the previous item's type | parse, build, print item by item |
| escaping | `util.c` | an array sized in one pass and filled in another | `escape_alloc` |
| MIPS instructions | `ir_to_mips.c`, `mips.c`, `mips_list.c` | instructions, their operands and strings, a list of them | translate one item (most bodies are empty), write, append, free |
| assembly lines | `generator.c`, `line_list.c` | a list of lines with its first and last node | `ir_output`: one item to lines; free |
| label names, types | `static_analysis.c`, `types.c` | a counter | no caller but for conversions of types |

The parser calls the scanner for tokens (`yylex`, `yylval`, `yylloc`) and leaves
a tree. `main` passes the tree to `build_ir`, which calls the symbol table for
every name and string and appends to the IR list. What a name means is looked up
and forgotten: no item of the IR takes the symbol that was found. At the
end the data of the strings is linked in front of the code, and `main` prints
every item through one buffer.

Everything is sequential. There is no concurrency, nothing is persisted, no
messages are exchanged. What is hard is elsewhere:

* *protocols between calls*: pushes and pops of scopes in `process_fun`; the
  child list of a scope, linked by one caller and deliberately not by another
  (`symbol_table.c:53`); start conditions pushed and popped by different rules;
* *stale state*: a string buffer that is emptied by one NUL, a print buffer that
  is never emptied;
* *order*: shadowing, the numbering of literals, data before code, directives
  that depend on the previous item;
* *failure*: the parser's error rules put NULLs into the tree, as does the empty
  statement of a correct program, and `build_ir` follows them;
* *termination*: recursion along parent pointers, flex rules that match nothing.

What makes each component correct:

* scanner: comments and start conditions are nested alike, positions are those
  of the text, a literal's value is its text, every input is scanned to its end;
* symbol table: a look-up finds the innermost declaration, the first in its
  scope; a declaration comes behind those before it; the tree of children inverts the parent pointers,
  so that freeing reaches every scope exactly once; every text has one literal;
* IR generator: pushes and pops balance for any program; each name and string
  means what C-- scoping says; the IR has every string, then every function;
* driver: each item is listed once, in order, in its section;
* parser and syntax tree: every node has one owner, whatever is reduced, popped
  or discarded, but for the arguments that calls lose; lists keep the order of the
  text; an `else` goes to the nearest
  `if`; exactly the expressions of the grammar are accepted without a complaint
  and grouped as the levels of the grammar say; an error costs no more than its
  statement; where the tree that `build_ir` gets has a NULL is known; every parse
  ends;
* IR items: freeing a list frees what its items own, once; a line of the listing
  tells what the item was;
* back end: instructions own their strings; the lines follow the instructions,
  none is left for the next item, and a line tells its instruction; the code of
  an `enter` saves what a `leave` needs;
* escaping: the two passes agree, and escaping can be undone.

## 2. The modules

| module | models | uses |
|---|---|---|
| `SymbolTable` | the operations of `symbol_table.c` as operators | |
| `FrameStack` | *abstract*: a stack of frames of names, as a client sees it | |
| `ScopeContext` | a client that pushes, declares, pops and finally frees in any order | `SymbolTable`, refines `FrameStack` |
| `LexicalScope` | *abstract*: what an identifier, a string or a number means | |
| `IrGenerator` | `build_ir`, with the tree as input | `SymbolTable`, refines `LexicalScope` |
| `Compiler` | `main`: the tree or NULL, `build_ir`, the listing | `IrGenerator` |
| `Lexer` | the flex scanner | |
| `LexerMC` | the inputs of its run: three alphabets | `Lexer` |
| `Grammar` | the rules of `parser.yy` as data, and the tables bison makes of them | |
| `Parser` | bison's parser on these tables, with the nodes of `ast.c`, the destructors and the recovery | `Grammar` |
| `ParserMC` | the beginnings of programs its run starts from | `Parser` |
| `ExprParser` | bison's parser on the expression rules, with all levels of operators and lists of arguments | |
| `IrItem` | all items of `ir.c`, the list of `ir_list.c`, the printers, the freeing | |
| `Backend` | `ir_output` and all it calls: translation, instructions, their writing, lists of lines | `IrItem` |
| `Escape` | `escape_alloc` | |
| `Induction` | *proofs*: induction and recursion over data | |
| `SymbolTableTheorems` | *proofs*: lemmas about the operators | `SymbolTable`, `Induction` |
| `IrGeneratorProofs` | *proofs*: the invariants of `IrGenerator`, its refinement, the listing | `Compiler`, `SymbolTableTheorems` |
| `ScopeContextProofs` | *proofs*: the scopes under any client, their refinement | `ScopeContext`, `SymbolTableTheorems` |
| `LexerProofs` | *proofs*: every safety property of the scanner | `Lexer`, `Induction` |
| `ExprParserProofs` | *proofs*: types and nodes of the parser of expressions | `ExprParser`, `Induction` |
| `ParserProofs` | *proofs*: types and nodes of the parser, its recovery from errors, whose `else` is whose, what `build_ir` gets | `Parser`, `Induction` |
| `BackendProofs` | *proofs*: who owns which string, the lists of lines, the code of an `enter`; both properties of `escape_alloc` | `Backend`, `Escape`, `Induction` |

How the models read the code:

* A pointer to a `scope_info` is its position in the sequence `scopes` of all
  scopes allocated so far, NULL is 0. A `symbol_info` pointer is a scope and a
  place in its list. A literal is its place in the pool; the name `__STR_k` is
  the number k.
* `IrGenerator` consumes a tree node by node: each action takes any node that
  the parser can have put there, error nodes included. `pc` says which loop of
  the C code is running. One call of `sym_find` is one step, so that the search
  can be watched. Following a NULL leads to `pc = "crashed"`. `globals` is a
  history variable: the names that ignored declarations declared.
* `LexicalScope` has no scopes, parents or pool. It says that an identifier is
  the first parameter of that name, or else the first function of that name, or
  else unknown. `IrGenerator` maps to it by `Denotes(result)`.
* `FrameStack` has only the frames on the way from the current scope to the top.
* In `Lexer` one action is one match of a rule: the guards spell out longest
  match and rule order. Characters are classes (`n` for letters, `0` for digits,
  `*` and `/` for operators and delimiters). `own` and `fresh` are history
  variables: what the current literal itself appended, and whether an earlier
  literal has ended. The missing return of `escape_seq` is a choice over all
  characters and -1. Running out of `string_buffer` is undefined in C; the model
  stops there (`"overrun"`).
* In `Compiler` a text is the sequence of items whose printed form it is made
  of, so `strcat` and `sprintf` differ where it matters: `strcat` extends,
  `sprintf` replaces. The buffer starts empty or with junk. `RejectTree` is
  main's NULL branch, taken when the parse failed or the program is empty.
* `ExprParser` is the shift-reduce machine for an expression after `ID =`. Unit
  productions only hand a value on, so the six nonterminals for binary operators
  are six levels, and whether to shift or to reduce is a comparison of levels.
  Default reductions are there: the parser reduces before it finds that a
  lookahead is wrong. On an error symbols are popped, and their values destroyed,
  down to the innermost open call (`ID '(' error ')'`); tokens are then discarded
  up to a closing parenthesis. Without an open call the expression is rejected:
  it is then for the rules of statements, in `Parser`, to go on. A node is a
  position in `heap` and carries its token's position in place of a name or value.
* `Grammar` has one line for each rule of `parser.yy` from the program down to
  statements, with its action and the positions of the values it is given. The
  states of the parser are the kernels of LR(0) items, computed from the rules;
  `Reductions` adds bison's default reductions, the three states that need a
  lookahead, and the resolution of the one conflict that `%expect 1` announces.
  The assumption `AutomatonAssumption` says that this is a parser: the set of
  states is closed, and no state has two default reductions, or one where an error
  can be shifted. An expression is a name, a number, a call with a list of
  arguments, or one of them in parentheses.
* In `Parser` a value on the stack is a pointer into `heap`, or NULL; names are
  nodes of the heap too, so that losing or freeing one twice shows. `append` is
  the four copies of one function that return the head of the list, `append_expr`
  the fifth, which returns the new cell. `emptied` is a history variable, as
  `reported` is: an empty statement has been read. `yylex` takes any token. `Recover`, `Discard` and `Abort` are bison's `yyerrlab`, with
  `yyerrstatus` counted as bison does; each frees what it pops.
* In `IrItem` a client appends any items and then frees the list. A string is
  known by the item it was duplicated for and its place there; the name of a label
  or of data lies in x's place in the union. A client that gave one string address
  to two items would have it freed twice; no code at this commit does.
* `Backend` has two clients. The one has items turned into lines, one at a time;
  the other makes a list of instructions of all shapes and has them written, as a
  finished translation would. A translation without a body returns what the
  register holds: the list may be empty or the program may crash (`phase`). The
  register can also hold a pointer to something else, which the program would write
  as instructions before it crashes; the model has the crash alone.
* In `Escape` memory is a function on cells, with one cell more than was
  allocated.

Definitions called *mutants* in the comments are variants of the one after
them, each with a plausible mistake. No specification uses them: put in the
place of the original, each breaks the property it is listed with in
`PROJECT.json`.

## 3. The runs

| run | instance | states | what it shows |
|---|---|---|---|
| `scope_context` | 2 names, 4 scopes, 3 symbols a scope | 71 thousand | children invert parents in any nesting; freeing reaches every scope once; look-ups are innermost; declarations come behind earlier ones; refinement of `FrameStack` |
| `ir_generator` | 2 names, 2 texts, 2 nodes, 2 parameters and 2 statements each | 176 thousand | scopes balance, literals are numbered once, the IR is complete, searches pass only scopes without the name; refinement of `LexicalScope` |
| `compiler` | 2 names, 2 texts, 3 nodes, 2 statements, no parameters | 104 thousand | every string and function is listed once, in order, in its section, after one switch from data to text; `main` and `build_ir` end |
| `lexer` | inputs of up to 7 of `*`, `/`, quote, newline; of up to 6 of quote, apostrophe, backslash, newline, letter, digit; and of up to 6 of `*`, `/`, quote, backslash, letter; a buffer of 3 | 856 thousand | the counter of comments and the stack of conditions agree; the count is the depth of the text where no rule takes a part of a delimiter for itself; positions are right; the first literal's value is its text; the buffer is left only when literals have filled it; every scan ends |
| `parser` | 7 beginnings, 5 tokens of any kind | 210 thousand | nodes have one owner, and what calls lose has none; names stay in order; `else`; the tree that `build_ir` gets, and its NULLs; errors keep the function; every parse ends |
| `expr_parser` | up to 7 of 10 tokens: binary `-`, `*`, `\|\|`, prefix `-`, `!` | 1 million | exactly the expressions are accepted; their trees group by level and to the left; destructors free no node twice and none in use; NULL only after an error; every parse ends |
| `back_end` | 2 items of every kind over a name and two numbers; or 2 instructions over six registers and opcodes of every shape | 1.4 million | freeing frees each string once and forgets only the texts of string data; lines tell items apart; instructions own their names; lines follow instructions, and tell them apart; an `enter` saves the frame |
| `escape` | texts of up to 5 of 7 characters | 114 thousand | the text fills the room counted; the NUL beyond it comes from a last escape; escaping can be undone |

Why the bounds are enough. Scopes interact in pairs of parent and child and in
sibling lists: four scopes give chains of three pushes, siblings, and siblings
with children. Two names are enough to be the same and to differ. Three symbols
in a scope have a first, a middle and a last. Two functions are the least at
which a scope left over from the first is seen in the second; the proofs of
section 4 lift these bounds. Seven characters hold a comment in a comment in a
string with both closed. The string buffer has size 3 so that inputs of six or
seven characters overrun it in an append and in the read at the end of a literal;
4096 differs only in the length of the input needed. Seven tokens of an
expression hold three
operators of different levels, a prefix operator among them, calls with two
arguments and calls in calls with an error in the inner; the operators are of the
first and the last two levels. Five tokens are little for a program, so the
parser's run begins at seven places: at the top, in a list of parameters, behind a
function, in an empty body, in the head of a `for`, behind two `if`s with one
statement, and in a call behind an argument and a comma. From there five tokens complete every rule, and bring about every
error: a second one right behind the first, one at which the input ends, and one
that the parser survives. Two items or instructions are what sharing and likeness
are about, and every constructor is tried with every other; the registers are of
four runs of names, with the ends of the two runs of `t`s, where a wrong
offset would give two registers one name, and the opcodes one or two of each
shape of operands. Every action fires in some passing run.

Fairness. `compiler`, `lexer` and `parser` assume weak fairness
of the whole step: sequential code that can take a step takes it. For the
scanner the justification is the parser, which asks for tokens until it gets the
0 of the end of input; for the parser, that `yyparse` is a loop that only its
accept and abort leave. No single action is treated fairly, so termination is a
matter of the loops themselves. `MainEnds` allows the end in a crash on a NULL of
the tree. The number of tokens is bounded, as every file's is.

Four runs end in a violation, and each is a disagreement of the code with what
it, its headers or its samples say:

* `declared_globals`: `process_decl` is empty, so a declared global is an
  unknown identifier in the functions after it; the comment at
  `ir_generator.c:210` says that declarations are processed.
* `string_residue`: `strcpy(string_buffer, "")` resets one cell, `append_char`
  relies on all being reset: after `"nn"`, `"n"` has the value `nn`.
* `data_lines`: data is printed by `strcat` into an uninitialized buffer that is
  never emptied; the second string's line repeats the first.
* `operator_tags`: `a - b` is built as `EXP_PLUS`, and `&&` and `||` as each
  other's nodes.

Other oddities of the code are in the models as they are, and the passing
properties are stated around them:

* `/***/` never ends as a comment, since the rule at `lexer.lex:112` takes `**`
  together, and a comment cannot begin with an escaped slash in a string
  (`CountsEveryDelimiter` excludes doubled stars and slashes and escaped slashes);
* an empty program parses, yields NULL and is rejected (`RejectTree`);
* a name before erroneous parentheses is not freed (`OwnedOnce` allows for it);
* a function whose declarator is erroneous stays in the tree with NULL in its
  place (`TreeForBuildIr` allows it where an error was reported, and
  `IrGenerator` has the crash);
* `MIPS_mfhi` prints as `mhfi`, `mips.c:20`; the frame of `enter` is three bytes,
  though it holds two words (`EnterSavesFrame` asks only that the stack grows);
* a call keeps its last argument alone, since `append_expr` returns the new
  element, `ast.c:519`: the cells before it are lost with their arguments
  (`OwnedOnce` says that they are never reached or freed and that nothing else is
  lost, `NamesInOrder` that no other name is missing; `TreeFollowsPrecedence`
  expects exactly the last one);
* `;` is a correct statement whose tree is NULL, `parser.yy:184`, and
  `process_statement` follows it, `ir_generator.c:142`: so `build_ir` crashes on
  it (`TreeForBuildIr` says that NULL statements come from there or from an
  error; `IrGenerator` has the crash in `StatementNull`);
* what `escape_alloc` returns ends a cell beyond its room if the last character
  is escaped, and has no end otherwise, `util.c:30` (`FillsTheRoom`);
* a call prints as `leave`, `ir.c:521`, a return writes nothing, `ir.c:562`
  (`LinesTellItems` excludes both);
* the text of string data is never freed, `ir.c:279` (`OnlyTextsLeak`).

## 4. The proofs

The theorems hold for every value of the constants, under the assumptions
declared with them: `NoName` is not a name, bounds are numbers, characters are
characters, registers and opcodes are among those of `mips.h`.

**Induction over data.** The operators of the models are defined by recursion
where the code loops or recurses: the rounds of `update_loc`, the longest match,
the chain of parents, `calc_escaped_size`, a list of lines. That such a
definition has the values it says is itself to be proved. `Induction` does it from
the well-foundedness of the numbers: `InductionUpTo` is induction for a set of
numbers; `RecursionByRank` gives a function defined by its values at places of
lower rank, and `LoopHasValues` is the same for a loop with a counter. All are
stated with sets and functions in the place of predicates, so that the provers
can apply them.

**The IR generator.** `IrGeneratorProofs` proves the five invariants of the run
`ir_generator`: `TypeCorrect`, `ScopesBalance`, `LiteralsStayNumbered`,
`OutputIsComplete` and `SearchesMissNothing`. The inductive invariant `IInv` is
their conjunction. None is
inductive alone: that `EndBody` returns to an allocated scope needs
the shape that `ScopeDiscipline` gives to the parent chain (the i-th function
owns scopes 2i and 2i+1); that shape needs the types; that a search goes
from a scope to the right parent needs both. `StepIInv` is split into one lemma
per conjunct with one step per action. `TypeOK` includes `scope \in DOMAIN
scopes`, so the theorem says that no pop and no look-up ever reaches NULL.
`NamesResolveLexically` is the refinement of `LexicalScope`: an
initial state maps to an initial one and every step to a step or a stutter. It
needs one fact more, `BodyEmpty`: at this commit no symbol is declared in the
scope of a body, so the first hit of a search is a parameter or a function.

**The listing.** `IrGeneratorProofs` also proves `AllItemsAreListed` and
`SectionsAreRight` on top of `IInv`. `ListingInv` says what the listing is when n
items have been printed: the k-th is on line k+1 while there is data alone, on
line k+2 behind the directive of the text section. The second theorem needs to
know that main has a tree at all (`NothingInv`: before its first node a program
has left no trace).

**The symbol table.** `SymbolTableTheorems` has what the proofs rest on: the
least position that `SelectInSeq` returns, the scopes after each operation, field
by field, and `AddLiteral`, of interest in itself: `sym_add_literal` moves no
literal, leaves texts and numbers unique, and its pool has the text.

`ScopeContextProofs` proves, for any number of scopes and any order of calls,
`ChildrenInvertParents`, `FreesEveryScopeOnce`, `LookupIsInnermost` and the
action property `SymbolsStay`. `IInv` has the types,
`Tree` (a parent was allocated before its child, and a child is in the list of
its parent and of nobody else, once) and `FreesDownwards` (the scopes the
freeing has reached are the top level and the children of the scopes it has
freed). That nothing is left when the freeing has nothing more to do is a
minimal counterexample: the scope left over that was allocated first has a
parent which was freed, and so was reached itself. That parents are
allocated first is also the rank by which chains of parents and searches along
them are defined, and end. `ScopesAreFrames` is the refinement of `FrameStack`:
a scope's chain does not change when another is appended (`ChainsStay`), so a
push puts a frame on the stack and a pop uncovers the one below as it was.

**The scanner.** `LexerProofs` proves the five safety properties of the run:

* `CommentsAndStatesAgree`: the invariant `Nesting` adds to `StackDiscipline` the
  types; without the counter being a natural number the end of a comment
  could pop at the wrong level;
* `OverrunsOnlyWhenFull`: `Room` says that what is in the buffer has been read,
  behind a quote, so that a buffer without a NUL has cost its length of input;
* `FirstStringKeepsItsText`: until a literal has ended (`Verbatim`) the buffer is
  what the literal appended and NULs behind it, also while a comment interrupts
  it, which needs `Nesting` to know that the literal is the one below the comment;
* `PositionsAreRight`: a round of `update_loc` keeps `EndsAt`, that the location
  is that of the position; a match is as many rounds as it has characters;
* `EveryDelimiterCounts`: no round of a comment's text takes a part of a
  delimiter (`TextHasNoDelimiter`), and whatever another rule matches has none
  but its own, so that the reading of the text for comments alone comes to
  every match with the scanner's count. It needs `Nesting`: a `*/` outside of
  a comment must find the counter at zero.

The proof of the last showed that the property had been stated too strongly: in a
string `\/*` begins no comment. The alphabets of the run had kept backslashes and
delimiters apart, and the third of them, where they meet, was added for it.

**Items, instructions, lines.** `BackendProofs` proves, for any sequence of the
client's operations and items of every kind, `ItemsFreedOnce`, `TextsAloneLeak`,
`NamesComeBack` and `LinesFollow`. `ItemsInv` says that the strings of the n-th
item made carry its number and their place, and that the types of the addresses
tell `ir_free_item` which there are; that is so of every constructor, one lemma
for each group of them. `InstrsInv` says the same of instructions, and
`LinesInv` that the `next` pointers go from each node to the following one, so
that the list, however long, is the instructions in their order.

`EnterSaves` is about what the lines of an `enter` do when they are executed.
`OfItem` says that while lines are written behind an `enter` the instructions are
its code, which is then run step by step on the model's machine, whose three
registers start with values that tell them apart.

**The parsers.** Both proofs of ownership give every node a place, and show that
each step moves it to one place.

`ExprParserProofs` proves `TypesHold` and `StackOwns`. The invariant `Good` has
an assignment `own` of nodes to the symbols of the stack, or to none when the
node was given up; it says that a symbol's value is assigned to it, and that what
a node points to goes with the node. Pointers lead to earlier nodes but in lists
of arguments, whose last cell alone is on the stack. `Sits` is the discipline of
the stack (an operator stands on an expression, a list on its call), which is
what the reductions count on when they take values from a fixed depth.

`ParserProofs` proves `TypesHold` and `NodesOwnedOnce` for programs of any length
behind any beginning. The parser keeps its pointers in slots: one for `yylval`,
one for the root, one for each entry of the stack. `Pool` says that every node
hangs on one slot or on one node in use (`Rooted`), and that they do not run in
circles (`Ranked`), so that the free functions end and reach what they should.
The cells of arguments that have another behind them are in use by nothing:
they hang nowhere, only what is on them hangs on them, and the cell behind
them hangs on the stack or on its call alone. A lemma for each thing a step can do to the pool (`Makes`, `Frees`, `Loses`,
`Moves`, `Appends`) does not know of the grammar; `DoGood` puts the actions of
the rules together of them. What the grammar adds is `StackOK`: each entry is
behind the one below it by a transition of the automaton, with a value of the
symbol's type. `Walks` retraces from a complete rule, entry by entry, its right
side on the stack. For this the theorems rest on three assumptions without
parameters: `Deterministic` and `Retraceable` about the automaton, `WellTyped`
about the rules and their actions. They are facts about the tables that the
provers could only find by computing them; TLC does so in the run `parser`.

`ErrorsCostAStatement` proves `ErrorsKeepTheBody`. `BodyAssumption` (`Shelters`)
says of the tables that where statements of a function are being read `error` can
be shifted, and that no rule goes on there but the function's and their own
list's. So the recovery, which drops entries until one shifts `error`, stops at the
body at the latest, and a reduction behind it takes only what was read behind it.

`ElsesBindNearest` proves `ElseBindsNearest`. The invariant `Binds` tells of each
node whether it ends in an `if` without `else`: no such statement is the
first branch of an `if` that has one, and on the stack only the top entry may be
one, before a look-ahead that is not `else`. `ElseAssumption` (`ElsesShift`) says of
the tables that where an `if` is complete without `else` an `else` can be shifted,
and that nothing but `else` can be shifted behind a statement. The nodes that a
step makes or appends to leave what was read of the others as it was (`ReadsSame`).

`TreesForBuildIr` proves `TreeForBuildIr`. The invariant `Fit` gives each cell of a
list a role, which lasts: it belongs to the parameters of a function, is the only
declarator of a declaration, or is any other. `Shape` says by type and role what a
node points to; `Standing` says what each value on the stack is, from the
transition behind its entry, so that an action finds in its arguments what its
rule has there. Where an element is appended the list keeps its role, which is
why parameters stay declarations of one variable, and declarators that are alone
are never appended to. A value that is NULL has met (`Met`) an error, or, if it
is a statement, perhaps an empty one, and what was met stays met when the value is
put into a list or a statement. `Unread` says that while there is no tree nothing
but the end was read, and gives the part about a NULL tree. `ShapeAssumption`
(`ShapesFit`) says of the tables what the rules of functions, declarators,
parameters, statements and expressions do and where they take their arguments from.
That the recursion along a list of parameters ends well follows by the cells'
ranks in `Pool`.
TLC evaluates `BodyAssumption`, `ElseAssumption` and `ShapeAssumption`, too, in the run
`parser`.

**Escaping.** `BackendProofs` also proves `PassesAgree` and `EscapedReadsBack`. The
invariant places each character of the text at the cell that the first pass
would have counted up to it (`Cell`), and says what it left there; the cells of
two characters never overlap because the count grows by one or two
(`CountedGrows`). What is behind the last of them is what that character left
there (`Behind`): a NUL, or nothing. Reading back is then an induction from the end of what was
written.

**Only model-checked**, and why:

* `Terminates`, `MainEnds`, the ends of `parser` and `expr_parser`: liveness is
  out of the prover's reach;
* `LinesTellItems` and `LinesTellInstructions` are about formatted numbers, and
  that no two numbers are written alike is nothing the provers know of `ToString`;
* `AcceptsExpressions`, `TreeFollowsPrecedence` and `NamesInOrder` compare a
  tree, or the stack, with a recursive reading of the whole text: an induction over
  data of a shape that none of the invariants here has.

## 5. What is not modelled

* Types, numbers' values and positions in the tree; they are handed on unread.
* The bodies of the fifteen translation functions that are empty, and
  `print_line_list`, `MIPS_mkimm8`, `make_index`, which have no caller or only
  print.
* `next_label`, `codegen_info` and the conversions of `types.c`: a counter without
  a caller, a type without a use, and tables.
* Cells of `expr_list` are allocated too small (`ast.c:500`), which the heap of
  the model does not show.
* The printing of an empty address, whose length is uninitialized; no caller has
  one.
* Lengths of texts in the buffers of `main`, `print_data` and `ir_output`.
* `sym_print_*`, `ctx_mktmp`, `ctx_mklabel`, `sym_add_param`: formatting, or no
  caller.
* The flex and bison run times, `malloc` failure and the width of counters.

## 6. The plan

The modules of the plan are written. What could follow:

1. Proofs: `TreeFollowsPrecedence` and `NamesInOrder`, by induction over the heap.
2. When the code grows: `process_expr` for operators, the bodies of the
   translation functions, and `main` with the back end behind it.
