------------------------------- MODULE Lexer --------------------------------
(***************************************************************************)
(* The scanner flex makes of lexer.lex.  A step is one match: the longest  *)
(* at the current position, the earlier rule among equals, as the guards   *)
(* spell out, and the rule's action.  Characters are told apart as far as  *)
(* the rules do: n stands for the letters, 0 for the digits, and * and /   *)
(* for the operators.                                                      *)
(***************************************************************************)
EXTENDS Naturals, Sequences, SequencesExt

CONSTANTS
  Char,        \* the characters of the input
  MaxInput,    \* bound: length of the input
  MaxString    \* MAX_STRING, the size of string_buffer

AllChar == {"*", "/", "quote", "tick", "backslash", "eol", "n", "0"}

ASSUME CharAssumption == Char \subseteq AllChar
ASSUME BoundsAssumption == MaxInput \in Nat /\ MaxString \in Nat \ {0}

VARIABLES
  input,            \* the whole of stdin
  pos,              \* the position of the next character
  start,            \* the start condition
  stack,            \* the start conditions pushed below it
  nested_comments,
  string_buffer,
  yylloc,
  tokens,           \* the tokens returned so far, with their yylval
  errors,           \* the messages of print_error
  status,           \* "scanning", "ended" or "overrun" (out of string_buffer)
  own,              \* history: what the current literal itself appended
  fresh             \* history: no literal has ended yet

vars == <<input, pos, start, stack, nested_comments, string_buffer, yylloc,
          tokens, errors, status, own, fresh>>

text    == <<string_buffer, own, fresh>>
nesting == <<start, stack, nested_comments>>

Condition == {"INITIAL", "S_COMMENT", "S_STR"}

NUL == "nul"
Failed == "-1"

Begin(inputs) ==
  /\ input \in inputs /\ pos = 1
  /\ start = "INITIAL" /\ stack = << >> /\ nested_comments = 0
  /\ string_buffer = [i \in 1 .. MaxString |-> NUL]
  /\ yylloc = [first_line |-> 1, first_column |-> 1,
               last_line |-> 1, last_column |-> 1]
  /\ tokens = << >> /\ errors = << >> /\ status = "scanning"
  /\ own = << >> /\ fresh = TRUE

Init == Begin(SeqOf(Char, MaxInput))

-----------------------------------------------------------------------------
(* Reading                                                                 *)

More == pos <= Len(input)
Here == input[pos]

LooksAt(chars) == IsPrefix(chars, SubSeq(input, pos, Len(input)))

(* Mutant: a line starts in column 0.                                      *)
advance_from_0(loc, c) ==
  IF c = "eol"
    THEN [loc EXCEPT !.last_line = @ + 1, !.last_column = 0]
    ELSE [loc EXCEPT !.last_column = @ + 1]

(* One round of the loop in update_loc.                                    *)
advance(loc, c) ==
  IF c = "eol"
    THEN [loc EXCEPT !.last_line = @ + 1, !.last_column = 1]
    ELSE [loc EXCEPT !.last_column = @ + 1]

update_loc(loc, chars) ==
  LET moved[k \in 0 .. Len(chars)] ==
        IF k = 0
          THEN [loc EXCEPT !.first_line = loc.last_line,
                           !.first_column = loc.last_column]
          ELSE advance(moved[k - 1], chars[k])
  IN  moved[Len(chars)]

(* A rule that matches the next n characters.                              *)
Match(n) ==
  /\ status = "scanning" /\ pos + n - 1 <= Len(input)
  /\ pos' = pos + n
  /\ yylloc' = update_loc(yylloc, SubSeq(input, pos, pos + n - 1))
  /\ UNCHANGED input

Return(type, value) ==
  tokens' = Append(tokens, [type |-> type, value |-> value, own |-> own,
                            fresh |-> fresh])

print_error(msg) == errors' = Append(errors, msg)

yy_push_state(s) == stack' = Append(stack, start) /\ start' = s
yy_pop_state     == stack' = Front(stack) /\ start' = Last(stack)

-----------------------------------------------------------------------------
(* Comments                                                                *)

(* Mutant: a comment in a comment counts for nothing.                      *)
OpenCommentFlat ==
  /\ LooksAt(<<"/", "*">>) /\ Match(2)
  /\ nested_comments' = 1
  /\ IF nested_comments = 0 THEN yy_push_state("S_COMMENT")
                            ELSE UNCHANGED <<start, stack>>
  /\ UNCHANGED <<text, tokens, errors, status>>

OpenComment ==
  /\ LooksAt(<<"/", "*">>) /\ Match(2)
  /\ nested_comments' = nested_comments + 1
  /\ IF nested_comments' = 1 THEN yy_push_state("S_COMMENT")
                             ELSE UNCHANGED <<start, stack>>
  /\ UNCHANGED <<text, tokens, errors, status>>

(* One round of ([^*\/]|\*[^/]|\/[^*]): how many characters it takes at p. *)
Round(p) ==
  LET partner == [c \in {"*", "/"} |-> IF c = "*" THEN "/" ELSE "*"]
  IN  IF p > Len(input) THEN 0
      ELSE IF input[p] \notin {"*", "/"} THEN 1
      ELSE IF p < Len(input) /\ input[p + 1] # partner[input[p]] THEN 2
      ELSE 0

(* Where the rounds from p on end.                                         *)
CommentTextEnd(p) ==
  LET end[q \in 1 .. Len(input) + 1] ==
        IF Round(q) = 0 THEN q ELSE end[q + Round(q)]
  IN  end[p]

CommentText ==
  /\ start = "S_COMMENT" /\ CommentTextEnd(pos) > pos
  /\ Match(CommentTextEnd(pos) - pos)
  /\ UNCHANGED <<nesting, text, tokens, errors, status>>

(* Mutant: a comment's end pops one state for every level.                 *)
CloseCommentAlwaysPops ==
  /\ start = "S_COMMENT" /\ LooksAt(<<"*", "/">>) /\ Match(2)
  /\ nested_comments' = nested_comments - 1
  /\ yy_pop_state
  /\ UNCHANGED <<text, tokens, errors, status>>

CloseComment ==
  /\ start = "S_COMMENT" /\ LooksAt(<<"*", "/">>) /\ Match(2)
  /\ nested_comments' = nested_comments - 1
  /\ IF nested_comments' = 0 THEN yy_pop_state ELSE UNCHANGED <<start, stack>>
  /\ UNCHANGED <<text, tokens, errors, status>>

(* Mutant: the rule returns nothing, and matches nothing again.            *)
CommentEOFNoReturn ==
  status = "scanning" /\ start = "S_COMMENT" /\ ~More /\ UNCHANGED vars

CommentEOF ==
  /\ status = "scanning" /\ start = "S_COMMENT" /\ ~More
  /\ print_error("Unterminated comment")
  /\ status' = "ended"
  /\ UNCHANGED <<input, pos, nesting, text, yylloc, tokens>>

-----------------------------------------------------------------------------
(* Strings                                                                 *)

(* The place of the first NUL, or 0 when there is none in the buffer.      *)
FirstNUL(buffer) == SelectInSeq(buffer, LAMBDA c : c = NUL)

CString(buffer) == SubSeq(buffer, 1, FirstNUL(buffer) - 1)

(* Mutants: the character goes behind the NUL; a NUL is put behind the     *)
(* character, for which there must be room.                                *)
append_char_off_by_one(c) ==
  /\ IF FirstNUL(string_buffer) \in {0, MaxString}
       THEN status' = "overrun" /\ UNCHANGED string_buffer
       ELSE /\ string_buffer' = [string_buffer EXCEPT ![FirstNUL(string_buffer) + 1] = c]
            /\ UNCHANGED status
  /\ own' = IF c = NUL THEN own ELSE Append(own, c)
  /\ UNCHANGED fresh

append_char_terminated(c) ==
  LET p == FirstNUL(string_buffer)
  IN  /\ IF p \in {0, MaxString}
           THEN status' = "overrun" /\ UNCHANGED string_buffer
           ELSE /\ string_buffer' = [string_buffer EXCEPT ![p] = c, ![p + 1] = NUL]
                /\ UNCHANGED status
      /\ own' = IF c = NUL THEN own ELSE Append(own, c)
      /\ UNCHANGED fresh

(* append_char writes over the first NUL it finds, and no NUL after it.    *)
append_char(c) ==
  /\ IF FirstNUL(string_buffer) = 0
       THEN status' = "overrun" /\ UNCHANGED string_buffer
       ELSE /\ string_buffer' = [string_buffer EXCEPT ![FirstNUL(string_buffer)] = c]
            /\ UNCHANGED status
  /\ own' = IF c = NUL THEN own ELSE Append(own, c)
  /\ UNCHANGED fresh

OpenString ==
  /\ start = "INITIAL" /\ More /\ Here = "quote" /\ Match(1)
  /\ yy_push_state("S_STR")
  /\ own' = << >>
  /\ UNCHANGED <<nested_comments, string_buffer, fresh, tokens, errors, status>>

(* strcpy of "" writes one NUL, at the head of the buffer.  strdup runs     *)
(* out of a buffer that has no NUL.                                        *)
CloseString ==
  /\ start = "S_STR" /\ More /\ Here = "quote" /\ Match(1)
  /\ IF FirstNUL(string_buffer) = 0
       THEN status' = "overrun" /\ UNCHANGED <<nesting, text, tokens>>
       ELSE /\ yy_pop_state
            /\ Return("STRING", CString(string_buffer))
            /\ string_buffer' = [string_buffer EXCEPT ![1] = NUL]
            /\ fresh' = FALSE
            /\ UNCHANGED <<nested_comments, own, status>>
  /\ UNCHANGED errors

(* For the characters it knows escape_seq comes to its end without a       *)
(* return: the value its caller takes can be any, -1 included.             *)
Known == {"0", "quote", "backslash"}
escape_seq(c) == IF c \in Known THEN AllChar \cup {NUL, Failed} ELSE {Failed}

StartsEscape ==
  Here = "backslash" /\ pos < Len(input) /\ input[pos + 1] # "eol"

EscapeInString ==
  /\ start = "S_STR" /\ More /\ StartsEscape /\ Match(2)
  /\ \E next \in escape_seq(input[pos + 1]) :
       IF next # Failed THEN append_char(next) ELSE UNCHANGED <<text, status>>
  /\ IF input[pos + 1] \in Known THEN UNCHANGED errors
                                 ELSE print_error("Unknown escape sequence")
  /\ UNCHANGED <<nesting, tokens>>

(* Any other character but a newline and the two that start a comment: a   *)
(* backslash, too, at the end of a line or of the input.                   *)
CharInString ==
  /\ start = "S_STR" /\ More /\ Here \notin {"quote", "eol"} /\ ~StartsEscape
  /\ ~LooksAt(<<"/", "*">>)
  /\ Match(1)
  /\ append_char(Here)
  /\ UNCHANGED <<nesting, tokens, errors>>

(* The buffer keeps what the literal put into it.                          *)
EolInString ==
  /\ start = "S_STR" /\ More /\ Here = "eol" /\ Match(1)
  /\ print_error("Unexpected EOL inside string literal")
  /\ yy_pop_state
  /\ fresh' = FALSE
  /\ UNCHANGED <<nested_comments, string_buffer, own, tokens, status>>

EofInString ==
  /\ status = "scanning" /\ start = "S_STR" /\ ~More
  /\ print_error("Unexpected EOF inside string")
  /\ status' = "ended"
  /\ UNCHANGED <<input, pos, nesting, text, yylloc, tokens>>

-----------------------------------------------------------------------------
(* Everything else                                                         *)

(* The first position from p on whose character is not in C.               *)
RunEnd(p, C) ==
  LET end[q \in 1 .. Len(input) + 1] ==
        IF q <= Len(input) /\ input[q] \in C THEN end[q + 1] ELSE q
  IN  end[p]

Outside == start = "INITIAL" /\ More

(* Keywords and identifiers; numbers; operators and punctuation.           *)
Word ==
  /\ Outside /\ Here = "n"
  /\ Match(RunEnd(pos, {"n", "0"}) - pos)
  /\ Return("ID", << >>)
  /\ UNCHANGED <<nesting, text, errors, status>>

Number ==
  /\ Outside /\ Here = "0"
  /\ Match(RunEnd(pos, {"0"}) - pos)
  /\ Return("NUM", << >>)
  /\ UNCHANGED <<nesting, text, errors, status>>

Operator ==
  /\ Outside /\ Here \in {"*", "/"} /\ ~LooksAt(<<"/", "*">>)
  /\ Match(1)
  /\ Return(Here, << >>)
  /\ UNCHANGED <<nesting, text, errors, status>>

PlainChar ==
  Outside /\ Here = "tick" /\ pos + 2 <= Len(input)
    /\ input[pos + 1] # "eol" /\ input[pos + 2] = "tick"
EscapedChar == \E c \in {"n", "0"} : LooksAt(<<"tick", "backslash", c, "tick">>)

(* The value of a plain character is *yytext: the apostrophe.              *)
CharLiteral ==
  /\ PlainChar /\ Match(3)
  /\ Return("CHAR", <<Here>>)
  /\ UNCHANGED <<nesting, text, errors, status>>

(* escape_seq is given the backslash, which it knows.                      *)
EscapedCharLiteral ==
  /\ Outside /\ EscapedChar /\ Match(4)
  /\ \E value \in escape_seq(input[pos + 1]) : Return("CHAR", <<value>>)
  /\ UNCHANGED <<nesting, text, errors, status>>

Space ==
  /\ Outside /\ Here = "eol" /\ Match(1)
  /\ UNCHANGED <<nesting, text, tokens, errors, status>>

(* The rule for any character, where no other rule matches.                *)
UnexpectedChar ==
  /\ More
  /\ \/ start = "INITIAL" /\ Here \in {"tick", "backslash"}
                          /\ ~PlainChar /\ ~EscapedChar
     \/ start = "S_COMMENT" /\ CommentTextEnd(pos) = pos
          /\ ~LooksAt(<<"/", "*">>) /\ ~LooksAt(<<"*", "/">>)
  /\ Match(1)
  /\ print_error("Unexpected character")
  /\ UNCHANGED <<nesting, text, tokens, status>>

EndOfInput ==
  /\ status = "scanning" /\ start = "INITIAL" /\ ~More
  /\ status' = "ended"
  /\ UNCHANGED <<input, pos, nesting, text, yylloc, tokens, errors>>

Ended == status # "scanning" /\ UNCHANGED vars

Step ==
  \/ OpenComment \/ CommentText \/ CloseComment \/ CommentEOF
  \/ OpenString \/ CloseString \/ EscapeInString \/ CharInString
  \/ EolInString \/ EofInString
  \/ Word \/ Number \/ Operator \/ CharLiteral \/ EscapedCharLiteral
  \/ Space \/ UnexpectedChar \/ EndOfInput

Next == Step \/ Ended

Spec == Init /\ [][Next]_vars

(* The parser asks for tokens until it has got the 0 of the input's end.   *)
FairSpec == Spec /\ WF_vars(Step)

-----------------------------------------------------------------------------
(* Properties                                                              *)

(* Comments nest in a counter, start conditions in a stack, and the stack  *)
(* gets one entry for the outermost comment alone.  Whatever is opened,    *)
(* closed or left open, in a string or out of it, the two agree: there is  *)
(* a state to pop whenever a rule pops one, a comment ends in the          *)
(* condition it began in, and nothing else is ever stacked.                *)
StackDiscipline ==
  /\ start = "INITIAL" => Len(stack) = 0
  /\ start = "S_STR" => Len(stack) = 1 /\ stack[1] = "INITIAL"
  /\ start = "S_COMMENT" =>
       /\ Len(stack) \in 1 .. 2 /\ stack[1] = "INITIAL"
       /\ Len(stack) = 2 => stack[2] = "S_STR"
  /\ nested_comments > 0 <=> start = "S_COMMENT"

(* The positions that error messages and the parser report: yylloc ends at *)
(* the line and column of the next character, however the input was cut    *)
(* into matches.                                                           *)
LocIsPosition ==
  LET eols == {i \in 1 .. pos - 1 : input[i] = "eol"}
  IN  /\ yylloc.last_line = 1 + Cardinality(eols)
      /\ yylloc.last_column = pos - Max(eols \cup {0})
      /\ \/ yylloc.first_line < yylloc.last_line
         \/ yylloc.first_line = yylloc.last_line
              /\ yylloc.first_column <= yylloc.last_column

(* A text t read for comments alone: where the k-th read ends, and how     *)
(* many comments are open there.  A read takes two characters where they   *)
(* open or close a comment, and one elsewhere.                             *)
Delimits(t, q) == IF q < Len(t) THEN <<t[q], t[q + 1]>> ELSE << >>

Read(t, r) ==
  CASE Delimits(t, r.at) = <<"/", "*">> -> [at |-> r.at + 2, depth |-> r.depth + 1]
    [] Delimits(t, r.at) = <<"*", "/">> /\ r.depth > 0
                                        -> [at |-> r.at + 2, depth |-> r.depth - 1]
    [] OTHER                            -> [at |-> r.at + 1, depth |-> r.depth]

Reads(t) ==
  LET read[k \in 0 .. Len(t)] ==
        IF k = 0 THEN [at |-> 1, depth |-> 0] ELSE Read(t, read[k - 1])
  IN  read

(* The two ways in which a rule takes a part of a delimiter for itself: no *)
(* * or / is followed by its like, of which the rule for a comment's text  *)
(* takes two at a time, and no / is escaped, as it can be in a string.     *)
NoneHidden ==
  \A i \in 1 .. Len(input) - 1 :
    /\ input[i] \in {"*", "/"} => input[i] # input[i + 1]
    /\ input[i] = "backslash"  => input[i + 1] # "/"

(* But for these, the longest match of the rule for the text of comments   *)
(* never runs over a delimiter, and a delimiter counts in a comment, in a  *)
(* string and outside of both: at every match the depth counted is the     *)
(* depth of the text, and no match ends within a delimiter.                *)
CountsEveryDelimiter ==
  NoneHidden =>
    \E k \in 0 .. pos - 1 :
      Reads(input)[k] = [at |-> pos, depth |-> nested_comments]

(* The value of the first literal of a program is its own text.            *)
FirstStringIsItsText ==
  \A i \in 1 .. Len(tokens) :
    tokens[i].type = "STRING" /\ tokens[i].fresh => tokens[i].value = tokens[i].own

(* The scanner leaves string_buffer only when the program's literals have  *)
(* filled it: a quote, MaxString characters, and one more were read.       *)
OverrunNeedsText == status = "overrun" => pos - 1 >= MaxString + 2

(* Every input is scanned to its end (or to the end of the buffer).        *)
Terminates == <>(status # "scanning")

(* What emptying the buffer is for (lexer.lex:143): the value of each      *)
(* literal is its own text.                                                *)
StringIsItsText ==
  \A i \in 1 .. Len(tokens) :
    tokens[i].type = "STRING" => tokens[i].value = tokens[i].own
=============================================================================
