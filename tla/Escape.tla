------------------------------- MODULE Escape -------------------------------
(***************************************************************************)
(* escape_alloc (util.c): the room for an escaped text is computed in one  *)
(* pass, the text written in another, one character of the text in a step. *)
(***************************************************************************)
EXTENDS Naturals, Sequences, SequencesExt

CONSTANTS
  Char,      \* the characters of texts
  MaxText    \* bound: length of the text

(* Mutant: a return is written as a newline is.                            *)
LetterRepeated == [tab |-> "t", newline |-> "n", quote |-> "quote",
                   backslash |-> "backslash", return |-> "n"]

(* The characters with an escape sequence, and its second character.       *)
Letter == [tab |-> "t", newline |-> "n", quote |-> "quote",
           backslash |-> "backslash", return |-> "r"]

(* What malloc leaves in a cell, and the end of a string, are in no text.  *)
ASSUME TextAssumption ==
  Char \subseteq STRING /\ Char \cap {"NUL", "unwritten"} = {} /\ MaxText \in Nat

VARIABLES
  text,    \* the text
  src,     \* the position of the next character to write
  size,    \* what calc_escaped_size computed, and malloc allocated
  dest,    \* the cells 1 .. size of the array, and the one behind it
  p        \* the cell to write next

escape_vars == <<text, src, size, dest, p>>

escaped(c) == IF c \in DOMAIN Letter THEN <<"backslash", Letter[c]>> ELSE <<c>>

(* Mutant: the return is thought to take one character.                    *)
escaped_size_of_return(c) ==
  IF c \in DOMAIN Letter \ {"return"} THEN 2 ELSE 1

escaped_size(c) == IF c \in DOMAIN Letter THEN 2 ELSE 1

(* What calc_escaped_size has counted after so many characters.            *)
CountedAfter(t) ==
  LET counted[k \in 0 .. Len(t)] ==
        IF k = 0 THEN 0 ELSE counted[k - 1] + escaped_size(t[k])
  IN  counted

calc_escaped_size(t) == CountedAfter(t)[Len(t)]

EscapeInit ==
  /\ text \in SeqOf(Char, MaxText)
  /\ src = 1 /\ p = 1
  /\ size = calc_escaped_size(text)
  /\ dest = [k \in 1 .. size + 1 |-> "unwritten"]

(* strcpy writes a NUL behind the two characters, an assignment does not.  *)
EscapeChar ==
  LET out == escaped(text[src])
      NUL == IF Len(out) = 2 THEN <<"NUL">> ELSE << >>
      chars == out \o NUL
  IN  /\ src <= Len(text)
      /\ dest' = [k \in DOMAIN dest \cup p .. p + Len(chars) - 1 |->
                    IF k \in p .. p + Len(chars) - 1 THEN chars[k - p + 1]
                                                     ELSE dest[k]]
      /\ p' = p + Len(out)
      /\ src' = src + 1
      /\ UNCHANGED <<text, size>>

EscapeReturned == src > Len(text) /\ UNCHANGED escape_vars

EscapeNext == EscapeChar \/ EscapeReturned

EscapeSpec == EscapeInit /\ [][EscapeNext]_escape_vars /\ WF_escape_vars(EscapeChar)

-----------------------------------------------------------------------------
(* Properties                                                              *)

(* What an assembler reads from the characters from k on.                  *)
Unescaped(chars) ==
  LET Named(c) == CHOOSE e \in DOMAIN Letter : Letter[e] = c
      read[k \in 1 .. Len(chars) + 1] ==
        IF k > Len(chars) THEN << >>
        ELSE IF chars[k] = "backslash" /\ k < Len(chars)
               THEN <<Named(chars[k + 1])>> \o read[k + 2]
               ELSE <<chars[k]>> \o read[k + 1]
  IN  read[1]

(* The array holds, read back, the part of the text that was written: no   *)
(* text is escaped to another one's characters.                            *)
ReadsBack ==
  Unescaped([k \in 1 .. p - 1 |-> dest[k]]) = SubSeq(text, 1, src - 1)

(* The two passes agree: the text is written into the cells counted for it *)
(* and fills them; and all that is ever behind the text written so far is  *)
(* the NUL of the strcpy of an escape sequence. So the end of the array    *)
(* returned is a cell beyond the room if the text ends in an escaped       *)
(* character, and is nowhere if it does not.                               *)
FillsTheRoom ==
  /\ DOMAIN dest = 1 .. size + 1 /\ p <= size + 1
  /\ \A k \in 1 .. p - 1 : dest[k] \notin {"NUL", "unwritten"}
  /\ \A k \in p .. size + 1 :
       dest[k] = IF k = p /\ src > 1 /\ text[src - 1] \in DOMAIN Letter
                   THEN "NUL" ELSE "unwritten"
  /\ src > Len(text) => p = size + 1
=============================================================================
