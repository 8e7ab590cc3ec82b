----------------------------- MODULE LexerProofs -----------------------------
(***************************************************************************)
(* For every input and every size of string_buffer: the scanner's counter  *)
(* of comments and its stack of start conditions agree; string_buffer is   *)
(* overrun only by literals that fill it, and the first literal is told    *)
(* with its own text; the positions told are those of the text; and the    *)
(* delimiters of comments are counted as they are written.                 *)
(***************************************************************************)
EXTENDS Lexer, Induction, SequenceTheorems, FiniteSetTheorems, TLAPS

(* The inductive invariant: the discipline on well-typed conditions, and a *)
(* counter that is never below zero.                                       *)
Nesting ==
  /\ start \in Condition /\ stack \in Seq(Condition) /\ nested_comments \in Nat
  /\ StackDiscipline

(* What a push puts on the stack stays below what is pushed later.         *)
LEMMA Push ==
  ASSUME NEW S, NEW s \in Seq(S), NEW e \in S
  PROVE  /\ Append(s, e) \in Seq(S) /\ Len(Append(s, e)) = Len(s) + 1
         /\ Append(s, e)[Len(s) + 1] = e
         /\ \A i \in 1 .. Len(s) : Append(s, e)[i] = s[i]
  BY SMT

(* A pop takes the last condition from a stack that has one.               *)
LEMMA Pop ==
  ASSUME NEW S, NEW s, s \in Seq(S), Len(s) > 0
  PROVE  /\ Front(s) \in Seq(S) /\ Len(Front(s)) = Len(s) - 1
         /\ \A i \in 1 .. Len(s) - 1 : Front(s)[i] = s[i]
         /\ Last(s) = s[Len(s)] /\ Last(s) \in S
<1>1. Len(s) \in Nat /\ \A i \in 1 .. Len(s) : s[i] \in S
  BY LenProperties, ElementOfSeq
<1>2. /\ SubSeq(s, 1, Len(s) - 1) \in Seq(S)
      /\ Len(SubSeq(s, 1, Len(s) - 1)) = Len(s) - 1
      /\ \A i \in 1 .. Len(s) - 1 : SubSeq(s, 1, Len(s) - 1)[i] = s[i]
  <2> DEFINE n == Len(s) - 1
  <2>1. n \in Nat /\ 1 \in Int /\ n \in Int /\ n = Len(s) - 1
    BY <1>1
  <2>2. \A i \in 1 .. n : s[i] \in S
    BY <1>1
  <2> HIDE DEF n
  <2>3. /\ SubSeq(s, 1, n) \in Seq(S)
        /\ Len(SubSeq(s, 1, n)) = IF 1 <= n THEN n - 1 + 1 ELSE 0
        /\ \A i \in 1 .. n - 1 + 1 : SubSeq(s, 1, n)[i] = s[1 + i - 1]
    BY <2>1, <2>2, SubSeqProperties
  <2>4. Len(SubSeq(s, 1, n)) = n
    BY <2>1, <2>3
  <2>5. \A i \in 1 .. n : SubSeq(s, 1, n)[i] = s[i]
    BY <2>1, <2>3
  <2> QED BY <2>3, <2>4, <2>5 DEF n
<1> QED BY <1>1, <1>2 DEF Front, Last

LEMMA InitNesting == Init => Nesting
  BY DEF Init, Begin, Nesting, StackDiscipline, Condition

LEMMA StepNesting == Nesting /\ [Next]_vars => Nesting'
<1> SUFFICES ASSUME Nesting, [Next]_vars PROVE Nesting'
  OBVIOUS
<1>0. ASSUME UNCHANGED nesting PROVE Nesting'
  BY <1>0 DEF nesting, Nesting, StackDiscipline
<1>1. start \in Condition /\ stack \in Seq(Condition) /\ Len(stack) \in Nat
  BY LenProperties DEF Nesting
<1>2. CASE OpenComment
  <2>1. CASE nested_comments = 0
    <3>1. /\ nested_comments' = 1 /\ start' = "S_COMMENT"
          /\ stack' = Append(stack, start)
      BY <1>2, <2>1 DEF OpenComment, yy_push_state
    <3>2. /\ stack' \in Seq(Condition) /\ Len(stack') = Len(stack) + 1
          /\ stack'[Len(stack) + 1] = start
          /\ \A i \in 1 .. Len(stack) : stack'[i] = stack[i]
      BY <1>1, <3>1, Push
    <3>3. \/ start = "INITIAL" /\ Len(stack) = 0
          \/ start = "S_STR" /\ Len(stack) = 1 /\ stack[1] = "INITIAL"
      BY <1>1, <2>1 DEF Nesting, StackDiscipline, Condition
    <3> QED BY <3>1, <3>2, <3>3 DEF Nesting, StackDiscipline, Condition
  <2>2. CASE nested_comments > 0
    BY <1>2, <2>2 DEF OpenComment, Nesting, StackDiscipline
  <2> QED BY <2>1, <2>2 DEF Nesting
<1>3. ASSUME yy_pop_state, start = "S_STR", UNCHANGED nested_comments
      PROVE  Nesting'
  <2>1. Len(stack) = 1 /\ stack[1] = "INITIAL"
    BY <1>3 DEF Nesting, StackDiscipline
  <2>2. stack' \in Seq(Condition) /\ Len(stack') = 0 /\ start' = "INITIAL"
    <3>1. stack' = Front(stack) /\ start' = Last(stack)
      BY <1>3 DEF yy_pop_state
    <3>2. stack \in Seq(Condition) /\ Len(stack) > 0
      BY <1>1, <2>1
    <3>3. /\ stack' \in Seq(Condition) /\ Len(stack') = Len(stack) - 1
          /\ start' = stack[Len(stack)]
      BY <3>1, <3>2, Pop
    <3> QED BY <2>1, <3>3
  <2> QED BY <1>3, <2>2 DEF Nesting, StackDiscipline, Condition
<1>4. CASE CloseComment
  <2>1. /\ nested_comments > 0 /\ start = "S_COMMENT"
        /\ nested_comments' = nested_comments - 1
        /\ Len(stack) \in 1 .. 2 /\ stack[1] = "INITIAL"
        /\ Len(stack) = 2 => stack[2] = "S_STR"
    BY <1>4 DEF CloseComment, Nesting, StackDiscipline
  <2>2. CASE nested_comments' = 0
    <3>1. stack' = Front(stack) /\ start' = Last(stack)
      BY <1>4, <2>2 DEF CloseComment, yy_pop_state
    <3>2. /\ stack' \in Seq(Condition) /\ Len(stack') = Len(stack) - 1
          /\ \A i \in 1 .. Len(stack) - 1 : stack'[i] = stack[i]
          /\ start' = stack[Len(stack)]
      BY <1>1, <2>1, <3>1, Pop
    <3> QED BY <2>1, <2>2, <3>2 DEF Nesting, StackDiscipline, Condition
  <2>3. CASE nested_comments' # 0
    BY <1>4, <2>1, <2>3 DEF CloseComment, Nesting, StackDiscipline
  <2> QED BY <2>2, <2>3
<1>5. CASE OpenString
  <2>1. /\ start = "INITIAL" /\ nested_comments' = nested_comments
        /\ stack' = Append(stack, start) /\ start' = "S_STR"
    BY <1>5 DEF OpenString, yy_push_state
  <2>2. stack' \in Seq(Condition) /\ Len(stack') = 1 /\ stack'[1] = "INITIAL"
    BY <1>1, <2>1, Push DEF Nesting, StackDiscipline
  <2> QED BY <2>1, <2>2 DEF Nesting, StackDiscipline, Condition
<1>6. CASE CloseString
  <2>1. CASE FirstNUL(string_buffer) = 0
    BY <1>0, <1>6, <2>1 DEF CloseString
  <2>2. CASE FirstNUL(string_buffer) # 0
    BY <1>3, <1>6, <2>2 DEF CloseString
  <2> QED BY <2>1, <2>2
<1>7. CASE EolInString
  BY <1>3, <1>7 DEF EolInString
<1>8. CASE CommentText \/ CommentEOF \/ EscapeInString \/ CharInString \/ EofInString
  BY <1>0, <1>8 DEF CommentText, CommentEOF, EscapeInString, CharInString, EofInString
<1>9. CASE \/ Word \/ Number \/ Operator \/ CharLiteral \/ EscapedCharLiteral
           \/ Space \/ UnexpectedChar \/ EndOfInput
  BY <1>0, <1>9 DEF Word, Number, Operator, CharLiteral, EscapedCharLiteral, Space,
                    UnexpectedChar, EndOfInput
<1>10. CASE UNCHANGED vars
  BY <1>0, <1>10 DEF vars, nesting
<1> QED
  BY <1>2, <1>4, <1>5, <1>6, <1>7, <1>8, <1>9, <1>10 DEF Next, Step, Ended

(* For every input, comments and start conditions agree: no rule pops an   *)
(* empty stack, and a comment ends where it began, in a string or out.     *)
THEOREM CommentsAndStatesAgree == Spec => []StackDiscipline
<1>1. Nesting => StackDiscipline
  BY DEF Nesting
<1> QED BY <1>1, InitNesting, StepNesting, PTL DEF Spec
-----------------------------------------------------------------------------
(* How far a match goes                                                    *)

(* f takes each of n positions to where steps of s from it end.            *)
Ends(f, n, s) == f = [q \in 1 .. n |-> IF s[q] = 0 THEN q ELSE f[q + s[q]]]

(* Steps that stay within the n positions end somewhere.                   *)
LEMMA StepsEnd ==
  ASSUME NEW n \in Nat, NEW s,
         \A q \in 1 .. n : s[q] \in Nat /\ q + s[q] <= n
  PROVE  \E f : Ends(f, n, s)
<1> DEFINE D == 1 .. n
           rank == [q \in D |-> n - q]
           F == [p \in D \X [D -> Nat] |->
                   IF s[p[1]] = 0 THEN p[1] ELSE p[2][p[1] + s[p[1]]]]
<1>1. \A q \in D : s[q] # 0 => q + s[q] \in D /\ rank[q + s[q]] < rank[q]
  <2> SUFFICES ASSUME NEW q \in D, s[q] # 0
               PROVE  q + s[q] \in D /\ rank[q + s[q]] < rank[q]
    OBVIOUS
  <2>1. q \in Nat /\ s[q] \in Nat /\ q + s[q] <= n /\ q < q + s[q]
    OBVIOUS
  <2> QED BY <2>1
<1>2. rank \in [D -> 0 .. n]
  OBVIOUS
<1>3. \A q \in D, g \in [D -> Nat] :
        F[<<q, g>>] = IF s[q] = 0 THEN q ELSE g[q + s[q]]
  OBVIOUS
<1>4. F \in [D \X [D -> Nat] -> Nat]
  <2>1. \A q \in D : q \in Nat
    OBVIOUS
  <2> HIDE DEF D, rank
  <2> QED BY <1>1, <2>1
<1> HIDE DEF F, rank, D
<1>5. \A q \in D : \A g, h \in [D -> Nat] :
        (\A e \in D : rank[e] < rank[q] => g[e] = h[e]) => F[<<q, g>>] = F[<<q, h>>]
  BY <1>1, <1>3
<1>6. PICK f \in [D -> Nat] : \A q \in D : f[q] = F[<<q, f>>]
  <2>1. Nat # {}
    OBVIOUS
  <2>2. ByRank(F, D, Nat, rank, n)
    BY <1>2, <1>4, <1>5, <2>1 DEF ByRank
  <2> QED BY <2>2, RecursionByRank
<1>7. f = [q \in D |-> f[q]]
  OBVIOUS
<1>8. f = [q \in D |-> IF s[q] = 0 THEN q ELSE f[q + s[q]]]
  BY <1>3, <1>6, <1>7
<1> QED BY <1>8 DEF Ends, D

(* They end at a position no earlier than the one they began at.           *)
LEMMA StepsGoOn ==
  ASSUME NEW n \in Nat, NEW s, NEW f, Ends(f, n, s),
         \A q \in 1 .. n : s[q] \in Nat /\ q + s[q] <= n
  PROVE  \A q \in 1 .. n : f[q] \in q .. n
<1>1. \A q \in 1 .. n : f[q] = IF s[q] = 0 THEN q ELSE f[q + s[q]]
  BY DEF Ends
<1> DEFINE S == {k \in Nat : \A q \in 1 .. n : n - q < k => f[q] \in q .. n}
<1>2. 0 \in S
  OBVIOUS
<1>3. ASSUME NEW k \in Nat, k \in S
      PROVE  k + 1 \in S
  <2> SUFFICES ASSUME NEW q \in 1 .. n, n - q < k + 1
               PROVE  f[q] \in q .. n
    OBVIOUS
  <2>1. s[q] \in Nat /\ q \in Nat /\ q + s[q] <= n
    OBVIOUS
  <2>2. CASE s[q] # 0
    <3> DEFINE r == q + s[q]
    <3>1. f[q] = f[r]
      BY <1>1, <2>2
    <3>2. r \in 1 .. n /\ q < r /\ n - r < k
      BY <2>1, <2>2
    <3> HIDE DEF r
    <3>3. f[r] \in r .. n
      BY <1>3, <3>2
    <3> QED BY <3>1, <3>2, <3>3
  <2>3. CASE s[q] = 0
    BY <1>1, <2>1, <2>3
  <2> QED BY <2>2, <2>3
<1>4. n \in S
  <2> HIDE DEF S
  <2>1. 0 .. n \subseteq S
    BY <1>2, <1>3, InductionUpTo
  <2> QED BY <2>1
<1> QED BY <1>4

(* What they step over is what is said of each step.                       *)
LEMMA StepsOver ==
  ASSUME NEW n \in Nat, NEW s, NEW f, Ends(f, n, s),
         \A q \in 1 .. n : s[q] \in Nat /\ q + s[q] <= n,
         NEW Q, \A q \in 1 .. n : \A x \in q .. q + s[q] - 1 : x \in Q
  PROVE  \A q \in 1 .. n : \A x \in q .. f[q] - 1 : x \in Q
<1>1. \A q \in 1 .. n : f[q] = IF s[q] = 0 THEN q ELSE f[q + s[q]]
  BY DEF Ends
<1>2. \A q \in 1 .. n : f[q] \in q .. n
  BY StepsGoOn
<1> DEFINE S == {k \in Nat : \A q \in 1 .. n : n - q < k =>
                              \A x \in q .. f[q] - 1 : x \in Q}
<1>3. 0 \in S
  OBVIOUS
<1>4. ASSUME NEW k \in Nat, k \in S
      PROVE  k + 1 \in S
  <2> SUFFICES ASSUME NEW q \in 1 .. n, n - q < k + 1, NEW x \in q .. f[q] - 1
               PROVE  x \in Q
    OBVIOUS
  <2>1. s[q] \in Nat /\ q \in Nat /\ q + s[q] <= n
    OBVIOUS
  <2>2. CASE s[q] # 0
    <3> DEFINE r == q + s[q]
    <3>1. f[q] = f[r]
      BY <1>1, <2>2
    <3>2. r \in 1 .. n /\ q < r /\ n - r < k
      BY <2>1, <2>2
    <3>3. x \in q .. q + s[q] - 1 \/ x \in r .. f[r] - 1
      <4>1. f[q] \in Nat /\ x \in Nat
        BY <1>2
      <4> QED BY <2>1, <3>1, <4>1
    <3>4. CASE x \in q .. q + s[q] - 1
      BY <3>4
    <3> HIDE DEF r
    <3>5. \A y \in r .. f[r] - 1 : y \in Q
      BY <1>4, <3>2
    <3> QED BY <3>3, <3>4, <3>5
  <2>3. CASE s[q] = 0
    BY <1>1, <2>1, <2>3
  <2> QED BY <2>2, <2>3
<1>5. n \in S
  <2> HIDE DEF S
  <2>1. \A k \in 0 .. n : k \in S /\ k < n => k + 1 \in S
    BY <1>4
  <2>2. 0 .. n \subseteq S
    BY <1>3, <2>1, InductionUpTo, Zenon
  <2> QED BY <2>2
<1> QED BY <1>5

(* What the scanner reads, and where it is in it.                          *)
Reading ==
  /\ input \in Seq(Char) /\ pos \in 1 .. Len(input) + 1
  /\ string_buffer \in [1 .. MaxString -> AllChar \cup {NUL}]

(* The text of a comment ends no earlier than it begins, and what is said  *)
(* of every round is said of all of it.                                    *)
LEMMA CommentTextEnds ==
  ASSUME Reading
  PROVE  /\ CommentTextEnd(pos) \in pos .. Len(input) + 1
         /\ \A Q : (\A q \in 1 .. Len(input) + 1 : \A x \in q .. q + Round(q) - 1 : x \in Q)
              => \A x \in pos .. CommentTextEnd(pos) - 1 : x \in Q
<1> DEFINE n == Len(input) + 1
           s == [q \in 1 .. n |-> Round(q)]
           Recursive(f) == f = [q \in 1 .. Len(input) + 1 |->
                                  IF Round(q) = 0 THEN q ELSE f[q + Round(q)]]
           end == CHOOSE f : Recursive(f)
<1>1. n \in Nat /\ Len(input) \in Nat /\ pos \in 1 .. n
  BY LenProperties DEF Reading
<1>2. \A q \in 1 .. n : s[q] \in Nat /\ q + s[q] <= n
  <2> SUFFICES ASSUME NEW q \in 1 .. n
               PROVE  Round(q) \in {0, 1, 2} /\ q + Round(q) <= n
    OBVIOUS
  <2>1. Round(q) = 0 \/ (Round(q) = 1 /\ q <= Len(input))
                     \/ (Round(q) = 2 /\ q < Len(input))
    BY <1>1 DEF Round
  <2> QED BY <1>1, <2>1
<1>3. CommentTextEnd(pos) = end[pos]
  BY Zenon DEF CommentTextEnd
<1>4. \A f : Ends(f, n, s) <=> Recursive(f)
  BY DEF Ends
<1>5. \A q \in 1 .. n : s[q] = Round(q)
  OBVIOUS
<1> HIDE DEF s, Recursive
<1> HIDE DEF n
<1>6. \E f : Recursive(f)
  BY <1>1, <1>2, <1>4, StepsEnd
<1>7. Ends(end, n, s)
  BY <1>4, <1>6
<1> HIDE DEF end
<1>8. end[pos] \in pos .. n
  BY <1>1, <1>2, <1>7, StepsGoOn
<1>9. ASSUME NEW Q, \A q \in 1 .. n : \A x \in q .. q + Round(q) - 1 : x \in Q
      PROVE  \A x \in pos .. end[pos] - 1 : x \in Q
  <2>1. \A q \in 1 .. n : \A x \in q .. q + s[q] - 1 : x \in Q
    BY <1>5, <1>9
  <2> QED BY <1>1, <1>2, <1>7, <2>1, StepsOver
<1> QED BY <1>3, <1>8, <1>9 DEF n

(* So does a run of letters and digits, which is of nothing else.          *)
LEMMA RunEnds ==
  ASSUME Reading, NEW C
  PROVE  /\ RunEnd(pos, C) \in pos .. Len(input) + 1
         /\ \A x \in pos .. RunEnd(pos, C) - 1 : input[x] \in C
<1> DEFINE n == Len(input) + 1
           In(q) == q <= Len(input) /\ input[q] \in C
           s == [q \in 1 .. n |-> IF In(q) THEN 1 ELSE 0]
           Recursive(f) == f = [q \in 1 .. Len(input) + 1 |->
                                  IF q <= Len(input) /\ input[q] \in C
                                    THEN f[q + 1] ELSE q]
           end == CHOOSE f : Recursive(f)
           Q == {x \in Nat : input[x] \in C}
<1>1. n \in Nat /\ Len(input) \in Nat /\ pos \in 1 .. n
  BY LenProperties DEF Reading
<1>2. \A q \in 1 .. n : s[q] \in Nat /\ q + s[q] <= n
  BY <1>1
<1>3. RunEnd(pos, C) = end[pos]
  BY Zenon DEF RunEnd
<1>4. \A f : Ends(f, n, s) <=> Recursive(f)
  <2>1. \A f : \A q \in 1 .. n : (IF s[q] = 0 THEN q ELSE f[q + s[q]])
                               = (IF In(q) THEN f[q + 1] ELSE q)
    OBVIOUS
  <2> HIDE DEF s
  <2> QED BY <2>1 DEF Ends
<1>5. \A q \in 1 .. n : \A x \in q .. q + s[q] - 1 : x \in Q
  OBVIOUS
<1> HIDE DEF n, s, Recursive
<1>6. \E f : Recursive(f)
  BY <1>1, <1>2, <1>4, StepsEnd
<1>7. Ends(end, n, s)
  BY <1>4, <1>6
<1> HIDE DEF end, Q
<1>8. end[pos] \in pos .. n
  BY <1>1, <1>2, <1>7, StepsGoOn
<1>9. \A x \in pos .. end[pos] - 1 : x \in Q
  BY <1>1, <1>2, <1>5, <1>7, StepsOver
<1> QED BY <1>3, <1>8, <1>9 DEF n, Q

(* A rule goes on by what it matches.                                      *)
LEMMA Matched ==
  ASSUME Reading, NEW n \in Nat, Match(n)
  PROVE  /\ pos' = pos + n /\ input' = input /\ status = "scanning"
         /\ pos' \in 1 .. Len(input') + 1
  BY LenProperties DEF Reading, Match

-----------------------------------------------------------------------------
(* The buffer                                                              *)

(* What FirstNUL finds in a buffer of n characters.                        *)
LEMMA FirstNULFound ==
  ASSUME NEW n \in Nat, NEW V, NEW b \in [1 .. n -> V]
  PROVE  \/ FirstNUL(b) = 0 /\ \A i \in 1 .. n : b[i] # NUL
         \/ /\ FirstNUL(b) \in 1 .. n /\ b[FirstNUL(b)] = NUL
            /\ \A i \in 1 .. FirstNUL(b) - 1 : b[i] # NUL
<1> DEFINE I == {i \in 1 .. Len(b) : b[i] = NUL}
<1>1. Len(b) = n
  OBVIOUS
<1>2. FirstNUL(b) = IF I # {} THEN Min(I) ELSE 0
  BY DEF FirstNUL, SelectInSeq
<1>3. CASE I = {}
  BY <1>1, <1>2, <1>3
<1>4. CASE I # {}
  <2>1. I \subseteq Nat
    OBVIOUS
  <2> HIDE DEF I
  <2>2. Min(I) \in I /\ \A y \in I : Min(I) <= y
    BY <1>4, <2>1, MinIsLeast
  <2>3. FirstNUL(b) \in I /\ \A y \in I : FirstNUL(b) <= y
    BY <1>2, <1>4, <2>2
  <2> HIDE DEF FirstNUL
  <2> QED BY <1>1, <2>3 DEF I
<1> QED BY <1>3, <1>4

(* What append_char does: it puts the character over the first NUL, or     *)
(* runs out of the buffer when there is none.                              *)
LEMMA Appended ==
  ASSUME Reading, NEW c \in AllChar \cup {NUL}, append_char(c)
  PROVE  \/ /\ status' = "overrun" /\ string_buffer' = string_buffer
            /\ \A i \in 1 .. MaxString : string_buffer[i] # NUL
         \/ /\ status' = status
            /\ \E p \in 1 .. MaxString :
                 /\ string_buffer' = [string_buffer EXCEPT ![p] = c]
                 /\ string_buffer[p] = NUL
                 /\ \A i \in 1 .. p - 1 : string_buffer[i] # NUL
<1> DEFINE p == FirstNUL(string_buffer)
<1>1. \/ p = 0 /\ \A i \in 1 .. MaxString : string_buffer[i] # NUL
      \/ /\ p \in 1 .. MaxString /\ string_buffer[p] = NUL
         /\ \A i \in 1 .. p - 1 : string_buffer[i] # NUL
  BY BoundsAssumption, FirstNULFound DEF Reading
<1>2. /\ p = 0 => status' = "overrun" /\ string_buffer' = string_buffer
      /\ p # 0 => /\ status' = status
                  /\ string_buffer' = [string_buffer EXCEPT ![p] = c]
  BY DEF append_char
<1> HIDE DEF p
<1> QED BY <1>1, <1>2, BoundsAssumption

(* What the buffer holds is at most what was read after a quote: the       *)
(* inductive invariant for the buffer's end.                               *)
Room ==
  /\ Reading
  /\ start # "INITIAL" => pos >= 2
  /\ \A i \in 1 .. MaxString : string_buffer[i] # NUL => i <= pos - 2
  /\ OverrunNeedsText

LEMMA InitRoom == Init => Room
<1> SUFFICES ASSUME Init PROVE Room
  OBVIOUS
<1>1. input \in SeqOf(Char, MaxInput)
  BY DEF Init, Begin
<1>2. input \in Seq(Char)
  BY <1>1, BoundsAssumption DEF SeqOf
<1> QED BY <1>2, LenProperties, BoundsAssumption
        DEF Init, Begin, Room, Reading, OverrunNeedsText

(* A match that leaves the buffer alone keeps it.                          *)
LEMMA RoomGoesOn ==
  ASSUME Room, NEW n \in Nat, Match(n), UNCHANGED status,
         \/ UNCHANGED string_buffer
         \/ string_buffer' = [string_buffer EXCEPT ![1] = NUL],
         start' # "INITIAL" => start # "INITIAL" \/ n >= 1
  PROVE  Room'
<1>1. Reading /\ pos \in Nat /\ pos >= 1
  BY LenProperties DEF Room, Reading
<1>2. pos' = pos + n /\ input' = input /\ pos' \in 1 .. Len(input') + 1 /\ status' = "scanning"
  BY <1>1, Matched
<1>3. /\ string_buffer' \in [1 .. MaxString -> AllChar \cup {NUL}]
      /\ \A i \in 1 .. MaxString : string_buffer'[i] \in {NUL, string_buffer[i]}
  BY <1>1, BoundsAssumption DEF Reading
<1>4. \A i \in 1 .. MaxString : string_buffer'[i] # NUL => i <= pos' - 2
  <2> SUFFICES ASSUME NEW i \in 1 .. MaxString, string_buffer'[i] # NUL
               PROVE  i <= pos' - 2
    OBVIOUS
  <2>1. string_buffer[i] # NUL
    BY <1>3
  <2>2. i <= pos - 2 /\ i \in Nat
    BY <2>1, BoundsAssumption DEF Room
  <2> QED BY <1>1, <1>2, <2>2
<1>5. start' # "INITIAL" => pos' >= 2
  BY <1>1, <1>2 DEF Room
<1>6. Reading'
  BY <1>1, <1>2, <1>3 DEF Reading
<1> QED BY <1>2, <1>4, <1>5, <1>6 DEF Room, OverrunNeedsText

(* A character appended has been read, and so has a quote before it.       *)
LEMMA RoomForText ==
  ASSUME Room, start = "S_STR", UNCHANGED start, NEW n \in Nat, n >= 1, Match(n),
         NEW c \in AllChar \cup {NUL}, append_char(c)
  PROVE  Room'
<1>1. Reading /\ pos \in Nat /\ pos >= 2
  BY LenProperties DEF Room, Reading
<1>2. /\ pos' = pos + n /\ input' = input /\ pos' \in 1 .. Len(input') + 1
      /\ status = "scanning"
  BY <1>1, Matched
<1>3. CASE /\ status' = "overrun" /\ string_buffer' = string_buffer
           /\ \A i \in 1 .. MaxString : string_buffer[i] # NUL
  <2>1. MaxString <= pos - 2
    BY <1>3, BoundsAssumption DEF Room
  <2>2. OverrunNeedsText'
    BY <1>1, <1>2, <2>1, BoundsAssumption DEF OverrunNeedsText
  <2>3. \A i \in 1 .. MaxString : i <= pos' - 2
    BY <1>1, <1>2, <2>1, BoundsAssumption
  <2>4. Reading' /\ pos' >= 2
    BY <1>1, <1>2, <1>3 DEF Reading
  <2> QED BY <2>2, <2>3, <2>4 DEF Room
<1>4. ASSUME status' = status, NEW p \in 1 .. MaxString,
             string_buffer' = [string_buffer EXCEPT ![p] = c], string_buffer[p] = NUL,
             \A i \in 1 .. p - 1 : string_buffer[i] # NUL
      PROVE  Room'
  <2>1. p \in Nat /\ p <= pos - 1
    <3>1. CASE p = 1
      BY <1>1, <3>1
    <3>2. CASE p # 1
      <4>1. p - 1 \in 1 .. MaxString /\ string_buffer[p - 1] # NUL
        BY <1>4, <3>2, BoundsAssumption
      <4> QED BY <1>1, <4>1, BoundsAssumption DEF Room
    <3> QED BY <3>1, <3>2
  <2>2. /\ string_buffer' \in [1 .. MaxString -> AllChar \cup {NUL}]
        /\ \A i \in 1 .. MaxString : i # p => string_buffer'[i] = string_buffer[i]
    BY <1>1, <1>4 DEF Reading
  <2>3. \A i \in 1 .. MaxString : string_buffer'[i] # NUL => i <= pos' - 2
    <3> SUFFICES ASSUME NEW i \in 1 .. MaxString, string_buffer'[i] # NUL
                 PROVE  i <= pos' - 2
      OBVIOUS
    <3>1. i \in Nat /\ (i = p \/ i <= pos - 2)
      BY <2>2, BoundsAssumption DEF Room
    <3> QED BY <1>1, <1>2, <2>1, <3>1
  <2>4. Reading' /\ pos' >= 2
    BY <1>1, <1>2, <2>2 DEF Reading
  <2> QED BY <1>2, <1>4, <2>3, <2>4 DEF Room, OverrunNeedsText
<1> QED BY <1>1, <1>3, <1>4, Appended

LEMMA StepRoom == Room /\ [Next]_vars => Room'
<1> SUFFICES ASSUME Room, [Next]_vars PROVE Room'
  OBVIOUS
<1>0. ASSUME UNCHANGED <<input, pos, start, string_buffer>>, status' # "overrun"
      PROVE  Room'
  BY <1>0 DEF Room, Reading, OverrunNeedsText
<1>1. Reading /\ pos \in Nat
  BY LenProperties DEF Room, Reading
<1>2. ASSUME NEW n \in {1, 2, 3, 4}, Match(n), UNCHANGED status,
             \/ UNCHANGED string_buffer
             \/ string_buffer' = [string_buffer EXCEPT ![1] = NUL]
      PROVE  Room'
  BY <1>2, RoomGoesOn
<1>3. CASE OpenComment \/ CloseComment \/ OpenString
  BY <1>2, <1>3 DEF OpenComment, CloseComment, OpenString, text
<1>4. CASE CommentText
  <2>1. CommentTextEnd(pos) - pos \in Nat
    BY <1>1, CommentTextEnds, LenProperties DEF Reading
  <2> QED BY <1>4, <2>1, RoomGoesOn DEF CommentText, text, nesting
<1>5. CASE CommentEOF \/ EofInString \/ EndOfInput
  BY <1>0, <1>5 DEF CommentEOF, EofInString, EndOfInput, text, nesting
<1>6. CASE CloseString
  <2>1. Match(1) /\ start = "S_STR"
    BY <1>6 DEF CloseString
  <2>2. CASE FirstNUL(string_buffer) = 0
    <3>1. /\ status' = "overrun" /\ UNCHANGED <<nesting, text>>
      BY <1>6, <2>2 DEF CloseString
    <3>2. \A i \in 1 .. MaxString : string_buffer[i] # NUL
      <4>1. MaxString \in Nat /\ string_buffer \in [1 .. MaxString -> AllChar \cup {NUL}]
        BY <1>1, BoundsAssumption DEF Reading
      <4>2. FirstNUL(string_buffer) \notin 1 .. MaxString
        BY <2>2, <4>1
      <4> HIDE DEF FirstNUL
      <4> QED BY <4>1, <4>2, FirstNULFound
    <3>3. pos' = pos + 1 /\ Reading'
      BY <1>1, <2>1, <3>1, Matched DEF Reading, text
    <3>4. MaxString <= pos - 2 /\ MaxString \in Nat
      BY <3>2, BoundsAssumption DEF Room
    <3>5. OverrunNeedsText'
      BY <1>1, <3>3, <3>4 DEF OverrunNeedsText
    <3>6. pos' >= 2 /\ \A i \in 1 .. MaxString : i <= pos' - 2
      BY <1>1, <3>3, <3>4, BoundsAssumption
    <3> QED BY <3>3, <3>5, <3>6 DEF Room
  <2>3. CASE FirstNUL(string_buffer) # 0
    BY <1>2, <1>6, <2>1, <2>3 DEF CloseString
  <2> QED BY <2>2, <2>3
<1>7. CASE EscapeInString
  <2>1. start = "S_STR" /\ Match(2) /\ UNCHANGED start
    BY <1>7 DEF EscapeInString, nesting
  <2>2. PICK next \in escape_seq(input[pos + 1]) :
          IF next # Failed THEN append_char(next) ELSE UNCHANGED <<text, status>>
    BY <1>7 DEF EscapeInString
  <2>3. CASE next # Failed
    <3>1. next \in AllChar \cup {NUL} /\ append_char(next)
      BY <2>2, <2>3 DEF escape_seq
    <3> QED BY <2>1, <3>1, RoomForText
  <2>4. CASE next = Failed
    BY <1>2, <2>1, <2>2, <2>4 DEF text
  <2> QED BY <2>3, <2>4
<1>8. CASE CharInString
  <2>1. start = "S_STR" /\ Match(1) /\ UNCHANGED start /\ append_char(Here) /\ More
    BY <1>8 DEF CharInString, nesting
  <2>2. Here \in AllChar
    BY <1>1, <2>1, CharAssumption, ElementOfSeq, LenProperties DEF Reading, More, Here
  <2> QED BY <2>1, <2>2, RoomForText
<1>9. CASE Word \/ Number
  <2>1. PICK C : Match(RunEnd(pos, C) - pos)
    BY <1>9 DEF Word, Number
  <2>2. RunEnd(pos, C) - pos \in Nat
    BY <1>1, RunEnds, LenProperties DEF Reading
  <2>3. UNCHANGED <<status, string_buffer, start>>
    BY <1>9 DEF Word, Number, text, nesting
  <2> QED BY <2>1, <2>2, <2>3, RoomGoesOn
<1>10. CASE \/ Operator \/ CharLiteral \/ EscapedCharLiteral \/ Space
            \/ UnexpectedChar \/ EolInString
  BY <1>2, <1>10 DEF Operator, CharLiteral, EscapedCharLiteral, Space,
                     UnexpectedChar, EolInString, text
<1>11. CASE UNCHANGED vars
  BY <1>11 DEF vars, Room, Reading, OverrunNeedsText
<1> QED
  BY <1>3, <1>4, <1>5, <1>6, <1>7, <1>8, <1>9, <1>10, <1>11 DEF Next, Step, Ended

(* For every input and every size of string_buffer: append_char and strdup *)
(* run out of the buffer only when a quote, as many characters as the      *)
(* buffer has, and one more have been read.                                *)
THEOREM OverrunsOnlyWhenFull == Spec => []OverrunNeedsText
<1>1. Room => OverrunNeedsText
  BY DEF Room
<1> QED BY <1>1, InitRoom, StepRoom, PTL DEF Spec

-----------------------------------------------------------------------------
(* The first literal                                                       *)

Type == {"STRING", "ID", "NUM", "CHAR"} \cup AllChar

(* A token whose value is the text it was read from, if it is the first    *)
(* literal.                                                                *)
Told ==
  {t \in [type : Type, value : Seq(AllChar \cup {NUL, Failed}),
          own : Seq(AllChar), fresh : BOOLEAN] :
     t.type = "STRING" /\ t.fresh => t.value = t.own}

(* Until a literal has ended the buffer holds what the literal appended,   *)
(* and NULs behind it; it has appended nothing before it is opened.        *)
Verbatim ==
  /\ own \in Seq(AllChar) /\ fresh \in BOOLEAN /\ tokens \in Seq(Told)
  /\ fresh /\ status = "scanning" =>
       /\ Len(own) <= MaxString
       /\ \A i \in 1 .. MaxString :
            string_buffer[i] = IF i <= Len(own) THEN own[i] ELSE NUL
  /\ fresh /\ start # "S_STR" /\ Len(stack) # 2 => own = << >>

FirstText == Room /\ Nesting /\ Verbatim

LEMMA InitVerbatim == Init => Verbatim
  BY BoundsAssumption DEF Init, Begin, Verbatim

(* A character appended to the literal is appended to what it holds.       *)
LEMMA VerbatimText ==
  ASSUME FirstText, start = "S_STR", status = "scanning", UNCHANGED <<nesting, tokens>>,
         NEW c \in AllChar \cup {NUL}, append_char(c)
  PROVE  Verbatim'
<1>1. /\ own \in Seq(AllChar) /\ Len(own) \in Nat /\ Reading
      /\ fresh' = fresh /\ MaxString \in Nat
      /\ own' = IF c = NUL THEN own ELSE Append(own, c)
  BY LenProperties, BoundsAssumption DEF FirstText, Verbatim, Room, append_char
<1>2. own' \in Seq(AllChar)
  BY <1>1
<1>3. ASSUME fresh, status' = "scanning"
      PROVE  /\ Len(own') <= MaxString
             /\ \A i \in 1 .. MaxString :
                  string_buffer'[i] = IF i <= Len(own') THEN own'[i] ELSE NUL
  <2>1. /\ Len(own) <= MaxString
        /\ \A i \in 1 .. MaxString :
             string_buffer[i] = IF i <= Len(own) THEN own[i] ELSE NUL
    BY <1>3 DEF FirstText, Verbatim
  <2>2. PICK p \in 1 .. MaxString :
          /\ string_buffer' = [string_buffer EXCEPT ![p] = c]
          /\ string_buffer[p] = NUL
          /\ \A i \in 1 .. p - 1 : string_buffer[i] # NUL
    BY <1>1, <1>3, Appended
  <2>3. \A i \in 1 .. Len(own) : own[i] # NUL
    <3>1. NUL \notin AllChar
      BY DEF NUL, AllChar
    <3> QED BY <1>1, <3>1, ElementOfSeq
  <2>4. p = Len(own) + 1
    <3>1. ~(p <= Len(own))
      BY <1>1, <2>1, <2>2, <2>3
    <3>2. ~(Len(own) + 1 <= p - 1)
      <4> SUFFICES ASSUME Len(own) + 1 <= p - 1
                   PROVE  FALSE
        OBVIOUS
      <4>1. Len(own) + 1 \in 1 .. p - 1 /\ Len(own) + 1 \in 1 .. MaxString
        BY <1>1
      <4>2. string_buffer[Len(own) + 1] = NUL
        BY <1>1, <2>1, <4>1
      <4> QED BY <2>2, <4>1, <4>2
    <3> QED BY <1>1, <3>1, <3>2
  <2>5. \A i \in 1 .. MaxString :
          string_buffer'[i] = IF i = p THEN c ELSE string_buffer[i]
    BY <1>1, <2>2 DEF Reading
  <2>6. CASE c = NUL
    BY <1>1, <2>1, <2>2, <2>5, <2>6
  <2>7. CASE c # NUL
    <3>1. /\ own' = Append(own, c) /\ Len(own') = Len(own) + 1 /\ own'[Len(own) + 1] = c
          /\ \A i \in 1 .. Len(own) : own'[i] = own[i]
      BY <1>1, <2>7, Push
    <3> QED BY <1>1, <2>1, <2>4, <2>5, <3>1
  <2> QED BY <2>6, <2>7
<1> QED BY <1>1, <1>2, <1>3 DEF FirstText, Verbatim, nesting

LEMMA StepVerbatim == FirstText /\ [Next]_vars => Verbatim'
<1> SUFFICES ASSUME FirstText, [Next]_vars PROVE Verbatim'
  OBVIOUS
<1>1. /\ Reading /\ own \in Seq(AllChar) /\ Len(own) \in Nat /\ fresh \in BOOLEAN
      /\ tokens \in Seq(Told) /\ stack \in Seq(Condition) /\ Len(stack) \in Nat
      /\ MaxString \in Nat /\ string_buffer \in [1 .. MaxString -> AllChar \cup {NUL}]
  BY LenProperties, BoundsAssumption
     DEF FirstText, Room, Reading, Nesting, Verbatim
(* Nothing is done to the literal.                                         *)
<1>2. ASSUME UNCHANGED text, tokens' \in Seq(Told),
             status' = "scanning" => status = "scanning",
             start' # "S_STR" /\ Len(stack') # 2 => start # "S_STR" /\ Len(stack) # 2
      PROVE  Verbatim'
  BY <1>1, <1>2 DEF FirstText, Verbatim, text
<1>3. CASE OpenComment
  <2>1. CASE nested_comments = 0
    <3>1. start' = "S_COMMENT" /\ stack' = Append(stack, start)
      BY <1>3, <2>1 DEF OpenComment, yy_push_state
    <3>2. Len(stack') = Len(stack) + 1
      BY <1>1, <3>1
    <3>3. start = "S_STR" => Len(stack) = 1
      BY DEF FirstText, Nesting, StackDiscipline
    <3>4. start # "INITIAL" => start = "S_STR"
      BY <2>1 DEF FirstText, Nesting, StackDiscipline, Condition
    <3>5. start = "INITIAL" => Len(stack) = 0
      BY DEF FirstText, Nesting, StackDiscipline
    <3>6. Len(stack') # 2 => start = "INITIAL" /\ Len(stack) = 0
      <4>1. start = "S_STR" => Len(stack') = 2
        <5>1. start = "S_STR" => Len(stack') = 1 + 1
          BY <3>2, <3>3, Zenon
        <5> QED BY <5>1
      <4> QED BY <3>4, <3>5, <4>1
    <3>7. start' # "S_STR" /\ Len(stack') # 2 => start # "S_STR" /\ Len(stack) # 2
      BY <3>6
    <3>8. UNCHANGED text /\ tokens' \in Seq(Told) /\ (status' = "scanning" => status = "scanning")
      BY <1>1, <1>3 DEF OpenComment
    <3> QED BY <1>2, <3>7, <3>8
  <2>2. CASE nested_comments # 0
    <3>1. nested_comments' # 1
      BY <1>3, <2>2 DEF OpenComment, FirstText, Nesting
    <3> QED BY <1>1, <1>2, <1>3, <3>1 DEF OpenComment
  <2> QED BY <2>1, <2>2
<1>4. CASE CloseComment
  <2>1. /\ start = "S_COMMENT" /\ Len(stack) \in 1 .. 2 /\ stack[1] = "INITIAL"
        /\ Len(stack) = 2 => stack[2] = "S_STR"
    BY <1>4 DEF CloseComment, FirstText, Nesting, StackDiscipline
  <2>2. CASE nested_comments' = 0
    <3>1. stack' = Front(stack) /\ start' = Last(stack)
      BY <1>4, <2>2 DEF CloseComment, yy_pop_state
    <3>2. start' = stack[Len(stack)]
      BY <3>1 DEF Last
    <3> QED BY <1>1, <1>2, <1>4, <2>1, <3>2 DEF CloseComment
  <2>3. CASE nested_comments' # 0
    BY <1>1, <1>2, <1>4, <2>3 DEF CloseComment
  <2> QED BY <2>2, <2>3
<1>5. CASE OpenString
  <2>1. /\ start = "INITIAL" /\ start' = "S_STR" /\ own' = << >>
        /\ UNCHANGED <<string_buffer, fresh, tokens, status>>
    BY <1>5 DEF OpenString, yy_push_state
  <2>2. fresh => own = << >>
    BY <2>1 DEF FirstText, Nesting, StackDiscipline, Verbatim
  <2> QED BY <1>1, <2>1, <2>2 DEF FirstText, Verbatim
<1>6. CASE CloseString
  <2>1. /\ start = "S_STR" /\ status = "scanning"
    BY <1>6 DEF CloseString, Match
  <2>2. CASE FirstNUL(string_buffer) = 0
    <3>1. /\ status' = "overrun" /\ UNCHANGED <<nesting, text, tokens>>
      BY <1>6, <2>2 DEF CloseString
    <3> QED BY <1>1, <1>2, <3>1 DEF nesting
  <2>3. CASE FirstNUL(string_buffer) # 0
    <3> DEFINE p == FirstNUL(string_buffer)
               token == [type |-> "STRING", value |-> CString(string_buffer),
                         own |-> own, fresh |-> fresh]
    <3>1. /\ tokens' = Append(tokens, token) /\ own' = own /\ fresh' = FALSE
      BY <1>6, <2>3 DEF CloseString, Return
    <3>2. /\ p \in 1 .. MaxString /\ string_buffer[p] = NUL
          /\ \A i \in 1 .. p - 1 : string_buffer[i] # NUL
      BY <1>1, <2>3, FirstNULFound
    <3> HIDE DEF p
    <3>3. /\ CString(string_buffer) \in Seq(AllChar \cup {NUL, Failed})
          /\ Len(CString(string_buffer)) = p - 1
          /\ \A i \in 1 .. p - 1 : CString(string_buffer)[i] = string_buffer[i]
      <4>1. CString(string_buffer) = SubSeq(string_buffer, 1, p - 1)
        BY DEF CString, p
      <4>2. p - 1 \in Nat /\ \A i \in 1 .. p - 1 : string_buffer[i] \in AllChar \cup {NUL, Failed}
        BY <1>1, <3>2
      <4>3. \A i \in 1 .. p - 1 : string_buffer[i] \in AllChar \cup {NUL, Failed}
        BY <4>2
      <4>4. SubSeq(string_buffer, 1, p - 1) = [i \in 1 .. p - 1 |-> string_buffer[i]]
        BY <4>2
      <4> QED BY <4>1, <4>2, <4>3, <4>4, IsASeq
    <3>4. fresh => CString(string_buffer) = own
      <4> SUFFICES ASSUME fresh PROVE CString(string_buffer) = own
        OBVIOUS
      <4>1. /\ Len(own) <= MaxString
            /\ \A i \in 1 .. MaxString :
                 string_buffer[i] = IF i <= Len(own) THEN own[i] ELSE NUL
        BY <2>1 DEF FirstText, Verbatim
      <4>2. \A i \in 1 .. Len(own) : own[i] # NUL
        <5>1. NUL \notin AllChar
          BY DEF NUL, AllChar
        <5> QED BY <1>1, <5>1, ElementOfSeq
      <4>3. ~(p <= Len(own)) /\ ~(Len(own) + 1 <= p - 1)
        <5>1. ~(p <= Len(own))
          BY <1>1, <3>2, <4>1, <4>2
        <5>2. ASSUME Len(own) + 1 <= p - 1 PROVE FALSE
          <6>1. Len(own) + 1 \in 1 .. p - 1 /\ Len(own) + 1 \in 1 .. MaxString
            BY <1>1, <3>2, <5>2
          <6>2. string_buffer[Len(own) + 1] = NUL
            BY <1>1, <4>1, <6>1
          <6> QED BY <3>2, <6>1, <6>2
        <5> QED BY <5>1, <5>2
      <4>4. p = Len(own) + 1
        BY <1>1, <3>2, <4>3
      <4>5. \A i \in 1 .. Len(own) : CString(string_buffer)[i] = own[i]
        BY <1>1, <3>3, <4>1, <4>4
      <4>6. own \in Seq(AllChar \cup {NUL, Failed})
        BY <1>1
      <4> HIDE DEF CString
      <4> QED BY <1>1, <3>3, <4>4, <4>5, <4>6, SeqEqual
    <3>5. token \in Told
      BY <1>1, <3>3, <3>4 DEF Told, Type
    <3>6. tokens' \in Seq(Told)
      <4> HIDE DEF token
      <4> QED BY <1>1, <3>1, <3>5
    <3> QED BY <1>1, <3>1, <3>6 DEF Verbatim
  <2> QED BY <2>2, <2>3
<1>7. CASE EscapeInString
  <2>1. /\ start = "S_STR" /\ status = "scanning" /\ UNCHANGED <<nesting, tokens>>
    BY <1>7 DEF EscapeInString, Match
  <2>2. PICK next \in escape_seq(input[pos + 1]) :
          IF next # Failed THEN append_char(next) ELSE UNCHANGED <<text, status>>
    BY <1>7 DEF EscapeInString
  <2>3. CASE next # Failed
    <3>1. next \in AllChar \cup {NUL} /\ append_char(next)
      BY <2>2, <2>3 DEF escape_seq
    <3> QED BY <2>1, <3>1, VerbatimText
  <2>4. CASE next = Failed
    BY <1>1, <1>2, <2>1, <2>2, <2>4 DEF nesting
  <2> QED BY <2>3, <2>4
<1>8. CASE CharInString
  <2>1. /\ start = "S_STR" /\ status = "scanning" /\ UNCHANGED <<nesting, tokens>>
        /\ append_char(Here) /\ More
    BY <1>8 DEF CharInString, Match
  <2>2. Here \in AllChar
    BY <1>1, <2>1, CharAssumption, ElementOfSeq, LenProperties DEF Reading, More, Here
  <2> QED BY <2>1, <2>2, VerbatimText
<1>9. CASE EolInString
  BY <1>1, <1>9 DEF EolInString, Verbatim
<1>10. CASE \/ CommentText \/ CommentEOF \/ EofInString \/ Space
            \/ UnexpectedChar \/ EndOfInput
  BY <1>1, <1>2, <1>10 DEF CommentText, CommentEOF, EofInString, Space,
                           UnexpectedChar, EndOfInput, Match, nesting
(* Tokens that are no literals.                                            *)
<1>11. ASSUME NEW type \in Type \ {"STRING"}, NEW v \in AllChar \cup {NUL, Failed},
              Return(type, << >>) \/ Return(type, <<v>>)
       PROVE  tokens' \in Seq(Told)
  <2>1. PICK value \in {<< >>, <<v>>} : Return(type, value)
    BY <1>11
  <2>2. << >> \in Seq(AllChar \cup {NUL, Failed}) /\ <<v>> \in Seq(AllChar \cup {NUL, Failed})
    <3>1. <<v>> = Append(<< >>, v)
      OBVIOUS
    <3> QED BY <3>1, EmptySeq, Push
  <2>3. [type |-> type, value |-> value, own |-> own, fresh |-> fresh] \in Told
    BY <1>1, <1>11, <2>1, <2>2 DEF Told
  <2> QED BY <1>1, <2>1, <2>3 DEF Return
<1>12. CASE Word \/ Number \/ Operator \/ CharLiteral \/ EscapedCharLiteral
  <2>1. UNCHANGED text /\ UNCHANGED nesting /\ UNCHANGED status
    BY <1>12 DEF Word, Number, Operator, CharLiteral, EscapedCharLiteral
  <2>2. "eol" \in AllChar \cup {NUL, Failed} /\ {"ID", "NUM", "CHAR"} \subseteq Type \ {"STRING"}
    BY DEF AllChar, Type
  <2>3. tokens' \in Seq(Told)
    <3>1. CASE Word \/ Number
      BY <1>11, <2>2, <3>1 DEF Word, Number
    <3>2. CASE Operator
      <4>1. Here \in Type \ {"STRING"} /\ Return(Here, << >>)
        BY <3>2 DEF Operator, Type, AllChar
      <4> QED BY <1>11, <2>2, <4>1
    <3>3. CASE CharLiteral
      <4>1. Here \in AllChar /\ Return("CHAR", <<Here>>)
        BY <3>3 DEF CharLiteral, PlainChar, AllChar
      <4> QED BY <1>11, <2>2, <4>1
    <3>4. CASE EscapedCharLiteral
      <4>1. PICK value \in escape_seq(input[pos + 1]) : Return("CHAR", <<value>>)
        BY <3>4 DEF EscapedCharLiteral
      <4>2. value \in AllChar \cup {NUL, Failed}
        BY <4>1 DEF escape_seq
      <4> QED BY <1>11, <2>2, <4>1, <4>2
    <3> QED BY <1>12, <3>1, <3>2, <3>3, <3>4
  <2> QED BY <1>2, <2>1, <2>3 DEF nesting
<1>13. CASE UNCHANGED vars
  BY <1>1, <1>2, <1>13 DEF vars, text
<1> QED
  BY <1>3, <1>4, <1>5, <1>6, <1>7, <1>8, <1>9, <1>10, <1>12, <1>13 DEF Next, Step, Ended

(* For every input and every size of string_buffer: the value of the first *)
(* literal of a program is its own text, comments in it left out.          *)
THEOREM FirstStringKeepsItsText == Spec => []FirstStringIsItsText
<1>1. Init => FirstText
  BY InitRoom, InitNesting, InitVerbatim DEF FirstText
<1>2. FirstText /\ [Next]_vars => FirstText'
  BY StepRoom, StepNesting, StepVerbatim DEF FirstText
<1>3. FirstText => FirstStringIsItsText
  BY ElementOfSeq DEF FirstText, Verbatim, Told, FirstStringIsItsText
<1> QED BY <1>1, <1>2, <1>3, PTL DEF Spec

-----------------------------------------------------------------------------
(* Positions                                                               *)

Loc == [first_line : Nat, first_column : Nat, last_line : Nat, last_column : Nat]

EolsBelow(p) == {i \in 1 .. p - 1 : input[i] = "eol"}

(* loc ends at the line and column of p, and begins no later.              *)
EndsAt(loc, p) ==
  /\ loc \in Loc
  /\ loc.last_line = 1 + Cardinality(EolsBelow(p))
  /\ loc.last_column = p - Max(EolsBelow(p) \cup {0})
  /\ \/ loc.first_line < loc.last_line
     \/ loc.first_line = loc.last_line /\ loc.first_column <= loc.last_column

(* One more character is one more line, or one more column.                *)
LEMMA EolsGrow ==
  ASSUME NEW p \in Nat, p >= 1
  PROVE  /\ Cardinality(EolsBelow(p)) \in Nat
         /\ Max(EolsBelow(p) \cup {0}) \in 0 .. p - 1
         /\ input[p] = "eol" =>
              /\ Cardinality(EolsBelow(p + 1)) = Cardinality(EolsBelow(p)) + 1
              /\ Max(EolsBelow(p + 1) \cup {0}) = p
         /\ input[p] # "eol" => EolsBelow(p + 1) = EolsBelow(p)
<1> DEFINE E == EolsBelow(p)
<1>1. E \in SUBSET (1 .. p - 1)
  BY DEF EolsBelow
<1>2. IsFiniteSet(E) /\ Cardinality(E) \in Nat
  <2>1. IsFiniteSet(1 .. p - 1)
    <3>1. 1 \in Int /\ p - 1 \in Int
      OBVIOUS
    <3> QED BY <3>1, FS_Interval
  <2>2. IsFiniteSet(E)
    BY <1>1, <2>1, FS_Subset
  <2> QED BY <2>2, FS_CardinalityType
<1>3. Max(E \cup {0}) \in 0 .. p - 1
  <2> DEFINE T == E \cup {0}
             S == {k \in Nat : \E x \in T : \A y \in T : y <= k => y <= x}
  <2>1. \A y \in T : y \in Nat /\ y <= p - 1
    BY <1>1
  <2>2. 0 \in S
    BY <2>1
  <2>3. \A k \in Nat : k \in S => k + 1 \in S
    <3> SUFFICES ASSUME NEW k \in Nat, k \in S
                 PROVE  k + 1 \in S
      OBVIOUS
    <3>1. PICK x \in T : \A y \in T : y <= k => y <= x
      OBVIOUS
    <3>2. CASE k + 1 \in T
      <4>1. \A y \in T : y <= k + 1 => y <= k + 1
        OBVIOUS
      <4> QED BY <3>2, <4>1
    <3>3. CASE k + 1 \notin T
      <4>1. \A y \in T : y <= k + 1 => y <= k
        BY <2>1, <3>3
      <4> QED BY <3>1, <4>1
    <3> QED BY <3>2, <3>3
  <2>4. p - 1 \in S
    <3> HIDE DEF S
    <3>1. 0 .. p - 1 \subseteq S
      BY <2>2, <2>3, InductionUpTo
    <3> QED BY <3>1
  <2>5. PICK x \in T : \A y \in T : y <= x
    BY <2>1, <2>4
  <2>6. \A y \in T : x >= y
    BY <2>1, <2>5
  <2> HIDE DEF T, S
  <2>7. Max(T) \in T
    BY <2>6 DEF Max
  <2> QED BY <2>1, <2>7 DEF T
<1>4. ASSUME input[p] = "eol"
      PROVE  /\ Cardinality(EolsBelow(p + 1)) = Cardinality(E) + 1
             /\ Max(EolsBelow(p + 1) \cup {0}) = p
  <2>1. EolsBelow(p + 1) = E \cup {p}
    BY <1>4 DEF EolsBelow
  <2>2. p \notin E
    BY <1>1
  <2>3. Cardinality(E \cup {p}) = Cardinality(E) + 1
    BY <1>2, <2>2, FS_AddElement
  <2>4. \A y \in E \cup {p} \cup {0} : y \in Nat /\ p >= y
    BY <1>1
  <2> HIDE DEF E
  <2>5. Max(E \cup {p} \cup {0}) = p
    <3> DEFINE T == E \cup {p} \cup {0}
    <3>1. p \in T /\ \A y \in T : y \in Nat /\ p >= y
      BY <2>4
    <3> HIDE DEF T
    <3>2. \A x \in T : (\A y \in T : x >= y) => x = p
      BY <3>1
    <3>3. Max(T) \in T /\ \A y \in T : Max(T) >= y
      BY <3>1 DEF Max
    <3> QED BY <3>2, <3>3 DEF T
  <2> QED BY <2>1, <2>3, <2>5
<1>5. ASSUME input[p] # "eol"
      PROVE  EolsBelow(p + 1) = E
  BY <1>5 DEF EolsBelow
<1> QED BY <1>2, <1>3, <1>4, <1>5

(* What a round of update_loc does to the position.                        *)
LEMMA AdvanceFields ==
  ASSUME NEW loc \in Loc, NEW c
  PROVE  LET new == advance(loc, c)
         IN  /\ new \in Loc
             /\ new.first_line = loc.first_line /\ new.first_column = loc.first_column
             /\ c = "eol" => new.last_line = loc.last_line + 1 /\ new.last_column = 1
             /\ c # "eol" => /\ new.last_line = loc.last_line
                             /\ new.last_column = loc.last_column + 1
<1>1. /\ loc.last_line \in Nat /\ loc.last_line + 1 \in Nat /\ 1 \in Nat
      /\ loc.last_column + 1 \in Nat
  BY DEF Loc
<1>2. CASE c = "eol"
  <2> DEFINE mid == [loc EXCEPT !.last_line = loc.last_line + 1]
  <2>1. /\ mid \in Loc /\ mid.last_line = loc.last_line + 1
        /\ mid.first_line = loc.first_line /\ mid.first_column = loc.first_column
    BY <1>1 DEF Loc
  <2>2. PICK new : new = advance(loc, c)
    OBVIOUS
  <2>3. new = [mid EXCEPT !.last_column = 1]
    BY <1>2, <2>2, Zenon DEF advance
  <2> HIDE DEF mid
  <2>4. /\ new \in Loc /\ new.last_line = mid.last_line /\ new.last_column = 1
        /\ new.first_line = mid.first_line /\ new.first_column = mid.first_column
    BY <2>1, <2>3 DEF Loc
  <2> HIDE DEF advance
  <2> QED BY <1>2, <2>1, <2>2, <2>4
<1>3. CASE c # "eol"
  BY <1>1, <1>3 DEF advance, Loc
<1> QED BY <1>2, <1>3

(* What update_loc does before the first round.                            *)
LEMMA FirstFields ==
  ASSUME NEW loc \in Loc
  PROVE  LET new == [loc EXCEPT !.first_line = loc.last_line,
                                !.first_column = loc.last_column]
         IN  /\ new \in Loc
             /\ new.first_line = loc.last_line /\ new.first_column = loc.last_column
             /\ new.last_line = loc.last_line /\ new.last_column = loc.last_column
<1>1. PICK l \in Nat, c \in Nat : l = loc.last_line /\ c = loc.last_column
  BY DEF Loc
<1> DEFINE mid == [loc EXCEPT !.first_line = loc.last_line]
           new == [mid EXCEPT !.first_column = loc.last_column]
<1>2. /\ mid \in Loc /\ mid.first_line = l /\ mid.last_line = l /\ mid.last_column = c
  BY <1>1 DEF Loc
<1>3. new = [mid EXCEPT !.first_column = c]
  BY <1>1, Zenon
<1> HIDE DEF mid, new
<1>4. /\ new \in Loc /\ new.first_line = l /\ new.first_column = c
      /\ new.last_line = l /\ new.last_column = c
  BY <1>2, <1>3 DEF Loc
<1>5. /\ new \in Loc
      /\ new.first_line = loc.last_line /\ new.first_column = loc.last_column
      /\ new.last_line = loc.last_line /\ new.last_column = loc.last_column
  BY <1>1, <1>4
<1>6. new = [loc EXCEPT !.first_line = loc.last_line, !.first_column = loc.last_column]
  BY Zenon DEF new, mid
<1> QED BY <1>5, <1>6, Zenon

(* A round of update_loc goes on by one character.                         *)
LEMMA Advanced ==
  ASSUME NEW p \in Nat, p >= 1, NEW loc, EndsAt(loc, p)
  PROVE  EndsAt(advance(loc, input[p]), p + 1)
<1>1. PICK l \in Nat, c \in Nat :
        /\ l = Cardinality(EolsBelow(p)) /\ c = Max(EolsBelow(p) \cup {0}) /\ c < p
        /\ input[p] = "eol" =>
             /\ Cardinality(EolsBelow(p + 1)) = l + 1
             /\ Max(EolsBelow(p + 1) \cup {0}) = p
        /\ input[p] # "eol" =>
             /\ Cardinality(EolsBelow(p + 1)) = l
             /\ Max(EolsBelow(p + 1) \cup {0}) = c
  <2>1. \A l \in 0 .. p - 1 : l \in Nat /\ l < p
    OBVIOUS
  <2> QED BY <2>1, EolsGrow
<1>2. /\ loc \in Loc /\ loc.last_line = 1 + l /\ loc.last_column = p - c
      /\ \/ loc.first_line < loc.last_line
         \/ loc.first_line = loc.last_line /\ loc.first_column <= loc.last_column
  BY <1>1 DEF EndsAt
<1>3. PICK new : new = advance(loc, input[p])
  OBVIOUS
<1>4. /\ new \in Loc
      /\ new.first_line = loc.first_line /\ new.first_column = loc.first_column
      /\ input[p] = "eol" => new.last_line = loc.last_line + 1 /\ new.last_column = 1
      /\ input[p] # "eol" => /\ new.last_line = loc.last_line
                             /\ new.last_column = loc.last_column + 1
  BY <1>2, <1>3, AdvanceFields
<1>5. PICK fl \in Nat, fc \in Nat : loc.first_line = fl /\ loc.first_column = fc
  BY <1>2 DEF Loc
<1> HIDE DEF advance
<1>6. CASE input[p] = "eol"
  <2>1. /\ new.last_line = 1 + (l + 1) /\ new.last_column = p + 1 - p
        /\ new.first_line < new.last_line
    BY <1>2, <1>4, <1>5, <1>6
  <2> QED BY <1>1, <1>3, <1>4, <1>6, <2>1 DEF EndsAt
<1>7. CASE input[p] # "eol"
  <2>1. /\ new.last_line = 1 + l /\ new.last_column = p + 1 - c
        /\ \/ new.first_line < new.last_line
           \/ new.first_line = new.last_line /\ new.first_column <= new.last_column
    BY <1>1, <1>2, <1>4, <1>5, <1>7
  <2> QED BY <1>1, <1>3, <1>4, <1>7, <2>1 DEF EndsAt
<1> QED BY <1>6, <1>7

(* update_loc goes on by all the characters it is given.                   *)
LEMMA Updated ==
  ASSUME NEW p \in Nat, p >= 1, NEW n \in Nat, p + n - 1 <= Len(input),
         input \in Seq(Char), NEW loc, EndsAt(loc, p)
  PROVE  EndsAt(update_loc(loc, SubSeq(input, p, p + n - 1)), p + n)
<1> DEFINE chars == SubSeq(input, p, p + n - 1)
           base == [loc EXCEPT !.first_line = loc.last_line,
                               !.first_column = loc.last_column]
           Recursive(f) == f = [k \in 0 .. Len(chars) |->
             IF k = 0
               THEN [loc EXCEPT !.first_line = loc.last_line,
                                !.first_column = loc.last_column]
               ELSE advance(f[k - 1], chars[k])]
           moved == CHOOSE f : Recursive(f)
<1>1. update_loc(loc, chars) = moved[Len(chars)]
  BY Zenon DEF update_loc
<1>2. Len(chars) = n /\ \A k \in 1 .. n : chars[k] = input[p + k - 1]
  <2>1. Len(input) \in Nat /\ p \in Int /\ p + n - 1 \in Int
    BY LenProperties
  <2>2. \A i \in p .. p + n - 1 : input[i] \in Char
    BY <2>1, ElementOfSeq
  <2> DEFINE m == p + n - 1
  <2>3. n = m - p + 1 /\ (p <= m <=> n # 0)
    BY <2>1
  <2>4. /\ Len(SubSeq(input, p, m)) = IF p <= m THEN m - p + 1 ELSE 0
        /\ \A i \in 1 .. m - p + 1 : SubSeq(input, p, m)[i] = input[p + i - 1]
    <3>1. m \in Int /\ \A i \in p .. m : input[i] \in Char
      BY <2>1, <2>2
    <3> HIDE DEF m
    <3> QED BY <2>1, <3>1, SubSeqProperties
  <2>5. Len(SubSeq(input, p, m)) = n
    BY <2>3, <2>4
  <2> HIDE DEF m
  <2>6. \A i \in 1 .. n : SubSeq(input, p, m)[i] = input[p + i - 1]
    BY <2>3, <2>4
  <2> QED BY <2>5, <2>6 DEF m
<1>3. EndsAt(base, p) /\ base \in Loc
  <2>1. loc \in Loc /\ loc.last_line \in Nat /\ loc.last_column \in Nat
    BY DEF EndsAt, Loc
  <2>2. /\ base \in Loc
        /\ base.first_line = loc.last_line /\ base.first_column = loc.last_column
        /\ base.last_line = loc.last_line /\ base.last_column = loc.last_column
    BY <2>1, FirstFields, Zenon
  <2> HIDE DEF base
  <2> QED BY <2>1, <2>2 DEF EndsAt
<1> HIDE DEF chars
<1>4. \E f : Recursive(f)
  <2> DEFINE step == [e \in (1 .. n) \X Loc |-> advance(e[2], chars[e[1]])]
  <2>1. \A k \in 1 .. n, v \in Loc :
          step[<<k, v>>] = advance(v, chars[k]) /\ advance(v, chars[k]) \in Loc
    BY AdvanceFields
  <2>2. step \in [(1 .. n) \X Loc -> Loc]
    <3> HIDE DEF step
    <3>1. step = [e \in (1 .. n) \X Loc |-> advance(e[2], chars[e[1]])]
      BY DEF step
    <3> QED BY <2>1, <3>1
  <2> HIDE DEF step, base
  <2>3. PICK f \in [0 .. n -> Loc] : Looped(f, n, base, step)
    BY <1>3, <2>2, LoopHasValues
  <2>4. \A k \in 0 .. n : k # 0 => k \in 1 .. n /\ f[k - 1] \in Loc
    OBVIOUS
  <2>5. f = [k \in 0 .. n |-> IF k = 0 THEN base ELSE advance(f[k - 1], chars[k])]
    BY <2>1, <2>3, <2>4 DEF Looped
  <2> QED BY <1>2, <2>5 DEF base
<1>5. Recursive(moved)
  BY <1>4
<1> HIDE DEF moved
<1>6. \A k \in 0 .. n : moved[k] = IF k = 0 THEN base ELSE advance(moved[k - 1], chars[k])
  BY <1>2, <1>5
<1> HIDE DEF base, Recursive
<1>7. n \in {k \in 0 .. n : EndsAt(moved[k], p + k)}
  <2> DEFINE S == {k \in 0 .. n : EndsAt(moved[k], p + k)}
  <2>1. 0 \in S
    BY <1>3, <1>6
  <2>2. \A k \in 0 .. n : k \in S /\ k < n => k + 1 \in S
    <3> SUFFICES ASSUME NEW k \in 0 .. n, k \in S, k < n
                 PROVE  k + 1 \in S
      OBVIOUS
    <3>1. /\ k + 1 \in 0 .. n /\ k + 1 \in 1 .. n /\ k + 1 # 0 /\ k + 1 - 1 = k
          /\ p + k \in Nat /\ p + k >= 1 /\ p + (k + 1) - 1 = p + k
          /\ p + (k + 1) = p + k + 1
      OBVIOUS
    <3>2. EndsAt(moved[k], p + k)
      OBVIOUS
    <3>3. moved[k + 1] = advance(moved[k], input[p + k])
      BY <1>2, <1>6, <3>1
    <3>4. EndsAt(advance(moved[k], input[p + k]), p + k + 1)
      BY <3>1, <3>2, Advanced
    <3> QED BY <3>1, <3>3, <3>4
  <2> HIDE DEF S
  <2>3. 0 .. n \subseteq S
    BY <2>1, <2>2, InductionUpTo
  <2> QED BY <2>3 DEF S
<1> QED BY <1>1, <1>2, <1>7 DEF chars

(* The inductive invariant for the positions told.                         *)
Located == Reading /\ EndsAt(yylloc, pos)

LEMMA LocatedMatch ==
  ASSUME Located, NEW n \in Nat, Match(n)
  PROVE  EndsAt(yylloc, pos)'
<1>1. /\ pos \in Nat /\ pos >= 1 /\ input \in Seq(Char) /\ pos + n - 1 <= Len(input)
      /\ pos' = pos + n /\ input' = input
      /\ yylloc' = update_loc(yylloc, SubSeq(input, pos, pos + n - 1))
  BY LenProperties DEF Located, Reading, Match
<1>2. EndsAt(update_loc(yylloc, SubSeq(input, pos, pos + n - 1)), pos + n)
  BY <1>1, Updated DEF Located
<1> HIDE DEF update_loc
<1> QED BY <1>1, <1>2 DEF EndsAt, EolsBelow

(* Every step matches some characters, or stays where it is.               *)
LEMMA StepsMatch ==
  ASSUME Reading, [Next]_vars
  PROVE  (\E n \in Nat : Match(n)) \/ UNCHANGED <<input, pos, yylloc>>
<1>1. CASE CommentText
  <2>1. CommentTextEnd(pos) - pos \in Nat
    BY CommentTextEnds, LenProperties DEF Reading
  <2> QED BY <1>1, <2>1 DEF CommentText
<1>2. CASE Word \/ Number
  <2>1. PICK C : Match(RunEnd(pos, C) - pos)
    BY <1>2 DEF Word, Number
  <2>2. RunEnd(pos, C) - pos \in Nat
    BY RunEnds, LenProperties DEF Reading
  <2> QED BY <2>1, <2>2
<1>3. CASE OpenComment \/ CloseComment \/ OpenString \/ CloseString \/ EscapeInString
  <2>1. Match(1) \/ Match(2)
    BY <1>3 DEF OpenComment, CloseComment, OpenString, CloseString, EscapeInString
  <2> QED BY <2>1
<1>4. CASE \/ CharInString \/ EolInString \/ Operator \/ CharLiteral
           \/ EscapedCharLiteral \/ Space \/ UnexpectedChar
  <2>1. Match(1) \/ Match(3) \/ Match(4)
    BY <1>4 DEF CharInString, EolInString, Operator, CharLiteral, EscapedCharLiteral,
                Space, UnexpectedChar
  <2> QED BY <2>1
<1>5. CASE CommentEOF \/ EofInString \/ EndOfInput \/ UNCHANGED vars
  BY <1>5 DEF CommentEOF, EofInString, EndOfInput, vars
<1> QED BY <1>1, <1>2, <1>3, <1>4, <1>5 DEF Next, Step, Ended

LEMMA InitLocated == Init => EndsAt(yylloc, pos)
<1> SUFFICES ASSUME Init PROVE EndsAt(yylloc, pos)
  OBVIOUS
<1>1. pos = 1 /\ yylloc = [first_line |-> 1, first_column |-> 1,
                           last_line |-> 1, last_column |-> 1]
  BY DEF Init, Begin
<1>2. EolsBelow(1) = {}
  BY DEF EolsBelow
<1>3. Cardinality({}) = 0
  BY FS_EmptySet
<1>4. Max({} \cup {0}) = 0
  <2>1. \A x \in {} \cup {0} : x = 0 /\ x >= x
    OBVIOUS
  <2> QED BY <2>1 DEF Max
<1> QED BY <1>1, <1>2, <1>3, <1>4 DEF EndsAt, Loc

(* For every input: the positions told are the lines and columns of the    *)
(* text, wherever the matches cut it.                                      *)
THEOREM PositionsAreRight == Spec => []LocIsPosition
<1>1. Init => Room /\ Located
  BY InitRoom, InitLocated DEF Room, Located
<1>2. Room /\ Located /\ [Next]_vars => (Room /\ Located)'
  <2> SUFFICES ASSUME Room, Located, [Next]_vars
               PROVE  Room' /\ Located'
    OBVIOUS
  <2>1. Room'
    BY StepRoom
  <2>2. CASE \E n \in Nat : Match(n)
    BY <2>1, <2>2, LocatedMatch DEF Room, Located
  <2>3. CASE UNCHANGED <<input, pos, yylloc>>
    <3>1. EndsAt(yylloc, pos)'
      BY <2>3 DEF Located, EndsAt, EolsBelow
    <3> QED BY <2>1, <3>1 DEF Room, Located
  <2> QED BY <2>2, <2>3, StepsMatch DEF Located
<1>3. Located => LocIsPosition
  BY DEF Located, EndsAt, EolsBelow, LocIsPosition
<1> QED BY <1>1, <1>2, <1>3, PTL DEF Spec

-----------------------------------------------------------------------------
(* Delimiters                                                              *)

Opens(p)  == p < Len(input) /\ input[p] = "/" /\ input[p + 1] = "*"
Closes(p) == p < Len(input) /\ input[p] = "*" /\ input[p + 1] = "/"

(* What a rule of two characters looks at.                                 *)
LEMMA LooksAtTwo ==
  ASSUME Reading, NEW a, NEW b
  PROVE  LooksAt(<<a, b>>) <=> pos < Len(input) /\ input[pos] = a /\ input[pos + 1] = b
<1>1. PICK n \in Nat : n = Len(input)
  BY LenProperties DEF Reading
<1>2. pos \in Nat /\ pos >= 1 /\ pos <= n + 1 /\ \A i \in pos .. n : input[i] \in Char
  BY <1>1, ElementOfSeq DEF Reading
<1> DEFINE rest == SubSeq(input, pos, n)
<1>3. /\ rest \in Seq(Char) /\ Len(rest) = IF pos <= n THEN n - pos + 1 ELSE 0
      /\ \A i \in 1 .. n - pos + 1 : rest[i] = input[pos + i - 1]
  BY <1>1, <1>2, SubSeqProperties
<1>4. LooksAt(<<a, b>>) <=> 2 <= Len(rest) /\ SubSeq(<<a, b>>, 1, 2) = SubSeq(rest, 1, 2)
  BY <1>1, Zenon DEF LooksAt, IsPrefix
<1> HIDE DEF rest
<1>5. LooksAt(<<a, b>>) <=> 2 <= Len(rest) /\ rest[1] = a /\ rest[2] = b
  BY <1>3, <1>4
<1>6. 2 <= Len(rest) <=> pos < n
  BY <1>2, <1>3
<1>7. pos < n => rest[1] = input[pos] /\ rest[2] = input[pos + 1]
  BY <1>2, <1>3
<1> QED BY <1>1, <1>5, <1>6, <1>7

(* And a rule of four.                                                     *)
LEMMA LooksAtFour ==
  ASSUME Reading, NEW a, NEW b, NEW c, NEW e, LooksAt(<<a, b, c, e>>)
  PROVE  /\ input[pos] = a /\ input[pos + 1] = b
         /\ input[pos + 2] = c /\ input[pos + 3] = e
<1>1. PICK n \in Nat : n = Len(input)
  BY LenProperties DEF Reading
<1>2. pos \in Nat /\ pos >= 1 /\ pos <= n + 1 /\ \A i \in pos .. n : input[i] \in Char
  BY <1>1, ElementOfSeq DEF Reading
<1> DEFINE rest == SubSeq(input, pos, n)
<1>3. /\ rest \in Seq(Char) /\ Len(rest) = IF pos <= n THEN n - pos + 1 ELSE 0
      /\ \A i \in 1 .. n - pos + 1 : rest[i] = input[pos + i - 1]
  BY <1>1, <1>2, SubSeqProperties
<1>4. 4 <= Len(rest) /\ SubSeq(<<a, b, c, e>>, 1, 4) = SubSeq(rest, 1, 4)
  BY <1>1, Zenon DEF LooksAt, IsPrefix
<1> HIDE DEF rest
<1>5. rest[1] = a /\ rest[2] = b /\ rest[3] = c /\ rest[4] = e
  BY <1>3, <1>4
<1>6. 4 <= n - pos + 1
  BY <1>1, <1>2, <1>3, <1>4
<1>7. \A i \in {1, 2, 3, 4} : rest[i] = input[pos + i - 1]
  BY <1>1, <1>2, <1>3, <1>6
<1>8. pos + 1 - 1 = pos /\ pos + 2 - 1 = pos + 1 /\ pos + 3 - 1 = pos + 2 /\ pos + 4 - 1 = pos + 3
  BY <1>2
<1> QED BY <1>5, <1>7, <1>8

(* A state of the reading of the input for comments alone.                 *)
Count == [at : Nat, depth : Nat]

ReadTo(p, d) == \E k \in 0 .. p - 1 : Reads(input)[k] = [at |-> p, depth |-> d]

(* What a read takes, and what it counts.                                  *)
LEMMA ReadTakes ==
  ASSUME input \in Seq(Char), NEW p \in Nat, NEW d \in Nat
  PROVE  LET r == [at |-> p, depth |-> d]
         IN  /\ Opens(p) => Read(input, r) = [at |-> p + 2, depth |-> d + 1]
             /\ Closes(p) /\ d > 0 => Read(input, r) = [at |-> p + 2, depth |-> d - 1]
             /\ ~Opens(p) /\ ~(Closes(p) /\ d > 0) =>
                  Read(input, r) = [at |-> p + 1, depth |-> d]
<1>1. Delimits(input, p) = <<"/", "*">> <=> Opens(p)
  BY DEF Delimits, Opens
<1>2. Delimits(input, p) = <<"*", "/">> <=> Closes(p)
  BY DEF Delimits, Closes
<1>3. ~(Opens(p) /\ Closes(p))
  BY DEF Opens, Closes
<1> DEFINE r == [at |-> p, depth |-> d]
<1>4. r.at = p /\ r.depth = d
  OBVIOUS
<1> HIDE DEF r
<1>5. /\ Opens(p) => Read(input, r) = [at |-> p + 2, depth |-> d + 1]
      /\ Closes(p) /\ d > 0 => Read(input, r) = [at |-> p + 2, depth |-> d - 1]
      /\ ~Opens(p) /\ ~(Closes(p) /\ d > 0) =>
           Read(input, r) = [at |-> p + 1, depth |-> d]
  BY <1>1, <1>2, <1>3, <1>4 DEF Read
<1> QED BY <1>5 DEF r

(* Reads is defined, and goes on by a read at a time.                      *)
LEMMA ReadsGoOn ==
  ASSUME input \in Seq(Char)
  PROVE  /\ Reads(input)[0] = [at |-> 1, depth |-> 0]
         /\ \A k \in 1 .. Len(input) :
              Reads(input)[k] = Read(input, Reads(input)[k - 1])
<1> DEFINE base == [at |-> 1, depth |-> 0]
           IsIt(f) == f = [k \in 0 .. Len(input) |->
                             IF k = 0 THEN [at |-> 1, depth |-> 0]
                                      ELSE Read(input, f[k - 1])]
           read == CHOOSE f : IsIt(f)
<1>1. PICK n \in Nat : n = Len(input)
  BY LenProperties
<1>2. Reads(input) = read
  BY Zenon DEF Reads
<1>3. \A v \in Count : Read(input, v) \in Count
  <2> SUFFICES ASSUME NEW p \in Nat, NEW d \in Nat
               PROVE  Read(input, [at |-> p, depth |-> d]) \in Count
    BY DEF Count
  <2>1. PICK r : r = Read(input, [at |-> p, depth |-> d])
    OBVIOUS
  <2>2. \/ r = [at |-> p + 2, depth |-> d + 1]
        \/ d > 0 /\ r = [at |-> p + 2, depth |-> d - 1]
        \/ r = [at |-> p + 1, depth |-> d]
    BY <2>1, ReadTakes
  <2>3. r \in Count
    BY <2>2 DEF Count
  <2> QED BY <2>1, <2>3
<1> DEFINE step == [e \in (1 .. n) \X Count |-> Read(input, e[2])]
<1>4. \A k \in 1 .. n, v \in Count : step[<<k, v>>] = Read(input, v)
  OBVIOUS
<1>5. step \in [(1 .. n) \X Count -> Count]
  <2>1. step = [e \in (1 .. n) \X Count |-> Read(input, e[2])]
    OBVIOUS
  <2> HIDE DEF step
  <2> QED BY <1>3, <2>1
<1>6. base \in Count
  BY DEF Count
<1> HIDE DEF step, base
<1>7. PICK f \in [0 .. n -> Count] : Looped(f, n, base, step)
  BY <1>5, <1>6, LoopHasValues
<1>8. \A k \in 0 .. n : k # 0 => k \in 1 .. n /\ f[k - 1] \in Count
  OBVIOUS
<1>9. f = [k \in 0 .. n |-> IF k = 0 THEN base ELSE Read(input, f[k - 1])]
  BY <1>4, <1>7, <1>8 DEF Looped
<1>10. IsIt(read)
  <2>1. IsIt(f)
    BY <1>1, <1>9, Zenon DEF base
  <2> HIDE DEF IsIt
  <2> QED BY <2>1
<1> HIDE DEF read
<1>11. \A k \in 0 .. n : read[k] = IF k = 0 THEN base ELSE Read(input, read[k - 1])
  BY <1>1, <1>10 DEF base
<1> HIDE DEF IsIt
<1>12. read[0] = base /\ \A k \in 1 .. n : read[k] = Read(input, read[k - 1])
  BY <1>11
<1> QED BY <1>1, <1>2, <1>12 DEF base

(* The reading goes on from where it has come to.                          *)
LEMMA OneRead ==
  ASSUME input \in Seq(Char), NEW p \in Nat, NEW d \in Nat, ReadTo(p, d), p <= Len(input)
  PROVE  /\ Opens(p) => ReadTo(p + 2, d + 1)
         /\ Closes(p) /\ d > 0 => ReadTo(p + 2, d - 1)
         /\ ~Opens(p) /\ ~(Closes(p) /\ d > 0) => ReadTo(p + 1, d)
<1>1. PICK n \in Nat : n = Len(input)
  BY LenProperties
<1>2. PICK R : R = Reads(input)
  OBVIOUS
<1>3. PICK k \in 0 .. p - 1 : R[k] = [at |-> p, depth |-> d]
  BY <1>2 DEF ReadTo
<1>4. k + 1 \in 1 .. n /\ k + 1 - 1 = k /\ k + 1 \in 0 .. p + 2 - 1 /\ k + 1 \in 0 .. p + 1 - 1
  BY <1>1
<1>5. PICK r : r = [at |-> p, depth |-> d]
  OBVIOUS
<1>6. R[k + 1] = Read(input, r)
  BY <1>1, <1>2, <1>3, <1>4, <1>5, ReadsGoOn
<1>7. CASE Opens(p)
  <2>1. R[k + 1] = [at |-> p + 2, depth |-> d + 1]
    BY <1>5, <1>6, <1>7, ReadTakes
  <2> QED BY <1>2, <1>4, <1>7, <2>1 DEF ReadTo, Opens, Closes
<1>8. CASE Closes(p) /\ d > 0
  <2>1. R[k + 1] = [at |-> p + 2, depth |-> d - 1]
    BY <1>5, <1>6, <1>8, ReadTakes
  <2> QED BY <1>2, <1>4, <1>8, <2>1 DEF ReadTo, Opens, Closes
<1>9. CASE ~Opens(p) /\ ~(Closes(p) /\ d > 0)
  <2>1. R[k + 1] = [at |-> p + 1, depth |-> d]
    BY <1>5, <1>6, <1>9, ReadTakes
  <2> QED BY <1>2, <1>4, <1>9, <2>1 DEF ReadTo
<1> QED BY <1>7, <1>8, <1>9

(* Where no delimiter begins nothing is counted.                           *)
LEMMA PlainReads ==
  ASSUME input \in Seq(Char), NEW p \in Nat, NEW d \in Nat, ReadTo(p, d),
         NEW n \in Nat, p + n - 1 <= Len(input),
         \A q \in p .. p + n - 1 : ~Opens(q) /\ ~(Closes(q) /\ d > 0)
  PROVE  ReadTo(p + n, d)
<1> DEFINE S == {k \in Nat : k <= n => ReadTo(p + k, d)}
<1>1. 0 \in S
  OBVIOUS
<1>2. \A k \in 0 .. n : k \in S /\ k < n => k + 1 \in S
  <2> SUFFICES ASSUME NEW k \in 0 .. n, k \in S, k < n
               PROVE  ReadTo(p + (k + 1), d)
    OBVIOUS
  <2>1. PICK q \in Nat : q = p + k
    OBVIOUS
  <2>2. ReadTo(q, d) /\ q \in p .. p + n - 1 /\ q <= Len(input) /\ p + (k + 1) = q + 1
    <3>1. Len(input) \in Nat
      BY LenProperties
    <3> QED BY <2>1, <3>1
  <2>3. ReadTo(q + 1, d)
    BY <2>2, OneRead
  <2> QED BY <2>2, <2>3
<1> HIDE DEF S
<1>3. 0 .. n \subseteq S
  BY <1>1, <1>2, InductionUpTo
<1>4. n \in S
  BY <1>3
<1> QED BY <1>4 DEF S

(* Where nothing is hidden, no round of a comment's text takes a part of a *)
(* delimiter.                                                              *)
LEMMA TextHasNoDelimiter ==
  ASSUME Reading, NoneHidden
  PROVE  \A x \in pos .. CommentTextEnd(pos) - 1 : ~Opens(x) /\ ~Closes(x)
<1> DEFINE Q == {x \in Nat : ~Opens(x) /\ ~Closes(x)}
<1>1. PICK n \in Nat : n = Len(input)
  BY LenProperties DEF Reading
<1>2. ASSUME NEW q \in 1 .. n + 1, NEW x \in q .. q + Round(q) - 1
      PROVE  x \in Q
  <2>1. \/ Round(q) = 0
        \/ Round(q) = 1 /\ input[q] \notin {"*", "/"}
        \/ /\ Round(q) = 2 /\ q < n /\ input[q] \in {"*", "/"}
           /\ input[q + 1] # (IF input[q] = "*" THEN "/" ELSE "*")
    BY <1>1 DEF Round
  <2>2. CASE Round(q) = 0
    BY <2>2
  <2>3. CASE Round(q) = 1 /\ input[q] \notin {"*", "/"}
    <3>1. x = q
      BY <2>3
    <3> QED BY <2>3, <3>1 DEF Opens, Closes
  <2>4. CASE /\ Round(q) = 2 /\ q < n /\ input[q] \in {"*", "/"}
             /\ input[q + 1] # (IF input[q] = "*" THEN "/" ELSE "*")
    <3>1. x = q \/ x = q + 1
      BY <2>4
    <3>2. q \in 1 .. Len(input) - 1
      BY <1>1, <2>4
    <3>3. input[q] # input[q + 1]
      BY <2>4, <3>2 DEF NoneHidden
    <3>4. input[q + 1] \notin {"*", "/"}
      BY <2>4, <3>3
    <3> QED BY <2>4, <3>1, <3>4 DEF Opens, Closes
  <2> QED BY <2>1, <2>2, <2>3, <2>4
<1> HIDE DEF Q
<1>3. \A q \in 1 .. Len(input) + 1 : \A x \in q .. q + Round(q) - 1 : x \in Q
  BY <1>1, <1>2
<1>4. \A x \in pos .. CommentTextEnd(pos) - 1 : x \in Q
  BY <1>3, CommentTextEnds
<1> QED BY <1>4 DEF Q

(* A step that matches counts the delimiters in what it matches.           *)
LEMMA StepCounts ==
  ASSUME Reading, Nesting, CountsEveryDelimiter, NoneHidden, Next
  PROVE  ReadTo(pos', nested_comments')
<1> DEFINE d == nested_comments
<1>1. /\ input \in Seq(Char) /\ pos \in Nat /\ pos >= 1 /\ d \in Nat /\ Len(input) \in Nat
      /\ ReadTo(pos, d) /\ (d > 0 <=> start = "S_COMMENT")
  BY LenProperties DEF Reading, Nesting, StackDiscipline, CountsEveryDelimiter, ReadTo
<1>2. ASSUME nested_comments' = d, NEW n \in Nat, Match(n),
             \A q \in pos .. pos + n - 1 : ~Opens(q) /\ ~(Closes(q) /\ d > 0)
      PROVE  ReadTo(pos', nested_comments')
  <2>1. pos' = pos + n /\ pos + n - 1 <= Len(input)
    BY <1>2 DEF Match
  <2>2. ReadTo(pos + n, d)
    BY <1>1, <1>2, <2>1, PlainReads
  <2> QED BY <1>2, <2>1, <2>2
(* One character, at which no delimiter begins.                            *)
<1>3. ASSUME nested_comments' = d, Match(1), ~Opens(pos), ~(Closes(pos) /\ d > 0)
      PROVE  ReadTo(pos', nested_comments')
  <2>1. \A q \in pos .. pos + 1 - 1 : q = pos
    BY <1>1
  <2> QED BY <1>2, <1>3, <2>1
<1>4. LooksAt(<<"/", "*">>) <=> Opens(pos)
  BY LooksAtTwo DEF Opens
<1>5. LooksAt(<<"*", "/">>) <=> Closes(pos)
  BY LooksAtTwo DEF Closes
<1>6. CASE OpenComment
  <2>1. Opens(pos) /\ pos' = pos + 2 /\ nested_comments' = d + 1
    BY <1>4, <1>6 DEF OpenComment, Match
  <2> QED BY <1>1, <2>1, OneRead DEF Opens
<1>7. CASE CloseComment
  <2>1. Closes(pos) /\ d > 0 /\ pos' = pos + 2 /\ nested_comments' = d - 1
    BY <1>1, <1>5, <1>7 DEF CloseComment, Match
  <2> QED BY <1>1, <2>1, OneRead DEF Closes
<1>8. CASE CommentText
  <2>1. PICK n \in Nat : n = CommentTextEnd(pos) - pos
    BY <1>1, CommentTextEnds
  <2>2. CommentTextEnd(pos) \in Nat
    BY <1>1, CommentTextEnds
  <2>3. \A q \in pos .. pos + n - 1 : ~Opens(q) /\ ~Closes(q)
    <3>1. \A q \in pos .. pos + n - 1 : q \in pos .. CommentTextEnd(pos) - 1
      BY <1>1, <2>1, <2>2
    <3> QED BY <3>1, TextHasNoDelimiter
  <2>4. Match(n) /\ nested_comments' = d
    BY <1>8, <2>1 DEF CommentText, nesting
  <2> QED BY <1>2, <2>3, <2>4
<1>9. CASE Word \/ Number
  <2>1. PICK C \in SUBSET {"n", "0"} :
          Match(RunEnd(pos, C) - pos) /\ nested_comments' = d
    BY <1>9 DEF Word, Number, nesting
  <2>2. PICK n \in Nat : n = RunEnd(pos, C) - pos
    BY <1>1, RunEnds
  <2>3. RunEnd(pos, C) \in Nat
    BY <1>1, RunEnds
  <2>4. \A q \in pos .. pos + n - 1 : input[q] \in C
    <3>1. \A q \in pos .. pos + n - 1 : q \in pos .. RunEnd(pos, C) - 1
      BY <1>1, <2>2, <2>3
    <3> QED BY <3>1, RunEnds
  <2>5. \A q \in pos .. pos + n - 1 : ~Opens(q) /\ ~Closes(q)
    BY <2>4 DEF Opens, Closes
  <2> QED BY <1>2, <2>1, <2>2, <2>5
<1>10. CASE OpenString \/ CloseString \/ EolInString \/ Space
  <2>1. input[pos] \in {"quote", "eol"} /\ Match(1) /\ nested_comments' = d
    BY <1>10 DEF OpenString, CloseString, EolInString, Space, Here, nesting
  <2> QED BY <1>3, <2>1 DEF Opens, Closes
<1>11. CASE CharInString \/ Operator
  <2>1. /\ start # "S_COMMENT" /\ ~Opens(pos) /\ Match(1) /\ nested_comments' = d
    BY <1>4, <1>11 DEF CharInString, Operator, Outside, nesting
  <2> QED BY <1>1, <1>3, <2>1
<1>12. CASE EscapeInString
  <2>1. /\ start = "S_STR" /\ Match(2) /\ nested_comments' = d
        /\ pos < Len(input) /\ input[pos] = "backslash"
    BY <1>12 DEF EscapeInString, StartsEscape, Here, nesting
  <2>2. input[pos + 1] # "/"
    BY <1>1, <2>1 DEF NoneHidden
  <2>3. \A q \in pos .. pos + 2 - 1 : q = pos \/ q = pos + 1
    BY <1>1
  <2>4. ~Opens(pos) /\ ~Opens(pos + 1) /\ ~(d > 0)
    BY <1>1, <2>1, <2>2 DEF Opens
  <2> QED BY <1>2, <2>1, <2>3, <2>4
<1>13. CASE CharLiteral
  <2>1. /\ start = "INITIAL" /\ Match(3) /\ nested_comments' = d
        /\ input[pos] = "tick" /\ input[pos + 2] = "tick"
    BY <1>13 DEF CharLiteral, PlainChar, Outside, Here, nesting
  <2>2. \A q \in pos .. pos + 3 - 1 : q = pos \/ q = pos + 1 \/ q = pos + 2
    BY <1>1
  <2>3. pos + 1 + 1 = pos + 2
    BY <1>1
  <2>4. ~Opens(pos) /\ ~Opens(pos + 1) /\ ~Opens(pos + 2) /\ ~(d > 0)
    BY <1>1, <2>1, <2>3 DEF Opens
  <2> QED BY <1>2, <2>1, <2>2, <2>4
<1>14. CASE EscapedCharLiteral
  <2>1. /\ start = "INITIAL" /\ Match(4) /\ nested_comments' = d
        /\ \E c \in {"n", "0"} : LooksAt(<<"tick", "backslash", c, "tick">>)
    BY <1>14 DEF EscapedCharLiteral, EscapedChar, Outside, nesting
  <2>2. /\ input[pos] = "tick" /\ input[pos + 1] = "backslash"
        /\ input[pos + 2] \in {"n", "0"} /\ input[pos + 3] = "tick"
    BY <1>1, <2>1, LooksAtFour
  <2>3. \A q \in pos .. pos + 4 - 1 :
          q = pos \/ q = pos + 1 \/ q = pos + 2 \/ q = pos + 3
    BY <1>1
  <2>4. /\ ~Opens(pos) /\ ~Opens(pos + 1) /\ ~Opens(pos + 2) /\ ~Opens(pos + 3)
        /\ ~(d > 0)
    BY <1>1, <2>1, <2>2 DEF Opens
  <2> QED BY <1>2, <2>1, <2>3, <2>4
<1>15. CASE UnexpectedChar
  <2>1. Match(1) /\ nested_comments' = d
    BY <1>15 DEF UnexpectedChar, nesting
  <2>2. ~Opens(pos) /\ ~(Closes(pos) /\ d > 0)
    <3>1. CASE start = "INITIAL"
      BY <1>1, <1>15, <3>1 DEF UnexpectedChar, Here, Opens
    <3>2. CASE start = "S_COMMENT"
      BY <1>4, <1>5, <1>15, <3>2 DEF UnexpectedChar
    <3> QED BY <1>15, <3>1, <3>2 DEF UnexpectedChar
  <2> QED BY <1>3, <2>1, <2>2
<1>16. CASE CommentEOF \/ EofInString \/ EndOfInput \/ Ended
  BY <1>1, <1>16 DEF CommentEOF, EofInString, EndOfInput, Ended, vars, nesting
<1> QED
  BY <1>6, <1>7, <1>8, <1>9, <1>10, <1>11, <1>12, <1>13, <1>14, <1>15, <1>16
     DEF Next, Step

(* For every input in which no rule takes a part of a delimiter for        *)
(* itself: comments are counted as they are written, and no match ends     *)
(* within a delimiter.                                                     *)
THEOREM EveryDelimiterCounts == Spec => []CountsEveryDelimiter
<1> DEFINE Counts == Room /\ Nesting /\ CountsEveryDelimiter
<1>1. Init => Counts
  <2> SUFFICES ASSUME Init PROVE CountsEveryDelimiter
    BY InitRoom, InitNesting
  <2>1. Reads(input)[0] = [at |-> 1, depth |-> 0]
    BY InitRoom, ReadsGoOn DEF Room, Reading
  <2>2. pos = 1 /\ nested_comments = 0 /\ 0 \in 0 .. pos - 1
    BY DEF Init, Begin
  <2> QED BY <2>1, <2>2 DEF CountsEveryDelimiter
<1>2. Counts /\ [Next]_vars => Counts'
  <2> SUFFICES ASSUME Counts, [Next]_vars PROVE CountsEveryDelimiter'
    BY StepRoom, StepNesting
  <2>1. input' = input
    <3>1. ASSUME NEW n \in Nat, Match(n) PROVE input' = input
      BY <3>1 DEF Match
    <3> QED BY <3>1, StepsMatch DEF Room
  <2>2. CASE Next
    <3>1. NoneHidden => ReadTo(pos', nested_comments')
      BY <2>2, StepCounts DEF Room
    <3> QED BY <2>1, <3>1 DEF CountsEveryDelimiter, NoneHidden, ReadTo
  <2>3. CASE UNCHANGED vars
    BY <2>3 DEF vars, CountsEveryDelimiter, NoneHidden
  <2> QED BY <2>2, <2>3
<1>3. Counts => CountsEveryDelimiter
  OBVIOUS
<1> QED BY <1>1, <1>2, <1>3, PTL DEF Spec
=============================================================================
