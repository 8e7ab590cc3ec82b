------------------------------ MODULE LexerMC -------------------------------
(***************************************************************************)
(* The inputs of three alphabets: what comments are made of, what literals *)
(* are made of, and what both are when they meet.                          *)
(***************************************************************************)
EXTENDS Lexer

CommentChar == Char \ {"tick", "backslash", "n", "0"}
LiteralChar == Char \ {"*", "/"}
MixedChar == {"*", "/", "quote", "backslash", "n"}

MCInit ==
  \/ Begin(SeqOf(CommentChar, MaxInput))
  \/ Begin(SeqOf(LiteralChar, MaxInput - 1))
  \/ Begin(SeqOf(MixedChar, MaxInput - 1))

MCSpec == MCInit /\ [][Next]_vars /\ WF_vars(Step)
=============================================================================
