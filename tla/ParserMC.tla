------------------------------ MODULE ParserMC ------------------------------
(***************************************************************************)
(* Programs that begin where there is most to choose: at declarations, at  *)
(* parameters, behind a function, at statements, in the head of a for,     *)
(* behind an if in an if, and in the arguments of a call.                  *)
(***************************************************************************)
EXTENDS Parser

Params == <<"INT_K", "ID", "(", "INT_K", "ID">>
Header == <<"INT_K", "ID", "(", "VOID_K", ")", "{">>
For    == <<"FOR_K", "(", "ID", "[", "ID", "]", "=", "ID", ";", "ID", ";">>
Call   == <<"ID", "(", "ID", ",">>
If     == <<"IF_K", "(", "NUM", ")">>

MCPrologues ==
  {<< >>, Params, Header \o <<"}">>, Header, Header \o For, Header \o If \o If \o <<";">>,
   Header \o Call}
=============================================================================
