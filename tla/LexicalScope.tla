---------------------------- MODULE LexicalScope ----------------------------
(***************************************************************************)
(* What build_ir promises of the identifiers and string literals that      *)
(* statements use: an identifier means the first parameter of the current  *)
(* function that has this name, failing that the first function definition *)
(* so named among those begun so far, the current one included, and        *)
(* failing that nothing; a string means its text.  No scope, no symbol and *)
(* no search is in it: IrGenerator implements this specification.          *)
(***************************************************************************)
EXTENDS Naturals, Sequences, SequencesExt

CONSTANTS
  Name,    \* the identifiers
  NoName,  \* no identifier: before the first question
  Text     \* the texts of string literals

VARIABLES
  funs,     \* the names of the functions defined so far, in source order
  params,   \* the names of the parameters of the last of them, in order
  phase,    \* where in the program the generator is
  key,      \* the identifier last asked for
  meaning   \* what the last evaluated expression denotes

vars == <<funs, params, phase, key, meaning>>

Unknown      == [kind |-> "UNKNOWN"]
Number       == [kind |-> "NUMBER"]
String(t)    == [kind |-> "STRING", text |-> t]
Function(f)  == [kind |-> "FUNCTION", fun |-> f]
Param(f, p)  == [kind |-> "PARAM", fun |-> f, param |-> p]

First(names, n) == SelectInSeq(names, LAMBDA m : m = n)

Meaning(n) ==
  IF First(params, n) # 0
    THEN Param(Len(funs), First(params, n))
    ELSE IF First(funs, n) # 0 THEN Function(First(funs, n)) ELSE Unknown

Init ==
  /\ funs = << >> /\ params = << >> /\ phase = "outside"
  /\ key = NoName /\ meaning = Unknown

BeginFunction(n) ==
  /\ phase = "outside" /\ phase' = "header"
  /\ funs' = Append(funs, n) /\ params' = << >>
  /\ UNCHANGED <<key, meaning>>

AddParam(n) ==
  /\ phase = "header"
  /\ params' = Append(params, n)
  /\ UNCHANGED <<funs, phase, key, meaning>>

BeginBody ==
  /\ phase = "header" /\ phase' = "body"
  /\ UNCHANGED <<funs, params, key, meaning>>

Ask(n) ==
  /\ phase = "body" /\ phase' = "asked" /\ key' = n
  /\ UNCHANGED <<funs, params, meaning>>

Answer ==
  /\ phase = "asked" /\ phase' = "body" /\ meaning' = Meaning(key)
  /\ UNCHANGED <<funs, params, key>>

Evaluate(m) ==
  /\ phase = "body" /\ meaning' = m
  /\ UNCHANGED <<funs, params, phase, key>>

EndFunction ==
  /\ phase = "body" /\ phase' = "outside"
  /\ UNCHANGED <<funs, params, key, meaning>>

(* At the end of the program, or when the generator dies in the middle.    *)
Stop ==
  /\ phase \in {"outside", "body"} /\ phase' = "stopped"
  /\ UNCHANGED <<funs, params, key, meaning>>

Next ==
  \/ \E n \in Name : BeginFunction(n) \/ AddParam(n) \/ Ask(n)
  \/ \E m \in {Number} \cup {String(t) : t \in Text} : Evaluate(m)
  \/ BeginBody \/ Answer \/ EndFunction \/ Stop

Spec == Init /\ [][Next]_vars
=============================================================================
