----------------------------- MODULE FrameStack -----------------------------
(***************************************************************************)
(* What the symbol table promises its client: declarations go into the     *)
(* innermost of a stack of frames, and looking a name up answers with the  *)
(* first declaration of the name in the innermost frame that has one.      *)
(* There are no scopes here that outlive their frame, no pointers and no   *)
(* search: ScopeContext implements this specification.                     *)
(***************************************************************************)
EXTENDS Naturals, Sequences, SequencesExt, FiniteSetsExt

CONSTANT Name   \* the identifiers

VARIABLE env    \* the frames, outermost first, each the sequence of its names

Declaring(n) == {d \in DOMAIN env : Contains(env[d], n)}

Unbound == [depth |-> 0, pos |-> 0]

Meaning(n) ==
  IF Declaring(n) = {}
    THEN Unbound
    ELSE LET d == Max(Declaring(n))
         IN  [depth |-> d, pos |-> SelectInSeq(env[d], LAMBDA m : m = n)]

Init == env = << << >> >>

Declare(n) == env' = [env EXCEPT ![Len(env)] = Append(@, n)]

Enter == env' = Append(env, << >>)

DefineFunction(n) ==
  env' = Append([env EXCEPT ![Len(env)] = Append(@, n)], << >>)

Leave == Len(env) > 1 /\ env' = Front(env)

Next ==
  \/ Enter \/ Leave
  \/ \E n \in Name : Declare(n) \/ DefineFunction(n)

Spec == Init /\ [][Next]_env
=============================================================================
