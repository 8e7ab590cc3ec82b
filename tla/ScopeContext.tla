---------------------------- MODULE ScopeContext ----------------------------
(***************************************************************************)
(* The symbol table in the hands of any client that keeps the discipline   *)
(* of ir_generator.c's context: it opens scopes and functions, declares    *)
(* variables in the current scope, looks names up, pops what it pushed,    *)
(* and in the end may free the table.  The nesting is arbitrary; the       *)
(* client the compiler has today, IrGenerator, nests only a function's     *)
(* parameters and its body.                                                *)
(***************************************************************************)
EXTENDS SymbolTable, FiniteSetsExt

CONSTANTS
  Name,         \* the identifiers
  MaxScopes,    \* bound: scopes allocated
  MaxSymbols    \* bound: symbols declared, all scopes together

ASSUME BoundsAssumption == MaxScopes \in Nat \ {0} /\ MaxSymbols \in Nat

VARIABLES
  scopes,     \* every scope_info allocated, in the order of allocation
  scope,      \* ctx->scope
  phase,      \* "live", then "freeing" once free_symbol_table is called
  pending,    \* the calls of free_scope_info still to be made, next one first
  freed       \* the scopes freed, in the order of their free_scope_info calls

vars == <<scopes, scope, phase, pending, freed>>

Init ==
  /\ scopes = EmptyTable
  /\ scope = Top
  /\ phase = "live"
  /\ pending = << >>
  /\ freed = << >>

Declared == MapThenSumSet(LAMBDA s : Len(scopes[s].symbols), DOMAIN scopes)

Freeing == <<phase, pending, freed>>

CtxPushNewScope ==
  /\ phase = "live"
  /\ Len(scopes) < MaxScopes
  /\ scopes' = ctx_push_new_scope(scopes, scope)
  /\ scope' = Len(scopes')
  /\ UNCHANGED Freeing

CtxPushFunction(n) ==
  /\ phase = "live"
  /\ Len(scopes) < MaxScopes
  /\ Declared < MaxSymbols
  /\ scopes' = ctx_push_function(scopes, scope, n)
  /\ scope' = Len(scopes')
  /\ UNCHANGED Freeing

CtxAddVar(n) ==
  /\ phase = "live"
  /\ Declared < MaxSymbols
  /\ scopes' = sym_add_symbol(scopes, scope, sym_mkvar(n, scope))
  /\ UNCHANGED <<scope, Freeing>>

(* A client pops no more than it pushed: the parent of the top level is    *)
(* NULL, which no later call could use.                                    *)
CtxPopScope ==
  /\ phase = "live"
  /\ scope # Top
  /\ scope' = scopes[scope].parent
  /\ UNCHANGED <<scopes, Freeing>>

FreeSymbolTable ==
  /\ phase = "live"
  /\ phase' = "freeing"
  /\ pending' = <<Top>>
  /\ UNCHANGED <<scopes, scope, freed>>

(* Mutant: the children are not freed with their parent.                   *)
FreeScopeInfoAlone ==
  /\ phase = "freeing"
  /\ pending # << >>
  /\ pending' = Tail(pending)
  /\ freed' = Append(freed, Head(pending))
  /\ UNCHANGED <<scopes, scope, phase>>

(* A call of free_scope_info calls itself for the first child, whose calls *)
(* for its `next' reach the other children, and for its own next sibling.  *)
FreeScopeInfo ==
  /\ phase = "freeing"
  /\ pending # << >>
  /\ pending' = scopes[Head(pending)].children \o Tail(pending)
  /\ freed' = Append(freed, Head(pending))
  /\ UNCHANGED <<scopes, scope, phase>>

Freed ==
  /\ phase = "freeing" /\ pending = << >>
  /\ UNCHANGED vars

Next ==
  \/ CtxPushNewScope \/ CtxPopScope
  \/ \E n \in Name : CtxPushFunction(n) \/ CtxAddVar(n)
  \/ FreeSymbolTable \/ FreeScopeInfo \/ Freed

Spec == Init /\ [][Next]_vars

-----------------------------------------------------------------------------
(* The child lists are the inverse of the parent pointers, without         *)
(* repetition: a scope hangs in its parent's list, once, and in no other.  *)
(* sym_find walks the one and free_scope_info the other, and nothing in    *)
(* the code ties them together (sym_mkscope sets the parent, the caller    *)
(* links the child; the line of sym_mkfunction that did it is a comment).  *)
ChildrenInvertParents ==
  \A p \in DOMAIN scopes :
    /\ IsInjective(scopes[p].children)
    /\ Range(scopes[p].children) = {c \in DOMAIN scopes : scopes[c].parent = p}

(* free_symbol_table frees every scope ever allocated, and none twice,     *)
(* also those that were popped long before and that no pointer of the      *)
(* context leads to any more.                                              *)
FreesEveryScopeOnce ==
  /\ IsInjective(freed)
  /\ phase = "freeing" /\ pending = << >> => Range(freed) = DOMAIN scopes

(* Symbols stay where they are: the lists only grow at their end and       *)
(* parents stay, so that nothing declared later hides a symbol from the    *)
(* scope it was found in, or shows there what it hid.                      *)
SymbolsStay ==
  [][ /\ Len(scopes) <= Len(scopes')
      /\ \A s \in DOMAIN scopes :
           /\ scopes[s].parent = scopes'[s].parent
           /\ IsPrefix(scopes[s].symbols, scopes'[s].symbols)
    ]_vars

-----------------------------------------------------------------------------
(* ScopeContext implements FrameStack: the frames are the scopes on the    *)
(* way from the top level to the current one.                              *)

Chain[s \in DOMAIN scopes] ==
  IF scopes[s].parent = NULL THEN <<s>> ELSE Append(Chain[scopes[s].parent], s)

Names(s) == [k \in DOMAIN scopes[s].symbols |-> scopes[s].symbols[k].name]

Frames == INSTANCE FrameStack WITH
  env <- LET chain == Chain[scope] IN [d \in DOMAIN chain |-> Names(chain[d])]

(* Pushing, declaring and popping do to the frames what a stack does: a    *)
(* popped scope's declarations are out of sight and the ones before the    *)
(* push are back, however many scopes were opened and closed in between.   *)
ImplementsFrameStack == Frames!Spec

(* ctx_lookup, which searches the current scope's list and then those of   *)
(* its parents, answers with the innermost frame's first declaration.      *)
LookupIsInnermost ==
  \A n \in Name :
    LET info == sym_find(scopes, n, scope)
    IN  Frames!Meaning(n) =
          [depth |-> IF info = NotFound THEN 0 ELSE Len(Chain[info.scope]),
           pos   |-> info.pos]
=============================================================================
