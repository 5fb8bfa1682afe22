----------------------------- MODULE MCFrontEnd -----------------------------
(***************************************************************************)
(* Instance of the front end for TLC: the preprocessor (three nested       *)
(* files, one macro), its evaluator of conditions (an operator of each of  *)
(* four precedences, two numbers, two strings) and the symbol table (base  *)
(* classes with up to two methods).  The three share no variable, and none *)
(* runs during a step of another: cpp.c calls Preprocessor_expr to its end *)
(* within one step, and the parser reads what the preprocessor wrote.  So  *)
(* one of them, part, moves while the others rest in their first state.    *)
(***************************************************************************)
EXTENDS Preprocessor, Expr, SymbolTable

MCNumbers == {0, 2}
MCBinary  == {"div", "sub", "eq", "lor"}
MCBases   == {<<>>, <<1>>, <<1, 2>>, <<2, 1>>}

VARIABLE part

frontvars == <<vars, evalvars, symvars, part>>

FrontInit ==
  /\ Init
  /\ EvalInit
  /\ SymInit
  /\ part \in {"lines", "conditions", "symbols"}
  /\ part # "lines" => ~ include_all /\ ~ import_all
  /\ part # "symbols" => base = <<>> /\ known

Lines      == part = "lines" /\ Next /\ UNCHANGED <<evalvars, symvars, part>>
Conditions == part = "conditions" /\ EvalNext /\ UNCHANGED <<vars, symvars, part>>
Symbols    == part = "symbols" /\ SymNext /\ UNCHANGED <<vars, evalvars, part>>

FrontSpec == FrontInit /\ [][Lines \/ Conditions \/ Symbols]_frontvars
=============================================================================
