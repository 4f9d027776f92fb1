---- MODULE MCEval ----
EXTENDS Eval

(* Argument lists whose n-th argument is not an earlier numbered variable. *)
MCArgs     == {<<>>, <<Imm(1)>>, <<Sym(0), Sym(1)>>, <<Sym(1)>>}
====
