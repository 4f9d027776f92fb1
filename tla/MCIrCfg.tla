---- MODULE MCIrCfg ----
EXTENDS IrCfg

(* A statement is `x = f();`, a condition a variable; a for may have no     *)
(* init part.                                                              *)
MCStmts    == {<<"store_call">>}
MCExprs    == {<<>>}
MCForInits == {<<"none">>, <<"alloca", "store">>}
MCForIncrs == {<<"store">>}
====
