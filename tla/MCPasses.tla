---- MODULE MCPasses ----
(* The passes over generated IR, each on its own copy of the function.  A  *)
(* statement is `int x;` or `x = f();`, a condition a variable; a for may  *)
(* have no init part.                                                      *)
EXTENDS Reorder, Dom

MCStmts    == {<<"alloca">>, <<"store_call">>}
MCExprs    == {<<>>}
MCForInits == {<<"none">>, <<"alloca", "store">>}
MCForIncrs == {<<"store">>}

PassInit == CfgInit /\ ReorderInit /\ DomInit
PassNext == \/ ReorderNext /\ UNCHANGED domVars
            \/ DomStep /\ UNCHANGED reorderVars

PassSpec == PassInit /\ [][PassNext]_<<vars, cfgVars, reorderVars, domVars>>
              /\ WF_<<vars, cfgVars, reorderVars, domVars>>(ReorderStep /\ UNCHANGED domVars)
====
