---- MODULE MCRegAlloc ----
EXTENDS RegAlloc

I(op, res, lhs, rhs) == [op |-> op, res |-> res, lhs |-> lhs, rhs |-> rhs]

(* Instructions as ir/gen.c emits them: operands of an operation are       *)
(* variables, a condition or a ret has one.                                *)
MCInstrs ==
  {I("store", v, None, None) : v \in Vars}
    \union {I("store", v, w, None) : v \in Vars, w \in Vars}
    \union {I("bin", v, w, x) : v \in Vars, w \in Vars, x \in Vars}
    \union {I("cond", None, v, None) : v \in Vars}
    \union {I("ret", None, v, None) : v \in Vars}
    \union {I("alloca", v, None, None) : v \in Vars}

MCPrograms == [1 .. 3 -> MCInstrs]
====
