---- MODULE IrCfg ----
(***************************************************************************)
(* ir_cfg_build of middle_end/ir/gen.c, applied to the list a function was *)
(* lowered to: link() turns jump targets into successor and predecessor    *)
(* edges.  Dominators, SSA and the evaluator walk these.                   *)
(***************************************************************************)
EXTENDS IrGen

VARIABLES built,   \* "no", "linked", or "aborted" by assert(ok)
          succs,   \* cfg.succs of every instruction; NULL for a NULL pointer
          preds    \* cfg.preds

cfgVars == <<built, succs, preds>>

(* link_target: the hashmap lookup of an index, followed by assert(ok).    *)
link_target(n) == n \in Pos

link_succs(n) ==
  CASE At(n).op = "jump" -> <<At(n).tgt>>
    [] At(n).op = "cond" -> <<At(n).tgt, IF n + 1 \in Pos THEN n + 1 ELSE NULL>>
    [] At(n).op = "ret"  -> <<>>
    [] OTHER             -> IF n + 1 \in Pos THEN <<n + 1>> ELSE <<>>

(* Mutants: no way from a condition to the next instruction; one from a    *)
(* jump.                                                                   *)
link_preds_NoFall(n) ==
  {p \in Pos : /\ p = n - 1 /\ At(p).op \notin {"jump", "cond"}
               /\ ~(At(n).op = "ret" /\ At(p).op = "ret")}
    \union {p \in Pos : IsJump(p) /\ At(p).tgt = n}

link_preds_Jump(n) ==
  {p \in Pos : p = n - 1 /\ ~(At(n).op = "ret" /\ At(p).op = "ret")}
    \union {p \in Pos : IsJump(p) /\ At(p).tgt = n}

(* The previous instruction unless it is a jump (or, of a ret, a ret), and *)
(* the jumps to this one.                                                  *)
link_preds(n) ==
  {p \in Pos : /\ p = n - 1 /\ At(p).op # "jump"
               /\ ~(At(n).op = "ret" /\ At(p).op = "ret")}
    \union {p \in Pos : IsJump(p) /\ At(p).tgt = n}

CfgInit == Init /\ built = "no" /\ succs = <<>> /\ preds = <<>>

ir_cfg_build ==
  /\ phase = "done" /\ built = "no"
  /\ IF \A n \in Pos : IsJump(n) => link_target(At(n).tgt)
     THEN /\ built' = "linked"
          /\ succs' = [n \in Pos |-> link_succs(n)]
          /\ preds' = [n \in Pos |-> link_preds(n)]
     ELSE built' = "aborted" /\ UNCHANGED <<succs, preds>>
  /\ UNCHANGED vars

CfgNext == (Next /\ UNCHANGED cfgVars) \/ ir_cfg_build

CfgSpec == CfgInit /\ [][CfgNext]_<<vars, cfgVars>>

------------------------------------------------------------------------------

Linked == built = "linked"

(* The graph is the same walked either way: every successor edge has its   *)
(* predecessor edge, and every predecessor edge is a way control can take. *)
(* (The instruction before it counts as predecessor even if it is a ret.)  *)
EdgesAgree ==
  Linked => \A m, n \in Pos :
    /\ n \in ToSet(succs[m]) => m \in preds[n]
    /\ m \in preds[n] => n \in ToSet(succs[m]) \/ At(m).op = "ret"
====
