---- MODULE Reorder ----
(***************************************************************************)
(* middle_end/opt/reorder.c: the pass that collects the allocas of a       *)
(* function at its front, run by opt() of the driver on the list that      *)
(* gen.c made, before the control-flow graph is built.  Instructions are   *)
(* named by their index; only the links and the jump targets change.       *)
(***************************************************************************)
EXTENDS IrCfg

VARIABLES stage,   \* "no", "scan", "reordered", "undefined" (read past the vector),
                   \* "crashed" (NULL followed)
          links,   \* [nxt, prv]: the next and prev pointers
          tgt,     \* jump->idx and cond->goto_label
          from,    \* the local `_`
          it

reorderVars == <<stage, links, tgt, from, it>>

IsAlloca(n) == At(n).op = "alloca"

ReorderInit == stage = "no" /\ links = <<>> /\ tgt = <<>> /\ from = NULL /\ it = NULL

(* The links that insert() of gen.c made.                                  *)
GenLinks == [nxt |-> [n \in Pos |-> IF n + 1 \in Pos THEN n + 1 ELSE NULL],
             prv |-> [n \in Pos |-> IF n = 0 THEN NULL ELSE n - 1]]

(* Mutant: a target stays on the alloca that moves away.                   *)
reindex_Stay(t) == t

(* The first instruction from t on that is no alloca, or the place after   *)
(* the last one.                                                           *)
reindex(t) == CHOOSE u \in t .. Len(code) :
                (u = Len(code) \/ ~IsAlloca(u)) /\ \A v \in t .. u - 1 : IsAlloca(v)

(* Mutants: the move stops one instruction early; at the front the moved   *)
(* one keeps its prev.                                                     *)
swap_Early(l, n) ==
  LET p == l.prv[n]
      q == l.nxt[n]
  IN  IF p = NULL THEN l
      ELSE IF l.prv[p] = NULL \/ l.prv[l.prv[p]] = NULL
      THEN [l EXCEPT !.nxt[p] = n, !.prv[n] = NULL]
      ELSE IF ~IsAlloca(n) THEN l
      ELSE [nxt |-> [l.nxt EXCEPT ![l.prv[p]] = n, ![n] = p, ![p] = q],
            prv |-> [l.prv EXCEPT ![n] = l.prv[p], ![p] = n, ![q] = p]]

swap_KeepPrev(l, n) ==
  LET p == l.prv[n]
      q == l.nxt[n]
  IN  IF p = NULL \/ l.prv[p] = NULL \/ ~IsAlloca(n) THEN l
      ELSE [nxt |-> [l.nxt EXCEPT ![l.prv[p]] = n, ![n] = p, ![p] = q],
            prv |-> [l.prv EXCEPT ![n] = l.prv[p], ![p] = n, ![q] = p]]

(* An alloca changes places with the instruction before it.  When that is  *)
(* the first one it stays, and loses its prev.                             *)
swap(l, n) ==
  LET p == l.prv[n]
      q == l.nxt[n]
  IN  IF p = NULL THEN l
      ELSE IF l.prv[p] = NULL THEN [l EXCEPT !.nxt[p] = n, !.prv[n] = NULL]
      ELSE IF ~IsAlloca(n) THEN l
      ELSE [nxt |-> [l.nxt EXCEPT ![l.prv[p]] = n, ![n] = p, ![p] = q],
            prv |-> [l.prv EXCEPT ![n] = l.prv[p], ![p] = n, ![q] = p]]

(* Mutant: no early return for the instruction after the first.            *)
SwapCrashes_AtHead(l, n) ==
  IsAlloca(n) /\ l.prv[n] # NULL /\ (l.nxt[n] = NULL \/ l.prv[l.prv[n]] = NULL)

(* swap follows ir->next of an alloca it moves.                            *)
SwapCrashes(l, n) == IsAlloca(n) /\ l.nxt[n] = NULL /\ l.prv[n] # NULL /\ l.prv[l.prv[n]] # NULL

(* Up to the loop: reindex, initial_move, and one swap of the third        *)
(* instruction.                                                            *)
reorder_begin ==
  /\ phase = "done" /\ stage = "no" /\ Pos # {}
  /\ tgt' = [n \in Pos |-> IF IsJump(n) THEN reindex(At(n).tgt) ELSE None]
  /\ IF \E n \in Pos : tgt'[n] = Len(code)
     THEN stage' = "undefined" /\ links' = GenLinks /\ UNCHANGED <<from, it>>
     ELSE IF 2 \notin Pos
     THEN stage' = "reordered" /\ links' = GenLinks /\ UNCHANGED <<from, it>>
     ELSE IF SwapCrashes(GenLinks, 2)
     THEN stage' = "crashed" /\ links' = GenLinks /\ UNCHANGED <<from, it>>
     ELSE /\ links' = swap(GenLinks, 2)
          /\ from' = 2 /\ it' = links'.nxt[2] /\ stage' = "scan"
  /\ UNCHANGED <<vars, cfgVars>>

Scanning == stage = "scan" /\ it # NULL

reorder_skip ==
  /\ Scanning /\ ~IsAlloca(it)
  /\ it' = links.nxt[it]
  /\ UNCHANGED <<vars, cfgVars, stage, links, tgt, from>>

reorder_swap ==
  /\ Scanning /\ IsAlloca(it) /\ links.prv[it] # NULL
  /\ IF SwapCrashes(links, it)
     THEN stage' = "crashed" /\ UNCHANGED links
     ELSE links' = swap(links, it) /\ UNCHANGED stage
  /\ UNCHANGED <<vars, cfgVars, tgt, from, it>>

(* The alloca is in place: the scan begins anew after `_`.                 *)
reorder_next ==
  /\ Scanning /\ IsAlloca(it) /\ links.prv[it] = NULL
  /\ it' = links.nxt[from]
  /\ UNCHANGED <<vars, cfgVars, stage, links, tgt, from>>

reorder_end ==
  /\ stage = "scan" /\ it = NULL
  /\ stage' = "reordered"
  /\ UNCHANGED <<vars, cfgVars, links, tgt, from, it>>

ReorderStep == reorder_begin \/ reorder_skip \/ reorder_swap \/ reorder_next \/ reorder_end

(* The pass works on a list that is not linked into a graph.               *)
ReorderNext == \/ CfgNext /\ stage = "no" /\ UNCHANGED reorderVars
               \/ ReorderStep /\ built = "no"

ReorderSpec == CfgInit /\ ReorderInit /\ [][ReorderNext]_<<vars, cfgVars, reorderVars>>

------------------------------------------------------------------------------

(* The list as its next pointers give it, up to k instructions.            *)
Extended(s, k) ==
  IF Len(s) < k - 1 \/ links.nxt[Last(s)] = NULL THEN s ELSE Append(s, links.nxt[Last(s)])
Walk[k \in 1 .. Len(code)] == IF k = 1 THEN <<0>> ELSE Extended(Walk[k - 1], k)

Listed == Walk[Len(code)]

(* What is executed besides allocas is executed in the same order: no      *)
(* instruction is lost or doubled, those that are no allocas follow one    *)
(* another as before, and a jump goes to the one it led to before.         *)
ControlKept ==
  stage = "reordered" =>
    LET s == Listed IN
    /\ Len(s) = Len(code) /\ ToSet(s) = Pos /\ links.nxt[Last(s)] = NULL
    /\ \A j, k \in DOMAIN s : j < k /\ ~IsAlloca(s[j]) /\ ~IsAlloca(s[k]) => s[j] < s[k]
    /\ \A n \in Pos : IsJump(n) =>
         /\ ~IsAlloca(tgt[n])
         /\ At(n).tgt <= tgt[n] /\ \A m \in At(n).tgt .. tgt[n] - 1 : IsAlloca(m)

(* opt.h:81, "This collects all alloca instructions in function in one     *)
(* place": nothing stands between two allocas, and at most the first       *)
(* instruction of the function before them.                                *)
AllocasGrouped ==
  stage = "reordered" =>
    LET s == Listed IN
    \A k \in DOMAIN s : IsAlloca(s[k]) => \A j \in 2..k : IsAlloca(s[j])

(* The pass fails only on a function whose last instruction is an alloca,  *)
(* or one that jumps past its end, which ir_cfg_build would reject.        *)
FailsOnlyAtEnd ==
  /\ stage = "crashed" => IsAlloca(Len(code) - 1)
  /\ stage = "undefined" => \/ IsAlloca(Len(code) - 1)
                            \/ \E n \in Pos : IsJump(n) /\ At(n).tgt = Len(code)

(* The loop of swaps comes to an end on every list gen.c makes.            *)
ReorderEnds == stage = "scan" ~> stage # "scan"
====
