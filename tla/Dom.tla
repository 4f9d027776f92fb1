---- MODULE Dom ----
(***************************************************************************)
(* middle_end/ir/dom.c on the graph that ir_cfg_build made: the dominator  *)
(* tree by the method of Lengauer and Tarjan, with union-find and path     *)
(* compression, and dominance frontiers by that of Cooper.  The static     *)
(* arrays of dom.c are the fields of a record; visit times start at 1, and *)
(* 0 is the visit time of an instruction that was not reached.             *)
(***************************************************************************)
EXTENDS IrCfg

VARIABLES treed,   \* "no", "tree", "frontier", or "crashed"
          idom,    \* ir->idom
          df       \* ir->df

domVars == <<treed, idom, df>>

DomInit == treed = "no" /\ idom = <<>> /\ df = <<>>

(* reverse_graph[v], in the order dom_tree_fill fills it.                  *)
reverse_graph(v) == SelectSeq([k \in 1..Len(code) |-> k - 1],
                              LAMBDA u : v \in ToSet(succs[u]))

Times == 0 .. Len(code)
dom_tree_reset_state ==
  [n |-> 0, visit_time |-> [u \in Pos |-> 0], inverse |-> [i \in Times |-> 0],
   parent |-> [i \in Times |-> 0], semidom |-> [i \in Times |-> 0],
   idom |-> [i \in Times |-> 0], union_find |-> [i \in Times |-> 0],
   path |-> [i \in Times |-> 0], semidoms |-> [i \in Times |-> <<>>]]

RECURSIVE dfs(_, _)
dfs(d, u) ==
  LET i == d.n + 1
      visited == [d EXCEPT !.n = i, !.visit_time[u] = i, !.inverse[i] = u]
  IN  FoldLeft(LAMBDA a, v :
                 IF a.visit_time[v] # 0 THEN a
                 ELSE LET b == dfs(a, v) IN [b EXCEPT !.parent[b.visit_time[v]] = i],
               visited, succs[u])

(* The answer, and the arrays with the path from u compressed.             *)
RECURSIVE least_semidom(_, _)
least_semidom(d, u) ==
  IF d.union_find[u] = u THEN [d |-> d, from |-> u, to |-> u]
  ELSE LET got  == least_semidom(d, d.union_find[u])
           best == IF got.d.semidom[got.from] < got.d.semidom[got.d.path[u]]
                   THEN got.from ELSE got.d.path[u]
       IN  [d |-> [got.d EXCEPT !.union_find[u] = got.to, !.path[u] = best],
            from |-> best, to |-> got.to]

Smaller(a, b) == IF a < b THEN a ELSE b

(* Mutant: the compressed path is not asked for its least semidominator.   *)
semidominator_Plain(d, u) ==
  FoldLeft(LAMBDA a, p : [a EXCEPT !.semidom[u] = Smaller(@, a.semidom[a.visit_time[p]])],
           d, reverse_graph(d.inverse[u]))

(* Step 2 of dom_tree.  A predecessor that was not reached has time 0,     *)
(* and semidom[0] is 0.                                                    *)
semidominator(d, u) ==
  FoldLeft(LAMBDA a, p :
             LET v == a.visit_time[p]
                 l == IF v < u THEN [d |-> a, from |-> v] ELSE least_semidom(a, v)
             IN  [l.d EXCEPT !.semidom[u] = Smaller(@, l.d.semidom[l.from])],
           d, reverse_graph(d.inverse[u]))

(* Step 3, and the union of the children with u.                           *)
immediate(d, u) ==
  LET pushed == [d EXCEPT !.semidoms[d.semidom[u]] = Append(@, u)]
      named  == FoldLeft(LAMBDA a, v :
                           LET l == least_semidom(a, v)
                           IN  [l.d EXCEPT !.idom[v] = IF l.d.semidom[l.from] >= u
                                                       THEN u ELSE l.from],
                         pushed, pushed.semidoms[u])
  IN  FoldLeft(LAMBDA a, s : LET v == a.visit_time[s] IN
                             IF a.parent[v] = u THEN [a EXCEPT !.union_find[v] = u] ELSE a,
               named, succs[d.inverse[u]])

Step4(d) == FoldLeft(LAMBDA a, i : IF a.idom[i] # a.semidom[i]
                                   THEN [a EXCEPT !.idom[i] = a.idom[a.idom[i]]] ELSE a,
                     d, [i \in 1..d.n |-> i])

dom_tree(d) ==
  LET self == [i \in Times |-> IF i \in 1..d.n THEN i ELSE 0]
      begun == [d EXCEPT !.semidom = self, !.idom = self, !.union_find = self, !.path = self]
  IN  Step4(FoldLeft(LAMBDA a, u : immediate(semidominator(a, u), u),
                     begun, [i \in 1..d.n |-> d.n + 1 - i]))

(* dom_tree_fill follows every successor, a NULL one too.                  *)
ir_dominator_tree ==
  /\ Linked /\ treed = "no" /\ Pos # {}
  /\ IF \E n \in Pos : NULL \in ToSet(succs[n])
     THEN treed' = "crashed" /\ UNCHANGED idom
     ELSE /\ treed' = "tree"
          /\ idom' = LET d == dom_tree(dfs(dom_tree_reset_state, 0))
                     IN  [n \in Pos |-> d.inverse[d.idom[d.visit_time[n]]]]
  /\ UNCHANGED <<vars, cfgVars, df>>

(* The runners of one predecessor: up the tree to the idom of b.           *)
RECURSIVE runners(_, _)
runners(r, b) == IF r = idom[b] THEN {}
                 ELSE IF r = idom[r] THEN {r}
                 ELSE {r} \union runners(idom[r], b)

(* Mutant: the first predecessor stands for all of them.                   *)
frontier_of_One(b) ==
  IF Cardinality(preds[b]) >= 2
  THEN runners(CHOOSE p \in preds[b] : \A q \in preds[b] : p <= q, b) ELSE {}

frontier_of(b) ==
  IF Cardinality(preds[b]) >= 2 THEN UNION {runners(p, b) : p \in preds[b]} ELSE {}

ir_dominance_frontier ==
  /\ treed = "tree"
  /\ treed' = "frontier"
  /\ df' = LET of == [b \in Pos |-> frontier_of(b)]
           IN  [n \in Pos |-> {b \in Pos : n \in of[b]}]
  /\ UNCHANGED <<vars, cfgVars, idom>>

RECURSIVE ir_dominates(_, _)
ir_dominates(d, n) == d = n \/ (idom[n] # n /\ ir_dominates(d, idom[n]))

DomStep == ir_dominator_tree \/ ir_dominance_frontier

------------------------------------------------------------------------------

(* What control can reach from the first instruction without S.            *)
ReachAvoiding(S) ==
  LET f[k \in 0..Len(code)] ==
        IF k = 0 THEN {0} \ S
        ELSE LET r == f[k - 1]
             IN  r \union (UNION {ToSet(succs[n]) : n \in r} \ S)
  IN f[Len(code)]

Reached == ReachAvoiding({})
Dominates(d, n) == n \notin ReachAvoiding({d})

(* Instructions that are never reached have successors all the same (the   *)
(* jump over an else part, after a return).  dom.c takes them for          *)
(* predecessors.                                                           *)
NoDeadEdges == \A n \in Pos \ Reached : ToSet(succs[n]) \intersect Reached = {}

(* The dominator tree is right, whatever the graph: walking up idom        *)
(* pointers from an instruction meets exactly the instructions that every  *)
(* way to it passes.                                                       *)
DominatorsRight ==
  treed = "tree" /\ NoDeadEdges =>
    LET avoiding == [d \in Reached |-> ReachAvoiding({d})]
    IN  \A d, n \in Reached : ir_dominates(d, n) <=> n \notin avoiding[d]

(* A dominance frontier holds the joins where the dominance of an          *)
(* instruction ends: it dominates one way into the join, and not the join. *)
(* (The first instruction is never taken for a join, and a ret that stands *)
(* before an instruction is taken for a way into it.)                      *)
FrontiersRight ==
  treed = "frontier" /\ NoDeadEdges =>
    LET avoiding == [d \in Reached |-> ReachAvoiding({d})]
    IN  \A n, b \in Reached :
          (b # 0 /\ \A p \in preds[b] : b \in ToSet(succs[p])) =>
            (b \in df[n] <=> /\ \E p \in preds[b] : p \notin avoiding[n]
                             /\ ~(b \notin avoiding[n] /\ n # b))
====
