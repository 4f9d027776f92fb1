---- MODULE RegAlloc ----
(***************************************************************************)
(* middle_end/ir/regalloc.c: registers for the variables of one function.  *)
(* Live ranges are read off the stores, overlapping ranges interfere, the  *)
(* variables are coloured in the order of their numbers, and a second walk *)
(* gives every occurrence of a variable its register.  A variable that got *)
(* no colour is spilled: an occurrence borrows a register, saved and       *)
(* restored around the instruction.                                        *)
(*                                                                         *)
(* A store of an operation is "bin", any other store "store"; an absent    *)
(* operand is None.  Instructions are numbered by their place: allocas may *)
(* have been moved, but only the order of stores matters to live ranges.   *)
(***************************************************************************)
EXTENDS Integers, Sequences

CONSTANTS VarsLimit,  \* REG_ALLOC_VARS_LIMIT
          Regs,       \* reg_alloc_max_regs
          Programs    \* function bodies: sequences of Instr

None == -1
Vars == 0 .. VarsLimit - 1
Instr == [op : {"alloca", "store", "bin", "cond", "ret"},
          res : Vars \union {None}, lhs : Vars \union {None}, rhs : Vars \union {None}]

ASSUME LimitsAssumption == VarsLimit \in Nat /\ Regs \in Nat
ASSUME ProgramsAssumption == Programs \subseteq Seq(Instr)

Operands(ins) == {ins.res, ins.lhs, ins.rhs} \ {None}

(* An alloca, a condition or a ret names one variable: gen.c compares the  *)
(* variable of a condition with an immediate, and returns a variable.      *)
ASSUME ShapesAssumption ==
  \A p \in Programs : \A n \in DOMAIN p :
    p[n].op \notin {"store", "bin"} => \A u, v \in Operands(p[n]) : u = v

VARIABLES code,     \* the instructions of the function
          pc,       \* "ranges", "color", "assign", "done" or "crashed"
          i,        \* loop counter of the running phase
          ranges,   \* live_range_info
          graph,    \* interference_graph: a set of pairs
          color,    \* reg_allocator.color
          spill,    \* reg_allocator.spill
          claims,   \* registers claimed: [at, sym, reg, saved]
          spilled   \* history: the variables reg_alloc found no colour for

vars == <<code, pc, i, ranges, graph, color, spill, claims, spilled>>

Init ==
  /\ code \in Programs /\ pc = "ranges" /\ i = 0
  /\ ranges = [v \in Vars |-> [start |-> -1, end |-> -1]]
  /\ graph = {}
  /\ color = [v \in Vars |-> -1] /\ spill = [v \in Vars |-> FALSE]
  /\ claims = {} /\ spilled = {}

(* Instruction i, as instr_idx counts. *)
Cur == code[i + 1]

------------------------------------------------------------------------------

(* Mutant: a range starts at its last use. *)
touch_Last(r, v, k) == IF v = None THEN r ELSE [r EXCEPT ![v] = [start |-> k, end |-> k]]

(* A use of v in instruction k. *)
touch(r, v, k) ==
  IF v = None THEN r
  ELSE [r EXCEPT ![v] = [start |-> IF r[v].start = -1 THEN k ELSE r[v].start, end |-> k]]

(* Mutant: the right operand is forgotten. *)
live_range_store_NoRight(r, ins, k) == touch(touch(r, ins.res, k), ins.lhs, k)

live_range_store(r, ins, k) ==
  touch(touch(touch(r, ins.res, k), ins.lhs, k), ins.rhs, k)

reg_alloc_live_ranges ==
  /\ pc = "ranges" /\ i < Len(code)
  /\ ranges' = IF Cur.op \in {"store", "bin"} THEN live_range_store(ranges, Cur, i) ELSE ranges
  /\ i' = i + 1
  /\ UNCHANGED <<code, pc, graph, color, spill, claims, spilled>>

Overlap(u, v) == ranges[u].start <= ranges[v].end /\ ranges[v].start <= ranges[u].end

(* Mutant: ranges that meet in one instruction do not interfere. *)
reg_alloc_build_graph_Strict ==
  /\ pc = "ranges" /\ i = Len(code)
  /\ graph' = {e \in Vars \X Vars : /\ ranges[e[1]].start < ranges[e[2]].end
                                    /\ ranges[e[2]].start < ranges[e[1]].end}
  /\ pc' = "color" /\ i' = 0
  /\ UNCHANGED <<code, ranges, color, spill, claims, spilled>>

reg_alloc_build_graph ==
  /\ pc = "ranges" /\ i = Len(code)
  /\ graph' = {e \in Vars \X Vars : e[1] # e[2] /\ Overlap(e[1], e[2])}
  /\ pc' = "color" /\ i' = 0
  /\ UNCHANGED <<code, ranges, color, spill, claims, spilled>>

------------------------------------------------------------------------------

(* Mutant: one register too few. *)
available_Less == {r \in 0 .. Regs - 2 : ~\E j \in Vars : <<i, j>> \in graph /\ color[j] = r}

available == {r \in 0 .. Regs - 1 : ~\E j \in Vars : <<i, j>> \in graph /\ color[j] = r}

(* The first register no neighbour has. *)
ColorVar ==
  /\ pc = "color" /\ i < VarsLimit
  /\ \E r \in available : /\ \A q \in available : r <= q
                         /\ color' = [color EXCEPT ![i] = r]
  /\ i' = i + 1
  /\ UNCHANGED <<code, pc, ranges, graph, spill, claims, spilled>>

SpillVar ==
  /\ pc = "color" /\ i < VarsLimit /\ available = {}
  /\ spill' = [spill EXCEPT ![i] = TRUE]
  /\ spilled' = spilled \union {i}
  /\ i' = i + 1
  /\ UNCHANGED <<code, pc, ranges, graph, color, claims>>

ColorDone ==
  /\ pc = "color" /\ i = VarsLimit
  /\ pc' = "assign" /\ i' = 0
  /\ UNCHANGED <<code, ranges, graph, color, spill, claims, spilled>>

------------------------------------------------------------------------------
(* The second walk, on a = [color, spill, claims]. *)

Claim(v, reg, saved) == [at |-> i, sym |-> v, reg |-> reg, saved |-> saved]

assign_sym(a, v) ==
  IF v = None \/ a.spill[v] THEN a
  ELSE [a EXCEPT !.claims = @ \union {Claim(v, a.color[v], FALSE)}]

(* select_spill_reg finds register 0: reg_free is 0 outside put_spill and   *)
(* put_reload.  The spill mark of the variable becomes the number of that  *)
(* register, which is to say false.                                        *)
handle_spill(a, v) ==
  IF v = None \/ ~a.spill[v] \/ Regs = 0 THEN a
  ELSE [color  |-> [a.color EXCEPT ![v] = 0],
        spill  |-> [a.spill EXCEPT ![v] = FALSE],
        claims |-> a.claims \union {Claim(v, 0, TRUE)}]

assign_claimed_reg(a, ins) ==
  LET syms == assign_sym(assign_sym(assign_sym(a, ins.res), ins.lhs), ins.rhs)
  IN  CASE ins.op = "store" -> handle_spill(syms, ins.res)
        [] ins.op = "bin"   -> handle_spill(handle_spill(handle_spill(syms, ins.lhs), ins.rhs), ins.res)
        [] OTHER            -> syms

(* The operation of a condition has no parent: a spilled variable in it is *)
(* spilled around NULL.                                                    *)
NoParent == Cur.op = "cond" /\ Cur.lhs # None /\ spill[Cur.lhs] /\ Regs > 0

reg_alloc_assign ==
  /\ pc = "assign" /\ i < Len(code) /\ ~NoParent
  /\ LET a == assign_claimed_reg([color |-> color, spill |-> spill, claims |-> claims], Cur)
     IN  color' = a.color /\ spill' = a.spill /\ claims' = a.claims
  /\ i' = i + 1
  /\ UNCHANGED <<code, pc, ranges, graph, spilled>>

AssignCrash ==
  /\ pc = "assign" /\ i < Len(code) /\ NoParent
  /\ pc' = "crashed"
  /\ UNCHANGED <<code, i, ranges, graph, color, spill, claims, spilled>>

AssignDone ==
  /\ pc = "assign" /\ i = Len(code)
  /\ pc' = "done" /\ i' = 0
  /\ UNCHANGED <<code, ranges, graph, color, spill, claims, spilled>>

Next == \/ reg_alloc_live_ranges \/ reg_alloc_build_graph \/ ColorVar \/ SpillVar
        \/ ColorDone \/ reg_alloc_assign \/ AssignCrash \/ AssignDone

Spec == Init /\ [][Next]_vars

------------------------------------------------------------------------------

(* Type invariant; a colour is the number of a register.                   *)
TypeOK ==
  /\ code \in Seq(Instr) /\ i \in Nat
  /\ pc \in {"ranges", "color", "assign", "done", "crashed"}
  /\ pc \in {"ranges", "assign"} => i <= Len(code)
  /\ pc = "color" => i <= VarsLimit
  /\ ranges \in [Vars -> [start : Int, end : Int]]
  /\ graph \subseteq Vars \X Vars
  /\ color \in [Vars -> -1 .. Regs - 1]
  /\ spill \in [Vars -> BOOLEAN]
  /\ claims \subseteq [at : Nat, sym : Vars, reg : -1 .. Regs - 1, saved : BOOLEAN]
  /\ spilled \subseteq Vars

(* Variables whose live ranges overlap have different registers, unless     *)
(* one of them was spilled.                                                *)
ProperColoring ==
  \A u, v \in Vars \ spilled :
    (u # v /\ color[u] # -1 /\ Overlap(u, v)) => color[u] # color[v]

(* A variable is spilled only if its neighbours hold every register.       *)
SpillIsForced ==
  \A v \in spilled, r \in 0 .. Regs - 1 :
    \E u \in Vars : u # v /\ Overlap(u, v) /\ color[u] = r

(* The live range of a variable contains every store that names it.        *)
RangesCoverStores ==
  \A k \in 0 .. Len(code) - 1 :
    (code[k + 1].op \in {"store", "bin"} /\ (pc = "ranges" => k < i)) =>
      \A v \in Operands(code[k + 1]) : ranges[v].start <= k /\ k <= ranges[v].end

(* No store has two variables in one register, spilled ones aside.         *)
OperandsApart ==
  \A c, d \in claims :
    (c.at = d.at /\ c.sym # d.sym /\ c.sym \notin spilled /\ d.sym \notin spilled)
      => c.reg # d.reg

====
