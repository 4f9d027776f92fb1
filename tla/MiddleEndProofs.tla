---- MODULE MiddleEndProofs ----
(***************************************************************************)
(* Theorems about RegAlloc, for any number of variables and registers and  *)
(* any function, and about OptArith, for any width of the integers.        *)
(*                                                                         *)
(* RegAlloc.  The inductive invariant IInv adds to the properties what     *)
(* the phases of reg_alloc_fn know of each other: ranges are complete and  *)
(* the graph is their overlap once colouring starts, a variable that has   *)
(* not been reached has no colour, and only a spilled variable, while it   *)
(* still has none, can be given one by the second walk.                    *)
(*                                                                         *)
(* OptArith.  Stages says what the body is in each phase; the rest are     *)
(* laws of the arithmetic: numbers in range are their own wrapped value,   *)
(* x | 0 is x and x & 0 is 0 bit by bit, and a product with a power of two *)
(* is the shift.                                                           *)
(***************************************************************************)
EXTENDS RegAlloc, OptArith, WellFoundedInduction, TLAPS

Opnds == Vars \union {None}
Claims == [at : Nat, sym : Vars, reg : -1 .. Regs - 1, saved : BOOLEAN]
Walks == [color : [Vars -> -1 .. Regs - 1], spill : [Vars -> BOOLEAN], claims : SUBSET Claims]

(* A store that live ranges have been read off. *)
Seen(k) == /\ k \in 0 .. Len(code) - 1
           /\ code[k + 1].op \in {"store", "bin"}
           /\ pc = "ranges" => k < i

(* What the live ranges know: touched ones hold the stores seen so far.    *)
RangeInv ==
  /\ \A v \in Vars : ranges[v].start >= -1 /\ (pc = "ranges" => ranges[v].start < i /\ ranges[v].end < i)
  /\ \A k \in Nat : Seen(k) => \A v \in Operands(code[k + 1]) :
       0 <= ranges[v].start /\ ranges[v].start <= k /\ k <= ranges[v].end

(* What the colours and the spill marks know in each phase.                *)
ColorInv ==
  /\ pc # "ranges" => graph = {e \in Vars \X Vars : e[1] # e[2] /\ Overlap(e[1], e[2])}
  /\ pc = "ranges" => color = [v \in Vars |-> -1] /\ spilled = {}
  /\ pc = "color" => \A v \in Vars : v >= i => color[v] = -1 /\ v \notin spilled
  /\ \A v \in Vars : spill[v] => v \in spilled /\ color[v] = -1

IInv == TypeOK /\ RangeInv /\ ColorInv /\ ProperColoring /\ SpillIsForced

------------------------------------------------------------------------------

(* Touching a range gives a range. *)
LEMMA TouchType ==
  ASSUME NEW r \in [Vars -> [start : Int, end : Int]], NEW v \in Opnds, NEW k \in Nat
  PROVE  touch(r, v, k) \in [Vars -> [start : Int, end : Int]]
BY DEF touch, Opnds, None, Vars

(* What one touch does to every range: none moves, but that of v ends at k *)
(* and starts there if it had no start.                                    *)
LEMMA TouchEffect ==
  ASSUME NEW r \in [Vars -> [start : Int, end : Int]], NEW v \in Opnds, NEW k \in Nat,
         NEW w \in Vars
  PROVE  /\ w # v => touch(r, v, k)[w] = r[w]
         /\ w = v => /\ touch(r, v, k)[w].end = k
                     /\ touch(r, v, k)[w].start = IF r[w].start = -1 THEN k ELSE r[w].start
BY DEF touch, Opnds, None, Vars

(* A record of colours, spill marks and claims is a state of the walk. *)
LEMMA WalkRecord ==
  ASSUME NEW c \in [Vars -> -1 .. Regs - 1], NEW s \in [Vars -> BOOLEAN], NEW m \in SUBSET Claims
  PROVE  [color |-> c, spill |-> s, claims |-> m] \in Walks
BY DEF Walks

(* A walk over one operand keeps the colours, the spill marks and the type. *)
LEMMA AssignSymKeeps ==
  ASSUME NEW a \in Walks, NEW v \in Opnds, i \in Nat
  PROVE  /\ assign_sym(a, v) \in Walks
         /\ assign_sym(a, v).color = a.color /\ assign_sym(a, v).spill = a.spill
<1>1. CASE v = None \/ a.spill[v]
  BY <1>1 DEF assign_sym, Walks
<1>2. CASE ~(v = None \/ a.spill[v])
  <2>1. v \in Vars  BY <1>2 DEF Opnds
  <2>2. Claim(v, a.color[v], FALSE) \in Claims  BY <2>1 DEF Claim, Claims, Walks
  <2>3. assign_sym(a, v) = [a EXCEPT !.claims = @ \union {Claim(v, a.color[v], FALSE)}]
    BY <1>2 DEF assign_sym
  <2> QED  BY <2>2, <2>3 DEF Walks
<1> QED  BY <1>1, <1>2

(* A later state b of the walk has new colours for spilled variables only. *)
Recolors(a, b) ==
  \A v \in Vars : /\ b.color[v] # a.color[v] => a.spill[v] /\ ~b.spill[v]
                  /\ b.spill[v] => a.spill[v]

(* handle_spill gives the spilled variable register 0 and its mark back. *)
LEMMA HandleSpillKeeps ==
  ASSUME NEW a \in Walks, NEW v \in Opnds, i \in Nat
  PROVE  handle_spill(a, v) \in Walks /\ Recolors(a, handle_spill(a, v))
<1>1. CASE v = None \/ ~a.spill[v] \/ Regs = 0
  BY <1>1 DEF handle_spill, Walks, Recolors
<1>2. CASE ~(v = None \/ ~a.spill[v] \/ Regs = 0)
  <2>1. v \in Vars  BY <1>2 DEF Opnds
  <2>2. 0 \in -1 .. Regs - 1  BY <1>2, LimitsAssumption
  <2>3. Claim(v, 0, TRUE) \in Claims  BY <2>1, <2>2 DEF Claim, Claims
  <2>4. handle_spill(a, v) = [color  |-> [a.color EXCEPT ![v] = 0],
                              spill  |-> [a.spill EXCEPT ![v] = FALSE],
                              claims |-> a.claims \union {Claim(v, 0, TRUE)}]
    BY <1>2 DEF handle_spill
  <2>5. handle_spill(a, v) \in Walks
    <3>1. [a.color EXCEPT ![v] = 0] \in [Vars -> -1 .. Regs - 1]  BY <2>1, <2>2 DEF Walks
    <3>2. [a.spill EXCEPT ![v] = FALSE] \in [Vars -> BOOLEAN]  BY <2>1 DEF Walks
    <3>3. a.claims \union {Claim(v, 0, TRUE)} \in SUBSET Claims  BY <2>3 DEF Walks
    <3>4. [color |-> [a.color EXCEPT ![v] = 0], spill |-> [a.spill EXCEPT ![v] = FALSE],
           claims |-> a.claims \union {Claim(v, 0, TRUE)}] \in Walks
      BY <3>1, <3>2, <3>3, WalkRecord
    <3> QED  BY <2>4, <3>4, Zenon
  <2>6. Recolors(a, handle_spill(a, v))  BY <1>2, <2>1, <2>4 DEF Walks, Recolors
  <2> QED  BY <2>5, <2>6
<1> QED  BY <1>1, <1>2

(* Recoloring composes. *)
LEMMA RecolorsTransitive ==
  ASSUME NEW a \in Walks, NEW b \in Walks, NEW c \in Walks, Recolors(a, b), Recolors(b, c)
  PROVE  Recolors(a, c)
BY DEF Recolors, Walks

(* The whole walk over one instruction. *)
LEMMA AssignKeeps ==
  ASSUME NEW a \in Walks, NEW ins \in Instr, i \in Nat
  PROVE  assign_claimed_reg(a, ins) \in Walks /\ Recolors(a, assign_claimed_reg(a, ins))
<1> DEFINE s1 == assign_sym(a, ins.res)
           s2 == assign_sym(s1, ins.lhs)
           s3 == assign_sym(s2, ins.rhs)
           h1 == handle_spill(s3, ins.lhs)
           h2 == handle_spill(h1, ins.rhs)
           h3 == handle_spill(h2, ins.res)
<1>0. ins.res \in Opnds /\ ins.lhs \in Opnds /\ ins.rhs \in Opnds
  BY DEF Instr, Opnds
<1>1. s1 \in Walks /\ s1.color = a.color /\ s1.spill = a.spill  BY <1>0, AssignSymKeeps
<1>2. s2 \in Walks /\ s2.color = s1.color /\ s2.spill = s1.spill  BY <1>0, <1>1, AssignSymKeeps
<1>3. s3 \in Walks /\ s3.color = s2.color /\ s3.spill = s2.spill  BY <1>0, <1>2, AssignSymKeeps
<1>4. Recolors(a, s3)  BY <1>1, <1>2, <1>3 DEF Recolors
<1>5. handle_spill(s3, ins.res) \in Walks /\ Recolors(s3, handle_spill(s3, ins.res))
  BY <1>0, <1>3, HandleSpillKeeps
<1>6. h1 \in Walks /\ Recolors(s3, h1)  BY <1>0, <1>3, HandleSpillKeeps
<1>7. h2 \in Walks /\ Recolors(h1, h2)  BY <1>0, <1>6, HandleSpillKeeps
<1>8. h3 \in Walks /\ Recolors(h2, h3)  BY <1>0, <1>7, HandleSpillKeeps
<1>9. Recolors(a, handle_spill(s3, ins.res))  BY <1>3, <1>4, <1>5, RecolorsTransitive
<1>10. Recolors(a, h1)  BY <1>3, <1>4, <1>6, RecolorsTransitive
<1>11. Recolors(a, h2)  BY <1>6, <1>7, <1>10, RecolorsTransitive
<1>12. Recolors(a, h3)  BY <1>7, <1>8, <1>11, RecolorsTransitive
<1>13. \/ assign_claimed_reg(a, ins) = handle_spill(s3, ins.res)
       \/ assign_claimed_reg(a, ins) = h3
       \/ assign_claimed_reg(a, ins) = s3
  <2> HIDE DEF s1, s2, s3, h1, h2, h3
  <2>1. assign_sym(assign_sym(assign_sym(a, ins.res), ins.lhs), ins.rhs) = s3  BY DEF s1, s2, s3
  <2>2. handle_spill(handle_spill(handle_spill(s3, ins.lhs), ins.rhs), ins.res) = h3  BY DEF h1, h2, h3
  <2>3. CASE ins.op = "store"  BY <2>1, <2>3 DEF assign_claimed_reg
  <2>4. CASE ins.op = "bin"    BY <2>1, <2>2, <2>4 DEF assign_claimed_reg
  <2>5. CASE ins.op \notin {"store", "bin"}  BY <2>1, <2>5 DEF assign_claimed_reg
  <2> QED  BY <2>3, <2>4, <2>5
<1> HIDE DEF s1, s2, s3, h1, h2, h3
<1> QED  BY <1>3, <1>4, <1>5, <1>8, <1>9, <1>12, <1>13

------------------------------------------------------------------------------

(* The instruction a walk is at has operands that are variables or absent. *)
LEMMA CurType ==
  ASSUME TypeOK, pc \in {"ranges", "assign"}, i < Len(code)
  PROVE  Cur \in Instr /\ Cur.res \in Opnds /\ Cur.lhs \in Opnds /\ Cur.rhs \in Opnds
<1>1. i + 1 \in 1 .. Len(code)  BY DEF TypeOK
<1>2. Cur \in Instr  BY <1>1 DEF TypeOK, Cur
<1> QED  BY <1>2 DEF Instr, Opnds

(* reg_alloc_fn starts with nothing coloured and nothing spilled. *)
LEMMA InitInv == Init => IInv
<1> SUFFICES ASSUME Init PROVE IInv  OBVIOUS
<1>1. TypeOK  BY ProgramsAssumption, LimitsAssumption DEF Init, TypeOK
<1>2. RangeInv  BY DEF Init, RangeInv, Seen
<1>3. ColorInv  BY DEF Init, ColorInv
<1>4. ProperColoring  BY DEF Init, ProperColoring
<1>5. SpillIsForced  BY DEF Init, SpillIsForced
<1> QED  BY <1>1, <1>2, <1>3, <1>4, <1>5 DEF IInv

(* reg_alloc_live_ranges extends the ranges of the variables of a store. *)
LEMMA RangesKeep ==
  ASSUME IInv, reg_alloc_live_ranges
  PROVE  IInv'
<1> USE DEF IInv
<1>0. pc = "ranges" /\ pc' = "ranges" /\ i \in Nat /\ i < Len(code) /\ i' = i + 1 /\ code' = code
  BY DEF reg_alloc_live_ranges, TypeOK
<1>1. Cur \in Instr /\ Cur.res \in Opnds /\ Cur.lhs \in Opnds /\ Cur.rhs \in Opnds
  BY <1>0, CurType
<1> DEFINE t1 == touch(ranges, Cur.res, i)
           t2 == touch(t1, Cur.lhs, i)
           t3 == touch(t2, Cur.rhs, i)
<1>2. ranges \in [Vars -> [start : Int, end : Int]]  BY DEF TypeOK
<1>3. t1 \in [Vars -> [start : Int, end : Int]]  BY <1>0, <1>1, <1>2, TouchType
<1>4. t2 \in [Vars -> [start : Int, end : Int]]  BY <1>0, <1>1, <1>3, TouchType
<1>5. t3 \in [Vars -> [start : Int, end : Int]]  BY <1>0, <1>1, <1>4, TouchType
<1>6. \A w \in Vars : /\ w # Cur.res => t1[w] = ranges[w]
                      /\ w = Cur.res => /\ t1[w].end = i
                                        /\ t1[w].start = IF ranges[w].start = -1 THEN i ELSE ranges[w].start
  BY <1>0, <1>1, <1>2, TouchEffect
<1>7. \A w \in Vars : /\ w # Cur.lhs => t2[w] = t1[w]
                      /\ w = Cur.lhs => /\ t2[w].end = i
                                        /\ t2[w].start = IF t1[w].start = -1 THEN i ELSE t1[w].start
  BY <1>0, <1>1, <1>3, TouchEffect
<1>8. \A w \in Vars : /\ w # Cur.rhs => t3[w] = t2[w]
                      /\ w = Cur.rhs => /\ t3[w].end = i
                                        /\ t3[w].start = IF t2[w].start = -1 THEN i ELSE t2[w].start
  BY <1>0, <1>1, <1>4, TouchEffect
<1>9. ranges' = IF Cur.op \in {"store", "bin"} THEN t3 ELSE ranges
  BY DEF reg_alloc_live_ranges, live_range_store
<1> HIDE DEF t1, t2, t3
<1>10. TypeOK'  BY <1>0, <1>2, <1>5, <1>9 DEF TypeOK, reg_alloc_live_ranges
(* Every range keeps its start or starts now, and ends where it did or now. *)
<1>11. ASSUME NEW w \in Vars
       PROVE  /\ ranges'[w].start = ranges[w].start \/ (ranges[w].start = -1 /\ ranges'[w].start = i)
              /\ ranges'[w].end = ranges[w].end \/ ranges'[w].end = i
  <2>1. CASE Cur.op \notin {"store", "bin"}  BY <1>9, <2>1
  <2>2. CASE Cur.op \in {"store", "bin"}
    <3>1. ranges' = t3  BY <1>9, <2>2
    <3>2. i # -1  BY <1>0
    <3>3. t1[w].start = ranges[w].start \/ (ranges[w].start = -1 /\ t1[w].start = i)  BY <1>6
    <3>4. t2[w].start = ranges[w].start \/ (ranges[w].start = -1 /\ t2[w].start = i)  BY <1>7, <3>2, <3>3
    <3>5. t3[w].start = ranges[w].start \/ (ranges[w].start = -1 /\ t3[w].start = i)  BY <1>8, <3>2, <3>4
    <3>6. t3[w].end = ranges[w].end \/ t3[w].end = i  BY <1>6, <1>7, <1>8
    <3> QED  BY <3>1, <3>5, <3>6
  <2> QED  BY <2>1, <2>2
<1>12. ASSUME NEW w \in Vars, w \in Operands(Cur), Cur.op \in {"store", "bin"}
       PROVE  0 <= ranges'[w].start /\ ranges'[w].start <= i /\ ranges'[w].end = i
  <2>1. ranges[w].start >= -1 /\ ranges[w].start \in Int /\ ranges[w].start < i
    BY <1>0, <1>2 DEF RangeInv
  <2>2. ranges' = t3  BY <1>9, <1>12
  <2>3. w \in {Cur.res, Cur.lhs, Cur.rhs}  BY <1>12 DEF Operands
  <2>4. t1[w].start \in Int /\ t2[w].start \in Int /\ t3[w].start \in Int  BY <1>3, <1>4, <1>5
  <2>5. t3[w].end = i  BY <1>6, <1>7, <1>8, <2>3
  <2>6. 0 <= t3[w].start /\ t3[w].start <= i
    BY <1>0, <1>6, <1>7, <1>8, <2>1, <2>3, <2>4
  <2> QED  BY <2>2, <2>5, <2>6
<1>13. ASSUME NEW w \in Vars
       PROVE  ranges'[w].start >= -1 /\ ranges'[w].start < i + 1 /\ ranges'[w].end < i + 1
  <2>1. /\ ranges[w].start \in Int /\ ranges[w].end \in Int
        /\ ranges[w].start >= -1 /\ ranges[w].start < i /\ ranges[w].end < i
    BY <1>0, <1>2 DEF RangeInv
  <2> QED  BY <1>0, <1>11, <2>1
<1>14. ASSUME NEW k \in Nat, Seen(k)', NEW w \in Operands(code'[k + 1])
       PROVE  0 <= ranges'[w].start /\ ranges'[w].start <= k /\ k <= ranges'[w].end
  <2>1. /\ k \in 0 .. Len(code) - 1 /\ code[k + 1].op \in {"store", "bin"} /\ k < i + 1
        /\ w \in Operands(code[k + 1])
    BY <1>0, <1>14 DEF Seen
  <2>2. k + 1 \in 1 .. Len(code) /\ code[k + 1] \in Instr  BY <2>1 DEF TypeOK
  <2>3. w \in Vars  BY <2>1, <2>2 DEF Operands, Instr
  <2>4. CASE k = i  BY <1>0, <1>12, <2>1, <2>3, <2>4 DEF Cur
  <2>5. CASE k < i
    <3>1. Seen(k)  BY <1>0, <2>1, <2>5 DEF Seen
    <3>2. 0 <= ranges[w].start /\ ranges[w].start <= k /\ k <= ranges[w].end
      BY <2>1, <3>1 DEF RangeInv
    <3> QED  BY <1>0, <1>2, <1>11, <2>3, <2>5, <3>2
  <2> QED  BY <1>0, <2>1, <2>4, <2>5
<1>15. RangeInv'  BY <1>0, <1>13, <1>14 DEF RangeInv
<1>16. ColorInv'  BY <1>0 DEF ColorInv, reg_alloc_live_ranges
<1>17. ProperColoring'
  <2>1. color' = [v \in Vars |-> -1]  BY <1>0 DEF ColorInv, reg_alloc_live_ranges
  <2> QED  BY <2>1 DEF ProperColoring
<1>18. SpillIsForced'  BY <1>0 DEF ColorInv, SpillIsForced, reg_alloc_live_ranges
<1> QED  BY <1>10, <1>15, <1>16, <1>17, <1>18

(* reg_alloc_build_graph leaves the ranges and starts colouring from none. *)
LEMMA GraphKeeps ==
  ASSUME IInv, reg_alloc_build_graph
  PROVE  IInv'
<1> USE DEF IInv, reg_alloc_build_graph
<1>1. TypeOK'  BY LimitsAssumption DEF TypeOK
<1>2. RangeInv'
  <2>1. \A k \in Nat : Seen(k)' => Seen(k)  BY DEF Seen, TypeOK
  <2> QED  BY <2>1 DEF RangeInv
<1>3. ColorInv'  BY DEF ColorInv, Overlap, TypeOK, Vars
<1>4. ProperColoring'  BY DEF ProperColoring, ColorInv, Overlap
<1>5. SpillIsForced'  BY DEF SpillIsForced, ColorInv
<1> QED  BY <1>1, <1>2, <1>3, <1>4, <1>5

(* ColorVar takes a register that no neighbour has. *)
LEMMA ColorKeeps ==
  ASSUME IInv, ColorVar
  PROVE  IInv'
<1> USE DEF IInv
<1>1. pc = "color" /\ pc' = "color" /\ i \in Vars /\ i' = i + 1 /\ color[i] = -1 /\ i \notin spilled
  BY LimitsAssumption DEF ColorVar, TypeOK, ColorInv, Vars
<1>2. PICK r \in available : color' = [color EXCEPT ![i] = r]
  BY DEF ColorVar
<1>3. /\ r \in 0 .. Regs - 1 /\ r # -1
      /\ \A u \in Vars : (u # i /\ Overlap(i, u)) => color[u] # r
  BY <1>1, <1>2, LimitsAssumption DEF available, ColorInv
<1>4. TypeOK'
  <2>0. r \in -1 .. Regs - 1 /\ color \in [Vars -> -1 .. Regs - 1]
    BY <1>3, LimitsAssumption DEF TypeOK
  <2>1. color' \in [Vars -> -1 .. Regs - 1]  BY <1>2, <2>0
  <2> QED  BY SMTT(30), <1>1, <2>1, LimitsAssumption DEF TypeOK, ColorVar, Vars
<1>5. RangeInv'
  <2>1. \A k \in Nat : Seen(k)' => Seen(k)  BY <1>1 DEF Seen, ColorVar
  <2> QED  BY <1>1, <2>1 DEF RangeInv, ColorVar
<1>6. \A u \in Vars : u # i => color'[u] = color[u]  BY <1>2 DEF TypeOK
<1>7. color'[i] = r  BY <1>1, <1>2 DEF TypeOK
<1>8. \A u, v \in Vars : Overlap(u, v)' <=> Overlap(u, v)  BY DEF Overlap, ColorVar
<1>9. \A u, v \in Vars : Overlap(u, v) => Overlap(v, u)  BY DEF Overlap
<1>10. ColorInv'
  <2>1. graph' = {e \in Vars \X Vars : e[1] # e[2] /\ Overlap(e[1], e[2])'}
    BY <1>1, <1>8 DEF ColorInv, ColorVar
  <2>2. \A v \in Vars : v >= i + 1 => color'[v] = -1 /\ v \notin spilled'
    BY <1>1, <1>6, LimitsAssumption DEF ColorInv, ColorVar, Vars
  <2>3. \A v \in Vars : spill'[v] => v \in spilled' /\ color'[v] = -1
    BY <1>1, <1>6 DEF ColorInv, ColorVar
  <2> QED  BY <1>1, <2>1, <2>2, <2>3 DEF ColorInv, ColorVar
<1>11. ProperColoring'
  <2> SUFFICES ASSUME NEW u \in Vars \ spilled, NEW v \in Vars \ spilled,
                      u # v, color'[u] # -1, Overlap(u, v)
               PROVE  color'[u] # color'[v]
    BY <1>8 DEF ProperColoring, ColorVar
  <2>1. CASE u = i  BY <1>3, <1>6, <1>7, <2>1
  <2>2. CASE v = i  BY <1>1, <1>3, <1>6, <1>7, <1>9, <2>2
  <2>3. CASE u # i /\ v # i  BY <1>6, <2>3 DEF ProperColoring
  <2> QED  BY <2>1, <2>2, <2>3
<1>12. SpillIsForced'
  <2> SUFFICES ASSUME NEW v \in spilled, NEW q \in 0 .. Regs - 1
               PROVE  \E u \in Vars : u # v /\ Overlap(u, v) /\ color'[u] = q
    BY <1>8 DEF SpillIsForced, ColorVar, TypeOK
  <2>1. PICK u \in Vars : u # v /\ Overlap(u, v) /\ color[u] = q  BY DEF SpillIsForced
  <2>2. u # i  BY <1>1, <2>1
  <2> QED  BY <1>6, <2>1, <2>2
<1> QED  BY <1>4, <1>5, <1>10, <1>11, <1>12

(* SpillVar spills a variable whose neighbours hold every register. *)
LEMMA SpillKeeps ==
  ASSUME IInv, SpillVar
  PROVE  IInv'
<1> USE DEF IInv
<1>1. pc = "color" /\ pc' = "color" /\ i \in Vars /\ i' = i + 1 /\ color[i] = -1 /\ i \notin spilled
  BY LimitsAssumption DEF SpillVar, TypeOK, ColorInv, Vars
<1>2. \A q \in 0 .. Regs - 1 : \E u \in Vars : u # i /\ Overlap(u, i) /\ color[u] = q
  <2> SUFFICES ASSUME NEW q \in 0 .. Regs - 1
               PROVE  \E u \in Vars : u # i /\ Overlap(u, i) /\ color[u] = q
    OBVIOUS
  <2>1. PICK u \in Vars : <<i, u>> \in graph /\ color[u] = q  BY DEF SpillVar, available
  <2>2. u # i /\ Overlap(i, u)  BY <1>1, <2>1 DEF ColorInv
  <2> QED  BY <2>1, <2>2 DEF Overlap
<1>3. TypeOK'  BY SMTT(30), <1>1, LimitsAssumption DEF TypeOK, SpillVar, Vars
<1>4. RangeInv'
  <2>1. \A k \in Nat : Seen(k)' => Seen(k)  BY <1>1 DEF Seen, SpillVar
  <2> QED  BY <1>1, <2>1 DEF RangeInv, SpillVar
<1>5. \A u, v \in Vars : Overlap(u, v)' <=> Overlap(u, v)  BY DEF Overlap, SpillVar
<1>6. ColorInv'
  <2>1. graph' = {e \in Vars \X Vars : e[1] # e[2] /\ Overlap(e[1], e[2])'}
    BY <1>1, <1>5 DEF ColorInv, SpillVar
  <2>2. \A v \in Vars : v >= i + 1 => color'[v] = -1 /\ v \notin spilled'
    BY <1>1, LimitsAssumption DEF ColorInv, SpillVar, Vars
  <2>3. \A v \in Vars : spill'[v] => v \in spilled' /\ color'[v] = -1
    BY <1>1 DEF ColorInv, SpillVar, TypeOK
  <2> QED  BY <1>1, <2>1, <2>2, <2>3 DEF ColorInv, SpillVar
<1>7. ProperColoring'  BY <1>5 DEF ProperColoring, SpillVar
<1>8. SpillIsForced'
  <2> SUFFICES ASSUME NEW v \in spilled \union {i}, NEW q \in 0 .. Regs - 1
               PROVE  \E u \in Vars : u # v /\ Overlap(u, v) /\ color[u] = q
    BY <1>1, <1>5 DEF SpillIsForced, SpillVar, TypeOK
  <2>1. CASE v = i  BY <1>2, <2>1
  <2>2. CASE v \in spilled  BY <2>2 DEF SpillIsForced
  <2> QED  BY <2>1, <2>2
<1> QED  BY <1>3, <1>4, <1>6, <1>7, <1>8

(* Steps that only change the phase. *)
LEMMA PhaseKeeps ==
  ASSUME IInv, ColorDone \/ AssignDone \/ AssignCrash
  PROVE  IInv'
<1> USE DEF IInv, ColorDone, AssignDone, AssignCrash
<1>1. TypeOK'  BY SMTT(30), LimitsAssumption DEF TypeOK
<1>2. RangeInv'
  <2>1. \A k \in Nat : Seen(k)' => Seen(k)  BY DEF Seen
  <2> QED  BY <2>1 DEF RangeInv
<1>3. ColorInv'  BY DEF ColorInv, Overlap
<1>4. ProperColoring'  BY DEF ProperColoring, Overlap
<1>5. SpillIsForced'  BY DEF SpillIsForced, Overlap
<1> QED  BY <1>1, <1>2, <1>3, <1>4, <1>5

(* reg_alloc_assign gives a colour only to spilled variables without one. *)
LEMMA AssignStepKeeps ==
  ASSUME IInv, reg_alloc_assign
  PROVE  IInv'
<1> USE DEF IInv
<1>1. pc = "assign" /\ pc' = "assign" /\ i \in Nat /\ i < Len(code) /\ i' = i + 1
  BY DEF reg_alloc_assign, TypeOK
<1> DEFINE a == [color |-> color, spill |-> spill, claims |-> claims]
           b == assign_claimed_reg(a, Cur)
<1>2. a \in Walks
  <2>1. claims \in SUBSET Claims  BY DEF TypeOK, Claims
  <2> QED  BY <2>1, WalkRecord DEF TypeOK
<1>3. Cur \in Instr  BY <1>1, CurType
<1>4. b \in Walks /\ Recolors(a, b)  BY <1>1, <1>2, <1>3, AssignKeeps
<1>5. color' = b.color /\ spill' = b.spill /\ claims' = b.claims
  BY DEF reg_alloc_assign
<1> HIDE DEF b
<1>6. \A v \in Vars : /\ color'[v] # color[v] => spill[v] /\ ~spill'[v]
                      /\ spill'[v] => spill[v]
  BY <1>4, <1>5 DEF Recolors
<1>7. TypeOK'
  <2>1. color' \in [Vars -> -1 .. Regs - 1] /\ spill' \in [Vars -> BOOLEAN] /\ claims' \subseteq Claims
    BY <1>4, <1>5 DEF Walks
  <2> QED  BY <1>1, <2>1 DEF TypeOK, reg_alloc_assign, Claims
<1>8. RangeInv'
  <2>1. \A k \in Nat : Seen(k)' => Seen(k)  BY <1>1 DEF Seen, reg_alloc_assign
  <2> QED  BY <1>1, <2>1 DEF RangeInv, reg_alloc_assign
<1>9. \A u, v \in Vars : Overlap(u, v)' <=> Overlap(u, v)  BY DEF Overlap, reg_alloc_assign
<1>10. \A v \in Vars : color[v] # -1 \/ v \notin spilled => color'[v] = color[v]
  BY <1>6 DEF ColorInv
<1>11. ColorInv'
  <2>1. graph' = {e \in Vars \X Vars : e[1] # e[2] /\ Overlap(e[1], e[2])'}
    BY <1>1, <1>9 DEF ColorInv, reg_alloc_assign
  <2>2. \A v \in Vars : spill'[v] => v \in spilled' /\ color'[v] = -1
    BY <1>6 DEF ColorInv, reg_alloc_assign
  <2> QED  BY <1>1, <2>1, <2>2 DEF ColorInv
<1>12. ProperColoring'  BY <1>9, <1>10 DEF ProperColoring, reg_alloc_assign
<1>13. SpillIsForced'
  <2> SUFFICES ASSUME NEW v \in spilled, NEW q \in 0 .. Regs - 1
               PROVE  \E u \in Vars : u # v /\ Overlap(u, v) /\ color'[u] = q
    <3>1. spilled \subseteq Vars /\ spilled' = spilled  BY DEF TypeOK, reg_alloc_assign
    <3> QED  BY <1>9, <3>1 DEF SpillIsForced
  <2>1. PICK u \in Vars : u # v /\ Overlap(u, v) /\ color[u] = q  BY DEF SpillIsForced
  <2>2. color[u] # -1  BY <2>1, LimitsAssumption
  <2> QED  BY <1>10, <2>1, <2>2
<1> QED  BY <1>7, <1>8, <1>11, <1>12, <1>13

------------------------------------------------------------------------------

(* IInv holds in every state of reg_alloc_fn. *)
THEOREM Invariance == Spec => []IInv
<1>1. IInv /\ [Next]_vars => IInv'
  <2> SUFFICES ASSUME IInv, [Next]_vars PROVE IInv'  OBVIOUS
  <2>1. CASE UNCHANGED vars
    BY <2>1 DEF vars, IInv, TypeOK, RangeInv, Seen, ColorInv, ProperColoring, SpillIsForced, Overlap
  <2> QED  BY <2>1, RangesKeep, GraphKeeps, ColorKeeps, SpillKeeps, PhaseKeeps, AssignStepKeeps DEF Next
<1> QED  BY InitInv, <1>1, PTL DEF Spec

(* Colours are registers, claims name registers (TypeOK), at every step.   *)
THEOREM TypeCorrect == Spec => []TypeOK
<1>1. IInv => TypeOK  BY DEF IInv
<1> QED  BY <1>1, Invariance, PTL

(* Overlapping variables never share a register, spilled ones aside: the   *)
(* result of reg_alloc, for every number of variables and registers.       *)
THEOREM ColoringProper == Spec => []ProperColoring
<1>1. IInv => ProperColoring  BY DEF IInv
<1> QED  BY <1>1, Invariance, PTL

(* reg_alloc spills only variables whose neighbours hold every register,   *)
(* and the registers it lends to spilled ones later do not change that.    *)
THEOREM SpillForced == Spec => []SpillIsForced
<1>1. IInv => SpillIsForced  BY DEF IInv
<1> QED  BY <1>1, Invariance, PTL

(* Live ranges contain the stores they were read off, to the end.          *)
THEOREM RangesCover == Spec => []RangesCoverStores
<1>1. IInv => RangesCoverStores
  <2> SUFFICES ASSUME IInv, NEW k \in 0 .. Len(code) - 1,
                      code[k + 1].op \in {"store", "bin"}, pc = "ranges" => k < i,
                      NEW v \in Operands(code[k + 1])
               PROVE  ranges[v].start <= k /\ k <= ranges[v].end
    BY DEF RangesCoverStores
  <2>1. k \in Nat /\ Seen(k)  BY DEF Seen, IInv, TypeOK
  <2> QED  BY <2>1 DEF IInv, RangeInv
<1> QED  BY <1>1, Invariance, PTL

------------------------------------------------------------------------------
(* Claimed registers. *)

(* What the second walk has claimed: for a variable of the instruction,    *)
(* its colour, or any register if it was spilled.                          *)
ClaimInv ==
  /\ code \in Programs
  /\ pc \in {"ranges", "color"} => claims = {}
  /\ pc = "color" => \A v \in Vars : v < i => v \in spilled \/ color[v] # -1
  /\ pc \notin {"ranges", "color"} => \A v \in Vars : v \in spilled \/ color[v] # -1
  /\ \A c \in claims :
       /\ c.at \in 0 .. Len(code) - 1 /\ c.sym \in Operands(code[c.at + 1])
       /\ c.sym \notin spilled => c.reg = color[c.sym]

(* b has only claims of instruction i, for variables in S, besides those   *)
(* of a.                                                                   *)
IsNew(a, c, S) == /\ c.at = i /\ c.sym \in S /\ c.sym \in Vars
                  /\ a.spill[c.sym] \/ c.reg = a.color[c.sym]
Claimed(a, b, S) == \A c \in b.claims : c \in a.claims \/ IsNew(a, c, S)

(* Claims add up. *)
LEMMA ClaimedTransitive ==
  ASSUME NEW a \in Walks, NEW b \in Walks, NEW c \in Walks, NEW S,
         Claimed(a, b, S), Recolors(a, b), Claimed(b, c, S)
  PROVE  Claimed(a, c, S)
<1> SUFFICES ASSUME NEW k \in c.claims, k \notin a.claims PROVE IsNew(a, k, S)
  BY DEF Claimed
<1>1. CASE k \in b.claims  BY <1>1 DEF Claimed
<1>2. CASE IsNew(b, k, S)  BY <1>2 DEF IsNew, Recolors
<1> QED  BY <1>1, <1>2 DEF Claimed

(* assign_sym claims the colour of its variable. *)
LEMMA AssignSymClaims ==
  ASSUME NEW a \in Walks, NEW v \in Opnds, NEW S, v # None => v \in S
  PROVE  Claimed(a, assign_sym(a, v), S)
<1>1. CASE v = None \/ a.spill[v]
  BY <1>1 DEF assign_sym, Claimed
<1>2. CASE ~(v = None \/ a.spill[v])
  <2>1. v \in Vars /\ v \in S  BY <1>2 DEF Opnds
  <2>2. PICK k : k = Claim(v, a.color[v], FALSE)  OBVIOUS
  <2>3. k.at = i /\ k.sym = v /\ k.reg = a.color[v]  BY <2>2 DEF Claim
  <2>4. assign_sym(a, v).claims = a.claims \union {k}
    BY <1>2, <2>2 DEF assign_sym, Walks
  <2> QED  BY <2>1, <2>3, <2>4 DEF Claimed, IsNew
<1> QED  BY <1>1, <1>2

(* handle_spill claims a register for a spilled variable. *)
LEMMA HandleSpillClaims ==
  ASSUME NEW a \in Walks, NEW v \in Opnds, NEW S, v # None => v \in S
  PROVE  Claimed(a, handle_spill(a, v), S)
<1>1. CASE v = None \/ ~a.spill[v] \/ Regs = 0
  BY <1>1 DEF handle_spill, Claimed
<1>2. CASE ~(v = None \/ ~a.spill[v] \/ Regs = 0)
  <2>1. v \in Vars /\ v \in S /\ a.spill[v]  BY <1>2 DEF Opnds
  <2>2. PICK k : k = Claim(v, 0, TRUE)  OBVIOUS
  <2>3. k.at = i /\ k.sym = v  BY <2>2 DEF Claim
  <2>4. handle_spill(a, v).claims = a.claims \union {k}
    BY <1>2, <2>2 DEF handle_spill
  <2> QED  BY <2>1, <2>3, <2>4 DEF Claimed, IsNew
<1> QED  BY <1>1, <1>2

(* The walk over an instruction claims registers for its operands only. *)
LEMMA AssignClaims ==
  ASSUME NEW a \in Walks, NEW ins \in Instr, i \in Nat
  PROVE  Claimed(a, assign_claimed_reg(a, ins), Operands(ins))
<1> DEFINE S == Operands(ins)
           s1 == assign_sym(a, ins.res)
           s2 == assign_sym(s1, ins.lhs)
           s3 == assign_sym(s2, ins.rhs)
           h0 == handle_spill(s3, ins.res)
           h1 == handle_spill(s3, ins.lhs)
           h2 == handle_spill(h1, ins.rhs)
           h3 == handle_spill(h2, ins.res)
<1>0. /\ ins.res \in Opnds /\ ins.lhs \in Opnds /\ ins.rhs \in Opnds
      /\ ins.res # None => ins.res \in S
      /\ ins.lhs # None => ins.lhs \in S
      /\ ins.rhs # None => ins.rhs \in S
  BY DEF Instr, Opnds, Operands
<1>1. s1 \in Walks /\ Recolors(a, s1) /\ Claimed(a, s1, S)
  <2>1. s1 \in Walks /\ s1.color = a.color /\ s1.spill = a.spill  BY <1>0, AssignSymKeeps
  <2> QED  BY <1>0, <2>1, AssignSymClaims DEF Recolors
<1> HIDE DEF S, s1
<1>2. s2 \in Walks /\ Recolors(s1, s2) /\ Claimed(s1, s2, S)
  <2>1. s2 \in Walks /\ s2.color = s1.color /\ s2.spill = s1.spill  BY <1>0, <1>1, AssignSymKeeps
  <2> QED  BY <1>0, <1>1, <2>1, AssignSymClaims DEF Recolors
<1> HIDE DEF s2
<1>3. s3 \in Walks /\ Recolors(s2, s3) /\ Claimed(s2, s3, S)
  <2>1. s3 \in Walks /\ s3.color = s2.color /\ s3.spill = s2.spill  BY <1>0, <1>2, AssignSymKeeps
  <2> QED  BY <1>0, <1>2, <2>1, AssignSymClaims DEF Recolors
<1> HIDE DEF s3
<1>4. Recolors(a, s3) /\ Claimed(a, s3, S)
  <2>1. Recolors(a, s2) /\ Claimed(a, s2, S)
    BY <1>1, <1>2, RecolorsTransitive, ClaimedTransitive
  <2> QED  BY <1>2, <1>3, <2>1, RecolorsTransitive, ClaimedTransitive
<1>5. Claimed(s3, h0, S) /\ h0 \in Walks
  BY <1>0, <1>3, HandleSpillKeeps, HandleSpillClaims
<1>6. h1 \in Walks /\ Recolors(s3, h1) /\ Claimed(s3, h1, S)
  BY <1>0, <1>3, HandleSpillKeeps, HandleSpillClaims
<1>7. Recolors(a, h1) /\ Claimed(a, h1, S)
  <2> HIDE DEF h1
  <2> QED  BY <1>3, <1>4, <1>6, RecolorsTransitive, ClaimedTransitive
<1>8. Claimed(a, h0, S)
  <2> HIDE DEF h0
  <2> QED  BY <1>3, <1>4, <1>5, ClaimedTransitive
<1> HIDE DEF h0, h1
<1>9. h2 \in Walks /\ Recolors(h1, h2) /\ Claimed(h1, h2, S)
  BY <1>0, <1>6, HandleSpillKeeps, HandleSpillClaims
<1> HIDE DEF h2
<1>10. Recolors(a, h2) /\ Claimed(a, h2, S)
  BY <1>6, <1>7, <1>9, RecolorsTransitive, ClaimedTransitive
<1>11. h3 \in Walks /\ Claimed(h2, h3, S)
  BY <1>0, <1>9, HandleSpillKeeps, HandleSpillClaims
<1> HIDE DEF h3
<1>12. Claimed(a, h3, S)
  BY <1>9, <1>10, <1>11, ClaimedTransitive
<1>13. \/ assign_claimed_reg(a, ins) = h0
       \/ assign_claimed_reg(a, ins) = h3
       \/ assign_claimed_reg(a, ins) = s3
  <2>1. assign_sym(assign_sym(assign_sym(a, ins.res), ins.lhs), ins.rhs) = s3  BY DEF s1, s2, s3
  <2>2. handle_spill(handle_spill(handle_spill(s3, ins.lhs), ins.rhs), ins.res) = h3  BY DEF h1, h2, h3
  <2>3. CASE ins.op = "store"  BY <2>1, <2>3 DEF assign_claimed_reg, h0
  <2>4. CASE ins.op = "bin"    BY <2>1, <2>2, <2>4 DEF assign_claimed_reg
  <2>5. CASE ins.op \notin {"store", "bin"}  BY <2>1, <2>5 DEF assign_claimed_reg
  <2> QED  BY <2>3, <2>4, <2>5
<1> QED  BY <1>4, <1>8, <1>12, <1>13 DEF S

(* Every step keeps ClaimInv. *)
LEMMA ClaimStep ==
  ASSUME IInv, ClaimInv, [Next]_vars
  PROVE  ClaimInv'
<1> USE DEF ClaimInv
<1>1. CASE UNCHANGED vars  BY <1>1 DEF vars
<1>2. CASE reg_alloc_live_ranges \/ reg_alloc_build_graph
  <2>1. /\ code' = code /\ claims' = {} /\ pc' \in {"ranges", "color"} /\ i' \in Int
        /\ pc' = "color" => i' = 0
    BY <1>2 DEF reg_alloc_live_ranges, reg_alloc_build_graph, IInv, TypeOK
  <2> QED  BY <2>1, LimitsAssumption DEF Vars
<1>3. CASE ColorVar
  <2>1. /\ pc = "color" /\ pc' = "color" /\ i \in Vars /\ i' = i + 1 /\ i \in Nat
        /\ UNCHANGED <<code, claims, spilled>>
    BY <1>3, LimitsAssumption DEF ColorVar, IInv, TypeOK, Vars
  <2>2. PICK r \in available : color' = [color EXCEPT ![i] = r]  BY <1>3 DEF ColorVar
  <2>3. color'[i] # -1 /\ \A v \in Vars : v # i => color'[v] = color[v]
    BY <2>1, <2>2, LimitsAssumption DEF IInv, TypeOK, available
  <2>4. \A v \in Vars : v < i + 1 => v = i \/ v < i  BY <2>1, LimitsAssumption DEF Vars
  <2> QED  BY <2>1, <2>3, <2>4
<1>4. CASE SpillVar
  <2>1. /\ pc = "color" /\ pc' = "color" /\ i \in Nat /\ i' = i + 1
        /\ UNCHANGED <<code, claims, color>> /\ spilled' = spilled \union {i}
    BY <1>4 DEF SpillVar, IInv, TypeOK
  <2>4. \A v \in Vars : v < i + 1 => v = i \/ v < i  BY <2>1, LimitsAssumption DEF Vars
  <2> QED  BY <2>1, <2>4
<1>5. CASE ColorDone \/ AssignDone \/ AssignCrash
  <2>1. /\ pc' \notin {"ranges", "color"} /\ UNCHANGED <<code, claims, color, spilled>>
        /\ pc = "color" => i = VarsLimit /\ pc # "ranges"
    BY <1>5 DEF ColorDone, AssignDone, AssignCrash
  <2>2. \A v \in Vars : v < VarsLimit  BY LimitsAssumption DEF Vars
  <2>3. \A v \in Vars : v \in spilled \/ color[v] # -1
    BY <1>5, <2>1, <2>2 DEF ColorDone, AssignDone, AssignCrash
  <2> QED  BY <2>1, <2>3
<1>6. CASE reg_alloc_assign
  <2> DEFINE a == [color |-> color, spill |-> spill, claims |-> claims]
             b == assign_claimed_reg(a, Cur)
  <2>1. /\ pc = "assign" /\ pc' = "assign" /\ i \in 0 .. Len(code) - 1 /\ i \in Nat
        /\ UNCHANGED <<code, spilled>> /\ Cur \in Instr
    BY SMTT(30), <1>6, CurType DEF reg_alloc_assign, IInv, TypeOK
  <2>2. a \in Walks
    <3>1. claims \in SUBSET Claims  BY DEF IInv, TypeOK, Claims
    <3> QED  BY <3>1, WalkRecord DEF IInv, TypeOK
  <2>3. Recolors(a, b) /\ Claimed(a, b, Operands(Cur))
    BY <2>1, <2>2, AssignKeeps, AssignClaims
  <2>4. color' = b.color /\ spill' = b.spill /\ claims' = b.claims
    BY <1>6 DEF reg_alloc_assign
  <2> HIDE DEF b
  <2>5. \A v \in Vars : v \notin spilled => color'[v] = color[v]
    BY <2>3, <2>4 DEF Recolors, IInv, ColorInv
  <2>6. \A v \in Vars : v \in spilled' \/ color'[v] # -1
    BY <2>1, <2>5
  <2>7. ASSUME NEW c \in claims'
        PROVE  /\ c.at \in 0 .. Len(code) - 1 /\ c.sym \in Operands(code[c.at + 1])
               /\ c.sym \notin spilled => c.reg = color'[c.sym]
    <3>1. CASE c \in claims
      <4>1. c \in Claims  BY <3>1 DEF IInv, TypeOK, Claims
      <4>2. c.sym \in Vars  BY <4>1 DEF Claims
      <4>3. /\ c.at \in 0 .. Len(code) - 1 /\ c.sym \in Operands(code[c.at + 1])
            /\ c.sym \notin spilled => c.reg = color[c.sym]
        BY <3>1
      <4> QED  BY <2>5, <4>2, <4>3
    <3>2. CASE c \notin claims
      <4>1. /\ c.at = i /\ c.sym \in Operands(Cur) /\ c.sym \in Vars
            /\ spill[c.sym] \/ c.reg = color[c.sym]
        BY <2>3, <2>4, <3>2 DEF Claimed, IsNew
      <4>2. spill[c.sym] => c.sym \in spilled  BY <4>1 DEF IInv, ColorInv
      <4> QED  BY <2>1, <2>5, <4>1, <4>2 DEF Cur
    <3> QED  BY <3>1, <3>2
  <2> QED  BY <2>1, <2>6, <2>7
<1> QED  BY <1>1, <1>2, <1>3, <1>4, <1>5, <1>6 DEF Next

(* Operands of one instruction that were not spilled are in different      *)
(* registers: reg_alloc_assign_claimed_reg gives each its colour, the live *)
(* ranges of two operands of a store both contain it, and overlapping      *)
(* variables have different colours.                                       *)
THEOREM OperandsDistinct == Spec => []OperandsApart
<1>1. Init => ClaimInv
  BY DEF Init, ClaimInv
<1>2. IInv /\ ClaimInv /\ [Next]_vars => ClaimInv'
  BY ClaimStep
<1>3. IInv /\ ClaimInv => OperandsApart
  <2> SUFFICES ASSUME IInv, ClaimInv, NEW c \in claims, NEW d \in claims, c.at = d.at,
                      c.sym # d.sym, c.sym \notin spilled, d.sym \notin spilled
               PROVE  c.reg # d.reg
    BY DEF OperandsApart
  <2> DEFINE k == c.at
             u == c.sym
             v == d.sym
  <2>1. /\ pc \notin {"ranges", "color"} /\ k \in 0 .. Len(code) - 1 /\ k \in Nat
        /\ u \in Operands(code[k + 1]) /\ v \in Operands(code[k + 1])
        /\ c.reg = color[u] /\ d.reg = color[v] /\ u \in Vars /\ v \in Vars
    <3>1. claims \subseteq Claims /\ code \in Seq(Instr)  BY DEF IInv, TypeOK, Claims
    <3>2. c \in Claims /\ d \in Claims  BY <3>1
    <3>3. u \in Vars /\ v \in Vars /\ k \in Nat  BY <3>2 DEF Claims
    <3>4. /\ c.at \in 0 .. Len(code) - 1 /\ c.sym \in Operands(code[c.at + 1])
          /\ c.sym \notin spilled => c.reg = color[c.sym]
      BY DEF ClaimInv
    <3>5. /\ d.sym \in Operands(code[d.at + 1])
          /\ d.sym \notin spilled => d.reg = color[d.sym]
      BY DEF ClaimInv
    <3>6. pc \notin {"ranges", "color"}
      BY DEF ClaimInv
    <3> QED  BY <3>3, <3>4, <3>5, <3>6
  <2>2. k + 1 \in DOMAIN code /\ code \in Programs
    BY <2>1 DEF ClaimInv, IInv, TypeOK
  <2>3. code[k + 1].op \in {"store", "bin"}
    BY <2>1, <2>2, ShapesAssumption
  <2>4. Seen(k)
    BY <2>1, <2>3 DEF Seen
  <2>5. /\ ranges[u].start <= k /\ k <= ranges[u].end
        /\ ranges[v].start <= k /\ k <= ranges[v].end
    BY <2>1, <2>4 DEF IInv, RangeInv
  <2>6. /\ ranges[u].start \in Int /\ ranges[u].end \in Int
        /\ ranges[v].start \in Int /\ ranges[v].end \in Int
    BY <2>1 DEF IInv, TypeOK
  <2>7. Overlap(u, v)
    BY <2>1, <2>5, <2>6 DEF Overlap
  <2>8. color[u] # -1
    BY <2>1 DEF ClaimInv
  <2> QED  BY <2>1, <2>7, <2>8 DEF IInv, ProperColoring
<1> QED  BY <1>1, <1>2, <1>3, Invariance, PTL DEF Spec

------------------------------------------------------------------------------
(* ir_opt_arith.  Numbers: a sequence defined by a first value and a step. *)

LEMMA FromZero ==
  ASSUME NEW T, 0 \in T, \A n \in Nat : n \in T => n + 1 \in T
  PROVE  Nat \subseteq T
<1> DEFINE U == Nat \ T
<1>1. SUFFICES ASSUME U # {} PROVE FALSE
  OBVIOUS
<1>2. U \subseteq Nat
  OBVIOUS
<1>3. IsWellFoundedOn(OpToRel(<, Nat), Nat)
  BY NatLessThanWellFounded
<1>4. PICK x \in U : \A y \in U : ~(<<y, x>> \in OpToRel(<, Nat))
  BY <1>1, <1>2, <1>3, WFMin, Zenon
<1>5. x # 0 /\ x \in Nat
  OBVIOUS
<1>6. x - 1 \in Nat /\ x - 1 < x /\ (x - 1) + 1 = x
  BY <1>5
<1>7. x - 1 \in T
  BY <1>4, <1>6 DEF OpToRel
<1> QED BY <1>6, <1>7

Follows(f, v, step, n) ==
  f \in [0 .. n -> Nat] /\ f[0] = v /\ \A k \in 1 .. n : f[k] = step[k][f[k - 1]]

LEMMA Sequence ==
  ASSUME NEW N \in Nat, NEW v \in Nat, NEW step \in [1 .. N -> [Nat -> Nat]]
  PROVE  \E f : Follows(f, v, step, N)
<1> DEFINE T == {n \in Nat : n <= N => \E f : Follows(f, v, step, n)}
<1>1. 0 \in T
  <2>1. Follows([k \in 0 .. 0 |-> v], v, step, 0)
    BY DEF Follows
  <2> QED BY <2>1
<1>2. ASSUME NEW n \in Nat, n \in T, n + 1 <= N
      PROVE  \E g : Follows(g, v, step, n + 1)
  <2>1. PICK f : Follows(f, v, step, n)
    BY <1>2
  <2> DEFINE w == step[n + 1][f[n]]
             g == [k \in 0 .. n + 1 |-> IF k = n + 1 THEN w ELSE f[k]]
  <2>2. f[n] \in Nat /\ n + 1 \in 1 .. N /\ w \in Nat
    BY <1>2, <2>1 DEF Follows
  <2> HIDE DEF w
  <2>6. f \in [0 .. n -> Nat] /\ f[0] = v /\ \A k \in 0 .. n + 1 : k # n + 1 => k \in 0 .. n
    BY <2>1 DEF Follows
  <2>3. /\ g \in [0 .. n + 1 -> Nat] /\ g[0] = v
        /\ g[n + 1] = w /\ \A k \in 0 .. n : g[k] = f[k]
    <3>1. ASSUME NEW k \in 0 .. n + 1
          PROVE  (IF k = n + 1 THEN w ELSE f[k]) \in Nat
      BY <2>2, <2>6
    <3>2. g \in [0 .. n + 1 -> Nat]
      BY <3>1
    <3>3. 0 \in 0 .. n + 1 /\ n + 1 \in 0 .. n + 1 /\ 0 # n + 1 /\ \A k \in 0 .. n : k \in 0 .. n + 1 /\ k # n + 1
      OBVIOUS
    <3>4. g[0] = v /\ g[n + 1] = w
      BY <3>3, <2>6
    <3>5. \A k \in 0 .. n : g[k] = f[k]
      BY <3>3
    <3> QED BY <3>2, <3>4, <3>5
  <2> HIDE DEF g
  <2>4. ASSUME NEW k \in 1 .. n + 1
        PROVE  g[k] = step[k][g[k - 1]]
    <3>1. CASE k = n + 1
      <4>1. k - 1 = n /\ n \in 0 .. n
        BY <3>1
      <4> QED BY <2>3, <3>1, <4>1 DEF w
    <3>2. CASE k # n + 1
      <4>1. k \in 1 .. n /\ k - 1 \in 0 .. n /\ k \in 0 .. n
        BY <3>2
      <4> QED BY <2>1, <2>3, <4>1 DEF Follows
    <3> QED BY <3>1, <3>2
  <2>5. Follows(g, v, step, n + 1)
    BY <2>3, <2>4 DEF Follows
  <2> QED BY <2>5
<1>3. ASSUME NEW n \in Nat, n \in T
      PROVE  n + 1 \in T
  <2>1. n + 1 <= N => \E g : Follows(g, v, step, n + 1)
    BY <1>2, <1>3
  <2> QED BY <2>1
<1> HIDE DEF T
<1>4. N \in T
  BY <1>1, <1>3, FromZero
<1> QED BY <1>4 DEF T

(* Powers of two. *)
LEMMA Powers ==
  /\ Pow2[0] = 1
  /\ \A n \in 0 .. IntBits : Pow2[n] \in Nat /\ Pow2[n] > 0
  /\ \A n \in 1 .. IntBits : Pow2[n] = 2 * Pow2[n - 1]
<1> DEFINE step == [k \in 1 .. IntBits |-> [x \in Nat |-> 2 * x]]
           rec(h) == [n \in 0 .. IntBits |-> IF n = 0 THEN 1 ELSE 2 * h[n - 1]]
           T == {n \in Nat : n <= IntBits => Pow2[n] \in Nat /\ Pow2[n] > 0}
<1>1. IntBits \in Nat
  BY WidthsAssumption
<1>2. step \in [1 .. IntBits -> [Nat -> Nat]]
  OBVIOUS
<1>3. PICK f : Follows(f, 1, step, IntBits)
  <2> HIDE DEF step
  <2> QED BY <1>1, <1>2, Sequence
<1>4. f = rec(f)
  <2>1. ASSUME NEW n \in 0 .. IntBits
        PROVE  f[n] = IF n = 0 THEN 1 ELSE 2 * f[n - 1]
    <3>1. CASE n = 0
      BY <1>3, <3>1 DEF Follows
    <3>2. CASE n # 0
      <4>1. n \in 1 .. IntBits /\ n - 1 \in 0 .. IntBits
        BY <1>1, <3>2
      <4>2. f[n - 1] \in Nat /\ f[n] = step[n][f[n - 1]]
        BY <1>3, <4>1 DEF Follows
      <4> QED BY <3>2, <4>1, <4>2
    <3> QED BY <3>1, <3>2
  <2>2. f = [n \in 0 .. IntBits |-> f[n]]
    BY <1>3 DEF Follows
  <2> QED BY <2>1, <2>2
<1>5. Pow2 = rec(Pow2)
  <2>1. Pow2 = CHOOSE h : h = rec(h)
    BY DEF Pow2
  <2> QED BY <2>1, <1>4, Zenon
<1>6. \A n \in 0 .. IntBits : Pow2[n] = IF n = 0 THEN 1 ELSE 2 * Pow2[n - 1]
  BY <1>5, Zenon
<1>7. 0 \in T
  BY <1>1, <1>6
<1>8. ASSUME NEW n \in Nat, n \in T
      PROVE  n + 1 \in T
  BY <1>1, <1>6, <1>8
<1> HIDE DEF T
<1>9. Nat \subseteq T
  BY <1>7, <1>8, FromZero
<1> QED BY <1>1, <1>6, <1>9 DEF T

(* The widths of the types that are computed with bit by bit. *)
Widths == {IntBits, CharBits}

LEMMA WidthIs ==
  ASSUME NEW w \in Widths
  PROVE  /\ w \in 1 .. IntBits /\ w - 1 \in 0 .. IntBits
         /\ Pow2[w] = 2 * Pow2[w - 1] /\ Pow2[w - 1] \in Nat /\ Pow2[w - 1] > 0
<1>1. w \in 1 .. IntBits /\ w - 1 \in 0 .. IntBits
  BY WidthsAssumption DEF Widths
<1> QED BY <1>1, Powers

LEMMA Wrapped ==
  ASSUME NEW w \in Widths, NEW x \in Signed(w)
  PROVE  /\ Wrap(x, w) = x /\ Wrap(x % Pow2[w], w) = x
         /\ x \in Int /\ x % Pow2[w] \in 0 .. Pow2[w] - 1
         /\ x % Pow2[w] = 0 => x = 0
<1> DEFINE H == Pow2[w - 1]
<1>1. H \in Nat \ {0} /\ Pow2[w] = 2 * H /\ x \in -H .. H - 1
  BY WidthIs DEF Signed
<1> HIDE DEF H
<1>2. x + H \in 0 .. 2 * H - 1 /\ x \in Int
  BY <1>1
<1>3. (x + H) % (2 * H) = x + H
  BY <1>1, <1>2
<1>4. x % (2 * H) = IF x < 0 THEN x + 2 * H ELSE x
  BY <1>1, <1>2
<1>5. ((x % (2 * H)) + H) % (2 * H) = x + H
  <2>1. CASE x < 0
    <3>1. ((x + 2 * H) + H) % (2 * H) = x + H
      BY <1>1, <1>2
    <3> QED BY <2>1, <3>1, <1>4
  <2>2. CASE ~(x < 0)
    BY <2>2, <1>3, <1>4
  <2> QED BY <2>1, <2>2
<1>6. /\ Wrap(x, w) = ((x + H) % (2 * H)) - H
      /\ Wrap(x % Pow2[w], w) = (((x % (2 * H)) + H) % (2 * H)) - H
  BY <1>1 DEF Wrap, H
<1> QED BY <1>1, <1>2, <1>3, <1>4, <1>5, <1>6

LEMMA ZeroWraps ==
  ASSUME NEW w \in Widths
  PROVE  0 \in Signed(w) /\ Wrap(0, w) = 0
<1>1. 0 \in Signed(w)
  BY WidthIs DEF Signed
<1> QED BY <1>1, Wrapped

LEMMA Remainder ==
  ASSUME NEW M \in Nat \ {0}, NEW q \in Int, NEW r \in 0 .. M - 1
  PROVE  (M * q + r) % M = r
OBVIOUS

LEMMA SmallRemainder ==
  ASSUME NEW M \in Nat \ {0}, NEW r \in 0 .. M - 1
  PROVE  r % M = r
OBVIOUS

(* x & 0 = 0 and x | 0 = x, bit by bit. *)
LEMMA ZeroBits ==
  ASSUME NEW w \in Widths, NEW l \in Signed(w), NEW op \in {"&", "|"}
  PROVE  BitOp(op, l, 0, w) = IF op = "&" THEN 0 ELSE l
<1> DEFINE a == l % Pow2[w]
           b == 0 % Pow2[w]
           bit(k) == IF op = "&" THEN Bit(a, k) * Bit(b, k) ELSE Truth(Bit(a, k) + Bit(b, k) > 0)
           rec(h) == [k \in 0 .. w |-> IF k = 0 THEN 0 ELSE h[k - 1] + Pow2[k - 1] * bit(k - 1)]
           low == CHOOSE h : h = rec(h)
           goal(k) == IF op = "&" THEN 0 ELSE a % Pow2[k]
           g == [k \in 0 .. w |-> goal(k)]
           T == {k \in Nat : k <= w => low[k] = goal(k)}
<1>1. BitOp(op, l, 0, w) = Wrap(low[w], w)
  BY DEF BitOp
<1>2. a \in 0 .. Pow2[w] - 1 /\ w \in Nat /\ w \in 1 .. IntBits
  BY Wrapped, WidthIs
<1>3. ASSUME NEW k \in 0 .. w
      PROVE  Pow2[k] \in Nat \ {0} /\ b = 0 /\ (k # 0 => Pow2[k] = 2 * Pow2[k - 1] /\ k - 1 \in 0 .. w)
  <2>1. Pow2[k] \in Nat \ {0} /\ (k # 0 => Pow2[k] = 2 * Pow2[k - 1] /\ k - 1 \in 0 .. w)
    <3>1. k \in 0 .. IntBits /\ (k # 0 => k \in 1 .. IntBits /\ k - 1 \in 0 .. w)
      BY <1>2, WidthsAssumption
    <3> QED BY <3>1, Powers
  <2>2. Pow2[w] \in Nat \ {0}
    BY <1>2, Powers
  <2> QED BY <2>1, <2>2, SmallRemainder
<1> HIDE DEF a, b
<1>4. ASSUME NEW k \in 0 .. w
      PROVE  bit(k) = IF op = "&" THEN 0 ELSE Bit(a, k)
  <2>1. Bit(b, k) = 0
    BY <1>3 DEF Bit
  <2>2. Bit(a, k) \in {0, 1}
    BY <1>2, <1>3 DEF Bit
  <2> QED BY <2>1, <2>2 DEF Truth
<1>5. ASSUME NEW k \in 0 .. w, k # 0
      PROVE  a % Pow2[k] = (a % Pow2[k - 1]) + Pow2[k - 1] * Bit(a, k - 1)
  <2> DEFINE P == Pow2[k - 1]
             q == a \div P
             r == a % P
             c == q % 2
             d == q \div 2
  <2>1. P \in Nat \ {0} /\ Pow2[k] = 2 * P /\ a \in Nat
    BY <1>2, <1>3, <1>5
  <2> HIDE DEF P
  <2>2. a = P * q + r /\ r \in 0 .. P - 1 /\ q \in Nat
    BY <2>1
  <2>3. q = 2 * d + c /\ c \in {0, 1} /\ d \in Nat
    BY <2>2
  <2>4. Bit(a, k - 1) = c
    BY DEF Bit, P
  <2> HIDE DEF q, r, c, d
  <2>5. a = (2 * P) * d + (r + P * c)
    BY <2>1, <2>2, <2>3
  <2>6. r + P * c \in 0 .. 2 * P - 1
    BY <2>1, <2>2, <2>3
  <2>7. a % (2 * P) = r + P * c
    <3>1. 2 * P \in Nat \ {0}
      BY <2>1
    <3> QED BY <3>1, <2>3, <2>5, <2>6, Remainder
  <2> QED BY <2>1, <2>4, <2>7 DEF r, P
<1>6. goal(0) = 0
  <2>1. Pow2[0] = 1
    BY Powers
  <2> QED BY <1>2, <2>1
<1>7. ASSUME NEW k \in 0 .. w, k # 0
      PROVE  goal(k) = goal(k - 1) + Pow2[k - 1] * bit(k - 1)
  <2>1. k - 1 \in 0 .. w
    BY <1>3, <1>7
  <2>2. bit(k - 1) = IF op = "&" THEN 0 ELSE Bit(a, k - 1)
    BY <1>4, <2>1
  <2> HIDE DEF bit
  <2>3. Pow2[k - 1] \in Nat
    BY <1>3, <2>1
  <2> QED BY <1>5, <1>7, <2>2, <2>3
<1> HIDE DEF goal, bit
<1>8. g = rec(g)
  <2>1. ASSUME NEW k \in 0 .. w
        PROVE  goal(k) = IF k = 0 THEN 0 ELSE g[k - 1] + Pow2[k - 1] * bit(k - 1)
    <3>1. k # 0 => k - 1 \in 0 .. w
      BY <1>3
    <3> QED BY <3>1, <1>6, <1>7
  <2> QED BY <2>1
<1> HIDE DEF g
<1>9. low = rec(low)
  BY <1>8, Zenon
<1> HIDE DEF low
<1>10. \A k \in 0 .. w : low[k] = IF k = 0 THEN 0 ELSE low[k - 1] + Pow2[k - 1] * bit(k - 1)
  BY <1>9, Zenon
<1>11. 0 \in T
  BY <1>2, <1>6, <1>10
<1>12. ASSUME NEW k \in Nat, k \in T
       PROVE  k + 1 \in T
  <2>1. SUFFICES ASSUME k + 1 <= w PROVE low[k + 1] = goal(k + 1)
    OBVIOUS
  <2>2. k + 1 \in 0 .. w /\ k + 1 # 0 /\ (k + 1) - 1 = k /\ low[k] = goal(k)
    BY <1>2, <1>12, <2>1
  <2>3. low[k + 1] = low[k] + Pow2[k] * bit(k)
    BY <1>10, <2>2
  <2>4. goal(k + 1) = goal(k) + Pow2[k] * bit(k)
    BY <1>7, <2>2
  <2> QED BY <2>2, <2>3, <2>4
<1> HIDE DEF T
<1>13. w \in T
  BY <1>2, <1>11, <1>12, FromZero
<1>14. low[w] = IF op = "&" THEN 0 ELSE a % Pow2[w]
  BY <1>2, <1>13 DEF T, goal
<1>15. a % Pow2[w] = a
  <2>1. Pow2[w] \in Nat \ {0}
    BY <1>2, Powers
  <2> QED BY <2>1, <1>2, SmallRemainder
<1> QED BY <1>1, <1>14, <1>15, Wrapped, ZeroWraps DEF a

------------------------------------------------------------------------------
(* Instructions as gen.c makes them, and what the type pass adds.          *)

Value(x) == [dt |-> dt, v |-> x]
Typed(m) == [kind |-> "sym", idx |-> m, ti |-> dt]

Generated(o) ==
  \E op \in Allowed(dt), m \in 0..1 :
    \E r \in {Sym(j) : j \in 0..1} \union {Imm(dt, v) : v \in Values(dt)} : o = Bin(op, Sym(m), r)

Program == dt \in Dts /\ vals \in [0..1 -> Values(dt)] /\ Generated(orig)

LEMMA ValuesAre ==
  ASSUME dt \in Dts
  PROVE  /\ dt \in {"int", "char", "bool", "float"} /\ dt # "unknown"
         /\ dt = "int" => Values(dt) = Signed(IntBits)
         /\ dt = "char" => Values(dt) = Signed(CharBits)
         /\ dt = "bool" => Values(dt) = 0..1
         /\ dt = "float" => Values(dt) = Floats
BY DtsAssumption DEF Values

(* The laws of arithmetic that ir_opt_arith relies on. *)
LEMMA Laws ==
  ASSUME dt \in Dts, NEW x \in Values(dt), NEW op \in Allowed(dt)
  PROVE  /\ op \in {"+", "-", "|"} => compute(op, Value(x), Value(0)) = x
         /\ op \in {"*", "&"} => compute(op, Value(x), Value(0)) = 0
         /\ op = "-" => compute(op, Value(x), Value(x)) = 0
<1>1. Value(x).dt = dt /\ Value(x).v = x /\ Value(0).dt = dt /\ Value(0).v = 0
  BY DEF Value
<1>2. ASSUME NEW w \in Widths, x \in Signed(w), op \in {"+", "-", "*", "&", "|", "<", "=="}
      PROVE  /\ op \in {"+", "-", "|"} => eval_ints(op, x, 0, w) = x
             /\ op \in {"*", "&"} => eval_ints(op, x, 0, w) = 0
             /\ op = "-" => eval_ints(op, x, x, w) = 0
  <2>1. x \in Int /\ Wrap(x, w) = x /\ Wrap(0, w) = 0
    BY <1>2, Wrapped, ZeroWraps
  <2>2. x + 0 = x /\ x - 0 = x /\ x * 0 = 0 /\ x - x = 0
    BY <2>1
  <2>3. CASE op = "+"
    BY <2>1, <2>2, <2>3 DEF eval_ints
  <2>4. CASE op = "-"
    BY <2>1, <2>2, <2>4 DEF eval_ints
  <2>5. CASE op = "*"
    BY <2>1, <2>2, <2>5 DEF eval_ints
  <2>6. CASE op \in {"&", "|"}
    <3>1. eval_ints(op, x, 0, w) = BitOp(op, x, 0, w)
      BY <2>6 DEF eval_ints
    <3> QED BY <3>1, <2>6, <1>2, ZeroBits
  <2> QED BY <2>3, <2>4, <2>5, <2>6
<1>3. CASE dt = "int"
  <2>1. x \in Signed(IntBits) /\ IntBits \in Widths /\ op \in {"+", "-", "*", "&", "|", "<", "=="}
    BY <1>3, ValuesAre DEF Widths, Allowed
  <2>2. ASSUME NEW y, op \notin {"<", "=="}
        PROVE  compute(op, Value(x), Value(y)) = eval_ints(op, x, y, IntBits)
    BY <1>3, <2>2 DEF compute, Value
  <2> QED BY <1>2, <2>1, <2>2
<1>4. CASE dt = "char"
  <2>1. x \in Signed(CharBits) /\ CharBits \in Widths /\ op \in {"+", "-", "*", "&", "|", "<", "=="}
    BY <1>4, ValuesAre DEF Widths, Allowed
  <2>2. ASSUME NEW y, op \notin {"<", "=="}
        PROVE  compute(op, Value(x), Value(y)) = eval_ints(op, x, y, CharBits)
    BY <1>4, <2>2 DEF compute, Value
  <2> QED BY <1>2, <2>1, <2>2
<1>5. CASE dt = "bool"
  <2>1. x \in 0..1 /\ op \in {"&", "|"}
    BY <1>5, ValuesAre DEF Allowed
  <2>2. compute(op, Value(x), Value(0)) = eval_bools(op, x, 0)
    BY <1>5 DEF compute, Value
  <2>3. eval_bools(op, x, 0) = IF op = "&" THEN x * 0 ELSE Truth(x + 0 > 0)
    BY <2>1 DEF eval_bools
  <2> QED BY <2>1, <2>2, <2>3 DEF Truth
<1>6. CASE dt = "float"
  <2>1. x \in Int /\ op \in {"+", "-", "*", "<", "=="}
    BY <1>6, ValuesAre, FloatsAssumption DEF Allowed
  <2>2. ASSUME NEW y, op \notin {"<", "=="}
        PROVE  compute(op, Value(x), Value(y)) = eval_floats(op, x, y)
    BY <1>6, <2>2 DEF compute, Value
  <2>3. x + 0 = x /\ x - 0 = x /\ x * 0 = 0 /\ x - x = 0
    BY <2>1
  <2>4. \A y : /\ op = "+" => eval_floats(op, x, y) = x + y
               /\ op = "-" => eval_floats(op, x, y) = x - y
               /\ op = "*" => eval_floats(op, x, y) = x * y
    BY DEF eval_floats
  <2> QED BY <2>1, <2>2, <2>3, <2>4
<1> QED BY <1>3, <1>4, <1>5, <1>6, ValuesAre

(* A literal has no bits exactly if it is 0. *)
LEMMA NoBits ==
  ASSUME dt \in Dts, NEW v \in Values(dt), imm___int(Imm(dt, v)) = 0
  PROVE  v = 0
<1>1. CASE dt = "int"
  BY <1>1 DEF imm___int, Imm
<1>2. CASE dt = "char"
  <2>1. v % Pow2[CharBits] = 0
    BY <1>2 DEF imm___int, Imm
  <2>2. v \in Signed(CharBits) /\ CharBits \in Widths
    BY <1>2, ValuesAre DEF Widths
  <2> QED BY <2>1, <2>2, Wrapped
<1>3. CASE dt = "bool"
  BY <1>3 DEF imm___int, Imm
<1>4. CASE dt = "float"
  <2>1. imm___int(Imm(dt, v)) = IF v = 0 THEN 0 ELSE IF v = 2 THEN Pow2[IntBits - 2] ELSE 3
    BY <1>4 DEF imm___int, Imm
  <2>2. IntBits - 2 \in 0 .. IntBits
    BY WidthsAssumption
  <2>3. Pow2[IntBits - 2] # 0
    BY <2>2, Powers
  <2> QED BY <2>1, <2>3
<1> QED BY <1>1, <1>2, <1>3, <1>4, ValuesAre

(* What the right-hand side becomes in the type pass and stores. *)
LEMMA Passed ==
  ASSUME NEW op, NEW m, NEW r
  PROVE  /\ type_pass(Bin(op, Sym(m), r)) = Bin(op, Typed(m), IF r.kind = "sym" THEN [r EXCEPT !.ti = dt] ELSE r)
         /\ type_pass(Bin(op, Typed(m), r)) = Bin(op, Typed(m), IF r.kind = "sym" THEN [r EXCEPT !.ti = dt] ELSE r)
<1>1. ASSUME NEW b, b = Bin(op, Sym(m), r) \/ b = Bin(op, Typed(m), r)
      PROVE  type_pass(b) = Bin(op, Typed(m), IF r.kind = "sym" THEN [r EXCEPT !.ti = dt] ELSE r)
  <2>1. b.kind = "bin" /\ b.op = op /\ b.rhs = r /\ b.lhs \in {Sym(m), Typed(m)}
    BY <1>1 DEF Bin
  <2>2. b.lhs.kind = "sym" /\ [b.lhs EXCEPT !.ti = dt] = Typed(m)
    BY <2>1 DEF Sym, Typed
  <2>3. type_pass(b) = Bin(b.op, IF b.lhs.kind = "sym" THEN type_pass_sym(b.lhs) ELSE b.lhs,
                           IF b.rhs.kind = "sym" THEN type_pass_sym(b.rhs) ELSE b.rhs)
    BY <2>1 DEF type_pass
  <2> QED BY <2>1, <2>2, <2>3 DEF type_pass_sym
<1> QED BY <1>1

LEMMA Stored ==
  ASSUME Program, NEW m \in 0..1
  PROVE  /\ \A op, j : eval_store(Bin(op, Typed(m), Typed(j))) = compute(op, Value(vals[m]), Value(vals[j]))
         /\ \A op, t, v : eval_store(Bin(op, Typed(m), Imm(t, v))) = compute(op, Value(vals[m]), [dt |-> t, v |-> v])
         /\ eval_store(type_pass(Sym(m))) = vals[m]
         /\ \A t, v : eval_store(type_pass(Imm(t, v))) = v
         /\ vals[m] \in Values(dt)
<1>1. dt # "unknown" /\ vals[m] \in Values(dt)
  BY ValuesAre DEF Program
<1>2. \A j : Operand(Typed(j)) = Value(vals[j])
  BY <1>1 DEF Operand, Typed, eval_sym, Value
<1>3. \A t, v : Operand(Imm(t, v)) = [dt |-> t, v |-> v]
  BY DEF Operand, Imm, eval_imm
<1>4. type_pass(Sym(m)) = Typed(m) /\ Typed(m).kind # "bin"
  BY DEF type_pass, type_pass_sym, Sym, Typed
<1>5. \A t, v : type_pass(Imm(t, v)) = Imm(t, v) /\ Imm(t, v).kind # "bin"
  BY DEF type_pass, Imm
<1>6. eval_store(type_pass(Sym(m))) = vals[m]
  BY <1>2, <1>4 DEF eval_store, Value
<1>7. \A t, v : eval_store(type_pass(Imm(t, v))) = v
  BY <1>3, <1>5 DEF eval_store
<1>8. \A op, l, r : eval_store(Bin(op, l, r)) = compute(op, Operand(l), Operand(r))
  BY DEF eval_store, Bin
<1> QED BY <1>1, <1>2, <1>3, <1>6, <1>7, <1>8

(* The right-hand side as it was generated and as opt_arith_bin leaves it. *)
LEMMA Rewritten ==
  ASSUME Program, body = opt_arith_bin(type_pass(orig)), ~MixedShift
  PROVE  eval_store(type_pass(body)) = Meant
<1>1. PICK op \in Allowed(dt), m \in 0..1 :
        \E r \in {Sym(j) : j \in 0..1} \union {Imm(dt, v) : v \in Values(dt)} : orig = Bin(op, Sym(m), r)
  BY DEF Program, Generated
<1>2. dt \in Dts /\ vals[m] \in Values(dt)
  BY Stored DEF Program
<1>3. ASSUME NEW j \in 0..1, orig = Bin(op, Sym(m), Sym(j))
      PROVE  eval_store(type_pass(body)) = Meant
  <2> DEFINE b == Bin(op, Typed(m), Typed(j))
  <2>1. /\ Sym(j).kind = "sym" /\ [Sym(j) EXCEPT !.ti = dt] = Typed(j)
        /\ Typed(j).kind = "sym" /\ [Typed(j) EXCEPT !.ti = dt] = Typed(j)
    BY DEF Sym, Typed
  <2>2. type_pass(orig) = b /\ type_pass(b) = b
    BY <1>3, <2>1, Passed
  <2>3. b.op = op /\ b.lhs = Typed(m) /\ b.rhs = Typed(j) /\ Typed(m).kind = "sym" /\ Typed(m).idx = m /\ Typed(j).idx = j
    BY DEF Bin, Typed
  <2> HIDE DEF b
  <2>4. opt_arith_bin(b) = IF op = "-" /\ m = j THEN Imm("int", 0) ELSE b
    BY <2>1, <2>3 DEF opt_arith_bin
  <2>5. CASE op = "-" /\ m = j
    <3>1. Meant = compute(op, Value(vals[m]), Value(vals[m]))
      BY <2>2, <2>5, Stored DEF Meant, b
    <3>2. eval_store(type_pass(body)) = 0
      BY <2>2, <2>4, <2>5, Stored
    <3> QED BY <1>2, <2>5, <3>1, <3>2, Laws
  <2>6. CASE ~(op = "-" /\ m = j)
    BY <2>2, <2>4, <2>6 DEF Meant
  <2> QED BY <2>5, <2>6
<1>4. ASSUME NEW v \in Values(dt), orig = Bin(op, Sym(m), Imm(dt, v))
      PROVE  eval_store(type_pass(body)) = Meant
  <2> DEFINE b == Bin(op, Typed(m), Imm(dt, v))
             k == imm___int(Imm(dt, v))
             shift == Bin("<<", Sym(m), Imm("int", nth_bit(k)))
  <2>1. Imm(dt, v).kind = "imm"
    BY DEF Imm
  <2>2. type_pass(orig) = b /\ type_pass(b) = b
    BY <1>4, <2>1, Passed
  <2>3. b.op = op /\ b.lhs = Typed(m) /\ b.rhs = Imm(dt, v) /\ Typed(m).kind = "sym" /\ Typed(m).idx = m
    BY DEF Bin, Typed
  <2>4. Meant = compute(op, Value(vals[m]), Value(v))
    BY <2>2, Stored DEF Meant, Value
  <2> HIDE DEF b, k, shift
  <2>5. opt_arith_bin(b) = IF op \in {"+", "-", "|"} /\ k = 0 THEN Sym(m)
                           ELSE IF op \in {"*", "&"} /\ k = 0 THEN Imm("int", 0)
                           ELSE IF op = "*" /\ is_power_of_two(k) THEN shift ELSE b
    <3> DEFINE inner == CASE op \in {"+", "-", "|"} /\ k = 0 -> Sym(m)
                          [] op \in {"*", "&"} /\ k = 0 -> Imm("int", 0)
                          [] op = "*" /\ is_power_of_two(k) -> shift
                          [] OTHER -> b
    <3>1. b.lhs.kind = "sym" /\ b.rhs.kind # "sym" /\ b.rhs.kind = "imm" /\ b.lhs.idx = m /\ imm___int(b.rhs) = k
      BY <2>1, <2>3 DEF k
    <3>2. opt_arith_bin(b) = inner
      BY <2>3, <3>1 DEF opt_arith_bin, shift
    <3>3. CASE op \in {"+", "-", "|"} /\ k = 0
      BY <3>2, <3>3
    <3>4. CASE op \in {"*", "&"} /\ k = 0
      <4>1. \A n \in 0 .. IntBits - 2 : Pow2[n] # 0
        BY WidthsAssumption, Powers
      <4>2. ~is_power_of_two(k)
        BY <3>4, <4>1 DEF is_power_of_two
      <4> QED BY <3>2, <3>4, <4>2
    <3>5. CASE k # 0
      <4>1. CASE op = "*" /\ is_power_of_two(k)
        BY <3>2, <3>5, <4>1
      <4>2. CASE ~(op = "*" /\ is_power_of_two(k))
        BY <3>2, <3>5, <4>2
      <4> QED BY <4>1, <4>2
    <3>6. CASE op \notin {"+", "-", "|", "*", "&"}
      BY <3>2, <3>6
    <3> QED BY <3>3, <3>4, <3>5, <3>6
  <2>6. CASE op \in {"+", "-", "|"} /\ k = 0
    <3>1. v = 0
      BY <1>2, <2>6, NoBits DEF k
    <3>2. eval_store(type_pass(body)) = vals[m]
      BY <2>2, <2>5, <2>6, Stored
    <3> QED BY <1>2, <2>4, <2>6, <3>1, <3>2, Laws
  <2>7. CASE op \in {"*", "&"} /\ k = 0
    <3>1. v = 0
      BY <1>2, <2>7, NoBits DEF k
    <3>2. eval_store(type_pass(body)) = 0
      BY <2>2, <2>5, <2>7, Stored
    <3> QED BY <1>2, <2>4, <2>7, <3>1, <3>2, Laws
  <2>8. CASE op = "*" /\ is_power_of_two(k) /\ k # 0
    <3> DEFINE n == nth_bit(k)
    <3>1. body = shift
      BY <2>2, <2>5, <2>8
    <3>2. dt = "int"
      BY <3>1 DEF MixedShift, shift, Bin
    <3>3. k = v
      BY <3>2 DEF k, imm___int, Imm
    <3>4. v = Pow2[n]
      BY <2>8, <3>3 DEF is_power_of_two, nth_bit
    <3> HIDE DEF n
    <3>5. eval_store(type_pass(body)) = compute("<<", Value(vals[m]), Value(n))
      <4>1. type_pass(shift) = Bin("<<", Typed(m), Imm("int", n))
        <5>1. Imm("int", n).kind # "sym"
          BY DEF Imm
        <5> QED BY <5>1, Passed DEF shift, n
      <4>2. Value(n) = [dt |-> "int", v |-> n]
        BY <3>2 DEF Value
      <4> QED BY <3>1, <4>1, <4>2, Stored
    <3>6. compute("<<", Value(vals[m]), Value(n)) = Wrap(vals[m] * Pow2[n], IntBits)
      BY <3>2 DEF compute, Value, eval_ints
    <3>7. compute("*", Value(vals[m]), Value(v)) = Wrap(vals[m] * v, IntBits)
      BY <3>2 DEF compute, Value, eval_ints
    <3> QED BY <2>4, <2>8, <3>4, <3>5, <3>6, <3>7
  <2>9. CASE ~(op \in {"+", "-", "|"} /\ k = 0) /\ ~(op \in {"*", "&"} /\ k = 0) /\ ~(op = "*" /\ is_power_of_two(k))
    BY <2>2, <2>5, <2>9 DEF Meant
  <2> QED BY <2>6, <2>7, <2>8, <2>9
<1> QED BY <1>1, <1>3, <1>4

------------------------------------------------------------------------------

Stages ==
  /\ phase \in {"gen", "typed", "optimised", "done", "abort"} /\ Program
  /\ phase = "gen" => body = orig
  /\ phase = "typed" => body = type_pass(orig)
  /\ phase = "optimised" => body = opt_arith_bin(type_pass(orig))

LEMMA StagesStep ==
  ASSUME Stages, [ArithNext]_arithVars
  PROVE  Stages'
<1>1. CASE UNCHANGED arithVars
  BY <1>1 DEF arithVars, Stages, Program, Generated, Allowed, Values, type_pass, type_pass_sym
<1> DEFINE Kept == dt' = dt /\ vals' = vals /\ orig' = orig
<1>2. ASSUME Kept
      PROVE  Program' /\ type_pass(orig)' = type_pass(orig)
  BY <1>2 DEF Stages, Program, Generated, type_pass, type_pass_sym
<1>3. CASE ir_type_pass
  <2>1. Kept /\ phase = "gen" /\ (phase' = "abort" \/ (phase' = "typed" /\ body' = type_pass(body)))
    <3>1. phase = "gen" /\ UNCHANGED <<dt, vals, void_fn, orig, result>>
      BY <1>3, Zenon DEF ir_type_pass
    <3>2. phase' = "abort" \/ (phase' = "typed" /\ body' = type_pass(body))
      BY <1>3, Zenon DEF ir_type_pass
    <3> QED BY <3>1, <3>2
  <2> QED BY <1>2, <2>1 DEF Stages
<1>4. CASE ir_opt_arith
  <2>1. Kept /\ phase = "typed" /\ phase' = "optimised" /\ body' = opt_arith_bin(body)
    BY <1>4 DEF ir_opt_arith
  <2> QED BY <1>2, <2>1 DEF Stages
<1>5. CASE eval
  <2>1. Kept /\ phase' \in {"abort", "done"}
    BY <1>5 DEF eval
  <2> QED BY <1>2, <2>1 DEF Stages
<1> QED BY <1>1, <1>3, <1>4, <1>5 DEF ArithNext

(* RewriteSound, for every width of int and char and all values: what      *)
(* ir_opt_arith makes of an operation computes the same, shifts of chars   *)
(* and floats excepted.                                                    *)
THEOREM Rewriting == ArithSpec => []RewriteSound
<1>1. ArithInit => Stages
  BY DEF ArithInit, Stages, Program, Generated
<1>2. Stages /\ [ArithNext]_arithVars => Stages'
  BY StagesStep
<1>3. Stages => RewriteSound
  BY Rewritten DEF Stages, RewriteSound
<1> QED BY <1>1, <1>2, <1>3, PTL DEF ArithSpec

====
