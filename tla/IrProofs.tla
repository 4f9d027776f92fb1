---- MODULE IrProofs ----
(***************************************************************************)
(* The list of instructions that gen.c makes of any function: where its    *)
(* jumps go, the graph ir_cfg_build derives from them, and the list that   *)
(* reorder.c makes of it.                                                  *)
(***************************************************************************)
EXTENDS Reorder, SequenceTheorems, FiniteSetTheorems, WellFoundedInduction, TLAPS

Size(o)   == Len(o.code)
IsJ(o, n) == o.code[n + 1].op \in {"jump", "cond"}
Tgt(o, n) == o.code[n + 1].tgt

Instrs == [op : Opcodes, idx : Int, tgt : Int, loop : Int]

(* Instruction indices are positions in the list. *)
OutOK(o) ==
  /\ o \in [code : Seq(Instrs), ctr : Int, loop : Int]
  /\ o.ctr = Size(o) - 1
  /\ \A k \in 1 .. Size(o) : o.code[k].idx = k - 1

(* p is the list o with instructions added at its end, *)
Longer(o, p) ==
  /\ OutOK(p) /\ Size(p) \in Nat /\ Size(p) >= Size(o)
  /\ \A n \in 0 .. Size(o) - 1 : (IsJ(p, n) <=> IsJ(o, n)) /\ Tgt(p, n) = Tgt(o, n)

(* and none of them is a jump. *)
Plainly(o, p) == Longer(o, p) /\ \A n \in Size(o) .. Size(p) - 1 : ~IsJ(p, n)

(* The last instruction of p, and the only one that o does not have. *)
OneMore(o, p, t) ==
  Longer(o, p) /\ Size(p) = Size(o) + 1 /\ Tgt(p, Size(o)) = t

(* p is the list o with the target of instruction n set to t. *)
Patched(o, p, n, t) ==
  /\ OutOK(p) /\ Size(p) = Size(o)
  /\ \A m \in 0 .. Size(o) - 1 :
       (IsJ(p, m) <=> IsJ(o, m)) /\ Tgt(p, m) = IF m = n THEN t ELSE Tgt(o, m)

(* What emit() does to a list. *)
LEMMA EmitList ==
  ASSUME NEW o, OutOK(o), NEW ops \in Seq(Opcodes), NEW t \in Int
  PROVE  LET p == emit(o, ops, t) IN
         /\ OutOK(p) /\ Size(p) = Size(o) + Len(ops)
         /\ \A k \in 1 .. Size(o) : p.code[k] = o.code[k]
         /\ \A k \in 1 .. Len(ops) : p.code[Size(o) + k].op = ops[k] /\ p.code[Size(o) + k].tgt = t
<1> DEFINE p == emit(o, ops, t)
           new == [n \in 1 .. Len(ops) |->
                     [op |-> ops[n], idx |-> o.ctr + n, tgt |-> t, loop |-> o.loop]]
<1>1. o.code \in Seq(Instrs) /\ o.ctr \in Int /\ o.loop \in Int /\ o.ctr = Len(o.code) - 1
  BY DEF OutOK, Size
<1>2. new \in Seq(Instrs) /\ Len(new) = Len(ops)
  BY <1>1 DEF Instrs
<1>3. p = [code |-> o.code \o new, ctr |-> o.ctr + Len(ops), loop |-> o.loop]
  BY DEF emit
<1>4. o.code \o new \in Seq(Instrs) /\ Len(o.code \o new) = Len(o.code) + Len(ops)
  BY <1>1, <1>2
<1>5. \A k \in 1 .. Len(o.code) : (o.code \o new)[k] = o.code[k]
  BY <1>1, <1>2
<1>6. \A k \in 1 .. Len(ops) : (o.code \o new)[Len(o.code) + k] = new[k]
  BY <1>1, <1>2
<1>7. \A k \in 1 .. Len(o.code) + Len(ops) : (o.code \o new)[k].idx = k - 1
  <2> SUFFICES ASSUME NEW k \in 1 .. Len(o.code) + Len(ops) PROVE (o.code \o new)[k].idx = k - 1
    OBVIOUS
  <2>1. CASE k \in 1 .. Len(o.code)
    BY <2>1, <1>5 DEF OutOK, Size
  <2>2. CASE k \notin 1 .. Len(o.code)
    <3>1. k - Len(o.code) \in 1 .. Len(ops)
      BY <1>1, <2>2
    <3>2. (o.code \o new)[Len(o.code) + (k - Len(o.code))] = new[k - Len(o.code)]
      BY <1>6, <3>1
    <3>3. Len(o.code) + (k - Len(o.code)) = k
      BY <1>1
    <3> QED BY <1>1, <3>1, <3>2, <3>3
  <2> QED BY <2>1, <2>2
<1> HIDE DEF new
<1>8. OutOK(p) /\ Size(p) = Size(o) + Len(ops)
  BY <1>1, <1>3, <1>4, <1>7 DEF OutOK, Size
<1>9. \A k \in 1 .. Len(ops) : new[k].op = ops[k] /\ new[k].tgt = t
  BY DEF new
<1>10. p.code = o.code \o new
  BY <1>3
<1>11. \A k \in 1 .. Size(o) : p.code[k] = o.code[k]
  BY <1>5, <1>10 DEF Size
<1>12. \A k \in 1 .. Len(ops) : p.code[Size(o) + k].op = ops[k] /\ p.code[Size(o) + k].tgt = t
  BY <1>6, <1>9, <1>10 DEF Size
<1> HIDE DEF p
<1> QED BY <1>8, <1>11, <1>12 DEF p

(* The size of a list is a number, its targets are too. *)
LEMMA ListTyped ==
  ASSUME NEW o, OutOK(o)
  PROVE  /\ Size(o) \in Nat /\ o.ctr = Size(o) - 1
         /\ \A n \in 0 .. Size(o) - 1 : Tgt(o, n) \in Int
<1>1. o.code \in Seq(Instrs) /\ o.ctr = Size(o) - 1
  BY DEF OutOK
<1>2. Size(o) \in Nat
  BY <1>1 DEF Size
<1>3. ASSUME NEW n \in 0 .. Size(o) - 1 PROVE Tgt(o, n) \in Int
  <2>1. n + 1 \in 1 .. Len(o.code)
    BY <1>2 DEF Size
  <2>2. o.code[n + 1] \in Instrs
    BY <1>1, <2>1
  <2> QED BY <2>2 DEF Tgt, Instrs
<1> QED BY <1>1, <1>2, <1>3

(* A visit of an expression adds no jump. *)
LEMMA VisitList ==
  ASSUME NEW o, OutOK(o), NEW ops \in Seq(Plain)
  PROVE  Plainly(o, visit(o, ops))
<1> DEFINE p == visit(o, ops)
<1>1. ops \in Seq(Opcodes) /\ None \in Int /\ Len(ops) \in Nat /\ Size(o) \in Nat
  BY ListTyped DEF Plain, None
<1>2. /\ OutOK(p) /\ Size(p) = Size(o) + Len(ops)
      /\ \A k \in 1 .. Size(o) : p.code[k] = o.code[k]
      /\ \A k \in 1 .. Len(ops) : p.code[Size(o) + k].op = ops[k]
  BY <1>1, EmitList DEF visit
<1> HIDE DEF p
<1>3. \A n \in 0 .. Size(o) - 1 : (IsJ(p, n) <=> IsJ(o, n)) /\ Tgt(p, n) = Tgt(o, n)
  BY <1>1, <1>2 DEF IsJ, Tgt
<1>4. ASSUME NEW n \in Size(o) .. Size(p) - 1 PROVE ~IsJ(p, n)
  <2>1. n + 1 - Size(o) \in 1 .. Len(ops) /\ Size(o) + (n + 1 - Size(o)) = n + 1
    BY <1>1, <1>2
  <2>2. p.code[n + 1].op = ops[n + 1 - Size(o)]
    BY <1>2, <2>1
  <2>3. ops[n + 1 - Size(o)] \in Plain
    BY <2>1
  <2> QED BY <2>2, <2>3 DEF IsJ, Plain
<1> QED BY <1>1, <1>2, <1>3, <1>4 DEF Plainly, Longer, p

(* insert() adds one instruction. *)
LEMMA InsertList ==
  ASSUME NEW o, OutOK(o), NEW op \in Opcodes, NEW t \in Int
  PROVE  /\ OneMore(o, insert(o, op, t), t)
         /\ IsJ(insert(o, op, t), Size(o)) <=> op \in {"jump", "cond"}
<1> DEFINE p == insert(o, op, t)
<1>1. <<op>> \in Seq(Opcodes) /\ Len(<<op>>) = 1 /\ Size(o) \in Nat /\ <<op>>[1] = op
  BY ListTyped
<1>2. /\ OutOK(p) /\ Size(p) = Size(o) + 1
      /\ \A k \in 1 .. Size(o) : p.code[k] = o.code[k]
      /\ \A k \in 1 .. 1 : p.code[Size(o) + k].op = <<op>>[k] /\ p.code[Size(o) + k].tgt = t
  BY ZenonT(30), <1>1, EmitList DEF insert
<1> HIDE DEF p
<1>3. \A n \in 0 .. Size(o) - 1 : (IsJ(p, n) <=> IsJ(o, n)) /\ Tgt(p, n) = Tgt(o, n)
  BY <1>1, <1>2 DEF IsJ, Tgt
<1>4. p.code[Size(o) + 1].op = op /\ p.code[Size(o) + 1].tgt = t
  BY <1>1, <1>2
<1> QED BY <1>1, <1>2, <1>3, <1>4 DEF OneMore, Longer, IsJ, Tgt, p

(* Setting the target of an instruction changes nothing else. *)
LEMMA PatchList ==
  ASSUME NEW o, OutOK(o), NEW n \in 0 .. Size(o) - 1, NEW t \in Int
  PROVE  Patched(o, patch(o, n, t), n, t)
<1> DEFINE p == patch(o, n, t)
           new == [o.code EXCEPT ![n + 1].tgt = t]
<1>1. o.code \in Seq(Instrs) /\ Size(o) \in Nat /\ n + 1 \in 1 .. Len(o.code)
  BY ListTyped DEF OutOK, Size
<1>2. p.code = new /\ p.ctr = o.ctr /\ p.loop = o.loop /\ p \in [code : Seq(Instrs), ctr : Int, loop : Int]
  <2>1. o \in [code : Seq(Instrs), ctr : Int, loop : Int]
    BY DEF OutOK
  <2>2. o.code[n + 1] \in Instrs
    BY <1>1
  <2>3. [o.code[n + 1] EXCEPT !.tgt = t] \in Instrs
    BY <2>2 DEF Instrs
  <2>4. new \in Seq(Instrs)
    BY <1>1, <2>3
  <2>5. p = [o EXCEPT !.code = new]
    BY DEF patch
  <2> QED BY <2>1, <2>4, <2>5
<1>3. Len(new) = Len(o.code)
  BY <1>1
<1>4. \A k \in 1 .. Len(o.code) :
        /\ new[k].op = o.code[k].op /\ new[k].idx = o.code[k].idx
        /\ new[k].tgt = IF k = n + 1 THEN t ELSE o.code[k].tgt
  <2>1. \A k \in 1 .. Len(o.code) : o.code[k] \in Instrs
    BY <1>1
  <2>2. \A k \in 1 .. Len(o.code) : k # n + 1 => new[k] = o.code[k]
    BY <1>1
  <2>3. new[n + 1] = [o.code[n + 1] EXCEPT !.tgt = t]
    BY <1>1
  <2>4. new[n + 1].op = o.code[n + 1].op /\ new[n + 1].idx = o.code[n + 1].idx /\ new[n + 1].tgt = t
    BY <1>1, <2>1, <2>3 DEF Instrs
  <2> QED BY <2>2, <2>4
<1> HIDE DEF new, p
<1>5. OutOK(p) /\ Size(p) = Size(o)
  BY <1>2, <1>3, <1>4 DEF OutOK, Size
<1>6. ASSUME NEW m \in 0 .. Size(o) - 1
      PROVE  (IsJ(p, m) <=> IsJ(o, m)) /\ Tgt(p, m) = IF m = n THEN t ELSE Tgt(o, m)
  <2>1. m + 1 \in 1 .. Len(o.code) /\ (m + 1 = n + 1 <=> m = n)
    BY <1>1 DEF Size
  <2> QED BY <1>2, <1>4, <2>1 DEF IsJ, Tgt
<1> QED BY <1>5, <1>6 DEF Patched, p

(* A condition and its exit jump: the one goes past the other, whose       *)
(* target is still open.                                                   *)
LEMMA CondJumpList ==
  ASSUME NEW o, OutOK(o)
  PROVE  LET p == cond_jump(o) IN
         /\ Longer(o, p) /\ Size(p) = Size(o) + 2 /\ p.ctr = Size(o) + 1
         /\ IsJ(p, Size(o)) /\ Tgt(p, Size(o)) = Size(o) + 2
         /\ IsJ(p, Size(o) + 1) /\ Tgt(p, Size(o) + 1) = None
<1> DEFINE a == insert(o, "cond", None)
           b == insert(a, "jump", None)
           p == patch(b, b.ctr - 1, b.ctr + 1)
<1>s. "cond" \in Opcodes /\ "jump" \in Opcodes
  BY DEF Opcodes
<1>0. None \in Int /\ Size(o) \in Nat
  BY ListTyped DEF None
<1>1. OneMore(o, a, None) /\ IsJ(a, Size(o))
  BY <1>0, <1>s, InsertList
<1>2. OutOK(a)
  BY <1>1 DEF OneMore, Longer
<1>3. OneMore(a, b, None) /\ IsJ(b, Size(a))
  BY <1>0, <1>s, <1>2, InsertList
<1> HIDE DEF a, b
<1>4. OutOK(b) /\ Size(b) = Size(o) + 2 /\ b.ctr = Size(o) + 1
  BY <1>0, <1>1, <1>3, ListTyped DEF OneMore, Longer
<1>5. Patched(b, p, Size(o), Size(o) + 2)
  <2>1. b.ctr - 1 = Size(o) /\ b.ctr + 1 = Size(o) + 2 /\ b.ctr - 1 \in 0 .. Size(b) - 1
    BY <1>0, <1>4
  <2> QED BY <1>0, <1>4, <2>1, PatchList
<1> HIDE DEF p
<1>6. p.ctr = Size(o) + 1
  BY <1>4, <1>5, <1>0, ListTyped DEF Patched
<1>7. Longer(o, p)
  BY <1>0, <1>1, <1>3, <1>4, <1>5 DEF OneMore, Longer, Patched
<1>8. /\ IsJ(p, Size(o)) /\ Tgt(p, Size(o)) = Size(o) + 2
      /\ IsJ(p, Size(o) + 1) /\ Tgt(p, Size(o) + 1) = None
  BY <1>0, <1>1, <1>3, <1>4, <1>5 DEF OneMore, Longer, Patched
<1>9. cond_jump(o) = p
  BY DEF cond_jump, p, a, b
<1> QED BY <1>4, <1>5, <1>6, <1>7, <1>8, <1>9 DEF Patched

(* Entering a loop counts it and adds no instruction. *)
LEMMA EnterList ==
  ASSUME NEW o, OutOK(o)
  PROVE  Plainly(o, Enter(o)) /\ Size(Enter(o)) = Size(o)
<1>1. o \in [code : Seq(Instrs), ctr : Int, loop : Int]
  BY DEF OutOK
<1>2. Enter(o) \in [code : Seq(Instrs), ctr : Int, loop : Int] /\ Enter(o).code = o.code /\ Enter(o).ctr = o.ctr
  BY <1>1 DEF Enter
<1>3. OutOK(Enter(o)) /\ Size(Enter(o)) = Size(o) /\ Size(o) \in Nat
  BY <1>2, ListTyped DEF OutOK, Size
<1> QED BY <1>2, <1>3 DEF Plainly, Longer, IsJ, Tgt

------------------------------------------------------------------------------
(* The inductive invariant. *)

(* A do loop has no exit jump: its condition is its last instruction. *)
Frames == {f \in [kind : {"if", "else"} \union Loops, from : Nat, exit : Int, body : Nat,
                  incr : Seq(Plain)] : f.kind = "do" => f.exit = None}

(* ir_last is the last instruction of the list. *)
LastInv == (last = NULL /\ Size(out) = 0) \/ last = Size(out) - 1

(* Open statements nest: the code of an inner one begins in the body of    *)
(* the outer one.  The exit jump of each stands before its body and waits  *)
(* for its target.                                                         *)
FrameInv ==
  /\ open \in Seq(Frames)
  /\ \A d \in DOMAIN open :
       /\ open[d].from <= open[d].body /\ open[d].body <= Size(out)
       /\ \/ open[d].exit = None /\ open[d].kind \in {"do", "for"}
          \/ /\ open[d].from <= open[d].exit /\ open[d].exit < open[d].body
             /\ IsJ(out, open[d].exit) /\ Tgt(out, open[d].exit) = None
  /\ \A d, e \in DOMAIN open : d < e => open[d].body <= open[e].from

(* A jump goes to an instruction of the list or just past it, unless it is *)
(* the exit jump of an open statement.                                     *)
TargetInv ==
  \A n \in 0 .. Size(out) - 1 : IsJ(out, n) =>
    \/ Tgt(out, n) \in 0 .. Size(out)
    \/ Tgt(out, n) = None /\ \E d \in DOMAIN open : open[d].exit = n

(* ir_loop_header_stack holds the headers of the open loops, outermost     *)
(* first: m says of which one.                                             *)
HeaderMap(m) ==
  /\ \A k \in DOMAIN m : ir_loop_header_stack[k] = open[m[k]].from
  /\ \A j, k \in DOMAIN m : j < k => m[j] < m[k]
  /\ \A d \in OpenLoops : \E k \in DOMAIN m : m[k] = d
HeaderInv ==
  /\ ir_loop_header_stack \in Seq(Nat)
  /\ \E m \in [1 .. Len(ir_loop_header_stack) -> OpenLoops] : HeaderMap(m)

(* A finished statement lies before an open one or inside its body, and    *)
(* never around the exit jump of an open one.                              *)
ClosedInv ==
  \A r \in closed :
    /\ r.from \in Nat /\ r.to \in Nat /\ r.to <= Size(out)
    /\ \A d \in DOMAIN open :
         /\ r.to <= open[d].from \/ open[d].from <= r.from
         /\ open[d].exit < r.from \/ r.to <= open[d].exit

(* A jump that has its target and is no break. *)
Settled(n) == IsJ(out, n) /\ ~IsBreak(n) /\ Tgt(out, n) # None

(* Such a jump enters an open statement or its body at the start only, and *)
(* does not leave an open loop backwards.                                  *)
NestInv ==
  \A n \in 0 .. Size(out) - 1, d \in DOMAIN open :
    Settled(n) =>
      /\ n < open[d].from => Tgt(out, n) <= open[d].from
      /\ n < open[d].body => Tgt(out, n) <= open[d].body
      /\ open[d].kind \in Loops /\ n >= open[d].from => Tgt(out, n) >= open[d].from

(* ir_break_stack holds break jumps. *)
BreakInv ==
  /\ ir_break_stack \in Seq(Nat)
  /\ \A k \in DOMAIN ir_break_stack :
       LET b == ir_break_stack[k] IN
         b < Size(out) /\ IsJ(out, b) /\ IsBreak(b) /\ Tgt(out, b) # None

(* JumpsStructured. *)
StructInv ==
  \A r \in closed, n \in 0 .. Size(out) - 1 :
    IsJ(out, n) /\ ~IsBreak(n) =>
      /\ n \notin Inside(r) /\ Tgt(out, n) \in Inside(r) => Tgt(out, n) = r.from
      /\ n \in Inside(r) /\ r.kind \in Loops => Tgt(out, n) \in r.from .. r.to

Core == /\ OutOK(out) /\ LastInv /\ FrameInv /\ TargetInv /\ HeaderInv
        /\ ClosedInv /\ NestInv /\ BreakInv /\ StructInv

DoneInv ==
  /\ dt \in {"void", "int"}
  /\ phase = "done" =>
       /\ open = <<>>
       /\ dt = "void" => \A n \in 0 .. Size(out) - 1 : IsJ(out, n) => Tgt(out, n) < Size(out)

IInv == Core /\ DoneInv


------------------------------------------------------------------------------
(* One lemma per kind of step. *)

(* The numbers in a frame. *)
LEMMA FrameTyped ==
  ASSUME FrameInv
  PROVE  /\ Len(open) \in Nat /\ DOMAIN open = 1 .. Len(open)
         /\ \A d \in DOMAIN open :
              /\ open[d] \in Frames
              /\ open[d].from \in Nat /\ open[d].body \in Nat /\ open[d].exit \in Int
              /\ open[d].incr \in Seq(Plain)
<1>1. open \in Seq(Frames)
  BY DEF FrameInv
<1>2. \A d \in DOMAIN open : open[d] \in Frames
  BY <1>1
<1>3. Len(open) \in Nat /\ DOMAIN open = 1 .. Len(open)
  BY <1>1
<1> QED BY <1>2, <1>3 DEF Frames

(* The headers stay those of the open loops if neither changes. *)
LEMMA HeaderSame ==
  ASSUME HeaderInv, ir_loop_header_stack' = ir_loop_header_stack,
         DOMAIN open' = DOMAIN open,
         \A d \in DOMAIN open : (open'[d].kind \in Loops <=> open[d].kind \in Loops)
                                /\ open'[d].from = open[d].from
  PROVE  HeaderInv'
<1>1. OpenLoops' = OpenLoops /\ OpenLoops \subseteq DOMAIN open
  BY DEF OpenLoops
<1>2. PICK m \in [1 .. Len(ir_loop_header_stack) -> OpenLoops] : HeaderMap(m)
  BY DEF HeaderInv
<1>3. HeaderMap(m)'
  BY <1>1, <1>2 DEF HeaderMap
<1> QED BY <1>1, <1>2, <1>3 DEF HeaderInv

(* Instructions that are no jumps: simple statements, returns, the end of  *)
(* the function.                                                           *)
LEMMA PlainKeeps ==
  ASSUME Core, Plainly(out, out'), last' = Size(out') - 1,
         UNCHANGED <<open, ir_break_stack, ir_loop_header_stack, closed, flow>>
  PROVE  Core'
<1> USE DEF Core
<1>0. /\ OutOK(out)' /\ Size(out) \in Nat /\ Size(out') \in Nat /\ Size(out) <= Size(out')
      /\ \A n \in 0 .. Size(out) - 1 : (IsJ(out', n) <=> IsJ(out, n)) /\ Tgt(out', n) = Tgt(out, n)
      /\ \A n \in 0 .. Size(out') - 1 : IsJ(out', n) => n \in 0 .. Size(out) - 1
  BY ListTyped DEF Plainly, Longer, OutOK, Size
<1>1. \A n : IsBreak(n)' <=> IsBreak(n)
  BY DEF IsBreak
<1>2. LastInv'
  BY DEF LastInv
<1>3. FrameInv'
  <2>1. \A d \in DOMAIN open : open[d].from \in Nat /\ open[d].body \in Nat /\ open[d].exit \in Int
    BY FrameTyped
  <2> QED BY <1>0, <2>1 DEF FrameInv
<1>4. TargetInv'
  BY <1>0 DEF TargetInv
<1>5. HeaderInv'
  BY HeaderSame
<1>6. ClosedInv'
  BY <1>0 DEF ClosedInv
<1>7. NestInv'
  BY <1>0, <1>1 DEF NestInv, Settled
<1>8. BreakInv'
  BY <1>0, <1>1 DEF BreakInv
<1>9. StructInv'
  BY <1>0, <1>1 DEF StructInv, Inside
<1> QED BY <1>0, <1>2, <1>3, <1>4, <1>5, <1>6, <1>7, <1>8, <1>9

(* A control statement is opened. *)
LEMMA OpenKeeps ==
  ASSUME Core, NEW f \in Frames, Longer(out, out'), LastInv',
         Size(out) <= f.from, f.from <= f.body, f.body = Size(out'),
         \A n \in Size(out) .. Size(out') - 1 : IsJ(out', n) =>
            f.from <= n /\ (Tgt(out', n) = Size(out') \/ (Tgt(out', n) = None /\ n = f.exit)),
         \/ f.exit = None /\ f.kind \in {"do", "for"}
         \/ /\ f.from <= f.exit /\ f.exit < f.body
            /\ IsJ(out', f.exit) /\ Tgt(out', f.exit) = None,
         open' = Append(open, f),
         ir_loop_header_stack' = IF f.kind \in Loops THEN Append(ir_loop_header_stack, f.from)
                                                     ELSE ir_loop_header_stack,
         UNCHANGED <<ir_break_stack, closed, flow>>
  PROVE  Core'
<1> USE DEF Core
<1> DEFINE L == Len(open)
<1>0. /\ OutOK(out)' /\ Size(out) \in Nat /\ Size(out') \in Nat /\ Size(out) <= Size(out')
      /\ \A n \in 0 .. Size(out) - 1 : (IsJ(out', n) <=> IsJ(out, n)) /\ Tgt(out', n) = Tgt(out, n)
      /\ \A n \in 0 .. Size(out) - 1 : Tgt(out, n) \in Int
  BY ListTyped DEF Longer
<1>1. \A n : IsBreak(n)' <=> IsBreak(n)
  BY DEF IsBreak
<1>2. /\ L \in Nat /\ DOMAIN open = 1 .. L /\ open \in Seq(Frames)
      /\ \A d \in 1 .. L : open[d].from \in Nat /\ open[d].body \in Nat /\ open[d].exit \in Int
  BY FrameTyped DEF FrameInv
<1>3. /\ open' \in Seq(Frames) /\ DOMAIN open' = 1 .. L + 1 /\ open'[L + 1] = f
      /\ \A d \in 1 .. L : open'[d] = open[d]
  BY <1>2
<1>4. f.from \in Nat /\ f.body \in Nat /\ f.exit \in Int
  BY DEF Frames
<1> HIDE DEF L
<1>N. L \in Nat /\ Size(out) \in Nat /\ Size(out') \in Nat /\ Size(out) <= Size(out')
  BY <1>0, <1>2
<1>d. \A d \in 1 .. L :
        /\ open[d].from <= open[d].body /\ open[d].body <= Size(out)
        /\ \/ open[d].exit = None /\ open[d].kind \in {"do", "for"}
           \/ /\ open[d].from <= open[d].exit /\ open[d].exit < open[d].body
              /\ open[d].exit \in 0 .. Size(out) - 1
              /\ IsJ(out, open[d].exit) /\ Tgt(out, open[d].exit) = None
  <2> SUFFICES ASSUME NEW d \in 1 .. L
               PROVE  /\ open[d].from <= open[d].body /\ open[d].body <= Size(out)
                      /\ \/ open[d].exit = None /\ open[d].kind \in {"do", "for"}
                         \/ /\ open[d].from <= open[d].exit /\ open[d].exit < open[d].body
                            /\ open[d].exit \in 0 .. Size(out) - 1
                            /\ IsJ(out, open[d].exit) /\ Tgt(out, open[d].exit) = None
    OBVIOUS
  <2>1. d \in DOMAIN open /\ open[d].from \in Nat /\ open[d].body \in Nat /\ open[d].exit \in Int
    BY <1>2
  <2> QED BY <2>1, <1>N DEF FrameInv
<1>5. FrameInv'
  <2>1. ASSUME NEW d \in 1 .. L + 1
        PROVE  /\ open'[d].from <= open'[d].body /\ open'[d].body <= Size(out')
               /\ \/ open'[d].exit = None /\ open'[d].kind \in {"do", "for"}
                  \/ /\ open'[d].from <= open'[d].exit /\ open'[d].exit < open'[d].body
                     /\ IsJ(out', open'[d].exit) /\ Tgt(out', open'[d].exit) = None
    <3>1. CASE d = L + 1
      BY <3>1, <1>0, <1>3, <1>4
    <3>2. CASE d \in 1 .. L
      <4>1. open'[d] = open[d] /\ open[d].body \in Nat
        BY <3>2, <1>2, <1>3
      <4> QED BY <3>2, <4>1, <1>0, <1>d
    <3>c. d = L + 1 \/ d \in 1 .. L
      BY <1>N
    <3> QED BY <3>1, <3>2, <3>c
  <2>2. ASSUME NEW d \in 1 .. L + 1, NEW e \in 1 .. L + 1, d < e
        PROVE  open'[d].body <= open'[e].from
    <3>0. d \in 1 .. L /\ open'[d] = open[d] /\ open[d].body \in Nat
      BY <2>2, <1>2, <1>3
    <3>1. CASE e = L + 1
      BY <3>0, <3>1, <1>d, <1>0, <1>3, <1>4
    <3>2. CASE e \in 1 .. L
      <4>1. open'[e] = open[e]
        BY <3>2, <1>3
      <4> QED BY <2>2, <3>0, <3>2, <4>1, <1>2 DEF FrameInv
    <3>c. e = L + 1 \/ e \in 1 .. L
      BY <1>N
    <3> QED BY <3>1, <3>2, <3>c
  <2> QED BY <1>3, <2>1, <2>2 DEF FrameInv
<1>6. TargetInv'
  <2> SUFFICES ASSUME NEW n \in 0 .. Size(out') - 1, IsJ(out', n)
               PROVE  \/ Tgt(out', n) \in 0 .. Size(out')
                      \/ Tgt(out', n) = None /\ \E d \in 1 .. L + 1 : open'[d].exit = n
    BY <1>3 DEF TargetInv
  <2>1. CASE n \in 0 .. Size(out) - 1
    <3>1. IsJ(out, n) /\ Tgt(out', n) = Tgt(out, n)
      BY <2>1, <1>0
    <3>2. CASE Tgt(out, n) \in 0 .. Size(out)
      BY <3>1, <3>2, <1>0
    <3>3. CASE Tgt(out, n) = None /\ \E d \in 1 .. L : open[d].exit = n
      BY <3>1, <3>3, <1>2, <1>3
    <3> QED BY <2>1, <3>1, <3>2, <3>3, <1>2 DEF TargetInv
  <2>2. CASE n \in Size(out) .. Size(out') - 1
    BY <2>2, <1>0, <1>2, <1>3
  <2>c. n \in 0 .. Size(out) - 1 \/ n \in Size(out) .. Size(out') - 1
    BY <1>N
  <2> QED BY <2>1, <2>2, <2>c
<1>7. HeaderInv'
  <2>1. CASE f.kind \notin Loops
    <3>1. OpenLoops' = OpenLoops
      BY <2>1, <1>2, <1>3 DEF OpenLoops
    <3>2. PICK m \in [1 .. Len(ir_loop_header_stack) -> OpenLoops] : HeaderMap(m)
      BY DEF HeaderInv
    <3>3. OpenLoops \subseteq 1 .. L
      BY <1>2 DEF OpenLoops
    <3>4. HeaderMap(m)'
      BY <2>1, <3>1, <3>2, <3>3, <1>3 DEF HeaderMap
    <3> QED BY <2>1, <3>1, <3>2, <3>4 DEF HeaderInv
  <2>2. CASE f.kind \in Loops
    <3> DEFINE h == ir_loop_header_stack
               K == Len(h)
    <3>1. OpenLoops' = OpenLoops \union {L + 1} /\ OpenLoops \subseteq 1 .. L
      BY <2>2, <1>2, <1>3 DEF OpenLoops
    <3>2. PICK m \in [1 .. K -> OpenLoops] : HeaderMap(m)
      BY DEF HeaderInv
    <3>3. /\ h \in Seq(Nat) /\ K \in Nat /\ h' \in Seq(Nat) /\ Len(h') = K + 1
          /\ h'[K + 1] = f.from /\ \A k \in 1 .. K : h'[k] = h[k]
      BY <2>2, <1>4 DEF HeaderInv
    <3> DEFINE w == [k \in 1 .. K + 1 |-> IF k = K + 1 THEN L + 1 ELSE m[k]]
    <3>4. w \in [1 .. K + 1 -> OpenLoops']
      BY <3>1, <3>2, <3>3
    <3>5. \A k \in 1 .. K : w[k] = m[k]
      BY <3>3
    <3>6. w[K + 1] = L + 1 /\ DOMAIN w = 1 .. K + 1
      BY <3>3
    <3> HIDE DEF w, h, K
    <3>K. K \in Nat
      BY <3>3
    <3>t. DOMAIN m = 1 .. K /\ \A k \in 1 .. K : m[k] \in 1 .. L /\ h[k] = open[m[k]].from
      BY <3>1, <3>2 DEF HeaderMap, h, K
    <3>7. \A k \in 1 .. K + 1 : h'[k] = open'[w[k]].from
      <4> SUFFICES ASSUME NEW k \in 1 .. K + 1 PROVE h'[k] = open'[w[k]].from
        OBVIOUS
      <4>1. CASE k = K + 1
        BY <4>1, <3>3, <3>6, <1>3
      <4>2. CASE k \in 1 .. K
        <5>1. h'[k] = h[k] /\ w[k] = m[k] /\ m[k] \in 1 .. L /\ h[k] = open[m[k]].from
          BY <4>2, <3>3, <3>5, <3>t
        <5>2. open'[m[k]] = open[m[k]]
          BY <5>1, <1>3
        <5> QED BY <5>1, <5>2
      <4>c. k = K + 1 \/ k \in 1 .. K
        BY <3>K
      <4> QED BY <4>1, <4>2, <4>c
    <3>8. \A j, k \in 1 .. K + 1 : j < k => w[j] < w[k]
      <4> SUFFICES ASSUME NEW j \in 1 .. K + 1, NEW k \in 1 .. K + 1, j < k PROVE w[j] < w[k]
        OBVIOUS
      <4>1. CASE k = K + 1
        <5>1. j \in 1 .. K
          BY <4>1, <3>3
        <5>2. w[j] = m[j] /\ m[j] \in 1 .. L
          BY <5>1, <3>5, <3>t
        <5> QED BY <4>1, <5>2, <3>6, <1>2
      <4>2. CASE k \in 1 .. K
        <5>1. j \in 1 .. K /\ DOMAIN m = 1 .. K
          BY <4>2, <3>t, <3>3
        <5>2. m[j] < m[k]
          BY <4>2, <5>1, <3>2 DEF HeaderMap
        <5> QED BY <4>2, <5>1, <5>2, <3>5
      <4>c. k = K + 1 \/ k \in 1 .. K
        BY <3>K
      <4> QED BY <4>1, <4>2, <4>c
    <3>9. \A d \in OpenLoops' : \E k \in 1 .. K + 1 : w[k] = d
      <4> SUFFICES ASSUME NEW d \in OpenLoops' PROVE \E k \in 1 .. K + 1 : w[k] = d
        OBVIOUS
      <4>1. CASE d = L + 1
        BY <4>1, <3>3, <3>6
      <4>2. CASE d \in OpenLoops
        <5>1. PICK k \in 1 .. K : m[k] = d
          BY <4>2, <3>2, <3>t DEF HeaderMap
        <5>2. k \in 1 .. K + 1
          BY <3>3
        <5> QED BY <5>1, <5>2, <3>5
      <4> QED BY <4>1, <4>2, <3>1
    <3>10. PICK v : v = w
      OBVIOUS
    <3>11. HeaderMap(v)'
      <4>1. v = w /\ DOMAIN v = 1 .. K + 1
        BY <3>6, <3>10
      <4>2. \A k \in DOMAIN v : ir_loop_header_stack'[k] = open'[v[k]].from
        BY <4>1, <3>7 DEF h
      <4>3. \A j, k \in DOMAIN v : j < k => v[j] < v[k]
        BY <4>1, <3>8
      <4>4. \A d \in OpenLoops' : \E k \in DOMAIN v : v[k] = d
        BY <4>1, <3>9
      <4> QED BY <4>2, <4>3, <4>4 DEF HeaderMap
    <3>12. Len(ir_loop_header_stack') = K + 1 /\ ir_loop_header_stack' \in Seq(Nat)
      BY <3>3 DEF h
    <3> QED BY <3>4, <3>10, <3>11, <3>12 DEF HeaderInv
  <2> QED BY <2>1, <2>2
<1>8. ClosedInv'
  <2> SUFFICES ASSUME NEW r \in closed
               PROVE  /\ r.from \in Nat /\ r.to \in Nat /\ r.to <= Size(out')
                      /\ \A d \in 1 .. L + 1 :
                           /\ r.to <= open'[d].from \/ open'[d].from <= r.from
                           /\ open'[d].exit < r.from \/ r.to <= open'[d].exit
    BY <1>3 DEF ClosedInv
  <2>1. r.from \in Nat /\ r.to \in Nat /\ r.to <= Size(out)
    BY DEF ClosedInv
  <2>2. \A d \in 1 .. L : /\ r.to <= open'[d].from \/ open'[d].from <= r.from
                          /\ open'[d].exit < r.from \/ r.to <= open'[d].exit
    BY <1>2, <1>3 DEF ClosedInv
  <2>3. r.to <= f.from /\ (f.exit < r.from \/ r.to <= f.exit)
    BY <2>1, <1>0, <1>4 DEF None
  <2>4. ASSUME NEW d \in 1 .. L + 1
        PROVE  /\ r.to <= open'[d].from \/ open'[d].from <= r.from
               /\ open'[d].exit < r.from \/ r.to <= open'[d].exit
    <3>1. CASE d = L + 1
      BY <3>1, <2>3, <1>3
    <3>2. CASE d \in 1 .. L
      BY <3>2, <2>2
    <3>c. d = L + 1 \/ d \in 1 .. L
      BY <1>N
    <3> QED BY <3>1, <3>2, <3>c
  <2>5. r.to <= Size(out')
    BY <2>1, <1>N
  <2> QED BY <2>1, <2>4, <2>5
<1>9. NestInv'
  <2> SUFFICES ASSUME NEW n \in 0 .. Size(out') - 1, NEW d \in 1 .. L + 1, Settled(n)'
               PROVE  /\ n < open'[d].from => Tgt(out', n) <= open'[d].from
                      /\ n < open'[d].body => Tgt(out', n) <= open'[d].body
                      /\ open'[d].kind \in Loops /\ n >= open'[d].from => Tgt(out', n) >= open'[d].from
    BY <1>3 DEF NestInv
  <2>1. CASE n \in 0 .. Size(out) - 1
    <3>1. Settled(n) /\ Tgt(out', n) = Tgt(out, n) /\ Tgt(out, n) \in 0 .. Size(out)
      BY <2>1, <1>0, <1>1 DEF Settled, TargetInv
    <3>2. CASE d = L + 1
      BY <2>1, <3>1, <3>2, <1>0, <1>3, <1>4
    <3>3. CASE d \in 1 .. L
      BY <2>1, <3>1, <3>3, <1>2, <1>3 DEF NestInv
    <3>c. d = L + 1 \/ d \in 1 .. L
      BY <1>N
    <3> QED BY <3>2, <3>3, <3>c
  <2>2. CASE n \in Size(out) .. Size(out') - 1
    <3>1. Tgt(out', n) = Size(out') /\ f.from <= n
      BY <2>2 DEF Settled
    <3>2. CASE d = L + 1
      BY <2>2, <3>1, <3>2, <1>0, <1>3, <1>4
    <3>3. CASE d \in 1 .. L
      <4>1. open'[d] = open[d] /\ open[d].from \in Nat /\ open[d].body \in Nat
        BY <3>3, <1>2, <1>3
      <4>2. open[d].from <= open[d].body /\ open[d].body <= Size(out)
        BY <3>3, <1>d
      <4> QED BY <2>2, <3>1, <4>1, <4>2, <1>N
    <3>c. d = L + 1 \/ d \in 1 .. L
      BY <1>N
    <3> QED BY <3>2, <3>3, <3>c
  <2>c. n \in 0 .. Size(out) - 1 \/ n \in Size(out) .. Size(out') - 1
    BY <1>N
  <2> QED BY <2>1, <2>2, <2>c
<1>10. BreakInv'
  BY <1>0, <1>1 DEF BreakInv
<1>11. StructInv'
  <2> SUFFICES ASSUME NEW r \in closed, NEW n \in 0 .. Size(out') - 1, IsJ(out', n), ~IsBreak(n)
               PROVE  /\ n \notin Inside(r) /\ Tgt(out', n) \in Inside(r) => Tgt(out', n) = r.from
                      /\ n \in Inside(r) /\ r.kind \in Loops => Tgt(out', n) \in r.from .. r.to
    BY <1>1 DEF StructInv
  <2>0. r.from \in Nat /\ r.to \in Nat /\ r.to <= Size(out)
    BY DEF ClosedInv
  <2>1. CASE n \in 0 .. Size(out) - 1
    BY <2>1, <1>0 DEF StructInv
  <2>2. CASE n \in Size(out) .. Size(out') - 1
    <3>1. n \notin Inside(r)
      BY <2>0, <2>2, <1>0 DEF Inside
    <3>2. Tgt(out', n) \notin Inside(r)
      BY SMTT(30), <2>0, <2>2, <1>0 DEF Inside, None
    <3> QED BY <3>1, <3>2
  <2>c. n \in 0 .. Size(out) - 1 \/ n \in Size(out) .. Size(out') - 1
    BY <1>N
  <2> QED BY <2>1, <2>2, <2>c
<1> QED BY <1>0, <1>5, <1>6, <1>7, <1>8, <1>9, <1>10, <1>11

(* What the frames of the open statements say, with the numbers typed. *)
LEMMA FrameFacts ==
  ASSUME FrameInv, OutOK(out), NEW d \in 1 .. Len(open)
  PROVE  /\ open[d].from \in Nat /\ open[d].body \in Nat /\ open[d].exit \in Int
         /\ open[d].from <= open[d].body /\ open[d].body <= Size(out)
         /\ \/ open[d].exit = None /\ open[d].kind \in {"do", "for"}
            \/ /\ open[d].from <= open[d].exit /\ open[d].exit < open[d].body
               /\ open[d].exit \in 0 .. Size(out) - 1
               /\ IsJ(out, open[d].exit) /\ Tgt(out, open[d].exit) = None
         /\ \A e \in 1 .. Len(open) : d < e => open[d].body <= open[e].from
<1>0. Size(out) \in Nat
  BY ListTyped
<1>1. DOMAIN open = 1 .. Len(open)
  BY FrameTyped
<1>2. open[d].from \in Nat /\ open[d].body \in Nat /\ open[d].exit \in Int
  BY <1>1, FrameTyped
<1> QED BY <1>0, <1>1, <1>2 DEF FrameInv

(* The innermost open loop has the last header. *)
LEMMA LastHeader ==
  ASSUME HeaderInv, FrameInv, NEW d \in OpenLoops, \A e \in OpenLoops : e <= d
  PROVE  /\ ir_loop_header_stack # <<>>
         /\ Last(ir_loop_header_stack) = open[d].from
         /\ \A m \in [1 .. Len(ir_loop_header_stack) -> OpenLoops] :
              HeaderMap(m) => m[Len(ir_loop_header_stack)] = d
<1> DEFINE h == ir_loop_header_stack
           K == Len(h)
<1>1. h \in Seq(Nat) /\ K \in Nat
  BY DEF HeaderInv
<1>2. OpenLoops \subseteq 1 .. Len(open) /\ Len(open) \in Nat
  BY FrameTyped DEF OpenLoops
<1>3. ASSUME NEW m \in [1 .. K -> OpenLoops], HeaderMap(m)
      PROVE  K # 0 /\ m[K] = d /\ h[K] = open[d].from
  <2> HIDE DEF h, K
  <2>1. DOMAIN m = 1 .. K
    OBVIOUS
  <2>2. PICK k \in 1 .. K : m[k] = d
    BY <1>3, <2>1 DEF HeaderMap
  <2>3. K \in 1 .. K
    BY <1>1, <2>2
  <2>4. m[K] \in OpenLoops
    BY <2>3
  <2>5. m[K] <= d /\ m[K] \in Int /\ d \in Int
    <3>1. m[K] <= d
      BY <2>4
    <3>2. m[K] \in 1 .. Len(open) /\ d \in 1 .. Len(open)
      BY <2>4, <1>2
    <3>3. m[K] \in Int /\ d \in Int
      BY <3>2, <1>2
    <3> QED BY <3>1, <3>3
  <2>6. k < K => m[k] < m[K]
    BY <1>3, <2>1, <2>3 DEF HeaderMap
  <2>7. k = K
    BY <2>2, <2>3, <2>5, <2>6
  <2>8. h[K] = open[m[K]].from
    BY <1>3, <2>1, <2>3 DEF HeaderMap, h
  <2> QED BY <2>2, <2>3, <2>7, <2>8, <1>1
<1>4. PICK m \in [1 .. K -> OpenLoops] : HeaderMap(m)
  BY DEF HeaderInv
<1>5. K # 0 /\ h[K] = open[d].from
  BY <1>3, <1>4
<1>6. h # <<>>
  BY <1>5
<1> QED BY <1>3, <1>5, <1>6 DEF Last

(* The last element of a stack is popped. *)
LEMMA FrontFacts ==
  ASSUME NEW E, NEW s \in Seq(E), s # <<>>
  PROVE  /\ Len(s) \in Nat \ {0} /\ Front(s) \in Seq(E) /\ Len(Front(s)) = Len(s) - 1
         /\ DOMAIN Front(s) = 1 .. Len(s) - 1
         /\ \A k \in 1 .. Len(s) - 1 : Front(s)[k] = s[k]
<1>1. Len(s) \in Nat \ {0}
  OBVIOUS
<1>2. Front(s) = SubSeq(s, 1, Len(s) - 1)
  BY DEF Front
<1>3. /\ SubSeq(s, 1, Len(s) - 1) \in Seq(E) /\ Len(SubSeq(s, 1, Len(s) - 1)) = Len(s) - 1
      /\ \A k \in 1 .. Len(s) - 1 : SubSeq(s, 1, Len(s) - 1)[k] = s[k]
  <2> DEFINE n == Len(s) - 1
  <2>1. n \in 0 .. Len(s) /\ 1 \in 1 .. Len(s) + 1 /\ n \in Nat /\ n - 1 + 1 = n
    BY <1>1
  <2>2. /\ SubSeq(s, 1, n) \in Seq(E) /\ Len(SubSeq(s, 1, n)) = IF 1 <= n THEN n - 1 + 1 ELSE 0
        /\ \A k \in 1 .. n - 1 + 1 : SubSeq(s, 1, n)[k] = s[1 + k - 1]
    BY <2>1, SubSeqProperties
  <2>3. \A k \in 1 .. n : 1 + k - 1 = k
    BY <2>1
  <2> QED BY <2>1, <2>2, <2>3
<1> QED BY <1>1, <1>2, <1>3

(* The innermost open statement is closed: its exit jump, if it has one,   *)
(* and at most one break get the index just past the list, and every jump  *)
(* added goes to the start of the statement.  Extents a and b are the      *)
(* statement and its last body.                                            *)
LEMMA CloseKeeps ==
  ASSUME Core, open # <<>>, NEW a, NEW b,
         LET f == open[Len(open)] IN
         /\ a.from = f.from /\ a.to = Size(out') /\ (a.kind \in Loops => f.kind \in Loops)
         /\ b.from = f.body /\ b.to = Size(out) /\ b.kind \notin Loops
         /\ closed' = closed \union {a, b}
         /\ OutOK(out') /\ Size(out) <= Size(out')
         /\ \A n \in 0 .. Size(out) - 1 :
              /\ IsJ(out', n) <=> IsJ(out, n)
              /\ \/ n # f.exit /\ Tgt(out', n) = Tgt(out, n)
                 \/ n = f.exit /\ Tgt(out', n) = Size(out')
                 \/ n # f.exit /\ IsBreak(n) /\ Tgt(out, n) # None /\ Tgt(out', n) = Size(out')
         /\ \A n \in Size(out) .. Size(out') - 1 : IsJ(out', n) => Tgt(out', n) = f.from
         /\ ir_loop_header_stack' = IF f.kind \in Loops THEN Front(ir_loop_header_stack)
                                                        ELSE ir_loop_header_stack,
         open' = Front(open), LastInv',
         \/ ir_break_stack' = ir_break_stack
         \/ ir_break_stack # <<>> /\ ir_break_stack' = Front(ir_break_stack),
         flow' = flow
  PROVE  Core'
<1> USE DEF Core
<1> DEFINE L == Len(open)
           f == open[L]
           S == Size(out)
           T == Size(out')
<1>1. /\ L \in Nat /\ DOMAIN open = 1 .. L /\ open \in Seq(Frames) /\ L \in 1 .. L
  <2>1. L \in Nat /\ DOMAIN open = 1 .. L /\ open \in Seq(Frames)
    BY FrameTyped DEF FrameInv
  <2>2. L # 0
    BY <2>1
  <2> QED BY <2>1, <2>2
<1>2. /\ DOMAIN open' = 1 .. L - 1 /\ open' \in Seq(Frames)
      /\ \A d \in 1 .. L - 1 : open'[d] = open[d] /\ d \in 1 .. L /\ d < L
  BY <1>1 DEF Front
<1>3. S \in Nat /\ T \in Nat /\ S <= T /\ \A n \in 0 .. S - 1 : Tgt(out, n) \in Int
  BY ListTyped
<1>4. /\ f.from \in Nat /\ f.body \in Nat /\ f.exit \in Int
      /\ f.from <= f.body /\ f.body <= S
      /\ \/ f.exit = None
         \/ f.from <= f.exit /\ f.exit < f.body /\ f.exit \in 0 .. S - 1
  BY <1>1, FrameFacts
<1>5. /\ OutOK(out') /\ LastInv'
      /\ a.from = f.from /\ a.to = T /\ (a.kind \in Loops => f.kind \in Loops)
      /\ b.from = f.body /\ b.to = S /\ b.kind \notin Loops
      /\ closed' = closed \union {a, b}
  OBVIOUS
<1>6. \A n \in 0 .. S - 1 :
        /\ IsJ(out', n) <=> IsJ(out, n)
        /\ \/ n # f.exit /\ Tgt(out', n) = Tgt(out, n)
           \/ n = f.exit /\ Tgt(out', n) = T
           \/ n # f.exit /\ IsBreak(n) /\ Tgt(out, n) # None /\ Tgt(out', n) = T
  OBVIOUS
<1>7. \A n \in S .. T - 1 : IsJ(out', n) => Tgt(out', n) = f.from
  OBVIOUS
<1>8. ASSUME NEW d \in 1 .. L - 1
      PROVE  /\ open'[d] = open[d]
             /\ open[d].from \in Nat /\ open[d].body \in Nat /\ open[d].exit \in Int
             /\ open[d].from <= open[d].body /\ open[d].body <= f.from
             /\ \/ open[d].exit = None /\ open[d].kind \in {"do", "for"}
                \/ /\ open[d].from <= open[d].exit /\ open[d].exit < open[d].body
                   /\ open[d].exit \in 0 .. S - 1
                   /\ IsJ(out, open[d].exit) /\ Tgt(out, open[d].exit) = None
  <2>1. d \in 1 .. L /\ d < L /\ open'[d] = open[d]
    BY <1>2
  <2> QED BY <1>1, <2>1, FrameFacts
<1>9. \A n : IsBreak(n)' <=> IsBreak(n)
  BY DEF IsBreak
<1>10. HeaderInv'
  <2> DEFINE h == ir_loop_header_stack
             K == Len(h)
  <2>1. OpenLoops' = {d \in 1 .. L - 1 : open[d].kind \in Loops}
    BY <1>2 DEF OpenLoops
  <2>2. OpenLoops = {d \in 1 .. L : open[d].kind \in Loops}
    BY <1>1 DEF OpenLoops
  <2>3. CASE f.kind \notin Loops
    <3>1. OpenLoops' = OpenLoops
      BY <1>1, <2>1, <2>2, <2>3
    <3>2. PICK m \in [1 .. K -> OpenLoops] : HeaderMap(m)
      BY DEF HeaderInv
    <3>3. \A k \in DOMAIN m : m[k] \in 1 .. L - 1
      BY <2>1, <3>1, <3>2
    <3>4. h' = h
      BY <2>3
    <3>5. HeaderMap(m)'
      BY <1>2, <3>1, <3>2, <3>3, <3>4 DEF HeaderMap
    <3> QED BY <3>1, <3>2, <3>4, <3>5 DEF HeaderInv
  <2>4. CASE f.kind \in Loops
    <3>1. L \in OpenLoops /\ \A e \in OpenLoops : e <= L
      BY <1>1, <2>2, <2>4
    <3>2. PICK m \in [1 .. K -> OpenLoops] : HeaderMap(m)
      BY DEF HeaderInv
    <3>3. h # <<>> /\ m[K] = L
      BY <3>1, <3>2, LastHeader
    <3>4. h \in Seq(Nat)
      BY DEF HeaderInv
    <3>5. K \in Nat \ {0} /\ h' = Front(h)
      BY <2>4, <3>3, <3>4
    <3>6. h' \in Seq(Nat) /\ Len(h') = K - 1 /\ \A k \in 1 .. K - 1 : h'[k] = h[k]
      BY <3>3, <3>4, <3>5, FrontFacts
    <3> HIDE DEF K
    <3>7. DOMAIN m = 1 .. K /\ (\A k \in 1 .. K : m[k] \in OpenLoops /\ h[k] = open[m[k]].from)
      BY <3>2 DEF HeaderMap
    <3>8. \A j, k \in 1 .. K : j < k => m[j] < m[k]
      BY <3>2, <3>7 DEF HeaderMap
    <3>9. \A d \in OpenLoops : \E k \in 1 .. K : m[k] = d
      BY <3>2, <3>7 DEF HeaderMap
    <3>10. ASSUME NEW k \in 1 .. K - 1 PROVE m[k] \in OpenLoops' /\ k \in 1 .. K
      <4>1. k \in 1 .. K /\ K \in 1 .. K /\ k < K
        BY <3>5
      <4>2. m[k] < L /\ m[k] \in OpenLoops
        BY <4>1, <3>3, <3>7, <3>8
      <4>3. m[k] \in 1 .. L /\ open[m[k]].kind \in Loops
        BY <4>2, <2>2
      <4>4. m[k] \in 1 .. L - 1
        BY <1>1, <4>2, <4>3
      <4> QED BY <2>1, <4>1, <4>3, <4>4
    <3>11. PICK v : v = [k \in 1 .. K - 1 |-> m[k]]
      OBVIOUS
    <3>12. DOMAIN v = 1 .. K - 1 /\ v \in [1 .. K - 1 -> OpenLoops'] /\ \A k \in 1 .. K - 1 : v[k] = m[k]
      BY <3>10, <3>11
    <3>13. \A k \in DOMAIN v : h'[k] = open'[v[k]].from
      <4> SUFFICES ASSUME NEW k \in 1 .. K - 1 PROVE h'[k] = open'[v[k]].from
        BY <3>12
      <4>1. v[k] = m[k] /\ h'[k] = h[k] /\ h[k] = open[m[k]].from /\ m[k] \in OpenLoops'
        BY <3>6, <3>7, <3>10, <3>12
      <4>2. open'[m[k]] = open[m[k]]
        BY <4>1, <2>1, <1>2
      <4> QED BY <4>1, <4>2
    <3>14. \A j, k \in DOMAIN v : j < k => v[j] < v[k]
      BY <3>8, <3>10, <3>12
    <3>15. ASSUME NEW d \in OpenLoops' PROVE \E k \in DOMAIN v : v[k] = d
      <4>0. d \in 1 .. L - 1 /\ open[d].kind \in Loops
        BY <2>1
      <4>a. d \in 1 .. L /\ d < L
        BY <1>2, <4>0
      <4>1. d \in OpenLoops /\ d < L
        BY <2>2, <4>0, <4>a
      <4>2. PICK k \in 1 .. K : m[k] = d
        BY <4>1, <3>9
      <4>3. k \in 1 .. K - 1
        <5>1. k # K
          BY <4>1, <4>2, <3>3
        <5> QED BY <5>1, <3>5
      <4> QED BY <4>2, <4>3, <3>12
    <3>16. HeaderMap(v)'
      BY <3>13, <3>14, <3>15 DEF HeaderMap, h
    <3> QED BY <3>6, <3>12, <3>16 DEF HeaderInv
  <2> QED BY <2>3, <2>4
<1> HIDE DEF L, f, S, T
<1>11. FrameInv'
  <2>1. ASSUME NEW d \in 1 .. L - 1
        PROVE  /\ open'[d].from <= open'[d].body /\ open'[d].body <= T
               /\ \/ open'[d].exit = None /\ open'[d].kind \in {"do", "for"}
                  \/ /\ open'[d].from <= open'[d].exit /\ open'[d].exit < open'[d].body
                     /\ IsJ(out', open'[d].exit) /\ Tgt(out', open'[d].exit) = None
    <3>1. open[d].body <= T /\ open[d].from <= open[d].body
      BY <1>3, <1>4, <1>8
    <3>2. CASE open[d].exit = None /\ open[d].kind \in {"do", "for"}
      BY <3>1, <3>2, <1>8
    <3>3. CASE /\ open[d].from <= open[d].exit /\ open[d].exit < open[d].body
               /\ open[d].exit \in 0 .. S - 1
               /\ IsJ(out, open[d].exit) /\ Tgt(out, open[d].exit) = None
      <4>1. open[d].exit # f.exit
        BY <3>3, <1>4, <1>8 DEF None
      <4>2. IsJ(out', open[d].exit) /\ Tgt(out', open[d].exit) = None
        BY <3>3, <4>1, <1>6
      <4> QED BY <3>1, <3>3, <4>2, <1>8
    <3> QED BY <3>2, <3>3, <1>8
  <2>2. ASSUME NEW d \in 1 .. L - 1, NEW e \in 1 .. L - 1, d < e
        PROVE  open'[d].body <= open'[e].from
    BY <1>1, <1>2, <2>2 DEF FrameInv
  <2> QED BY <1>2, <2>1, <2>2 DEF FrameInv, T
<1>12. ASSUME NEW n \in 0 .. S - 1, IsJ(out, n)
       PROVE  \/ Tgt(out, n) \in 0 .. S
              \/ Tgt(out, n) = None /\ n = f.exit
              \/ Tgt(out, n) = None /\ n < f.from /\ \E d \in 1 .. L - 1 : open[d].exit = n
  <2>1. CASE Tgt(out, n) \in 0 .. S
    BY <2>1
  <2>2. CASE Tgt(out, n) = None /\ \E d \in 1 .. L : open[d].exit = n
    <3>1. PICK d \in 1 .. L : open[d].exit = n
      BY <2>2
    <3>2. CASE d = L
      BY <2>2, <3>1, <3>2 DEF f
    <3>3. CASE d \in 1 .. L - 1
      <4>1. n < f.from
        BY <3>1, <3>3, <1>4, <1>8 DEF None
      <4> QED BY <2>2, <3>1, <3>3, <4>1
    <3>c. d = L \/ d \in 1 .. L - 1
      BY <1>1
    <3> QED BY <3>2, <3>3, <3>c
  <2> QED BY <1>1, <1>12, <2>1, <2>2 DEF TargetInv, S
<1>13. TargetInv'
  <2> SUFFICES ASSUME NEW n \in 0 .. T - 1, IsJ(out', n)
               PROVE  \/ Tgt(out', n) \in 0 .. T
                      \/ Tgt(out', n) = None /\ \E d \in 1 .. L - 1 : open'[d].exit = n
    BY <1>2 DEF TargetInv, T
  <2>1. CASE n \in 0 .. S - 1
    <3>1. IsJ(out, n)
      BY <2>1, <1>6
    <3>2. CASE Tgt(out', n) = T
      BY <3>2, <1>3
    <3>3. CASE n # f.exit /\ Tgt(out', n) = Tgt(out, n)
      <4>1. CASE Tgt(out, n) \in 0 .. S
        BY <3>3, <4>1, <1>3
      <4>2. CASE Tgt(out, n) = None /\ \E d \in 1 .. L - 1 : open[d].exit = n
        BY <3>3, <4>2, <1>8
      <4> QED BY <2>1, <3>1, <3>3, <4>1, <4>2, <1>12
    <3> QED BY <2>1, <3>2, <3>3, <1>6
  <2>2. CASE n \in S .. T - 1
    BY <2>2, <1>3, <1>4, <1>7
  <2>c. n \in 0 .. S - 1 \/ n \in S .. T - 1
    BY <1>3
  <2> QED BY <2>1, <2>2, <2>c
<1>14. ClosedInv'
  <2>1. ASSUME NEW r \in closed
        PROVE  /\ r.from \in Nat /\ r.to \in Nat /\ r.to <= T
               /\ \A d \in 1 .. L - 1 :
                    /\ r.to <= open'[d].from \/ open'[d].from <= r.from
                    /\ open'[d].exit < r.from \/ r.to <= open'[d].exit
    <3>1. r.from \in Nat /\ r.to \in Nat /\ r.to <= S
      BY DEF ClosedInv, S
    <3>2. r.to <= T
      BY <3>1, <1>3
    <3>3. ASSUME NEW d \in 1 .. L - 1
          PROVE  /\ r.to <= open'[d].from \/ open'[d].from <= r.from
                 /\ open'[d].exit < r.from \/ r.to <= open'[d].exit
      BY <1>1, <1>2 DEF ClosedInv
    <3> QED BY <3>1, <3>2, <3>3
  <2>2. ASSUME NEW d \in 1 .. L - 1
        PROVE  open'[d].from <= f.from /\ open'[d].from <= f.body /\ open'[d].exit < f.from
               /\ open'[d].exit < f.body
    <3>1. /\ open'[d] = open[d]
          /\ open[d].from \in Nat /\ open[d].body \in Nat /\ open[d].exit \in Int
          /\ open[d].from <= open[d].body /\ open[d].body <= f.from
          /\ open[d].exit = -1 \/ open[d].exit < open[d].body
      BY <1>8 DEF None
    <3>2. f.from \in Nat /\ f.body \in Nat /\ f.from <= f.body
      BY <1>4
    <3> QED BY <3>1, <3>2
  <2>3. ASSUME NEW r \in {a, b}
        PROVE  /\ r.from \in Nat /\ r.to \in Nat /\ r.to <= T
               /\ \A d \in 1 .. L - 1 :
                    /\ r.to <= open'[d].from \/ open'[d].from <= r.from
                    /\ open'[d].exit < r.from \/ r.to <= open'[d].exit
    <3>1. CASE r = a
      <4>1. r.from = f.from /\ r.to = T
        BY <3>1, <1>5
      <4>2. T \in Nat /\ T <= T
        BY <1>3
      <4> QED BY <4>1, <4>2, <2>2, <1>4
    <3>2. CASE r = b
      <4>1. r.from = f.body /\ r.to = S
        BY <3>2, <1>5
      <4>2. S \in Nat /\ S <= T
        BY <1>3
      <4> QED BY <4>1, <4>2, <2>2, <1>4
    <3> QED BY <3>1, <3>2
  <2> QED BY <1>2, <1>5, <2>1, <2>3 DEF ClosedInv, T
<1>15. NestInv'
  <2> SUFFICES ASSUME NEW n \in 0 .. T - 1, NEW d \in 1 .. L - 1, Settled(n)'
               PROVE  /\ n < open'[d].from => Tgt(out', n) <= open'[d].from
                      /\ n < open'[d].body => Tgt(out', n) <= open'[d].body
                      /\ open'[d].kind \in Loops /\ n >= open'[d].from => Tgt(out', n) >= open'[d].from
    BY <1>2 DEF NestInv, T
  <2>0. /\ open'[d] = open[d] /\ open[d].from \in Nat /\ open[d].body \in Nat
        /\ open[d].from <= open[d].body /\ open[d].body <= f.from
    BY <1>8
  <2>1. CASE n \in 0 .. S - 1
    <3>1. IsJ(out, n) /\ ~IsBreak(n) /\ Tgt(out', n) # None
      BY <2>1, <1>6, <1>9 DEF Settled
    <3>2. CASE n = f.exit /\ Tgt(out', n) = T
      <4>1. f.from <= n /\ f.from \in Nat /\ T \in Nat /\ n < T
        BY <2>1, <3>2, <1>3, <1>4 DEF None
      <4> QED BY <2>0, <3>2, <4>1
    <3>3. CASE n # f.exit /\ Tgt(out', n) = Tgt(out, n)
      <4>1. Settled(n)
        BY <3>1, <3>3 DEF Settled
      <4>2. d \in DOMAIN open
        BY <1>1
      <4>3. /\ n < open[d].from => Tgt(out, n) <= open[d].from
            /\ n < open[d].body => Tgt(out, n) <= open[d].body
            /\ open[d].kind \in Loops /\ n >= open[d].from => Tgt(out, n) >= open[d].from
        BY <2>1, <4>1, <4>2 DEF NestInv, S
      <4> QED BY <2>0, <3>3, <4>3
    <3> QED BY <2>1, <3>1, <3>2, <3>3, <1>6
  <2>2. CASE n \in S .. T - 1
    <3>1. Tgt(out', n) = f.from
      BY <2>2, <1>7 DEF Settled
    <3> QED BY <2>0, <2>2, <3>1, <1>3, <1>4
  <2>c. n \in 0 .. S - 1 \/ n \in S .. T - 1
    BY <1>3
  <2> QED BY <2>1, <2>2, <2>c
<1>16. BreakInv'
  <2>1. ir_break_stack' \in Seq(Nat) /\ \A k \in DOMAIN ir_break_stack' :
          k \in DOMAIN ir_break_stack /\ ir_break_stack'[k] = ir_break_stack[k]
    <3>1. ir_break_stack \in Seq(Nat)
      BY DEF BreakInv
    <3>2. CASE ir_break_stack' = ir_break_stack
      BY <3>1, <3>2
    <3>3. CASE ir_break_stack # <<>> /\ ir_break_stack' = Front(ir_break_stack)
      <4>1. Len(ir_break_stack) \in Nat \ {0}
        BY <3>1, <3>3
      <4> QED BY SMTT(30), <3>1, <3>3, <4>1 DEF Front
    <3> QED BY <3>2, <3>3
  <2>2. ASSUME NEW k \in DOMAIN ir_break_stack'
        PROVE  /\ ir_break_stack'[k] < T /\ IsJ(out', ir_break_stack'[k])
               /\ \E x \in flow' : x.at = ir_break_stack'[k] /\ x.kind = "break"
               /\ Tgt(out', ir_break_stack'[k]) # None
    <3> DEFINE m == ir_break_stack[k]
    <3>1. k \in DOMAIN ir_break_stack /\ ir_break_stack'[k] = m /\ m \in Nat
      BY <2>1 DEF BreakInv
    <3>2. m < S /\ IsJ(out, m) /\ IsBreak(m) /\ Tgt(out, m) # None
      BY <3>1 DEF BreakInv, S
    <3> HIDE DEF m
    <3>3. m \in 0 .. S - 1 /\ m < T
      BY <3>1, <3>2, <1>3
    <3>4. T # None
      BY <1>3 DEF None
    <3>5. IsJ(out', m) /\ Tgt(out', m) # None
      BY <3>2, <3>3, <3>4, <1>6
    <3>6. \E x \in flow' : x.at = m /\ x.kind = "break"
      BY <3>2 DEF IsBreak
    <3> QED BY <3>1, <3>3, <3>5, <3>6
  <2> QED BY <2>1, <2>2 DEF BreakInv, IsBreak, T
<1>17. ASSUME NEW n \in 0 .. T - 1, IsJ(out', n), ~IsBreak(n)
       PROVE  \/ n \in 0 .. S - 1 /\ n # f.exit /\ Settled(n) /\ Tgt(out', n) = Tgt(out, n)
              \/ n < f.from /\ n \in 0 .. S - 1 /\ Tgt(out', n) = None /\ Tgt(out, n) = None
              \/ n = f.exit /\ n \in 0 .. S - 1 /\ Tgt(out', n) = T
              \/ n \in S .. T - 1 /\ Tgt(out', n) = f.from
  <2>1. CASE n \in S .. T - 1
    BY <1>7, <1>17, <2>1
  <2>2. CASE n \in 0 .. S - 1
    <3>1. IsJ(out, n)
      BY <2>2, <1>6, <1>17
    <3>2. CASE n = f.exit
      BY <2>2, <3>2, <1>6
    <3>3. CASE n # f.exit
      <4>1. Tgt(out', n) = Tgt(out, n)
        BY <2>2, <3>3, <1>6, <1>17
      <4>2. CASE Tgt(out, n) = None
        BY <2>2, <3>1, <3>3, <4>1, <4>2, <1>12 DEF None
      <4>3. CASE Tgt(out, n) # None
        BY <2>2, <3>1, <3>3, <4>1, <4>3, <1>17 DEF Settled
      <4> QED BY <4>2, <4>3
    <3> QED BY <3>2, <3>3
  <2>c. n \in 0 .. S - 1 \/ n \in S .. T - 1
    BY <1>3
  <2> QED BY <2>1, <2>2, <2>c
<1>18. StructInv'
  <2> SUFFICES ASSUME NEW r \in closed \union {a, b}, NEW n \in 0 .. T - 1, IsJ(out', n), ~IsBreak(n)
               PROVE  /\ n \notin Inside(r) /\ Tgt(out', n) \in Inside(r) => Tgt(out', n) = r.from
                      /\ n \in Inside(r) /\ r.kind \in Loops => Tgt(out', n) \in r.from .. r.to
    BY <1>5, <1>9 DEF StructInv, T
  <2>1. CASE r \in closed
    <3>0. r.from \in Nat /\ r.to \in Nat /\ r.to <= S
      BY <2>1 DEF ClosedInv, S
    <3>1. CASE n \in 0 .. S - 1 /\ Tgt(out', n) = Tgt(out, n) /\ IsJ(out, n)
      BY <2>1, <3>1 DEF StructInv, S
    <3>2. CASE n = f.exit /\ n \in 0 .. S - 1 /\ Tgt(out', n) = T
      <4>1. n < r.from \/ r.to <= n
        BY <1>1, <2>1, <3>2 DEF ClosedInv, f
      <4> QED BY <3>0, <3>2, <4>1, <1>3 DEF Inside
    <3>3. CASE n \in S .. T - 1 /\ Tgt(out', n) = f.from
      <4>1. r.to <= f.from \/ f.from <= r.from
        BY <1>1, <2>1 DEF ClosedInv, f
      <4> QED BY <3>0, <3>3, <4>1, <1>3, <1>4 DEF Inside
    <3> QED BY <3>1, <3>2, <3>3, <1>6, <1>17
  <2>2. CASE r = a
    <3>0. r.from = f.from /\ r.to = T /\ (r.kind \in Loops => f.kind \in Loops)
      BY <2>2, <1>5
    <3>1. CASE n \in 0 .. S - 1 /\ n # f.exit /\ Settled(n) /\ Tgt(out', n) = Tgt(out, n)
      <4>1. /\ n < f.from => Tgt(out, n) <= f.from
            /\ f.kind \in Loops /\ n >= f.from => Tgt(out, n) >= f.from
        BY <1>1, <3>1 DEF NestInv, S, f
      <4>2. Tgt(out, n) \in 0 .. S
        BY <3>1, <1>12 DEF Settled
      <4> QED BY <3>0, <3>1, <4>1, <4>2, <1>3, <1>4 DEF Inside
    <3>2. CASE n < f.from /\ n \in 0 .. S - 1 /\ Tgt(out', n) = None
      BY <3>0, <3>2, <1>3, <1>4 DEF Inside, None
    <3>3. CASE n = f.exit /\ n \in 0 .. S - 1 /\ Tgt(out', n) = T
      BY <3>0, <3>3, <1>3, <1>4 DEF Inside
    <3>4. CASE n \in S .. T - 1 /\ Tgt(out', n) = f.from
      BY <3>0, <3>4, <1>3, <1>4 DEF Inside
    <3> QED BY <3>1, <3>2, <3>3, <3>4, <1>17
  <2>3. CASE r = b
    <3>0. r.from = f.body /\ r.to = S /\ r.kind \notin Loops
      BY <2>3, <1>5
    <3>1. CASE n \in 0 .. S - 1 /\ n # f.exit /\ Settled(n) /\ Tgt(out', n) = Tgt(out, n)
      <4>1. n < f.body => Tgt(out, n) <= f.body
        BY <1>1, <3>1 DEF NestInv, S, f
      <4>2. Tgt(out, n) \in 0 .. S
        BY <3>1, <1>12 DEF Settled
      <4> QED BY <3>0, <3>1, <4>1, <4>2, <1>3, <1>4 DEF Inside
    <3>2. CASE n < f.from /\ n \in 0 .. S - 1 /\ Tgt(out', n) = None
      BY <3>0, <3>2, <1>3, <1>4 DEF Inside, None
    <3>3. CASE n = f.exit /\ n \in 0 .. S - 1 /\ Tgt(out', n) = T
      BY <3>0, <3>3, <1>3, <1>4 DEF Inside
    <3>4. CASE n \in S .. T - 1 /\ Tgt(out', n) = f.from
      BY <3>0, <3>4, <1>3, <1>4 DEF Inside
    <3> QED BY <3>1, <3>2, <3>3, <3>4, <1>17
  <2> QED BY <2>1, <2>2, <2>3
<1> QED BY <1>5, <1>10, <1>11, <1>13, <1>14, <1>15, <1>16, <1>18

(* The then part is left for the else part: the exit jump of the condition *)
(* gets the index just past the list, and a new exit jump takes its place. *)
LEMMA ElseKeeps ==
  ASSUME Core, open # <<>>, NEW g \in Frames, NEW b,
         LET f == open[Len(open)] IN
         /\ f.kind = "if" /\ g.kind = "else" /\ g.from = f.from
         /\ g.exit = Size(out) /\ g.body = Size(out) + 1
         /\ b.from = f.body /\ b.to = Size(out) /\ b.kind \notin Loops
         /\ closed' = closed \union {b}
         /\ OutOK(out') /\ Size(out') = Size(out) + 1
         /\ \A n \in 0 .. Size(out) - 1 :
              /\ IsJ(out', n) <=> IsJ(out, n)
              /\ Tgt(out', n) = IF n = f.exit THEN Size(out') ELSE Tgt(out, n)
         /\ IsJ(out', Size(out)) /\ Tgt(out', Size(out)) = None,
         DOMAIN open' = DOMAIN open, open'[Len(open)] = g, open' \in Seq(Frames),
         \A d \in 1 .. Len(open) - 1 : open'[d] = open[d],
         LastInv',
         UNCHANGED <<ir_break_stack, ir_loop_header_stack, flow>>
  PROVE  Core'
<1> USE DEF Core
<1> DEFINE L == Len(open)
           f == open[L]
           S == Size(out)
<1>1. /\ L \in Nat /\ DOMAIN open = 1 .. L /\ L \in 1 .. L /\ DOMAIN open' = 1 .. L
      /\ \A d \in 1 .. L : d = L \/ (d \in 1 .. L - 1 /\ d < L)
      /\ \A d \in 1 .. L - 1 : d \in 1 .. L /\ d < L
  <2>1. L \in Nat /\ DOMAIN open = 1 .. L /\ open \in Seq(Frames)
    BY FrameTyped DEF FrameInv
  <2>2. L # 0
    BY <2>1
  <2>3. L \in Nat
    BY <2>1
  <2> HIDE DEF L
  <2>4. L \in 1 .. L /\ \A d \in 1 .. L : d = L \/ (d \in 1 .. L - 1 /\ d < L)
    BY <2>2, <2>3
  <2>5. \A d \in 1 .. L - 1 : d \in 1 .. L /\ d < L
    BY <2>2, <2>3
  <2> QED BY <2>1, <2>4, <2>5
<1>2. S \in Nat /\ S + 1 \in Nat /\ Size(out') = S + 1 /\ \A n \in 0 .. S - 1 : Tgt(out, n) \in Int
  BY ListTyped
<1>3. /\ f.from \in Nat /\ f.body \in Nat /\ f.exit \in Int /\ f.body <= S
      /\ f.from <= f.exit /\ f.exit < f.body /\ f.exit \in 0 .. S - 1
  <2>1. f.kind \notin {"do", "for"}
    OBVIOUS
  <2> QED BY <1>1, <2>1, FrameFacts
<1>4. /\ OutOK(out') /\ LastInv' /\ open'[L] = g
      /\ b.from = f.body /\ b.to = S /\ b.kind \notin Loops /\ closed' = closed \union {b}
      /\ g.from = f.from /\ g.exit = S /\ g.body = S + 1 /\ f.kind \notin Loops /\ g.kind \notin Loops
  BY DEF Loops
<1>5. \A n \in 0 .. S - 1 :
        (IsJ(out', n) <=> IsJ(out, n)) /\ Tgt(out', n) = IF n = f.exit THEN S + 1 ELSE Tgt(out, n)
  OBVIOUS
<1>6. IsJ(out', S) /\ Tgt(out', S) = None
  OBVIOUS
<1>7. ASSUME NEW d \in 1 .. L - 1
      PROVE  /\ open'[d] = open[d] /\ d \in 1 .. L
             /\ open[d].from \in Nat /\ open[d].body \in Nat /\ open[d].exit \in Int
             /\ open[d].from <= open[d].body /\ open[d].body <= f.from
             /\ \/ open[d].exit = None /\ open[d].kind \in {"do", "for"}
                \/ /\ open[d].from <= open[d].exit /\ open[d].exit < open[d].body
                   /\ open[d].exit \in 0 .. S - 1
                   /\ IsJ(out, open[d].exit) /\ Tgt(out, open[d].exit) = None
  <2>1. d \in 1 .. L /\ d < L /\ open'[d] = open[d]
    BY <1>1
  <2> QED BY <1>1, <2>1, FrameFacts
<1>8. \A n : IsBreak(n)' <=> IsBreak(n)
  BY DEF IsBreak
<1>9. HeaderInv'
  <2>1. ASSUME NEW d \in DOMAIN open
        PROVE  (open'[d].kind \in Loops <=> open[d].kind \in Loops) /\ open'[d].from = open[d].from
    <3>1. CASE d = L
      BY <3>1, <1>4
    <3>2. CASE d \in 1 .. L - 1
      BY <3>2, <1>7
    <3> QED BY <3>1, <3>2, <1>1
  <2> QED BY <2>1, HeaderSame
<1> HIDE DEF L, f, S
<1>c. \A n \in 0 .. S : n = S \/ n \in 0 .. S - 1
  BY <1>2
<1>n. \A n \in 0 .. S + 1 - 1 : n \in 0 .. S
  BY <1>2
<1>10. FrameInv'
  <2>1. ASSUME NEW d \in 1 .. L
        PROVE  /\ open'[d].from <= open'[d].body /\ open'[d].body <= S + 1
               /\ \/ open'[d].exit = None /\ open'[d].kind \in {"do", "for"}
                  \/ /\ open'[d].from <= open'[d].exit /\ open'[d].exit < open'[d].body
                     /\ IsJ(out', open'[d].exit) /\ Tgt(out', open'[d].exit) = None
    <3>1. CASE d = L
      <4>1. open'[d].from = f.from /\ open'[d].exit = S /\ open'[d].body = S + 1
        BY <3>1, <1>4
      <4>2. f.from <= S /\ S < S + 1 /\ f.from <= S + 1 /\ S + 1 <= S + 1
        BY <1>2, <1>3
      <4> QED BY <4>1, <4>2, <1>6
    <3>2. CASE d \in 1 .. L - 1
      <4>1. open[d].body <= S + 1 /\ open[d].from <= open[d].body
        BY <3>2, <1>2, <1>3, <1>7
      <4>2. CASE open[d].exit = None /\ open[d].kind \in {"do", "for"}
        BY <3>2, <4>1, <4>2, <1>7
      <4>3. CASE /\ open[d].from <= open[d].exit /\ open[d].exit < open[d].body
                 /\ open[d].exit \in 0 .. S - 1
                 /\ IsJ(out, open[d].exit) /\ Tgt(out, open[d].exit) = None
        <5>1. open[d].exit # f.exit
          BY <3>2, <4>3, <1>3, <1>7
        <5>2. IsJ(out', open[d].exit) /\ Tgt(out', open[d].exit) = None
          BY <4>3, <5>1, <1>5
        <5> QED BY <3>2, <4>1, <4>3, <5>2, <1>7
      <4> QED BY <3>2, <4>2, <4>3, <1>7
    <3> QED BY <3>1, <3>2, <1>1
  <2>2. ASSUME NEW d \in 1 .. L, NEW e \in 1 .. L, d < e
        PROVE  open'[d].body <= open'[e].from
    <3>0. d \in 1 .. L - 1
      BY <2>2, <1>1
    <3>1. open'[d] = open[d]
      BY <3>0, <1>7
    <3>2. open[d].body <= open[e].from
      BY <2>2, <1>1 DEF FrameInv
    <3>3. open'[e].from = open[e].from
      <4>1. CASE e = L
        BY <4>1, <1>4 DEF f
      <4>2. CASE e \in 1 .. L - 1
        BY <4>2, <1>7
      <4> QED BY <4>1, <4>2, <1>1
    <3> QED BY <3>1, <3>2, <3>3
  <2>3. open' \in Seq(Frames)
    OBVIOUS
  <2> QED BY <1>1, <1>2, <2>1, <2>2, <2>3 DEF FrameInv
<1>11. ASSUME NEW n \in 0 .. S - 1, IsJ(out, n)
       PROVE  \/ Tgt(out, n) \in 0 .. S
              \/ Tgt(out, n) = None /\ n = f.exit
              \/ Tgt(out, n) = None /\ \E d \in 1 .. L - 1 : open[d].exit = n
  <2>1. Tgt(out, n) \in 0 .. S \/ (Tgt(out, n) = None /\ \E d \in 1 .. L : open[d].exit = n)
    BY <1>1, <1>11 DEF TargetInv, S
  <2>2. ASSUME NEW d \in 1 .. L, open[d].exit = n
        PROVE  n = f.exit \/ \E e \in 1 .. L - 1 : open[e].exit = n
    <3>1. CASE d = L
      BY <2>2, <3>1 DEF f
    <3>2. CASE d \in 1 .. L - 1
      BY <2>2, <3>2
    <3> QED BY <3>1, <3>2, <1>1
  <2> QED BY <2>1, <2>2
<1>12. TargetInv'
  <2> SUFFICES ASSUME NEW n \in 0 .. S, IsJ(out', n)
               PROVE  \/ Tgt(out', n) \in 0 .. S + 1
                      \/ Tgt(out', n) = None /\ \E d \in 1 .. L : open'[d].exit = n
    BY <1>1, <1>2, <1>n DEF TargetInv
  <2>1. CASE n = S
    <3>1. L \in 1 .. L /\ open'[L].exit = n
      BY <2>1, <1>1, <1>4
    <3> QED BY <2>1, <3>1, <1>6
  <2>2. CASE n \in 0 .. S - 1
    <3>1. IsJ(out, n)
      BY <2>2, <1>5
    <3>2. CASE n = f.exit
      BY <2>2, <3>2, <1>2, <1>5
    <3>3. CASE n # f.exit /\ Tgt(out, n) \in 0 .. S
      BY <2>2, <3>3, <1>2, <1>5
    <3>4. CASE n # f.exit /\ Tgt(out, n) = None /\ \E d \in 1 .. L - 1 : open[d].exit = n
      BY <2>2, <3>4, <1>5, <1>7
    <3> QED BY <2>2, <3>1, <3>2, <3>3, <3>4, <1>11
  <2> QED BY <2>1, <2>2, <1>c
<1>13. ClosedInv'
  <2>1. ASSUME NEW r \in closed \union {b}
        PROVE  /\ r.from \in Nat /\ r.to \in Nat /\ r.to <= S
               /\ \A d \in 1 .. L - 1 :
                    /\ r.to <= open[d].from \/ open[d].from <= r.from
                    /\ open[d].exit < r.from \/ r.to <= open[d].exit
               /\ r.to <= f.from \/ f.from <= r.from
    <3>1. CASE r \in closed
      <4>1. \A d \in DOMAIN open : /\ r.to <= open[d].from \/ open[d].from <= r.from
                                   /\ open[d].exit < r.from \/ r.to <= open[d].exit
        BY <3>1 DEF ClosedInv
      <4>2. r.to <= f.from \/ f.from <= r.from
        BY <4>1, <1>1 DEF f
      <4>3. \A d \in 1 .. L - 1 : d \in DOMAIN open
        BY <1>1
      <4>4. r.from \in Nat /\ r.to \in Nat /\ r.to <= S
        BY <3>1 DEF ClosedInv, S
      <4> QED BY <4>1, <4>2, <4>3, <4>4
    <3>2. CASE r = b
      <4>1. r.from = f.body /\ r.to = S /\ S <= S /\ f.from <= f.body
        BY <3>2, <1>2, <1>3, <1>4
      <4>2. ASSUME NEW d \in 1 .. L - 1
            PROVE  open[d].from <= f.body /\ open[d].exit < f.body
        BY SMTT(30), <1>3, <1>7 DEF None
      <4> QED BY <4>1, <4>2, <1>2, <1>3
    <3> QED BY <3>1, <3>2
  <2>2. ASSUME NEW r \in closed \union {b}, NEW d \in 1 .. L
        PROVE  /\ r.to <= open'[d].from \/ open'[d].from <= r.from
               /\ open'[d].exit < r.from \/ r.to <= open'[d].exit
    <3>1. CASE d = L
      <4>1. open'[d].from = f.from /\ open'[d].exit = S
        BY <3>1, <1>4
      <4> QED BY <4>1, <2>1
    <3>2. CASE d \in 1 .. L - 1
      <4>1. open'[d] = open[d]
        BY <3>2, <1>7
      <4> QED BY <3>2, <4>1, <2>1
    <3> QED BY <3>1, <3>2, <1>1
  <2>3. ASSUME NEW r \in closed \union {b} PROVE r.to <= S + 1
    BY <2>1, <1>2
  <2> QED BY <1>1, <1>2, <1>4, <2>1, <2>2, <2>3 DEF ClosedInv
<1>14. NestInv'
  <2> SUFFICES ASSUME NEW n \in 0 .. S, NEW d \in 1 .. L, Settled(n)'
               PROVE  /\ n < open'[d].from => Tgt(out', n) <= open'[d].from
                      /\ n < open'[d].body => Tgt(out', n) <= open'[d].body
                      /\ open'[d].kind \in Loops /\ n >= open'[d].from => Tgt(out', n) >= open'[d].from
    BY <1>1, <1>2, <1>n DEF NestInv
  <2>1. n \in 0 .. S - 1
    BY <1>c, <1>6 DEF Settled
  <2>2. IsJ(out, n) /\ ~IsBreak(n) /\ Tgt(out', n) # None
    BY <2>1, <1>5, <1>8 DEF Settled
  <2>3. CASE n = f.exit
    <3>0. Tgt(out', n) = S + 1 /\ f.from <= n
      BY <2>1, <2>3, <1>3, <1>5
    <3>1. CASE d = L
      <4>1. open'[d].from = f.from /\ open'[d].body = S + 1 /\ open'[d].kind \notin Loops
        BY <3>1, <1>4
      <4>2. ~(n < f.from) /\ S + 1 <= S + 1
        BY <2>1, <3>0, <1>2, <1>3
      <4> QED BY <3>0, <4>1, <4>2
    <3>2. CASE d \in 1 .. L - 1
      <4>1. /\ open'[d] = open[d] /\ open[d].from \in Nat /\ open[d].body \in Nat
            /\ open[d].from <= open[d].body /\ open[d].body <= f.from
        BY <3>2, <1>7
      <4>2. f.from \in Nat /\ f.from <= S
        BY <1>2, <1>3
      <4> QED BY <2>1, <3>0, <4>1, <4>2, <1>2
    <3> QED BY <3>1, <3>2, <1>1
  <2>4. CASE n # f.exit
    <3>0. Tgt(out', n) = Tgt(out, n) /\ Settled(n) /\ Tgt(out, n) \in 0 .. S
      BY <2>1, <2>2, <2>4, <1>5, <1>11 DEF Settled
    <3>1. /\ n < open[d].from => Tgt(out, n) <= open[d].from
          /\ n < open[d].body => Tgt(out, n) <= open[d].body
          /\ open[d].kind \in Loops /\ n >= open[d].from => Tgt(out, n) >= open[d].from
      BY <2>1, <3>0, <1>1 DEF NestInv, S
    <3>2. CASE d = L
      <4>1. open'[d].from = f.from /\ open'[d].body = S + 1 /\ open'[d].kind \notin Loops
        BY <3>2, <1>4
      <4>2. Tgt(out, n) <= S + 1
        BY <3>0, <1>2
      <4>3. n < f.from => Tgt(out, n) <= f.from
        BY <3>1, <3>2 DEF f
      <4> QED BY <3>0, <4>1, <4>2, <4>3
    <3>3. CASE d \in 1 .. L - 1
      <4>1. open'[d] = open[d]
        BY <3>3, <1>7
      <4> QED BY <3>0, <3>1, <4>1
    <3> QED BY <3>2, <3>3, <1>1
  <2> QED BY <2>3, <2>4
<1>15. BreakInv'
  <2>1. ASSUME NEW k \in DOMAIN ir_break_stack
        PROVE  LET m == ir_break_stack[k] IN
                 m < S + 1 /\ IsJ(out', m) /\ IsBreak(m) /\ Tgt(out', m) # None
    <3> DEFINE m == ir_break_stack[k]
    <3>1. m \in Nat /\ m < S /\ IsJ(out, m) /\ IsBreak(m) /\ Tgt(out, m) # None
      BY DEF BreakInv, S
    <3> HIDE DEF m
    <3>2. m \in 0 .. S - 1 /\ m < S + 1 /\ S + 1 # None
      BY <3>1, <1>2 DEF None
    <3> QED BY <3>1, <3>2, <1>5 DEF m
  <2> QED BY <1>2, <1>8, <2>1 DEF BreakInv, IsBreak
<1>16. StructInv'
  <2> SUFFICES ASSUME NEW r \in closed \union {b}, NEW n \in 0 .. S, IsJ(out', n), ~IsBreak(n)
               PROVE  /\ n \notin Inside(r) /\ Tgt(out', n) \in Inside(r) => Tgt(out', n) = r.from
                      /\ n \in Inside(r) /\ r.kind \in Loops => Tgt(out', n) \in r.from .. r.to
    BY <1>2, <1>4, <1>8, <1>n DEF StructInv
  <2>0. r.from \in Nat /\ r.to \in Nat /\ r.to <= S
    <3>1. CASE r \in closed
      BY <3>1 DEF ClosedInv, S
    <3>2. CASE r = b
      <4>1. S <= S
        BY <1>2
      <4> QED BY <3>2, <4>1, <1>2, <1>3, <1>4
    <3> QED BY <3>1, <3>2
  <2>1. CASE n = S
    BY <2>0, <2>1, <1>2, <1>6 DEF Inside, None
  <2>2. CASE n \in 0 .. S - 1 /\ n = f.exit
    <3>1. Tgt(out', n) = S + 1
      BY <2>2, <1>5
    <3>2. n < r.from \/ r.to <= n
      <4>1. CASE r \in closed
        BY <2>2, <4>1, <1>1 DEF ClosedInv, f
      <4>2. CASE r = b
        BY <2>2, <4>2, <1>3, <1>4
      <4> QED BY <4>1, <4>2
    <3> QED BY <2>0, <2>2, <3>1, <3>2, <1>2 DEF Inside
  <2>3. CASE n \in 0 .. S - 1 /\ n # f.exit
    <3>0. Tgt(out', n) = Tgt(out, n) /\ IsJ(out, n)
      BY <2>3, <1>5
    <3>1. CASE r \in closed
      BY <2>3, <3>0, <3>1 DEF StructInv, S
    <3>2. CASE r = b
      <4>1. r.from = f.body /\ r.to = S /\ r.kind \notin Loops
        BY <3>2, <1>4
      <4>2. CASE Tgt(out, n) = None
        BY <2>0, <3>0, <4>1, <4>2 DEF Inside, None
      <4>3. CASE Tgt(out, n) # None
        <5>1. Settled(n)
          BY <3>0, <4>3 DEF Settled
        <5>2. n < f.body => Tgt(out, n) <= f.body
          BY <2>3, <5>1, <1>1 DEF NestInv, S, f
        <5>3. Tgt(out, n) \in Int
          BY <2>3, <1>2
        <5> QED BY <2>3, <3>0, <4>1, <5>2, <5>3, <1>2, <1>3 DEF Inside
      <4> QED BY <4>2, <4>3
    <3> QED BY <3>1, <3>2
  <2> QED BY <2>1, <2>2, <2>3, <1>c
<1> QED BY <1>4, <1>9, <1>10, <1>12, <1>13, <1>14, <1>15, <1>16

(* A break or a continue: one jump is added, and unless it is a break it   *)
(* goes to the header of the innermost open loop.                          *)
LEMMA FlowKeeps ==
  ASSUME Core, NEW t \in Nat, NEW S \in Nat, S = Size(out),
         OneMore(out, out', t), t <= S, IsJ(out', S), LastInv',
         \A n \in 0 .. S - 1 : IsBreak(n)' <=> IsBreak(n),
         \/ IsBreak(S)'
         \/ \E d \in OpenLoops : t = open[d].from /\ \A e \in OpenLoops : e <= d,
         \/ ir_break_stack' = ir_break_stack
         \/ ir_break_stack' = Append(ir_break_stack, S) /\ IsBreak(S)',
         UNCHANGED <<open, ir_loop_header_stack, closed>>
  PROVE  Core'
<1> USE DEF Core
<1> DEFINE L == Len(open)
<1>1. L \in Nat /\ DOMAIN open = 1 .. L
  BY FrameTyped
<1>2. /\ S \in Nat /\ Size(out') = S + 1 /\ OutOK(out') /\ LastInv'
      /\ \A n \in 0 .. S - 1 : Tgt(out, n) \in Int
  BY ListTyped DEF OneMore, Longer
<1>3. \A n \in 0 .. S - 1 : (IsJ(out', n) <=> IsJ(out, n)) /\ Tgt(out', n) = Tgt(out, n)
  BY DEF OneMore, Longer
<1>4. IsJ(out', S) /\ Tgt(out', S) = t /\ t <= S
  BY DEF OneMore
<1>5. \A n \in 0 .. S - 1 : IsBreak(n)' <=> IsBreak(n)
  OBVIOUS
<1>6. ASSUME NEW d \in 1 .. L
      PROVE  /\ open[d].from \in Nat /\ open[d].body \in Nat /\ open[d].exit \in Int
             /\ open[d].from <= open[d].body /\ open[d].body <= S
             /\ \/ open[d].exit = None /\ open[d].kind \in {"do", "for"}
                \/ /\ open[d].from <= open[d].exit /\ open[d].exit < open[d].body
                   /\ open[d].exit \in 0 .. S - 1
                   /\ IsJ(out, open[d].exit) /\ Tgt(out, open[d].exit) = None
  BY FrameFacts
<1>7. ~IsBreak(S)' => \E d \in OpenLoops : t = open[d].from /\ \A e \in OpenLoops : e <= d
  OBVIOUS
<1>8. HeaderInv'
  BY HeaderSame
<1> HIDE DEF L
<1>c. \A n \in 0 .. S : n = S \/ n \in 0 .. S - 1
  BY <1>2
<1>n. (\A n \in 0 .. S + 1 - 1 : n \in 0 .. S) /\ (\A n \in 0 .. S : n <= S)
  BY <1>2
<1>9. FrameInv'
  <2>1. ASSUME NEW d \in 1 .. L
        PROVE  /\ open[d].from <= open[d].body /\ open[d].body <= S + 1
               /\ \/ open[d].exit = None /\ open[d].kind \in {"do", "for"}
                  \/ /\ open[d].from <= open[d].exit /\ open[d].exit < open[d].body
                     /\ IsJ(out', open[d].exit) /\ Tgt(out', open[d].exit) = None
    <3>1. open[d].from <= open[d].body /\ open[d].body <= S + 1
      BY <1>2, <1>6
    <3> QED BY <3>1, <1>3, <1>6
  <2> QED BY <1>1, <1>2, <2>1 DEF FrameInv
<1>10. TargetInv'
  <2> SUFFICES ASSUME NEW n \in 0 .. S, IsJ(out', n)
               PROVE  \/ Tgt(out', n) \in 0 .. S + 1
                      \/ Tgt(out', n) = None /\ \E d \in DOMAIN open : open[d].exit = n
    BY <1>2, <1>n DEF TargetInv
  <2>1. CASE n = S
    BY <2>1, <1>2, <1>4
  <2>2. CASE n \in 0 .. S - 1
    <3>1. Tgt(out', n) = Tgt(out, n) /\ IsJ(out, n)
      BY <2>2, <1>3
    <3>2. Tgt(out, n) \in 0 .. S \/ (Tgt(out, n) = None /\ \E d \in DOMAIN open : open[d].exit = n)
      BY <2>2, <3>1 DEF TargetInv
    <3> QED BY <3>1, <3>2, <1>2
  <2> QED BY <2>1, <2>2, <1>c
<1>11. ClosedInv'
  <2>1. ASSUME NEW r \in closed PROVE r.to <= S + 1
    BY <1>2 DEF ClosedInv
  <2> QED BY <1>2, <2>1 DEF ClosedInv
<1>12. NestInv'
  <2> SUFFICES ASSUME NEW n \in 0 .. S, NEW d \in 1 .. L, Settled(n)'
               PROVE  /\ n < open[d].from => Tgt(out', n) <= open[d].from
                      /\ n < open[d].body => Tgt(out', n) <= open[d].body
                      /\ open[d].kind \in Loops /\ n >= open[d].from => Tgt(out', n) >= open[d].from
    BY <1>1, <1>2, <1>n DEF NestInv
  <2>1. CASE n \in 0 .. S - 1
    <3>1. Tgt(out', n) = Tgt(out, n) /\ Settled(n)
      BY <2>1, <1>3, <1>5 DEF Settled
    <3> QED BY <2>1, <3>1, <1>1 DEF NestInv
  <2>2. CASE n = S
    <3>1. ~(n < open[d].from) /\ ~(n < open[d].body)
      BY <2>2, <1>2, <1>6
    <3>2. Tgt(out', n) = t
      BY <2>2, <1>4
    <3>3. ASSUME open[d].kind \in Loops PROVE t >= open[d].from
      <4>1. ~IsBreak(S)'
        BY <2>2 DEF Settled
      <4>2. PICK e \in OpenLoops : t = open[e].from /\ \A k \in OpenLoops : k <= e
        BY <4>1, <1>7
      <4>3. d \in OpenLoops /\ e \in 1 .. L
        BY <3>3, <1>1 DEF OpenLoops
      <4>4. d <= e
        BY <4>2, <4>3
      <4>5. CASE d = e
        BY <4>2, <4>3, <4>5, <1>6
      <4>6. CASE d # e
        <5>1. d < e
          BY <4>3, <4>4, <4>6, <1>1
        <5>2. open[d].body <= open[e].from
          BY <4>3, <5>1, <1>1 DEF FrameInv
        <5>3. /\ open[d].from \in Nat /\ open[d].body \in Nat /\ open[d].from <= open[d].body
              /\ open[e].from \in Nat
          BY <4>3, <1>6
        <5> QED BY <4>2, <5>2, <5>3
      <4> QED BY <4>5, <4>6
    <3> QED BY <3>1, <3>2, <3>3
  <2> QED BY <2>1, <2>2, <1>c
<1>13. BreakInv'
  <2> DEFINE s == ir_break_stack
  <2>0. s \in Seq(Nat)
    BY DEF BreakInv
  <2>1. ASSUME NEW k \in DOMAIN s
        PROVE  /\ s[k] < S + 1 /\ IsJ(out', s[k]) /\ Tgt(out', s[k]) # None
               /\ \E x \in flow' : x.at = s[k] /\ x.kind = "break"
    <3>1. s[k] \in Nat /\ s[k] < S /\ IsJ(out, s[k]) /\ IsBreak(s[k]) /\ Tgt(out, s[k]) # None
      BY <2>0 DEF BreakInv
    <3>2. PICK b : b = s[k]
      OBVIOUS
    <3>3. b \in 0 .. S - 1 /\ b < S + 1
      BY <3>1, <3>2, <1>2
    <3>4. IsBreak(b)'
      BY <3>1, <3>2, <3>3, <1>5
    <3>5. \E x \in flow' : x.at = b /\ x.kind = "break"
      BY <3>4 DEF IsBreak
    <3> QED BY <3>1, <3>2, <3>3, <3>5, <1>3
  <2>2. CASE s' = s
    BY <1>2, <2>0, <2>1, <2>2 DEF BreakInv, IsBreak
  <2>3. CASE s' = Append(s, S) /\ IsBreak(S)'
    <3>1. \E x \in flow' : x.at = S /\ x.kind = "break"
      BY <2>3 DEF IsBreak
    <3>2. S < S + 1 /\ IsJ(out', S) /\ Tgt(out', S) # None
      BY <1>2, <1>4 DEF None
    <3>3. s' \in Seq(Nat) /\ \A k \in DOMAIN s' : s'[k] = S \/ (k \in DOMAIN s /\ s'[k] = s[k])
      BY <2>0, <2>3
    <3>4. ASSUME NEW k \in DOMAIN s'
          PROVE  /\ s'[k] < S + 1 /\ IsJ(out', s'[k]) /\ Tgt(out', s'[k]) # None
                 /\ \E x \in flow' : x.at = s'[k] /\ x.kind = "break"
      <4>1. CASE s'[k] = S
        BY <4>1, <3>1, <3>2
      <4>2. CASE k \in DOMAIN s /\ s'[k] = s[k]
        BY <4>2, <2>1
      <4> QED BY <4>1, <4>2, <3>3
    <3> QED BY <3>3, <3>4, <1>2 DEF BreakInv, IsBreak
  <2> QED BY <2>2, <2>3
<1>14. StructInv'
  <2> SUFFICES ASSUME NEW r \in closed, NEW n \in 0 .. S, IsJ(out', n), ~IsBreak(n)'
               PROVE  /\ n \notin Inside(r) /\ Tgt(out', n) \in Inside(r) => Tgt(out', n) = r.from
                      /\ n \in Inside(r) /\ r.kind \in Loops => Tgt(out', n) \in r.from .. r.to
    BY <1>2, <1>n DEF StructInv
  <2>0. r.from \in Nat /\ r.to \in Nat /\ r.to <= S
    BY DEF ClosedInv
  <2>1. CASE n \in 0 .. S - 1
    <3>1. Tgt(out', n) = Tgt(out, n) /\ IsJ(out, n) /\ ~IsBreak(n)
      BY <2>1, <1>3, <1>5
    <3> QED BY <2>1, <3>1 DEF StructInv
  <2>2. CASE n = S
    <3>1. PICK d \in OpenLoops : t = open[d].from
      BY <2>2, <1>7
    <3>2. d \in DOMAIN open /\ d \in 1 .. L
      BY <1>1 DEF OpenLoops
    <3>3. r.to <= t \/ t <= r.from
      BY <3>1, <3>2 DEF ClosedInv
    <3> QED BY <2>0, <2>2, <3>3, <1>2, <1>4 DEF Inside
  <2> QED BY <2>1, <2>2, <1>c
<1> QED BY <1>2, <1>8, <1>9, <1>10, <1>11, <1>12, <1>13, <1>14

------------------------------------------------------------------------------
(* The actions. *)

(* Lists grow step by step. *)
LEMMA LongerChain ==
  ASSUME NEW o, NEW p, NEW q, OutOK(o), Plainly(o, p), Longer(p, q)
  PROVE  /\ Longer(o, q) /\ Size(o) <= Size(p)
         /\ \A n \in Size(o) .. Size(q) - 1 : IsJ(q, n) => n \in Size(p) .. Size(q) - 1
<1>1. Size(o) \in Nat /\ Size(p) \in Nat /\ Size(q) \in Nat /\ Size(o) <= Size(p) /\ Size(p) <= Size(q)
  BY ListTyped DEF Plainly, Longer
<1>2. \A n \in 0 .. Size(o) - 1 : n \in 0 .. Size(p) - 1
  BY <1>1
<1>3. \A n \in 0 .. Size(o) - 1 : (IsJ(q, n) <=> IsJ(o, n)) /\ Tgt(q, n) = Tgt(o, n)
  BY <1>2 DEF Plainly, Longer
<1>4. Longer(o, q)
  BY <1>1, <1>3 DEF Longer
<1>5. ASSUME NEW n \in Size(o) .. Size(q) - 1, IsJ(q, n) PROVE n \in Size(p) .. Size(q) - 1
  <2>1. CASE n \in Size(p) .. Size(q) - 1
    BY <2>1
  <2>2. CASE n \in Size(o) .. Size(p) - 1
    <3>1. n \in 0 .. Size(p) - 1
      BY <1>1, <2>2
    <3> QED BY <1>5, <2>2, <3>1 DEF Plainly, Longer
  <2>c. n \in Size(p) .. Size(q) - 1 \/ n \in Size(o) .. Size(p) - 1
    BY <1>1
  <2> QED BY <2>1, <2>2, <2>c
<1> QED BY <1>1, <1>4, <1>5

(* Two pieces of code without jumps are one. *)
LEMMA PlainChain ==
  ASSUME NEW o, NEW p, NEW q, OutOK(o), Plainly(o, p), Plainly(p, q)
  PROVE  Plainly(o, q)
<1>1. Longer(p, q)
  BY DEF Plainly
<1>2. Longer(o, q) /\ \A n \in Size(o) .. Size(q) - 1 : IsJ(q, n) => n \in Size(p) .. Size(q) - 1
  BY <1>1, LongerChain
<1> QED BY <1>2 DEF Plainly

(* A ret after an expression. *)
LEMMA RetList ==
  ASSUME NEW o, OutOK(o), NEW op \in Plain
  PROVE  Plainly(o, insert(o, op, None)) /\ Size(insert(o, op, None)) = Size(o) + 1
<1> DEFINE p == insert(o, op, None)
<1>1. op \in Opcodes /\ op \notin {"jump", "cond"} /\ None \in Int
  BY DEF Plain, None
<1>2. OneMore(o, p, None) /\ ~IsJ(p, Size(o))
  BY <1>1, InsertList
<1> HIDE DEF p
<1>3. Size(o) \in Nat /\ Size(p) = Size(o) + 1 /\ Longer(o, p)
  BY <1>2, ListTyped DEF OneMore
<1>4. \A n \in Size(o) .. Size(p) - 1 : n = Size(o)
  BY <1>3
<1> QED BY <1>2, <1>3, <1>4 DEF Plainly, p

(* The start of an if or a while: the condition's expression, its jump     *)
(* past the exit jump, and the exit jump.                                  *)
LEMMA CondStart ==
  ASSUME NEW o, NEW e, OutOK(o), Plainly(o, e), NEW ops \in Seq(Plain)
  PROVE  LET j == cond_jump(visit(e, ops)) IN
         /\ Longer(o, j) /\ j.ctr = Size(j) - 1
         /\ j.ctr \in Size(e) .. Size(j) - 1 /\ IsJ(j, j.ctr) /\ Tgt(j, j.ctr) = None
         /\ \A n \in Size(o) .. Size(j) - 1 : IsJ(j, n) =>
              Size(e) <= n /\ (Tgt(j, n) = Size(j) \/ (Tgt(j, n) = None /\ n = j.ctr))
<1> DEFINE v == visit(e, ops)
           j == cond_jump(v)
<1>1. OutOK(e)
  BY DEF Plainly, Longer
<1>2. Plainly(e, v) /\ OutOK(v)
  BY <1>1, VisitList DEF Plainly, Longer
<1>3. Plainly(o, v)
  BY <1>2, PlainChain
<1>4. /\ Longer(v, j) /\ Size(j) = Size(v) + 2 /\ j.ctr = Size(v) + 1
      /\ Tgt(j, Size(v)) = Size(v) + 2
      /\ IsJ(j, Size(v) + 1) /\ Tgt(j, Size(v) + 1) = None
  BY <1>2, CondJumpList
<1> HIDE DEF j, v
<1>5. Size(e) \in Nat /\ Size(v) \in Nat /\ Size(e) <= Size(v)
  BY <1>1, <1>2, ListTyped DEF Plainly, Longer
<1>6. Longer(o, j) /\ \A n \in Size(o) .. Size(j) - 1 : IsJ(j, n) => n \in Size(v) .. Size(j) - 1
  BY <1>3, <1>4, LongerChain
<1>7. j.ctr = Size(j) - 1 /\ j.ctr \in Size(e) .. Size(j) - 1
  BY <1>4, <1>5
<1>8. ASSUME NEW n \in Size(v) .. Size(j) - 1
      PROVE  Size(e) <= n /\ (Tgt(j, n) = Size(j) \/ (Tgt(j, n) = None /\ n = j.ctr))
  <2>1. Size(e) <= n /\ (n = Size(v) \/ n = Size(v) + 1)
    BY <1>4, <1>5
  <2> QED BY <2>1, <1>4
<1> QED BY <1>4, <1>6, <1>7, <1>8 DEF j, v

(* A step that leaves every target as it is, once set. *)
Kept ==
  /\ Size(out) \in Nat /\ Size(out') \in Nat /\ Size(out) <= Size(out')
  /\ \A n \in 0 .. Size(out) - 1 : Tgt(out, n) # None => Tgt(out', n) = Tgt(out, n)

(* A step that opens a statement whose code is not in the list yet. *)
Opened ==
  Kept /\ \E f \in Frames : f.from >= Size(out) /\ open' = Append(open, f)

(* The end of the innermost statement, a loop: it becomes an extent a, and *)
(* the last break on the stack gets the index just past it.                *)
LoopEnded ==
  LET f == open[Len(open)]
      Old == {n \in 0 .. Size(out) - 1 : Tgt(out, n) # None}
  IN  /\ open # <<>> /\ f.kind \in Loops /\ open' = Front(open) /\ flow' = flow
      /\ Size(out) \in Nat /\ Size(out') \in Nat /\ Size(out) < Size(out')
      /\ \E a, b : /\ closed' = closed \union {a, b} /\ b.kind \notin Loops
                   /\ a.id = <<Len(open), f.from>> /\ a.kind = f.kind
                   /\ a.from = f.from /\ a.to = Size(out')
                   /\ f.kind # "do" => a.cond = f.from
      /\ \/ /\ ir_break_stack = <<>> /\ ir_break_stack' = <<>>
            /\ \A n \in Old : Tgt(out', n) = Tgt(out, n)
         \/ /\ ir_break_stack # <<>> /\ ir_break_stack' = Front(ir_break_stack)
            /\ \A n \in Old : Tgt(out', n) = IF n = Last(ir_break_stack) THEN Size(out')
                                                                      ELSE Tgt(out, n)

(* The visitors know the index of the next instruction. *)
LEMMA NextIdxIs ==
  ASSUME OutOK(out), LastInv
  PROVE  NextIdx = Size(out) /\ Size(out) \in Nat
<1>1. Size(out) \in Nat
  BY ListTyped
<1> QED BY <1>1 DEF NextIdx, LastInv, NULL

(* The expressions of the source emit no jumps. *)
LEMMA SourcePlain ==
  /\ \A ops \in Stmts : ops \in Seq(Plain)
  /\ \A ops \in Exprs \union {<<"none">>} : ops \in Seq(Plain)
  /\ \A ops \in ForInits : ops \in Seq(Plain)
  /\ \A ops \in ForIncrs : ops \in Seq(Plain)
  /\ <<>> \in Seq(Plain)
<1>1. "none" \in Plain
  BY DEF Plain, Opcodes
<1>2. <<"none">> \in Seq(Plain) /\ <<>> \in Seq(Plain)
  BY <1>1
<1> QED BY <1>2, OpsAssumption

(* Simple statements and returns. *)
LEMMA StmtInv ==
  ASSUME Core, NEW ops \in Seq(Plain), Stmt(ops) \/ visit_ret(ops)
  PROVE  Core' /\ Kept
<1>0. OutOK(out)
  BY DEF Core
<1> DEFINE v == visit(out, ops)
<1>1. Plainly(out, v) /\ OutOK(v)
  BY <1>0, VisitList DEF Plainly, Longer
<1>2. "ret" \in Plain
  BY DEF Plain, Opcodes
<1>3. Plainly(v, insert(v, "ret", None))
  BY <1>1, <1>2, RetList
<1>4. Plainly(out, insert(v, "ret", None))
  BY <1>0, <1>1, <1>3, PlainChain
<1>5. out' = v \/ out' = insert(v, "ret", None)
  BY DEF Stmt, visit_ret
<1> HIDE DEF v
<1>6. Plainly(out, out')
  BY <1>1, <1>4, <1>5
<1>7. last' = Size(out') - 1
  <2>1. last' = (out').ctr
    BY DEF Stmt, visit_ret
  <2>2. OutOK(out')
    BY <1>6 DEF Plainly, Longer
  <2> QED BY <2>1, <2>2, ListTyped
<1>8. UNCHANGED <<open, ir_break_stack, ir_loop_header_stack, closed, flow>>
  BY DEF Stmt, visit_ret
<1>9. Kept
  BY <1>0, <1>6, ListTyped DEF Kept, Plainly, Longer
<1> QED BY <1>6, <1>7, <1>8, <1>9, PlainKeeps

(* The start of an if. *)
LEMMA IfStartInv ==
  ASSUME Core, NEW ops \in Seq(Plain), IfStart(ops)
  PROVE  Core' /\ Opened
<1> DEFINE j == cond_jump(visit(out, ops))
           f == [kind |-> "if", from |-> NextIdx, exit |-> j.ctr, body |-> j.ctr + 1, incr |-> <<>>]
<1>0. OutOK(out) /\ LastInv
  BY DEF Core
<1>1. NextIdx = Size(out) /\ Size(out) \in Nat
  BY <1>0, NextIdxIs
<1>2. Plainly(out, out)
  BY <1>0, <1>1 DEF Plainly, Longer
<1>3. /\ Longer(out, j) /\ j.ctr = Size(j) - 1
      /\ j.ctr \in Size(out) .. Size(j) - 1 /\ IsJ(j, j.ctr) /\ Tgt(j, j.ctr) = None
      /\ \A n \in Size(out) .. Size(j) - 1 : IsJ(j, n) =>
           Size(out) <= n /\ (Tgt(j, n) = Size(j) \/ (Tgt(j, n) = None /\ n = j.ctr))
  BY <1>0, <1>2, CondStart
<1>4. /\ out' = j /\ last' = j.ctr /\ open' = Append(open, f)
      /\ UNCHANGED <<ir_break_stack, ir_loop_header_stack, closed, flow>>
  BY DEF IfStart
<1> HIDE DEF j
<1>5. Size(j) \in Nat /\ j.ctr + 1 = Size(j) /\ j.ctr \in Nat
  BY <1>1, <1>3 DEF Longer
<1>6. f \in Frames
  BY <1>1, <1>5, SourcePlain DEF Frames
<1>7. /\ f.kind \notin Loops /\ f.from = Size(out) /\ f.exit = j.ctr /\ f.body = Size(j)
  BY <1>1, <1>5 DEF Loops
<1> HIDE DEF f
<1>8. LastInv'
  BY <1>3, <1>4 DEF LastInv
<1>9. Size(out) <= f.from /\ f.from <= f.body /\ f.from <= f.exit /\ f.exit < f.body
  BY <1>1, <1>3, <1>5, <1>7
<1>o. Opened
  BY <1>1, <1>3, <1>4, <1>5, <1>6, <1>9 DEF Opened, Kept, Longer
<1> QED BY <1>o, <1>3, <1>4, <1>6, <1>7, <1>8, <1>9, OpenKeeps

(* The start of a while. *)
LEMMA WhileStartInv ==
  ASSUME Core, NEW ops \in Seq(Plain), WhileStart(ops)
  PROVE  Core' /\ Opened
<1> DEFINE e == Enter(out)
           j == cond_jump(visit(e, ops))
           f == [kind |-> "while", from |-> NextIdx, exit |-> j.ctr, body |-> j.ctr + 1, incr |-> <<>>]
<1>0. OutOK(out) /\ LastInv
  BY DEF Core
<1>1. NextIdx = Size(out) /\ Size(out) \in Nat
  BY <1>0, NextIdxIs
<1>2. Plainly(out, e) /\ Size(e) = Size(out)
  BY <1>0, EnterList
<1>3. /\ Longer(out, j) /\ j.ctr = Size(j) - 1
      /\ j.ctr \in Size(e) .. Size(j) - 1 /\ IsJ(j, j.ctr) /\ Tgt(j, j.ctr) = None
      /\ \A n \in Size(out) .. Size(j) - 1 : IsJ(j, n) =>
           Size(e) <= n /\ (Tgt(j, n) = Size(j) \/ (Tgt(j, n) = None /\ n = j.ctr))
  BY <1>0, <1>2, CondStart
<1>4. /\ out' = j /\ last' = j.ctr /\ open' = Append(open, f)
      /\ ir_loop_header_stack' = Append(ir_loop_header_stack, NextIdx)
      /\ UNCHANGED <<ir_break_stack, closed, flow>>
  BY DEF WhileStart, OpenLoop
<1> HIDE DEF j, e
<1>5. Size(j) \in Nat /\ j.ctr + 1 = Size(j) /\ j.ctr \in Nat
  BY <1>1, <1>2, <1>3 DEF Longer
<1>6. f \in Frames
  BY <1>1, <1>5, SourcePlain DEF Frames, Loops
<1>7. /\ f.kind \in Loops /\ f.from = Size(out) /\ f.exit = j.ctr /\ f.body = Size(j)
  BY <1>1, <1>5 DEF Loops
<1> HIDE DEF f
<1>8. LastInv'
  BY <1>3, <1>4 DEF LastInv
<1>9. Size(out) <= f.from /\ f.from <= f.body /\ f.from <= f.exit /\ f.exit < f.body
  BY <1>1, <1>2, <1>3, <1>5, <1>7
<1>10. ir_loop_header_stack' = Append(ir_loop_header_stack, f.from)
  BY <1>1, <1>4, <1>7
<1>o. Opened
  BY <1>1, <1>3, <1>4, <1>5, <1>6, <1>9 DEF Opened, Kept, Longer
<1> QED BY <1>o, <1>2, <1>3, <1>4, <1>6, <1>7, <1>8, <1>9, <1>10, OpenKeeps

(* The start of a do. *)
LEMMA DoStartInv ==
  ASSUME Core, DoStart
  PROVE  Core' /\ Opened
<1> DEFINE f == [kind |-> "do", from |-> NextIdx, exit |-> None, body |-> NextIdx, incr |-> <<>>]
<1>0. OutOK(out) /\ LastInv
  BY DEF Core
<1>1. NextIdx = Size(out) /\ Size(out) \in Nat /\ Size(out) <= Size(out)
  BY <1>0, NextIdxIs
<1>2. out' = Enter(out)
  BY DEF DoStart
<1>3. Plainly(out, out') /\ Size(out') = Size(out)
  BY <1>0, <1>2, EnterList
<1>4. /\ last' = last /\ open' = Append(open, f)
      /\ ir_loop_header_stack' = Append(ir_loop_header_stack, NextIdx)
      /\ UNCHANGED <<ir_break_stack, closed, flow>>
  BY DEF DoStart, OpenLoop
<1>5. f \in Frames
  BY <1>1, SourcePlain DEF Frames, Loops, None
<1>6. f.kind \in Loops /\ f.kind \in {"do", "for"} /\ f.from = Size(out) /\ f.exit = None /\ f.body = Size(out)
  BY <1>1 DEF Loops
<1> HIDE DEF f
<1>7. LastInv'
  BY <1>0, <1>3, <1>4 DEF LastInv
<1>8. Longer(out, out') /\ \A n \in Size(out) .. Size(out') - 1 : ~IsJ(out', n)
  BY <1>3 DEF Plainly
<1>9. ir_loop_header_stack' = Append(ir_loop_header_stack, f.from)
  BY <1>1, <1>4, <1>6
<1>o. Opened
  BY <1>1, <1>3, <1>4, <1>5, <1>6, <1>8 DEF Opened, Kept, Longer
<1> QED BY <1>o, <1>1, <1>3, <1>4, <1>5, <1>6, <1>7, <1>8, <1>9, OpenKeeps

(* The start of a for, with or without init part and condition. *)
LEMMA ForStartInv ==
  ASSUME Core, NEW init \in Seq(Plain), NEW ops \in Seq(Plain), NEW incr \in Seq(Plain),
         ForStart(init, ops, incr)
  PROVE  Core' /\ Opened
<1> DEFINE i == IF init = <<"none">> THEN out ELSE visit(out, init)
           e == Enter(i)
           j == cond_jump(visit(e, ops))
           r == IF ops = <<"none">> THEN e ELSE j
           n == IF init = <<"none">> THEN NextIdx ELSE i.ctr + 1
           x == IF ops = <<"none">> THEN None ELSE j.ctr
           f == [kind |-> "for", from |-> n, exit |-> x, body |-> r.ctr + 1, incr |-> incr]
<1>0. OutOK(out) /\ LastInv
  BY DEF Core
<1>1. NextIdx = Size(out) /\ Size(out) \in Nat
  BY <1>0, NextIdxIs
<1>2. Plainly(out, out)
  BY <1>0, <1>1 DEF Plainly, Longer
<1>3. Plainly(out, i) /\ OutOK(i) /\ n = Size(i)
  <2>1. CASE init = <<"none">>
    BY <2>1, <1>0, <1>1, <1>2
  <2>2. CASE init # <<"none">>
    <3>1. i = visit(out, init) /\ n = i.ctr + 1
      BY <2>2
    <3> HIDE DEF i, n
    <3>2. Plainly(out, i)
      BY <3>1, <1>0, VisitList
    <3>3. OutOK(i)
      BY <3>2 DEF Plainly, Longer
    <3>4. Size(i) \in Nat /\ i.ctr = Size(i) - 1
      BY <3>3, ListTyped
    <3> QED BY <3>1, <3>2, <3>3, <3>4
  <2> QED BY <2>1, <2>2
<1>4. /\ out' = r /\ last' = r.ctr /\ open' = Append(open, f)
      /\ ir_loop_header_stack' = Append(ir_loop_header_stack, n)
      /\ UNCHANGED <<ir_break_stack, closed, flow>>
  BY DEF ForStart, OpenLoop
<1> HIDE DEF i, n
<1>5. Plainly(i, e) /\ Size(e) = Size(i)
  BY <1>3, EnterList
<1>6. Plainly(out, e) /\ OutOK(e)
  BY <1>0, <1>3, <1>5, PlainChain DEF Plainly, Longer
<1>7. /\ Longer(out, j) /\ j.ctr = Size(j) - 1
      /\ j.ctr \in Size(e) .. Size(j) - 1 /\ IsJ(j, j.ctr) /\ Tgt(j, j.ctr) = None
      /\ \A k \in Size(out) .. Size(j) - 1 : IsJ(j, k) =>
           Size(e) <= k /\ (Tgt(j, k) = Size(j) \/ (Tgt(j, k) = None /\ k = j.ctr))
  BY <1>0, <1>6, CondStart
<1> HIDE DEF j, e
<1>8. /\ Size(e) \in Nat /\ Size(j) \in Nat /\ e.ctr = Size(e) - 1 /\ Size(out) <= Size(e)
      /\ Size(e) <= Size(j)
  BY <1>1, <1>6, <1>7, ListTyped DEF Plainly, Longer
<1>9. /\ Longer(out, r) /\ r.ctr = Size(r) - 1 /\ Size(r) \in Nat /\ Size(e) <= Size(r)
      /\ \A k \in Size(out) .. Size(r) - 1 : IsJ(r, k) =>
           Size(e) <= k /\ (Tgt(r, k) = Size(r) \/ (Tgt(r, k) = None /\ k = x))
      /\ x \in Int
      /\ \/ x = None
         \/ Size(e) <= x /\ x < Size(r) /\ IsJ(r, x) /\ Tgt(r, x) = None
  <2>1. CASE ops = <<"none">>
    <3>1. r = e /\ x = None
      BY <2>1
    <3> HIDE DEF r, x
    <3>2. Size(e) <= Size(e) /\ None \in Int
      BY <1>8 DEF None
    <3> QED BY <3>1, <3>2, <1>6, <1>8 DEF Plainly
  <2>2. CASE ops # <<"none">>
    <3>1. r = j /\ x = j.ctr
      BY <2>2
    <3> HIDE DEF r, x
    <3>2. Size(e) <= j.ctr /\ j.ctr < Size(j) /\ j.ctr \in Int
      BY <1>7, <1>8
    <3> QED BY <3>1, <3>2, <1>7, <1>8
  <2> QED BY <2>1, <2>2
<1> HIDE DEF r, x
<1>10. r.ctr + 1 = Size(r)
  BY <1>9
<1>11. f \in Frames
  BY <1>3, <1>5, <1>8, <1>9, <1>10 DEF Frames, Loops
<1>12. f.kind \in Loops /\ f.kind \in {"do", "for"} /\ f.from = n /\ n = Size(e) /\ f.exit = x /\ f.body = Size(r)
  BY <1>3, <1>5, <1>10 DEF Loops
<1> HIDE DEF f
<1>13. LastInv'
  BY <1>4, <1>9 DEF LastInv
<1>14. Size(out) <= f.from /\ f.from <= f.body
  BY <1>8, <1>9, <1>12
<1>15. ir_loop_header_stack' = Append(ir_loop_header_stack, f.from)
  BY <1>4, <1>12
<1>o. Opened
  BY <1>1, <1>4, <1>9, <1>11, <1>14 DEF Opened, Kept, Longer
<1> QED BY <1>o, <1>4, <1>9, <1>11, <1>12, <1>13, <1>14, <1>15, OpenKeeps

(* The end of an if, or of its else part. *)
LEMMA IfEndInv ==
  ASSUME Core, IfEnd \/ ElseEnd
  PROVE  Core' /\ Kept
<1> DEFINE L == Len(open)
           f == open[L]
           a == Extent(<<L, f.from>>, "if", f.from, NextIdx, None)
<1>0. OutOK(out) /\ LastInv /\ FrameInv
  BY DEF Core
<1>1. NextIdx = Size(out) /\ Size(out) \in Nat /\ Size(out) <= Size(out)
  BY <1>0, NextIdxIs
<1>2. Last(open) = f
  BY DEF Last
<1>3. /\ open # <<>> /\ f.kind \in {"if", "else"} /\ out' = patch(out, f.exit, NextIdx)
      /\ open' = Front(open)
      /\ UNCHANGED <<last, ir_break_stack, ir_loop_header_stack, flow>>
  BY <1>2 DEF IfEnd, ElseEnd
<1>4. PICK b : /\ closed' = closed \union {a, b}
               /\ b.from = f.body /\ b.to = NextIdx /\ b.kind \in {"then", "else"}
  <2>1. CASE IfEnd
    <3> DEFINE c == Extent(<<L, f.body>>, "then", f.body, NextIdx, None)
    <3>1. closed' = closed \union {a, c}
      BY <1>2, <2>1 DEF IfEnd
    <3>2. c.from = f.body /\ c.to = NextIdx /\ c.kind \in {"then", "else"}
      BY DEF Extent
    <3> HIDE DEF c, a
    <3> QED BY <3>1, <3>2
  <2>2. CASE ElseEnd
    <3> DEFINE c == Extent(<<L, f.body>>, "else", f.body, NextIdx, None)
    <3>1. closed' = closed \union {a, c}
      BY <1>2, <2>2 DEF ElseEnd
    <3>2. c.from = f.body /\ c.to = NextIdx /\ c.kind \in {"then", "else"}
      BY DEF Extent
    <3> HIDE DEF c, a
    <3> QED BY <3>1, <3>2
  <2> QED BY <2>1, <2>2
<1>5. a.from = f.from /\ a.to = Size(out) /\ a.kind \notin Loops /\ b.kind \notin Loops /\ f.kind \notin Loops
  BY <1>1, <1>3, <1>4 DEF Extent, Loops
<1> HIDE DEF a
<1>6. L \in 1 .. L
  <2>1. L \in Nat /\ open \in Seq(Frames)
    BY <1>0, FrameTyped DEF FrameInv
  <2>2. L # 0
    BY <1>3, <2>1
  <2> QED BY <2>1, <2>2
<1>7. f.exit \in 0 .. Size(out) - 1 /\ Tgt(out, f.exit) = None
  <2>1. f.kind \notin {"do", "for"}
    BY <1>3
  <2> QED BY <1>0, <1>6, <2>1, FrameFacts
<1>8. Patched(out, out', f.exit, Size(out))
  BY <1>0, <1>1, <1>3, <1>7, PatchList
<1>9. OutOK(out') /\ Size(out') = Size(out)
  BY <1>8 DEF Patched
<1>10. \A n \in 0 .. Size(out) - 1 :
         (IsJ(out', n) <=> IsJ(out, n)) /\ Tgt(out', n) = IF n = f.exit THEN Size(out') ELSE Tgt(out, n)
  BY <1>8, <1>9 DEF Patched
<1>11. \A n \in Size(out) .. Size(out') - 1 : FALSE
  BY <1>1, <1>9
<1>12. LastInv'
  BY <1>0, <1>3, <1>9 DEF LastInv
<1>13. Kept
  BY <1>1, <1>7, <1>9, <1>10 DEF Kept
<1> QED BY <1>1, <1>3, <1>4, <1>5, <1>9, <1>10, <1>11, <1>12, <1>13, CloseKeeps

(* The end of the then part of an if with else. *)
LEMMA ElseStartInv ==
  ASSUME Core, ElseStart
  PROVE  Core' /\ Kept
<1> DEFINE L == Len(open)
           f == open[L]
           j == insert(out, "jump", None)
           g == [f EXCEPT !.kind = "else", !.exit = j.ctr, !.body = j.ctr + 1]
           b == Extent(<<L, f.body>>, "then", f.body, j.ctr, None)
<1>0. OutOK(out) /\ FrameInv
  BY DEF Core
<1>1. Last(open) = f /\ Size(out) \in Nat
  BY <1>0, ListTyped DEF Last
<1>2. /\ open # <<>> /\ f.kind = "if" /\ out' = patch(j, f.exit, j.ctr + 1) /\ last' = j.ctr
      /\ open' = Append(Front(open), g) /\ closed' = closed \union {b}
      /\ UNCHANGED <<ir_break_stack, ir_loop_header_stack, flow>>
  BY <1>1 DEF ElseStart
<1>3. OneMore(out, j, None) /\ IsJ(j, Size(out))
  <2>1. "jump" \in Opcodes /\ None \in Int
    BY DEF Opcodes, None
  <2> QED BY <1>0, <2>1, InsertList
<1> HIDE DEF j
<1>4. OutOK(j) /\ Size(j) = Size(out) + 1 /\ j.ctr = Size(out) /\ j.ctr + 1 = Size(out) + 1
  BY <1>1, <1>3, ListTyped DEF OneMore, Longer
<1>5. /\ L \in Nat /\ L \in 1 .. L /\ DOMAIN open = 1 .. L /\ open \in Seq(Frames) /\ f \in Frames
  <2>1. L \in Nat /\ open \in Seq(Frames) /\ DOMAIN open = 1 .. L
    BY <1>0, FrameTyped DEF FrameInv
  <2>2. L # 0
    BY <1>2, <2>1
  <2>3. L \in 1 .. L
    BY <2>1, <2>2
  <2> QED BY <1>0, <2>1, <2>3, FrameTyped
<1>6. f.exit \in 0 .. Size(out) - 1 /\ Tgt(out, f.exit) = None
  <2>1. f.kind \notin {"do", "for"}
    BY <1>2
  <2> QED BY <1>0, <1>5, <2>1, FrameFacts
<1>7. /\ g \in Frames /\ g.kind = "else" /\ g.from = f.from /\ g.exit = Size(out) /\ g.body = Size(out) + 1
  <2>0. j.ctr \in Int /\ j.ctr + 1 \in Nat /\ f \in Frames
    BY <1>1, <1>4, <1>5
  <2>1. g \in Frames
    <3> HIDE DEF f
    <3> QED BY <2>0 DEF Frames, Loops
  <2>2. g.kind = "else" /\ g.from = f.from /\ g.exit = j.ctr /\ g.body = j.ctr + 1
    BY <1>5 DEF Frames
  <2> QED BY <2>1, <2>2, <1>4
<1>8. b.from = f.body /\ b.to = Size(out) /\ b.kind \notin Loops
  BY <1>4 DEF Extent, Loops
<1> HIDE DEF g, b
<1>9. Patched(j, out', f.exit, Size(out) + 1)
  <2>1. f.exit \in 0 .. Size(j) - 1 /\ Size(out) + 1 \in Int
    BY <1>1, <1>4, <1>6
  <2> QED BY <1>2, <1>4, <2>1, PatchList
<1>10. OutOK(out') /\ Size(out') = Size(out) + 1
  BY <1>4, <1>9 DEF Patched
<1>11. \A n \in 0 .. Size(out) - 1 :
         /\ IsJ(out', n) <=> IsJ(out, n)
         /\ Tgt(out', n) = IF n = f.exit THEN Size(out') ELSE Tgt(out, n)
  <2>1. \A n \in 0 .. Size(out) - 1 : n \in 0 .. Size(j) - 1
    BY <1>1, <1>4
  <2> QED BY <2>1, <1>3, <1>9, <1>10 DEF Patched, OneMore, Longer
<1>12. IsJ(out', Size(out)) /\ Tgt(out', Size(out)) = None
  <2>1. Size(out) \in 0 .. Size(j) - 1 /\ Size(out) # f.exit
    BY <1>1, <1>4, <1>6
  <2> QED BY <2>1, <1>3, <1>9 DEF Patched, OneMore
<1>13. LastInv'
  <2>1. last' = Size(out') - 1
    BY <1>1, <1>2, <1>4, <1>10
  <2> QED BY <2>1 DEF LastInv
<1>14. /\ DOMAIN open' = DOMAIN open /\ open'[L] = g /\ open' \in Seq(Frames)
       /\ \A d \in 1 .. L - 1 : open'[d] = open[d]
  <2>1. /\ Front(open) \in Seq(Frames) /\ Len(Front(open)) = L - 1
        /\ \A d \in 1 .. L - 1 : Front(open)[d] = open[d]
    BY <1>2, <1>5, FrontFacts
  <2>2. PICK s \in Seq(Frames) : s = Front(open)
    BY <2>1
  <2>3. Len(s) = L - 1 /\ open' = Append(s, g) /\ \A d \in 1 .. L - 1 : s[d] = open[d]
    BY <1>2, <2>1, <2>2
  <2> HIDE DEF L
  <2>4. Append(s, g) \in Seq(Frames) /\ Len(Append(s, g)) = L
    BY <1>5, <1>7, <2>3
  <2>5. Append(s, g)[L] = g /\ \A d \in 1 .. L - 1 : Append(s, g)[d] = s[d]
    BY <1>5, <1>7, <2>3
  <2>6. DOMAIN open' = 1 .. L
    BY <2>3, <2>4
  <2> QED BY <1>5, <2>3, <2>4, <2>5, <2>6
<1>15. Kept
  <2>1. Size(out') \in Nat /\ Size(out) <= Size(out')
    BY <1>1, <1>10
  <2> QED BY <1>1, <1>6, <1>11, <2>1 DEF Kept
<1> QED BY <1>2, <1>7, <1>8, <1>10, <1>11, <1>12, <1>13, <1>14, <1>15, ElseKeeps

(* What the end of a loop does once its last instructions are in the list: *)
(* emit_loop_flow_instrs and the pops.                                     *)
LEMMA CloseLoopInv ==
  ASSUME Core, open # <<>>, NEW o, NEW cond, OutOK(o), Size(out) < Size(o),
         LET f == open[Len(open)] IN
         /\ f.kind \in Loops /\ (f.kind # "do" => cond = f.from)
         /\ \A n \in 0 .. Size(out) - 1 :
              /\ IsJ(o, n) <=> IsJ(out, n)
              /\ Tgt(o, n) = IF n = f.exit THEN Size(o) ELSE Tgt(out, n)
         /\ \A n \in Size(out) .. Size(o) - 1 : IsJ(o, n) => Tgt(o, n) = f.from,
         CloseLoop(o, NextIdx, cond)
  PROVE  Core' /\ LoopEnded
<1> DEFINE L == Len(open)
           f == open[L]
           a == Extent(<<L, f.from>>, f.kind, f.from, o.ctr + 1, cond)
           b == Extent(<<L, f.body>>, "body", f.body, NextIdx, None)
           bs == ir_break_stack
<1>0. OutOK(out) /\ LastInv /\ FrameInv /\ BreakInv
  BY DEF Core
<1>1. NextIdx = Size(out) /\ Size(out) \in Nat
  BY <1>0, NextIdxIs
<1>2. Size(o) \in Nat /\ o.ctr + 1 = Size(o) /\ o.ctr = Size(o) - 1
  BY ListTyped
<1>s. Size(out) <= Size(o)
  BY <1>1, <1>2
<1>3. Last(open) = f
  BY DEF Last
<1>4. /\ closed' = closed \union {a, b} /\ open' = Front(open) /\ flow' = flow /\ last' = o.ctr
      /\ ir_loop_header_stack' = Front(ir_loop_header_stack)
  BY <1>3 DEF CloseLoop, emit_loop_flow_instrs
<1>5. \/ bs = <<>> /\ out' = o /\ bs' = <<>>
      \/ bs # <<>> /\ out' = patch(o, Last(bs), o.ctr + 1) /\ bs' = Front(bs)
  BY DEF CloseLoop, emit_loop_flow_instrs
<1>6. /\ a.from = f.from /\ a.to = Size(o) /\ a.kind = f.kind
      /\ a.id = <<L, f.from>> /\ a.cond = cond
      /\ b.from = f.body /\ b.to = Size(out) /\ b.kind \notin Loops
  BY <1>1, <1>2 DEF Extent, Loops
<1> HIDE DEF a, b
<1>7. /\ f.kind \in Loops /\ (f.kind # "do" => cond = f.from)
      /\ \A n \in 0 .. Size(out) - 1 :
           /\ IsJ(o, n) <=> IsJ(out, n)
           /\ Tgt(o, n) = IF n = f.exit THEN Size(o) ELSE Tgt(out, n)
      /\ \A n \in Size(out) .. Size(o) - 1 : IsJ(o, n) => Tgt(o, n) = f.from
  OBVIOUS
<1>e. \A n \in 0 .. Size(out) - 1 : n = f.exit => Tgt(out, n) = None
  <2>1. L \in 1 .. L
    <3>1. L \in Nat /\ open \in Seq(Frames)
      BY <1>0, FrameTyped DEF FrameInv
    <3>2. L # 0
      BY <3>1
    <3> QED BY <3>1, <3>2
  <2>2. f.exit = None \/ Tgt(out, f.exit) = None
    BY <1>0, <2>1, FrameFacts
  <2>3. \A n \in 0 .. Size(out) - 1 : n # None
    BY <1>1 DEF None
  <2> HIDE DEF f
  <2> QED BY <2>2, <2>3
<1> HIDE DEF f
<1>p. ASSUME bs # <<>>
      PROVE  /\ Last(bs) \in 0 .. Size(out) - 1 /\ IsBreak(Last(bs)) /\ Tgt(out, Last(bs)) # None
             /\ Patched(o, out', Last(bs), Size(o))
  <2>1. bs \in Seq(Nat) /\ Len(bs) \in DOMAIN bs
    <3>1. bs \in Seq(Nat)
      BY <1>0 DEF BreakInv
    <3>2. Len(bs) \in Nat \ {0}
      BY <1>p, <3>1
    <3> QED BY <3>1, <3>2
  <2>2. PICK k : k = Last(bs)
    OBVIOUS
  <2>3. k = bs[Len(bs)] /\ k \in Nat
    BY <2>1, <2>2 DEF Last
  <2>4. k < Size(out) /\ IsBreak(k) /\ Tgt(out, k) # None
    BY <1>0, <2>1, <2>3 DEF BreakInv
  <2>5. k \in 0 .. Size(out) - 1 /\ k \in 0 .. Size(o) - 1
    BY <1>1, <1>2, <1>s, <2>3, <2>4
  <2>6. Patched(o, out', k, Size(o))
    BY <1>2, <1>p, <1>5, <2>2, <2>5, PatchList
  <2> QED BY <2>2, <2>4, <2>5, <2>6
<1>n. /\ \A n \in 0 .. Size(out) - 1 : n \in 0 .. Size(o) - 1
      /\ \A n \in Size(out) .. Size(o) - 1 : n \in 0 .. Size(o) - 1 /\ n \notin 0 .. Size(out) - 1
  BY <1>1, <1>2, <1>s
<1>8. /\ OutOK(out') /\ Size(out') = Size(o)
      /\ \A n \in 0 .. Size(out) - 1 :
           /\ IsJ(out', n) <=> IsJ(out, n)
           /\ \/ n # f.exit /\ Tgt(out', n) = Tgt(out, n)
              \/ n = f.exit /\ Tgt(out', n) = Size(o)
              \/ n # f.exit /\ IsBreak(n) /\ Tgt(out, n) # None /\ Tgt(out', n) = Size(o)
      /\ \A n \in Size(out) .. Size(o) - 1 : IsJ(out', n) => Tgt(out', n) = f.from
  <2>1. CASE bs = <<>>
    <3>1. out' = o
      BY <1>5, <2>1
    <3> QED BY <3>1, <1>7
  <2>2. CASE bs # <<>>
    <3>1. PICK k : k = Last(bs)
      OBVIOUS
    <3>2. /\ k \in 0 .. Size(out) - 1 /\ IsBreak(k) /\ Tgt(out, k) # None
          /\ Patched(o, out', k, Size(o))
      BY <1>p, <2>2, <3>1
    <3>3. k # f.exit
      BY <1>e, <3>2
    <3>4. \A n \in 0 .. Size(o) - 1 :
            (IsJ(out', n) <=> IsJ(o, n)) /\ Tgt(out', n) = IF n = k THEN Size(o) ELSE Tgt(o, n)
      BY <3>2 DEF Patched
    <3>5. OutOK(out') /\ Size(out') = Size(o)
      BY <3>2 DEF Patched
    <3>6. ASSUME NEW n \in 0 .. Size(out) - 1
          PROVE  /\ IsJ(out', n) <=> IsJ(out, n)
                 /\ \/ n # f.exit /\ Tgt(out', n) = Tgt(out, n)
                    \/ n = f.exit /\ Tgt(out', n) = Size(o)
                    \/ n # f.exit /\ IsBreak(n) /\ Tgt(out, n) # None /\ Tgt(out', n) = Size(o)
      <4>1. CASE n = k
        BY <4>1, <3>2, <3>3, <3>4, <1>n, <1>7
      <4>2. CASE n # k
        BY <4>2, <3>4, <1>n, <1>7
      <4> QED BY <4>1, <4>2
    <3>7. \A n \in Size(out) .. Size(o) - 1 : n # k
      BY <1>n, <3>2
    <3> QED BY <3>4, <3>5, <3>6, <3>7, <1>n, <1>7
  <2> QED BY <2>1, <2>2
<1>9. bs' = bs \/ (bs # <<>> /\ bs' = Front(bs))
  BY <1>5
<1>10. LastInv'
  BY <1>2, <1>4, <1>8 DEF LastInv
<1>11. LoopEnded
  <2>1. /\ open # <<>> /\ f.kind \in Loops /\ open' = Front(open) /\ flow' = flow
        /\ Size(out) \in Nat /\ Size(out') \in Nat /\ Size(out) < Size(out')
    BY <1>1, <1>2, <1>4, <1>7, <1>8
  <2>2. \E x, y : /\ closed' = closed \union {x, y} /\ y.kind \notin Loops
                  /\ x.id = <<L, f.from>> /\ x.kind = f.kind
                  /\ x.from = f.from /\ x.to = Size(out') /\ (f.kind # "do" => x.cond = f.from)
    BY <1>4, <1>6, <1>7, <1>8
  <2>3. CASE bs = <<>>
    <3>1. out' = o /\ bs' = <<>>
      BY <1>5, <2>3
    <3>2. \A n \in 0 .. Size(out) - 1 : Tgt(out, n) # None => Tgt(out', n) = Tgt(out, n)
      BY <3>1, <1>7, <1>e
    <3> QED BY <2>1, <2>2, <2>3, <3>1, <3>2 DEF LoopEnded, f
  <2>4. CASE bs # <<>>
    <3>1. bs' = Front(bs)
      BY <1>5, <2>4
    <3>2. \A n \in 0 .. Size(out) - 1 : Tgt(out, n) # None =>
            Tgt(out', n) = IF n = Last(bs) THEN Size(out') ELSE Tgt(out, n)
      BY <2>4, <1>p, <1>7, <1>8, <1>e, <1>n DEF Patched
    <3> QED BY <2>1, <2>2, <2>4, <3>1, <3>2 DEF LoopEnded, f
  <2> QED BY <2>3, <2>4
<1> QED BY <1>s, <1>4, <1>6, <1>7, <1>8, <1>9, <1>10, <1>11, CloseKeeps DEF f

(* The code that ends a loop: expressions, a jump or condition back to the *)
(* header, and the exit jump, if any, set to the index after that.         *)
LEMMA LoopEndList ==
  ASSUME NEW o, NEW v, OutOK(o), Plainly(o, v), NEW op \in {"jump", "cond"}, NEW t \in Nat, NEW x \in Int,
         x = None \/ x \in 0 .. Size(o) - 1
  PROVE  LET j == insert(v, op, t)
             p == IF x = None THEN j ELSE patch(j, x, j.ctr + 1)
         IN  /\ OutOK(p) /\ Size(o) < Size(p)
             /\ \A n \in 0 .. Size(o) - 1 :
                  (IsJ(p, n) <=> IsJ(o, n)) /\ Tgt(p, n) = IF n = x THEN Size(p) ELSE Tgt(o, n)
             /\ \A n \in Size(o) .. Size(p) - 1 : IsJ(p, n) => Tgt(p, n) = t
<1> DEFINE j == insert(v, op, t)
           p == IF x = None THEN j ELSE patch(j, x, j.ctr + 1)
<1>1. OutOK(v) /\ op \in Opcodes /\ t \in Int
  BY DEF Plainly, Longer, Opcodes
<1>2. OneMore(v, j, t)
  BY <1>1, InsertList
<1> HIDE DEF j
<1>3. /\ Longer(v, j) /\ OutOK(j) /\ Size(j) = Size(v) + 1 /\ Tgt(j, Size(v)) = t
      /\ Size(v) \in Nat /\ Size(o) \in Nat /\ j.ctr + 1 = Size(j) /\ Size(j) \in Nat
  BY <1>1, <1>2, ListTyped DEF OneMore, Longer
<1>4. /\ Longer(o, j) /\ Size(o) <= Size(v)
      /\ \A n \in Size(o) .. Size(j) - 1 : IsJ(j, n) => n \in Size(v) .. Size(j) - 1
  BY <1>3, LongerChain
<1>5. \A n \in Size(o) .. Size(j) - 1 : IsJ(j, n) => Tgt(j, n) = t
  <2>1. \A n \in Size(v) .. Size(j) - 1 : n = Size(v)
    BY <1>3
  <2> QED BY <2>1, <1>3, <1>4
<1>6. /\ Size(o) < Size(j)
      /\ \A n \in 0 .. Size(o) - 1 : (IsJ(j, n) <=> IsJ(o, n)) /\ Tgt(j, n) = Tgt(o, n)
  BY <1>3, <1>4 DEF Longer
<1>7. CASE x = None
  <2>1. p = j
    BY <1>7
  <2>2. \A n \in 0 .. Size(o) - 1 : n # x
    BY <1>3, <1>7 DEF None
  <2> HIDE DEF p
  <2> QED BY <2>1, <2>2, <1>3, <1>5, <1>6 DEF p, j
<1>8. CASE x # None
  <2>1. p = patch(j, x, j.ctr + 1) /\ x \in 0 .. Size(o) - 1
    BY <1>8
  <2> HIDE DEF p
  <2>2. x \in 0 .. Size(j) - 1
    BY <2>1, <1>3, <1>6
  <2>3. Patched(j, p, x, Size(j))
    BY <2>1, <2>2, <1>3, PatchList
  <2>4. OutOK(p) /\ Size(p) = Size(j)
    BY <2>3 DEF Patched
  <2>5. \A n \in 0 .. Size(j) - 1 :
          (IsJ(p, n) <=> IsJ(j, n)) /\ Tgt(p, n) = IF n = x THEN Size(j) ELSE Tgt(j, n)
    BY <2>3 DEF Patched
  <2>6. /\ \A n \in 0 .. Size(o) - 1 : n \in 0 .. Size(j) - 1
        /\ \A n \in Size(o) .. Size(j) - 1 : n \in 0 .. Size(j) - 1 /\ n # x
    BY <1>3, <1>6, <2>1
  <2>7. \A n \in 0 .. Size(o) - 1 :
          (IsJ(p, n) <=> IsJ(o, n)) /\ Tgt(p, n) = IF n = x THEN Size(p) ELSE Tgt(o, n)
    BY <1>6, <2>4, <2>5, <2>6
  <2>8. \A n \in Size(o) .. Size(p) - 1 : IsJ(p, n) => Tgt(p, n) = t
    BY <1>5, <2>4, <2>5, <2>6
  <2> QED BY <1>6, <2>4, <2>7, <2>8 DEF p, j
<1> QED BY <1>7, <1>8

(* The end of a while, a do or a for. *)
LEMMA LoopEndInv ==
  ASSUME Core, WhileEnd \/ ForEnd \/ \E ops \in Seq(Plain) : DoEnd(ops)
  PROVE  Core' /\ LoopEnded
<1> DEFINE L == Len(open)
           f == open[L]
<1>0. OutOK(out) /\ FrameInv /\ LastInv
  BY DEF Core
<1>1. Last(open) = f /\ Size(out) \in Nat
  BY <1>0, ListTyped DEF Last
<1>2. open # <<>> /\ f.kind \in Loops
  BY <1>1 DEF WhileEnd, DoEnd, ForEnd, Closing, Loops
<1>3. L \in 1 .. L /\ f \in Frames
  <2>1. L \in Nat /\ open \in Seq(Frames) /\ DOMAIN open = 1 .. L
    BY <1>0, FrameTyped DEF FrameInv
  <2>2. L # 0
    BY <1>2, <2>1
  <2>3. L \in 1 .. L
    BY <2>1, <2>2
  <2> QED BY <1>0, <2>1, <2>3, FrameTyped
<1>4. /\ f.from \in Nat /\ f.exit \in Int
      /\ f.exit = None \/ f.exit \in 0 .. Size(out) - 1
      /\ f.kind = "while" => f.exit # None
  <2>1. f.exit \in 0 .. Size(out) - 1 => f.exit # None
    BY <1>1 DEF None
  <2> QED BY <1>0, <1>3, <2>1, FrameFacts
<1>5. f.incr \in Seq(Plain)
  BY <1>3 DEF Frames
<1>6. Plainly(out, out)
  BY <1>0, <1>1 DEF Plainly, Longer
<1>7. PICK o, cond :
        /\ CloseLoop(o, NextIdx, cond) /\ OutOK(o) /\ Size(out) < Size(o)
        /\ (f.kind # "do" => cond = f.from)
        /\ \A n \in 0 .. Size(out) - 1 :
             (IsJ(o, n) <=> IsJ(out, n)) /\ Tgt(o, n) = IF n = f.exit THEN Size(o) ELSE Tgt(out, n)
        /\ \A n \in Size(out) .. Size(o) - 1 : IsJ(o, n) => Tgt(o, n) = f.from
  <2>1. CASE WhileEnd
    <3> DEFINE j == insert(out, "jump", f.from)
               p == IF f.exit = None THEN j ELSE patch(j, f.exit, j.ctr + 1)
    <3>1. f.kind = "while"
      BY <1>1, <2>1 DEF WhileEnd, Closing
    <3>2. CloseLoop(p, NextIdx, f.from)
      BY <1>1, <1>4, <2>1, <3>1 DEF WhileEnd
    <3>3. /\ OutOK(p) /\ Size(out) < Size(p)
          /\ \A n \in 0 .. Size(out) - 1 :
               (IsJ(p, n) <=> IsJ(out, n)) /\ Tgt(p, n) = IF n = f.exit THEN Size(p) ELSE Tgt(out, n)
          /\ \A n \in Size(out) .. Size(p) - 1 : IsJ(p, n) => Tgt(p, n) = f.from
      <4> HIDE DEF f
      <4> QED BY <1>0, <1>4, <1>6, LoopEndList
    <3> HIDE DEF p, f
    <3> QED BY <3>2, <3>3
  <2>2. CASE ForEnd
    <3> DEFINE v == visit(out, f.incr)
               j == insert(v, "jump", f.from)
               p == IF f.exit = None THEN j ELSE patch(j, f.exit, j.ctr + 1)
    <3>2. CloseLoop(p, NextIdx, f.from)
      BY <1>1, <2>2 DEF ForEnd
    <3>3. Plainly(out, v)
      BY <1>0, <1>5, VisitList
    <3>4. /\ OutOK(p) /\ Size(out) < Size(p)
          /\ \A n \in 0 .. Size(out) - 1 :
               (IsJ(p, n) <=> IsJ(out, n)) /\ Tgt(p, n) = IF n = f.exit THEN Size(p) ELSE Tgt(out, n)
          /\ \A n \in Size(out) .. Size(p) - 1 : IsJ(p, n) => Tgt(p, n) = f.from
      <4> HIDE DEF f, v
      <4> QED BY <1>0, <1>4, <3>3, LoopEndList
    <3> HIDE DEF p, f
    <3> QED BY <3>2, <3>4
  <2>3. CASE \E ops \in Seq(Plain) : DoEnd(ops)
    <3>1. PICK ops \in Seq(Plain) : DoEnd(ops)
      BY <2>3
    <3> DEFINE v == visit(out, ops)
               j == insert(v, "cond", f.from)
    <3>2. CloseLoop(j, NextIdx, NextIdx)
      BY <1>1, <3>1 DEF DoEnd
    <3>3. Plainly(out, v)
      BY <1>0, VisitList
    <3>k. f.kind = "do"
      BY <1>1, <3>1 DEF DoEnd, Closing
    <3>4. f.exit = None
      BY <1>3, <3>k DEF Frames
    <3>5. /\ OutOK(j) /\ Size(out) < Size(j)
          /\ \A n \in 0 .. Size(out) - 1 :
               (IsJ(j, n) <=> IsJ(out, n)) /\ Tgt(j, n) = IF n = f.exit THEN Size(j) ELSE Tgt(out, n)
          /\ \A n \in Size(out) .. Size(j) - 1 : IsJ(j, n) => Tgt(j, n) = f.from
      <4> HIDE DEF f, v
      <4> QED BY <1>0, <1>4, <3>3, <3>4, LoopEndList
    <3> HIDE DEF j, f
    <3> QED BY <3>2, <3>5, <3>k
  <2> QED BY <2>1, <2>2, <2>3
<1> QED BY <1>2, <1>7, CloseLoopInv

(* Inside a loop the last header is the one of the innermost loop. *)
LEMMA InnerHeader ==
  ASSUME HeaderInv, FrameInv, OpenLoops # {}
  PROVE  \E d \in OpenLoops : /\ Last(ir_loop_header_stack) = open[d].from
                              /\ \A e \in OpenLoops : e <= d
<1> DEFINE h == ir_loop_header_stack
           K == Len(h)
<1>1. h \in Seq(Nat) /\ K \in Nat
  BY DEF HeaderInv
<1>2. PICK m \in [1 .. K -> OpenLoops] : HeaderMap(m)
  BY DEF HeaderInv
<1>3. OpenLoops \subseteq 1 .. Len(open) /\ Len(open) \in Nat
  BY FrameTyped DEF OpenLoops
<1> HIDE DEF h, K
<1>4. DOMAIN m = 1 .. K
  OBVIOUS
<1>5. K \in 1 .. K
  <2>1. PICK d : d \in OpenLoops
    OBVIOUS
  <2>2. PICK k \in 1 .. K : m[k] = d
    BY <1>2, <1>4, <2>1 DEF HeaderMap
  <2> QED BY <1>1, <2>2
<1>6. m[K] \in OpenLoops /\ h[K] = open[m[K]].from
  BY <1>2, <1>4, <1>5 DEF HeaderMap, h
<1>7. ASSUME NEW e \in OpenLoops PROVE e <= m[K]
  <2>1. PICK k \in 1 .. K : m[k] = e
    BY <1>2, <1>4 DEF HeaderMap
  <2>2. k < K => m[k] < m[K]
    BY <1>2, <1>4, <1>5 DEF HeaderMap
  <2>3. m[k] \in 1 .. Len(open) /\ m[K] \in 1 .. Len(open)
    BY <1>3, <1>6, <2>1
  <2>4. k = K \/ k < K
    BY <1>1
  <2> QED BY <1>3, <2>1, <2>2, <2>3, <2>4
<1>8. Last(h) = h[K]
  BY DEF Last, K
<1> QED BY <1>6, <1>7, <1>8 DEF h

(* break and continue. *)
LEMMA FlowInv ==
  ASSUME Core, visit_break \/ visit_continue
  PROVE  /\ Core' /\ Kept
         /\ \E d \in OpenLoops : \E x :
              /\ \A e \in OpenLoops : e <= d
              /\ flow' = flow \union {x} /\ x.loop = <<d, open[d].from>>
              /\ x.at = Size(out) /\ Size(out') = Size(out) + 1
              /\ Tgt(out', x.at) = IF x.kind = "continue" THEN open[d].from ELSE 0
              /\ \/ x.kind = "break" /\ ir_break_stack' = Append(ir_break_stack, Size(out))
                 \/ x.kind = "continue" /\ ir_break_stack' = ir_break_stack
<1>0. OutOK(out) /\ FrameInv /\ HeaderInv
  BY DEF Core
<1>1. PICK S \in Nat : S = Size(out)
  BY <1>0, ListTyped
<1>2. OpenLoops # {} /\ UNCHANGED <<open, ir_loop_header_stack, closed>> /\ last' = (out').ctr
  BY DEF visit_break, visit_continue
<1>3. PICK d \in OpenLoops : /\ Last(ir_loop_header_stack) = open[d].from
                             /\ \A e \in OpenLoops : e <= d
  BY <1>0, <1>2, InnerHeader
<1>4. open[d].from \in Nat /\ open[d].from <= S
  <2>1. d \in 1 .. Len(open)
    BY <1>0, FrameTyped DEF OpenLoops
  <2>2. open[d].from \in Nat /\ open[d].body \in Nat /\ open[d].from <= open[d].body /\ open[d].body <= S
    BY <1>0, <1>1, <2>1, FrameFacts
  <2> QED BY <2>2
<1>5. PICK t \in Nat : /\ t <= S /\ out' = insert(out, "jump", t)
                       /\ t = IF visit_continue THEN open[d].from ELSE 0
  <2>1. CASE visit_break /\ ~visit_continue
    BY <1>1, <2>1 DEF visit_break
  <2>2. CASE visit_continue
    BY <1>3, <1>4, <2>2 DEF visit_continue
  <2> QED BY <2>1, <2>2
<1>6. OneMore(out, out', t) /\ IsJ(out', S)
  <2>1. "jump" \in Opcodes /\ t \in Int
    BY DEF Opcodes
  <2> QED BY <1>0, <1>1, <1>5, <2>1, InsertList
<1>7. Size(out') = S + 1 /\ (out').ctr = S
  <2>1. OutOK(out') /\ Size(out') = S + 1
    BY <1>1, <1>6 DEF OneMore, Longer
  <2>2. (out').ctr = Size(out') - 1
    BY <2>1, ListTyped
  <2> QED BY <2>1, <2>2
<1>8. LastInv'
  BY <1>2, <1>7 DEF LastInv
<1>i. InnerLoop = <<d, open[d].from>>
  <2> DEFINE P(c) == \A e \in OpenLoops : e <= c
  <2>1. \A c \in OpenLoops : P(c) => c = d
    <3>1. \A c \in OpenLoops : c \in Int
      BY <1>0, FrameTyped DEF OpenLoops
    <3> QED BY <1>3, <3>1
  <2>2. (CHOOSE c \in OpenLoops : P(c)) = d
    BY <1>3, <2>1
  <2> QED BY <2>2 DEF InnerLoop
<1>9. PICK x : /\ flow' = flow \union {x} /\ x.at = S /\ x.loop = <<d, open[d].from>>
               /\ x.kind = IF visit_continue THEN "continue" ELSE "break"
  <2>1. CASE visit_continue
    <3> DEFINE x == [at |-> (out').ctr, kind |-> "continue", loop |-> InnerLoop]
    <3>1. flow' = flow \union {x}
      BY <2>1 DEF visit_continue
    <3>2. x.at = S /\ x.kind = "continue" /\ x.loop = <<d, open[d].from>>
      BY <1>7, <1>i
    <3> HIDE DEF x
    <3> QED BY <2>1, <3>1, <3>2
  <2>2. CASE ~visit_continue
    <3> DEFINE x == [at |-> (out').ctr, kind |-> "break", loop |-> InnerLoop]
    <3>1. flow' = flow \union {x}
      BY <2>2 DEF visit_break
    <3>2. x.at = S /\ x.kind = "break" /\ x.loop = <<d, open[d].from>>
      BY <1>7, <1>i
    <3> HIDE DEF x
    <3> QED BY <2>2, <3>1, <3>2
  <2> QED BY <2>1, <2>2
<1>10. \A n \in 0 .. S - 1 : n # S
  OBVIOUS
<1>11. \A n \in 0 .. S - 1 : IsBreak(n)' <=> IsBreak(n)
  BY <1>9, <1>10 DEF IsBreak
<1>12. ~visit_continue => IsBreak(S)'
  BY <1>9 DEF IsBreak
<1>13. \/ ir_break_stack' = ir_break_stack
       \/ ir_break_stack' = Append(ir_break_stack, S) /\ IsBreak(S)'
  <2>1. CASE visit_continue
    BY <2>1 DEF visit_continue
  <2>2. CASE ~visit_continue
    BY <1>7, <1>12, <2>2 DEF visit_break
  <2> QED BY <2>1, <2>2
<1>14. \/ IsBreak(S)'
       \/ \E e \in OpenLoops : t = open[e].from /\ \A k \in OpenLoops : k <= e
  BY <1>3, <1>5, <1>12
<1>15. Core'
  BY <1>1, <1>2, <1>5, <1>6, <1>8, <1>11, <1>13, <1>14, FlowKeeps
<1>16. Kept
  <2>1. Size(out) \in Nat /\ Size(out') \in Nat /\ Size(out) <= Size(out')
    BY <1>1, <1>7
  <2> QED BY <1>6, <2>1 DEF Kept, OneMore, Longer
<1>17. Tgt(out', x.at) = t /\ Size(out') = Size(out) + 1 /\ x.at = Size(out)
  BY <1>1, <1>6, <1>7, <1>9 DEF OneMore
<1>18. \/ x.kind = "break" /\ ir_break_stack' = Append(ir_break_stack, Size(out)) /\ t = 0
       \/ x.kind = "continue" /\ ir_break_stack' = ir_break_stack /\ t = open[d].from
  <2>1. CASE visit_continue
    BY <1>5, <1>9, <2>1 DEF visit_continue
  <2>2. CASE ~visit_continue
    BY <1>1, <1>5, <1>7, <1>9, <2>2 DEF visit_break
  <2> QED BY <2>1, <2>2
<1> QED BY <1>3, <1>9, <1>15, <1>16, <1>17, <1>18

(* The end of the function. *)
LEMMA FnEndInv ==
  ASSUME IInv, FnEnd
  PROVE  IInv'
<1>0. OutOK(out) /\ Core
  BY DEF IInv, Core
<1>1. Size(out) \in Nat
  BY <1>0, ListTyped
<1>2. "ret" \in Plain
  BY DEF Plain, Opcodes
<1>3. Plainly(out, out)
  BY <1>0, <1>1 DEF Plainly, Longer
<1>4. Plainly(out, out') /\ (dt = "void" => Size(out') = Size(out) + 1)
  BY <1>0, <1>2, <1>3, RetList DEF FnEnd
<1>5. last' = Size(out') - 1
  <2>1. OutOK(out') /\ last' = (out').ctr
    BY <1>4 DEF FnEnd, Plainly, Longer
  <2> QED BY <2>1, ListTyped
<1>6. Core'
  BY <1>0, <1>4, <1>5, PlainKeeps DEF FnEnd
<1>7. ASSUME dt = "void", NEW n \in 0 .. Size(out') - 1, IsJ(out', n)
      PROVE  Tgt(out', n) < Size(out')
  <2>1. open = <<>> /\ Size(out') = Size(out) + 1
    BY <1>4, <1>7 DEF FnEnd
  <2>2. n \in 0 .. Size(out) - 1
    <3>1. n \notin Size(out) .. Size(out') - 1
      BY <1>4, <1>7 DEF Plainly
    <3> QED BY <1>1, <2>1, <3>1
  <2>3. IsJ(out, n) /\ Tgt(out', n) = Tgt(out, n)
    BY <1>4, <1>7, <2>2 DEF Plainly, Longer
  <2>4. DOMAIN open = {}
    BY <2>1
  <2>5. Tgt(out, n) \in 0 .. Size(out)
    BY <1>0, <2>2, <2>3, <2>4 DEF Core, TargetInv
  <2> QED BY <1>1, <2>1, <2>3, <2>5
<1>8. DoneInv'
  <2>1. dt' = dt /\ open' = open /\ open = <<>> /\ dt \in {"void", "int"}
    BY DEF FnEnd, IInv, DoneInv
  <2> QED BY <1>7, <2>1 DEF DoneInv
<1> QED BY <1>6, <1>8 DEF IInv

(* The initial state. *)
LEMMA InitInv ==
  ASSUME Init
  PROVE  IInv
<1>1. PICK t \in ReturnTypes : Fresh(t)
  BY DEF Init
<1>2. out.code = <<>> /\ out.ctr = -1 /\ out.loop = 0 /\ last = NULL
      /\ out = [code |-> <<>>, ctr |-> -1, loop |-> 0]
  BY <1>1 DEF Fresh
<1>3. Size(out) = 0 /\ out \in [code : Seq(Instrs), ctr : Int, loop : Int]
  BY <1>2 DEF Size
<1>4. OutOK(out) /\ LastInv
  BY <1>2, <1>3 DEF OutOK, LastInv
<1>5. /\ open = <<>> /\ ir_break_stack = <<>> /\ ir_loop_header_stack = <<>>
      /\ closed = {} /\ phase = "body" /\ dt = t
  BY <1>1 DEF Fresh
<1>6. 0 .. Size(out) - 1 = {} /\ DOMAIN open = {} /\ DOMAIN ir_break_stack = {} /\ OpenLoops = {}
  BY <1>3, <1>5 DEF OpenLoops
<1>7. FrameInv /\ TargetInv /\ ClosedInv /\ NestInv /\ BreakInv /\ StructInv
  BY <1>5, <1>6 DEF FrameInv, TargetInv, ClosedInv, NestInv, BreakInv, StructInv
<1>8. HeaderInv
  <2>1. ir_loop_header_stack \in Seq(Nat) /\ Len(ir_loop_header_stack) = 0
    BY <1>5
  <2>2. PICK m : m = [k \in {} |-> 0]
    OBVIOUS
  <2>3. 1 .. Len(ir_loop_header_stack) = {}
    BY <2>1
  <2>4. m \in [{} -> OpenLoops] /\ DOMAIN m = {}
    BY <2>2
  <2>5. HeaderMap(m)
    BY <1>6, <2>4 DEF HeaderMap
  <2> QED BY <2>1, <2>3, <2>4, <2>5 DEF HeaderInv
<1>9. DoneInv
  BY <1>5, ReturnTypesAssumption DEF DoneInv
<1> QED BY <1>4, <1>7, <1>8, <1>9 DEF IInv, Core

(* Every step. *)
LEMMA NextInv ==
  ASSUME IInv, [Next]_vars
  PROVE  IInv'
<1>1. CASE UNCHANGED vars
  <2>1. UNCHANGED <<out, last, open, ir_break_stack, ir_loop_header_stack, dt, phase, closed, flow>>
    BY <1>1 DEF vars
  <2>2. OutOK(out)' /\ LastInv' /\ FrameInv' /\ TargetInv' /\ ClosedInv' /\ BreakInv'
    BY <2>1 DEF IInv, Core, LastInv, FrameInv, TargetInv, ClosedInv, BreakInv, IsBreak
  <2>3. NestInv' /\ StructInv'
    BY <2>1 DEF IInv, Core, NestInv, Settled, StructInv, IsBreak
  <2>4. HeaderInv'
    BY <2>1, HeaderSame DEF IInv, Core
  <2>5. DoneInv'
    BY <2>1 DEF IInv, DoneInv
  <2> QED BY <2>2, <2>3, <2>4, <2>5 DEF IInv, Core
<1>2. CASE FnEnd
  BY <1>2, FnEndInv
<1>3. CASE ForCrash
  <2>1. UNCHANGED <<out, last, open, ir_break_stack, ir_loop_header_stack, dt, closed, flow>>
        /\ phase' = "crashed"
    BY <1>3 DEF ForCrash
  <2>2. OutOK(out)' /\ LastInv' /\ FrameInv' /\ TargetInv' /\ ClosedInv' /\ BreakInv'
    BY <2>1 DEF IInv, Core, LastInv, FrameInv, TargetInv, ClosedInv, BreakInv, IsBreak
  <2>3. NestInv' /\ StructInv'
    BY <2>1 DEF IInv, Core, NestInv, Settled, StructInv, IsBreak
  <2>4. HeaderInv'
    BY <2>1, HeaderSame DEF IInv, Core
  <2>5. DoneInv'
    BY <2>1 DEF IInv, DoneInv
  <2> QED BY <2>2, <2>3, <2>4, <2>5 DEF IInv, Core
<1>4. ASSUME Core', phase' = "body", dt' = dt PROVE IInv'
  BY <1>4 DEF IInv, DoneInv
<1>5. CASE \E ops \in Stmts : Stmt(ops)
  <2>1. PICK ops \in Stmts : Stmt(ops)
    BY <1>5
  <2>2. Core'
    BY <2>1, StmtInv, SourcePlain DEF IInv
  <2> QED BY <1>4, <2>1, <2>2 DEF Stmt, Room
<1>6. CASE \E ops \in Exprs : visit_ret(ops) \/ IfStart(ops) \/ WhileStart(ops) \/ DoEnd(ops)
  <2>0. PICK ops \in Exprs : visit_ret(ops) \/ IfStart(ops) \/ WhileStart(ops) \/ DoEnd(ops)
    BY <1>6
  <2>s. ops \in Seq(Plain) /\ Core
    BY SourcePlain DEF IInv
  <2>1. CASE visit_ret(ops)
    BY <1>4, <2>1, <2>s, StmtInv DEF visit_ret, Room
  <2>2. CASE IfStart(ops)
    BY <1>4, <2>2, <2>s, IfStartInv DEF IfStart, CanOpen, Room
  <2>3. CASE WhileStart(ops)
    BY <1>4, <2>3, <2>s, WhileStartInv DEF WhileStart, OpenLoop, CanOpen, Room
  <2>4. CASE DoEnd(ops)
    BY <1>4, <2>4, <2>s, LoopEndInv DEF DoEnd, Closing, CloseLoop
  <2> QED BY <2>0, <2>1, <2>2, <2>3, <2>4
<1>7. CASE \E init \in ForInits, ops \in Exprs \union {<<"none">>}, incr \in ForIncrs :
             ForStart(init, ops, incr)
  <2>1. PICK init \in ForInits, ops \in Exprs \union {<<"none">>}, incr \in ForIncrs :
               ForStart(init, ops, incr)
    BY <1>7
  <2>2. init \in Seq(Plain) /\ ops \in Seq(Plain) /\ incr \in Seq(Plain)
    BY SourcePlain
  <2>3. Core'
    BY <2>1, <2>2, ForStartInv DEF IInv
  <2>4. phase' = "body" /\ dt' = dt
    BY <2>1 DEF ForStart, OpenLoop, CanOpen, Room
  <2> QED BY <1>4, <2>3, <2>4
<1>8. CASE IfEnd \/ ElseEnd
  <2>1. Core'
    BY <1>8, IfEndInv DEF IInv
  <2> QED BY <1>4, <1>8, <2>1 DEF IfEnd, ElseEnd
<1>9. CASE ElseStart
  <2>1. Core'
    BY <1>9, ElseStartInv DEF IInv
  <2> QED BY <1>4, <1>9, <2>1 DEF ElseStart, Room
<1>10. CASE DoStart
  <2>1. Core'
    BY <1>10, DoStartInv DEF IInv
  <2> QED BY <1>4, <1>10, <2>1 DEF DoStart, OpenLoop, CanOpen, Room
<1>11. CASE WhileEnd \/ ForEnd
  <2>1. Core'
    BY <1>11, LoopEndInv DEF IInv
  <2> QED BY <1>4, <1>11, <2>1 DEF WhileEnd, ForEnd, Closing, CloseLoop
<1>12. CASE visit_break \/ visit_continue
  <2>1. Core'
    BY <1>12, FlowInv DEF IInv
  <2> QED BY <1>4, <1>12, <2>1 DEF visit_break, visit_continue, Room
<1> QED BY <1>1, <1>2, <1>3, <1>5, <1>6, <1>7, <1>8, <1>9, <1>10, <1>11, <1>12 DEF Next

------------------------------------------------------------------------------

(* The inductive invariant: indices are positions, open statements nest,   *)
(* and the jumps made so far keep to them.                                 *)
THEOREM Invariance == Spec => []IInv
<1>1. Init => IInv
  BY InitInv
<1>2. IInv /\ [Next]_vars => IInv'
  BY NextInv
<1> QED BY <1>1, <1>2, PTL DEF Spec

(* visit_if, the loop visitors and the jumps they patch: code of a         *)
(* finished statement is entered at its start only, and loops are left for *)
(* the instruction after them, for functions of any length and nesting.    *)
THEOREM StructuredJumps == Spec => []JumpsStructured
<1>1. IInv => JumpsStructured
  <2> SUFFICES ASSUME IInv PROVE JumpsStructured
    OBVIOUS
  <2>1. StructInv
    BY DEF IInv, Core
  <2> QED BY <2>1 DEF StructInv, JumpsStructured, Pos, code, Size, IsJ, Tgt, IsJump, At
<1> QED BY <1>1, Invariance, PTL

(* The targets of a finished function, from the invariant. *)
LEMMA DoneTargets ==
  ASSUME IInv PROVE TargetsExist
<1> SUFFICES ASSUME phase = "done", NEW n \in Pos, IsJump(n)
             PROVE  \/ At(n).tgt \in Pos /\ At(At(n).tgt).idx = At(n).tgt
                    \/ dt = "int" /\ At(n).tgt = Len(code)
  BY DEF TargetsExist
<1>1. OutOK(out) /\ TargetInv /\ DoneInv /\ Size(out) \in Nat
  BY ListTyped DEF IInv, Core
<1>2. n \in 0 .. Size(out) - 1 /\ IsJ(out, n) /\ At(n).tgt = Tgt(out, n) /\ Len(code) = Size(out)
  BY DEF Pos, code, Size, IsJ, IsJump, At, Tgt
<1>3. DOMAIN open = {}
  BY <1>1 DEF DoneInv
<1>4. PICK t : t = Tgt(out, n)
  OBVIOUS
<1>5. t \in 0 .. Size(out)
  BY <1>1, <1>2, <1>3, <1>4 DEF TargetInv
<1>6. CASE t \in 0 .. Size(out) - 1
  <2>1. t + 1 \in 1 .. Size(out) /\ (t + 1) - 1 = t
    BY <1>1, <1>6
  <2>2. out.code[t + 1].idx = t
    BY <1>1, <2>1 DEF OutOK
  <2> QED BY <1>2, <1>4, <1>6, <2>2 DEF Pos, code, At, Size
<1>7. CASE t = Size(out)
  <2>0. ~(t < Size(out))
    BY <1>1, <1>7
  <2>1. dt # "void"
    BY <1>1, <1>2, <1>4, <2>0 DEF DoneInv
  <2> QED BY <1>1, <1>2, <1>4, <1>7, <2>1 DEF DoneInv
<1>c. t \in 0 .. Size(out) - 1 \/ t = Size(out)
  BY <1>1, <1>5
<1> QED BY <1>6, <1>7, <1>c

(* link_target's assertion in ir_cfg_build: the target of every jump of a  *)
(* finished void function is the instr_idx of an instruction of the list;  *)
(* of another function it may also be one past the end.                    *)
THEOREM JumpTargets == Spec => []TargetsExist
BY Invariance, DoneTargets, PTL

------------------------------------------------------------------------------
(* The control-flow graph. *)

(* ir_cfg_build runs once, on the finished list, and what it links stays.  *)
CfgInv ==
  Linked => /\ phase = "done"
            /\ succs = [n \in Pos |-> link_succs(n)]
            /\ preds = [n \in Pos |-> link_preds(n)]

(* Nothing happens to the list of a finished function. *)
LEMMA DoneStays ==
  ASSUME phase = "done", [Next]_vars
  PROVE  UNCHANGED vars
BY DEF Next, Stmt, visit_ret, IfStart, WhileStart, DoEnd, ForStart, ForCrash, IfEnd, ElseStart,
       ElseEnd, DoStart, WhileEnd, ForEnd, visit_break, visit_continue, FnEnd,
       Room, CanOpen, Closing

(* The edges derived from one list agree. *)
LEMMA LinksAgree ==
  ASSUME NEW m \in Pos, NEW n \in Pos, OutOK(out)
  PROVE  /\ n \in ToSet(link_succs(m)) => m \in link_preds(n)
         /\ m \in link_preds(n) => n \in ToSet(link_succs(m)) \/ At(m).op = "ret"
<1>0. Size(out) \in Nat /\ Pos = 0 .. Size(out) - 1
  BY ListTyped DEF Pos, code, Size
<1>1. m \in Int /\ n \in Int /\ n # NULL /\ (n - 1 = m <=> n = m + 1)
  BY <1>0 DEF NULL
<1>2. m \in link_preds(n) <=>
        \/ m = n - 1 /\ At(m).op # "jump" /\ ~(At(n).op = "ret" /\ At(m).op = "ret")
        \/ At(m).op \in {"jump", "cond"} /\ At(m).tgt = n
  BY DEF link_preds, IsJump
<1>3. CASE At(m).op = "jump"
  <2>1. ToSet(link_succs(m)) = {At(m).tgt}
    BY <1>3 DEF link_succs, ToSet
  <2> QED BY <1>2, <1>3, <2>1
<1>4. CASE At(m).op = "cond"
  <2>1. ToSet(link_succs(m)) = {At(m).tgt, IF m + 1 \in Pos THEN m + 1 ELSE NULL}
    <3> DEFINE s == IF m + 1 \in Pos THEN m + 1 ELSE NULL
    <3>1. link_succs(m) = <<At(m).tgt, s>>
      BY <1>4 DEF link_succs
    <3> HIDE DEF s
    <3> QED BY <3>1 DEF ToSet, s
  <2> QED BY <1>1, <1>2, <1>4, <2>1
<1>5. CASE At(m).op = "ret"
  <2>1. ToSet(link_succs(m)) = {}
    BY <1>5 DEF link_succs, ToSet
  <2> QED BY <1>5, <2>1
<1>6. CASE At(m).op \notin {"jump", "cond", "ret"}
  <2>1. ToSet(link_succs(m)) = IF m + 1 \in Pos THEN {m + 1} ELSE {}
    BY <1>6 DEF link_succs, ToSet
  <2> QED BY <1>1, <1>2, <1>6, <2>1
<1> QED BY <1>3, <1>4, <1>5, <1>6

(* link(): the graph is the same walked by successors and by predecessors. *)
THEOREM EdgesBothWays == CfgSpec => []EdgesAgree
<1>1. CfgInit => IInv /\ CfgInv
  BY InitInv DEF CfgInit, CfgInv, Linked
<1>2. IInv /\ CfgInv /\ [CfgNext]_<<vars, cfgVars>> => (IInv /\ CfgInv)'
  <2> SUFFICES ASSUME IInv, CfgInv, [CfgNext]_<<vars, cfgVars>> PROVE IInv' /\ CfgInv'
    OBVIOUS
  <2>1. [Next]_vars
    BY DEF CfgNext, ir_cfg_build
  <2>2. IInv'
    BY <2>1, NextInv
  <2>3. CASE UNCHANGED cfgVars
    <3>1. UNCHANGED <<built, succs, preds>>
      BY <2>3 DEF cfgVars
    <3>2. ASSUME Linked PROVE UNCHANGED vars
      BY <2>1, <3>2, DoneStays DEF CfgInv
    <3> QED BY <2>2, <3>1, <3>2 DEF CfgInv, Linked, vars, Pos, code, link_succs, link_preds, At, IsJump
  <2>4. CASE ir_cfg_build
    <3>1. UNCHANGED <<out, phase>> /\ phase = "done"
      BY <2>4 DEF ir_cfg_build, vars
    <3>2. built' = "linked" => /\ succs' = [n \in Pos |-> link_succs(n)]
                               /\ preds' = [n \in Pos |-> link_preds(n)]
      BY <2>4 DEF ir_cfg_build
    <3> QED BY <2>2, <3>1, <3>2 DEF CfgInv, Linked, Pos, code, link_succs, link_preds, At, IsJump
  <2> QED BY <2>3, <2>4 DEF CfgNext, cfgVars
<1>3. IInv /\ CfgInv => EdgesAgree
  <2> SUFFICES ASSUME IInv, CfgInv, Linked, NEW m \in Pos, NEW n \in Pos
               PROVE  /\ n \in ToSet(succs[m]) => m \in preds[n]
                      /\ m \in preds[n] => n \in ToSet(succs[m]) \/ At(m).op = "ret"
    BY DEF EdgesAgree
  <2>1. succs[m] = link_succs(m) /\ preds[n] = link_preds(n)
    BY DEF CfgInv
  <2> QED BY <2>1, LinksAgree DEF IInv, Core
<1> QED BY <1>1, <1>2, <1>3, PTL DEF CfgSpec

------------------------------------------------------------------------------
(* Where break and continue go: gen.c keeps the jumps of breaks on         *)
(* ir_break_stack and the end of a loop takes one of them, whichever loop  *)
(* it belongs to.  When every loop has one break it is the right one.      *)

bs == ir_break_stack
Id(d) == <<d, open[d].from>>
Breaks(id) == {x \in flow : x.kind = "break" /\ x.loop = id}

(* The break and continue jumps are in the list, each once, and have a     *)
(* target; that of a continue is the header of its loop.                   *)
EntryInv ==
  /\ IsFiniteSet(flow)
  /\ \A x \in flow :
       /\ x.at \in 0 .. Size(out) - 1 /\ Tgt(out, x.at) # None
       /\ x.loop[1] \in Nat /\ x.loop[2] \in Nat /\ x.loop[2] <= x.at
       /\ x.kind = "continue" => Tgt(out, x.at) = x.loop[2]
  /\ \A x, y \in flow : x.at = y.at => x = y

(* A finished loop is not empty, and was finished before any statement at  *)
(* its depth or deeper that is open now was begun.                         *)
EndedInv ==
  \A r \in closed : r.kind \in Loops =>
    /\ r.id \in Nat \X Nat /\ r.id[2] = r.from /\ r.from < r.to
    /\ r.kind # "do" => r.cond = r.from
    /\ \A d \in DOMAIN open : r.id[1] <= d => r.to <= open[d].from

OneEach == \A r \in closed : r.kind \in Loops => Cardinality(Breaks(r.id)) = 1

(* If every finished loop has one break, the stack holds the breaks of the *)
(* open loops, those of inner loops last, and the others have got their    *)
(* targets.                                                                *)
Waiting ==
  /\ \A k \in DOMAIN bs : \E x \in flow, d \in OpenLoops :
       x.at = bs[k] /\ x.kind = "break" /\ x.loop = Id(d)
  /\ \A x \in flow, d \in OpenLoops :
       x.kind = "break" /\ x.loop = Id(d) => \E k \in DOMAIN bs : bs[k] = x.at
  /\ \A j, k \in DOMAIN bs, x, y \in flow :
       j < k /\ x.at = bs[j] /\ y.at = bs[k] => x.loop[1] <= y.loop[1]
  /\ \A x \in flow, r \in closed :
       x.kind = "break" /\ r.id = x.loop /\ r.kind \in Loops => Tgt(out, x.at) = r.to

WaitInv ==
  /\ \A j, k \in DOMAIN bs : j < k => bs[j] < bs[k]
  /\ OneEach => Waiting

BInv == EntryInv /\ EndedInv /\ WaitInv

------------------------------------------------------------------------------

(* Steps that touch neither break nor continue nor the end of a loop.      *)
Quiet ==
  /\ Kept /\ UNCHANGED <<ir_break_stack, flow>>
  /\ closed \subseteq closed' /\ \A r \in closed' \ closed : r.kind \notin Loops
  /\ \A d \in OpenLoops : d \in OpenLoops' /\ open'[d].from = open[d].from
  /\ \A d \in OpenLoops' : d \in OpenLoops \/ open'[d].from >= Size(out)
  /\ \A d \in DOMAIN open' :
       (d \in DOMAIN open /\ open'[d].from = open[d].from) \/ open'[d].from >= Size(out)

(* The open loops and their numbers. *)
LEMMA LoopTyped ==
  ASSUME FrameInv
  PROVE  /\ OpenLoops \subseteq DOMAIN open /\ Len(open) \in Nat
         /\ \A d \in DOMAIN open : d \in 1 .. Len(open) /\ open[d].from \in Nat
BY FrameTyped DEF OpenLoops

(* They leave the invariant as it is. *)
LEMMA QuietKeeps ==
  ASSUME Core, Core', BInv, Quiet
  PROVE  BInv'
<1>0. FrameInv /\ FrameInv' /\ ClosedInv
  BY DEF Core
<1>1. flow' = flow /\ bs' = bs
  BY DEF Quiet, bs
<1>2. /\ Size(out) \in Nat /\ Size(out') \in Nat /\ Size(out) <= Size(out')
      /\ \A n \in 0 .. Size(out) - 1 : n \in 0 .. Size(out') - 1
      /\ \A n \in 0 .. Size(out) - 1 : Tgt(out, n) # None => Tgt(out', n) = Tgt(out, n)
  <2>1. /\ Size(out) \in Nat /\ Size(out') \in Nat /\ Size(out) <= Size(out')
        /\ \A n \in 0 .. Size(out) - 1 : Tgt(out, n) # None => Tgt(out', n) = Tgt(out, n)
    BY DEF Quiet, Kept
  <2> QED BY <2>1
<1>3. /\ \A d \in DOMAIN open : d \in Nat /\ open[d].from \in Nat
      /\ \A d \in DOMAIN open' : d \in Nat /\ open'[d].from \in Nat
      /\ OpenLoops \subseteq DOMAIN open
  <2>1. OpenLoops \subseteq DOMAIN open /\ \A d \in DOMAIN open : d \in Nat /\ open[d].from \in Nat
    BY <1>0, LoopTyped
  <2>2. \A d \in DOMAIN open' : d \in 1 .. Len(open') /\ open'[d].from \in Nat
    <3>1. open' \in Seq(Frames)
      BY <1>0 DEF FrameInv
    <3>2. DOMAIN open' = 1 .. Len(open') /\ \A d \in DOMAIN open' : open'[d] \in Frames
      BY <3>1
    <3> QED BY <3>2 DEF Frames
  <2>3. \A d \in DOMAIN open' : d \in Nat
    <3>1. open' \in Seq(Frames)
      BY <1>0 DEF FrameInv
    <3> QED BY <3>1
  <2> QED BY <2>1, <2>2, <2>3
<1>4. \A x \in flow : Tgt(out', x.at) = Tgt(out, x.at) /\ x.at \in 0 .. Size(out') - 1
  BY <1>2 DEF BInv, EntryInv
<1>5. EntryInv'
  BY <1>1, <1>4 DEF BInv, EntryInv
<1>6. \A r \in closed' : r.kind \in Loops => r \in closed
  BY DEF Quiet
<1>7. EndedInv'
  <2> SUFFICES ASSUME NEW r \in closed', r.kind \in Loops
               PROVE  /\ r.id \in Nat \X Nat /\ r.id[2] = r.from /\ r.from < r.to
                      /\ r.kind # "do" => r.cond = r.from
                      /\ \A d \in DOMAIN open' : r.id[1] <= d => r.to <= open'[d].from
    BY DEF EndedInv
  <2>1. r \in closed
    BY <1>6
  <2>2. ASSUME NEW d \in DOMAIN open', r.id[1] <= d
        PROVE  r.to <= open'[d].from
    <3>1. CASE d \in DOMAIN open /\ open'[d].from = open[d].from
      BY <2>1, <2>2, <3>1 DEF BInv, EndedInv
    <3>2. CASE open'[d].from >= Size(out)
      <4>1. r.to \in Nat /\ r.to <= Size(out)
        BY <1>0, <2>1 DEF ClosedInv
      <4> QED BY <1>2, <1>3, <3>2, <4>1
    <3> QED BY <3>1, <3>2 DEF Quiet
  <2> QED BY <2>1, <2>2 DEF BInv, EndedInv
<1>8. WaitInv'
  <2>1. ASSUME OneEach' PROVE OneEach
    <3>1. \A r \in closed : r \in closed'
      BY DEF Quiet
    <3> QED BY <1>1, <2>1, <3>1 DEF OneEach, Breaks
  <2>2. ASSUME Waiting PROVE Waiting'
    <3>0. \A d \in OpenLoops : d \in OpenLoops' /\ <<d, open'[d].from>> = Id(d)
      BY DEF Quiet, Id
    <3>1. \A k \in DOMAIN bs : \E x \in flow, d \in OpenLoops' :
            x.at = bs[k] /\ x.kind = "break" /\ x.loop = <<d, open'[d].from>>
      BY <2>2, <3>0 DEF Waiting
    <3>2. ASSUME NEW x \in flow, NEW d \in OpenLoops', x.kind = "break", x.loop = <<d, open'[d].from>>
          PROVE  \E k \in DOMAIN bs : bs[k] = x.at
      <4>1. CASE d \in OpenLoops
        BY <2>2, <3>0, <3>2, <4>1 DEF Waiting
      <4>2. CASE open'[d].from >= Size(out)
        <5>1. x.loop[2] = open'[d].from
          BY <3>2
        <5>2. x.loop[2] \in Nat /\ x.loop[2] <= x.at /\ x.at \in 0 .. Size(out) - 1
          BY DEF BInv, EntryInv
        <5> QED BY <1>2, <4>2, <5>1, <5>2
      <4> QED BY <4>1, <4>2 DEF Quiet
    <3>3. \A j, k \in DOMAIN bs, x, y \in flow :
            j < k /\ x.at = bs[j] /\ y.at = bs[k] => x.loop[1] <= y.loop[1]
      BY <2>2 DEF Waiting
    <3>4. \A x \in flow, r \in closed' :
            x.kind = "break" /\ r.id = x.loop /\ r.kind \in Loops => Tgt(out', x.at) = r.to
      BY <2>2, <1>4, <1>6 DEF Waiting
    <3> QED BY SMTT(30), <1>1, <3>1, <3>2, <3>3, <3>4 DEF Waiting, Id
  <2> QED BY <1>1, <2>1, <2>2 DEF BInv, WaitInv
<1> QED BY <1>5, <1>7, <1>8 DEF BInv

(* Finished loops are none of the open ones. *)
LEMMA ClosedApart ==
  ASSUME Core, BInv, NEW r \in closed, r.kind \in Loops, NEW d \in OpenLoops
  PROVE  r.id # Id(d)
<1>0. FrameInv /\ ClosedInv /\ EndedInv
  BY DEF Core, BInv
<1>1. d \in DOMAIN open /\ d \in Nat /\ open[d].from \in Nat
  BY <1>0, LoopTyped
<1>2. r.id[2] = r.from /\ r.from < r.to /\ (r.id[1] <= d => r.to <= open[d].from)
  BY <1>0, <1>1 DEF EndedInv
<1>3. r.from \in Nat /\ r.to \in Nat
  BY <1>0 DEF ClosedInv
<1>4. ASSUME r.id = Id(d) PROVE FALSE
  <2>1. r.id[1] = d /\ r.id[2] = open[d].from
    BY <1>4 DEF Id
  <2>2. d <= d
    BY <1>1
  <2> QED BY <1>1, <1>2, <1>3, <2>1, <2>2
<1> QED BY <1>4

(* break and continue. *)
LEMMA FlowBreaks ==
  ASSUME Core, BInv, visit_break \/ visit_continue
  PROVE  BInv'
<1>0. FrameInv /\ ClosedInv /\ BreakInv /\ EndedInv /\ EntryInv /\ WaitInv /\ OutOK(out)
  BY DEF Core, BInv
<1>1. PICK d \in OpenLoops : \E x :
              /\ \A e \in OpenLoops : e <= d
              /\ flow' = flow \union {x} /\ x.loop = <<d, open[d].from>>
              /\ x.at = Size(out) /\ Size(out') = Size(out) + 1
              /\ Tgt(out', x.at) = IF x.kind = "continue" THEN open[d].from ELSE 0
              /\ \/ x.kind = "break" /\ ir_break_stack' = Append(ir_break_stack, Size(out))
                 \/ x.kind = "continue" /\ ir_break_stack' = ir_break_stack
  BY FlowInv
<1>2. PICK x :
              /\ \A e \in OpenLoops : e <= d
              /\ flow' = flow \union {x} /\ x.loop = <<d, open[d].from>>
              /\ x.at = Size(out) /\ Size(out') = Size(out) + 1
              /\ Tgt(out', x.at) = IF x.kind = "continue" THEN open[d].from ELSE 0
              /\ \/ x.kind = "break" /\ ir_break_stack' = Append(ir_break_stack, Size(out))
                 \/ x.kind = "continue" /\ ir_break_stack' = ir_break_stack
  BY <1>1
<1>3. UNCHANGED <<open, closed>> /\ OpenLoops' = OpenLoops
  BY DEF visit_break, visit_continue, OpenLoops
<1>4. /\ Size(out) \in Nat /\ Size(out') = Size(out) + 1
      /\ \A n \in 0 .. Size(out) - 1 : n \in 0 .. Size(out') - 1 /\ n # Size(out)
      /\ Size(out) \in 0 .. Size(out') - 1
      /\ \A n \in 0 .. Size(out) - 1 : Tgt(out, n) # None => Tgt(out', n) = Tgt(out, n)
  <2>1. Kept
    BY FlowInv
  <2>2. Size(out) \in Nat /\ Size(out') = Size(out) + 1
    BY <1>2, <2>1 DEF Kept
  <2> QED BY <2>1, <2>2 DEF Kept
<1>5. d \in Nat /\ open[d].from \in Nat /\ open[d].from <= Size(out)
  <2>1. d \in DOMAIN open /\ d \in 1 .. Len(open) /\ Len(open) \in Nat
    BY <1>0, LoopTyped
  <2>2. open[d].from \in Nat /\ open[d].body \in Nat /\ open[d].from <= open[d].body /\ open[d].body <= Size(out)
    BY <1>0, <2>1, FrameFacts
  <2> QED BY <1>4, <2>1, <2>2
<1>6. \A y \in flow : Tgt(out', y.at) = Tgt(out, y.at) /\ y.at \in 0 .. Size(out') - 1 /\ y.at # x.at
  BY <1>0, <1>2, <1>4 DEF EntryInv
<1>7. x.loop[1] = d /\ x.loop[2] = open[d].from /\ x.at = Size(out) /\ x.loop = Id(d)
  BY <1>2 DEF Id
<1>8. EntryInv'
  <2>1. IsFiniteSet(flow \union {x})
    BY <1>0, FS_AddElement DEF EntryInv
  <2>2. ASSUME NEW y \in flow \union {x}
        PROVE  /\ y.at \in 0 .. Size(out') - 1 /\ Tgt(out', y.at) # None
               /\ y.loop[1] \in Nat /\ y.loop[2] \in Nat /\ y.loop[2] <= y.at
               /\ y.kind = "continue" => Tgt(out', y.at) = y.loop[2]
    <3>1. CASE y \in flow
      BY <1>0, <1>6, <3>1 DEF EntryInv
    <3>2. CASE y = x
      <4>1. open[d].from # None /\ 0 # None
        BY <1>5 DEF None
      <4> QED BY <1>2, <1>4, <1>5, <1>7, <3>2, <4>1
    <3> QED BY <3>1, <3>2
  <2>3. \A y, z \in flow \union {x} : y.at = z.at => y = z
    BY <1>0, <1>6 DEF EntryInv
  <2> QED BY <1>2, <2>1, <2>2, <2>3 DEF EntryInv
<1>9. EndedInv'
  BY <1>0, <1>3 DEF EndedInv
<1>10. \A r \in closed : r.kind \in Loops => r.id # Id(d)
  BY ClosedApart
<1>11. ASSUME OneEach' PROVE OneEach
  <2> SUFFICES ASSUME NEW r \in closed, r.kind \in Loops PROVE Cardinality(Breaks(r.id)) = 1
    BY DEF OneEach
  <2>1. {y \in flow \union {x} : y.kind = "break" /\ y.loop = r.id} = Breaks(r.id)
    BY <1>7, <1>10 DEF Breaks
  <2>2. Cardinality({y \in flow' : y.kind = "break" /\ y.loop = r.id}) = 1
    BY <1>3, <1>11 DEF OneEach, Breaks
  <2> QED BY <1>2, <2>1, <2>2
<1>12. bs \in Seq(Nat)
  BY <1>0 DEF BreakInv, bs
<1>13. /\ \A k \in DOMAIN bs : bs[k] \in 0 .. Size(out) - 1 /\ bs[k] < Size(out)
  <2>1. \A k \in DOMAIN bs : bs[k] \in Nat /\ bs[k] < Size(out)
    BY <1>0, <1>12 DEF BreakInv, bs
  <2> QED BY <1>4, <2>1
<1>14. CASE x.kind = "continue" /\ bs' = bs
  <2>1. ASSUME Waiting PROVE Waiting'
    <3>1. \A k \in DOMAIN bs : \E y \in flow', e \in OpenLoops :
            y.at = bs[k] /\ y.kind = "break" /\ y.loop = Id(e)
      BY <1>2, <2>1 DEF Waiting
    <3>2. \A y \in flow', e \in OpenLoops :
            y.kind = "break" /\ y.loop = Id(e) => \E k \in DOMAIN bs : bs[k] = y.at
      BY <1>2, <1>14, <2>1 DEF Waiting
    <3>3. \A k \in DOMAIN bs : bs[k] # x.at
      BY <1>4, <1>7, <1>13
    <3>4. \A j, k \in DOMAIN bs, y, z \in flow' :
            j < k /\ y.at = bs[j] /\ z.at = bs[k] => y.loop[1] <= z.loop[1]
      BY <1>2, <2>1, <3>3 DEF Waiting
    <3>5. \A y \in flow', r \in closed :
            y.kind = "break" /\ r.id = y.loop /\ r.kind \in Loops => Tgt(out', y.at) = r.to
      BY <1>2, <1>6, <1>14, <2>1 DEF Waiting
    <3> QED BY <1>3, <1>14, <3>1, <3>2, <3>4, <3>5 DEF Waiting, Id
  <2>2. WaitInv'
    BY <1>0, <1>11, <1>14, <2>1 DEF WaitInv
  <2> QED BY <1>8, <1>9, <2>2 DEF BInv
<1>15. CASE x.kind = "break" /\ bs' = Append(bs, Size(out))
  <2> DEFINE K == Len(bs)
             S == Size(out)
  <2>1. /\ K \in Nat /\ DOMAIN bs = 1 .. K /\ DOMAIN bs' = 1 .. K + 1
        /\ bs'[K + 1] = S /\ \A k \in 1 .. K : bs'[k] = bs[k]
    BY <1>4, <1>12, <1>15
  <2> HIDE DEF K, S
  <2>c. \A k \in 1 .. K + 1 : k = K + 1 \/ k \in 1 .. K
    BY <2>1
  <2>2. \A j, k \in DOMAIN bs' : j < k => bs'[j] < bs'[k]
    <3> SUFFICES ASSUME NEW j \in 1 .. K + 1, NEW k \in 1 .. K + 1, j < k PROVE bs'[j] < bs'[k]
      BY <2>1
    <3>1. j \in 1 .. K
      BY <2>1
    <3>2. CASE k = K + 1
      BY <1>13, <2>1, <3>1, <3>2 DEF S
    <3>3. CASE k \in 1 .. K
      BY <1>0, <2>1, <3>1, <3>3 DEF WaitInv
    <3> QED BY <3>2, <3>3, <2>c
  <2>3. ASSUME Waiting PROVE Waiting'
    <3>1. ASSUME NEW k \in 1 .. K + 1
          PROVE  \E y \in flow', e \in OpenLoops : y.at = bs'[k] /\ y.kind = "break" /\ y.loop = Id(e)
      <4>1. CASE k = K + 1
        <5>1. x \in flow' /\ x.at = bs'[k] /\ x.kind = "break" /\ x.loop = Id(d)
          BY <1>2, <1>7, <1>15, <2>1, <4>1 DEF S
        <5> QED BY <5>1
      <4>2. CASE k \in 1 .. K
        BY <1>2, <2>1, <2>3, <4>2 DEF Waiting
      <4> QED BY <4>1, <4>2, <2>c
    <3>2. ASSUME NEW y \in flow', NEW e \in OpenLoops, y.kind = "break", y.loop = Id(e)
          PROVE  \E k \in 1 .. K + 1 : bs'[k] = y.at
      <4>1. CASE y = x
        <5>1. K + 1 \in 1 .. K + 1
          BY <2>1
        <5> QED BY <1>7, <2>1, <4>1, <5>1 DEF S
      <4>2. CASE y \in flow
        <5>1. PICK k \in 1 .. K : bs[k] = y.at
          BY <2>1, <2>3, <3>2, <4>2 DEF Waiting
        <5>2. k \in 1 .. K + 1
          BY <2>1
        <5> QED BY <2>1, <5>1, <5>2
      <4> QED BY <1>2, <4>1, <4>2
    <3>3. ASSUME NEW j \in 1 .. K + 1, NEW k \in 1 .. K + 1, NEW y \in flow', NEW z \in flow',
                 j < k, y.at = bs'[j], z.at = bs'[k]
          PROVE  y.loop[1] <= z.loop[1]
      <4>1. j \in 1 .. K /\ bs'[j] = bs[j]
        BY <2>1, <3>3
      <4>2. y \in flow
        <5>1. bs[j] # x.at
          BY <1>4, <1>7, <1>13, <2>1, <4>1
        <5> QED BY <1>2, <3>3, <4>1, <5>1
      <4>3. CASE k = K + 1
        <5>1. z = x
          <6>1. z.at = x.at
            BY <1>7, <2>1, <3>3, <4>3 DEF S
          <6> QED BY <1>2, <1>6, <6>1
        <5>2. PICK w \in flow, e \in OpenLoops : w.at = bs[j] /\ w.loop = Id(e)
          BY <2>1, <2>3, <4>1 DEF Waiting
        <5>3. w = y
          BY <1>0, <3>3, <4>1, <4>2, <5>2 DEF EntryInv
        <5>4. y.loop[1] = e
          BY <5>2, <5>3 DEF Id
        <5>5. e <= d
          BY <1>2
        <5> QED BY <1>7, <5>1, <5>4, <5>5
      <4>4. CASE k \in 1 .. K
        <5>1. bs'[k] = bs[k]
          BY <2>1, <4>4
        <5>2. z \in flow
          <6>1. bs[k] # x.at
            BY <1>4, <1>7, <1>13, <2>1, <4>4
          <6> QED BY <1>2, <3>3, <5>1, <6>1
        <5> QED BY <2>1, <2>3, <3>3, <4>1, <4>2, <4>4, <5>1, <5>2 DEF Waiting
      <4> QED BY <4>3, <4>4, <2>c
    <3>4. \A y \in flow', r \in closed :
            y.kind = "break" /\ r.id = y.loop /\ r.kind \in Loops => Tgt(out', y.at) = r.to
      BY <1>2, <1>6, <1>7, <1>10, <2>3 DEF Waiting
    <3>d. DOMAIN bs' = 1 .. K + 1 /\ OpenLoops' = OpenLoops /\ closed' = closed /\ open' = open
      BY <1>3, <2>1
    <3>5. \A k \in DOMAIN bs' : \E y \in flow', e \in OpenLoops' :
            y.at = bs'[k] /\ y.kind = "break" /\ y.loop = <<e, open'[e].from>>
      BY <3>d, <3>1 DEF Id
    <3>6. \A y \in flow', e \in OpenLoops' :
            y.kind = "break" /\ y.loop = <<e, open'[e].from>> => \E k \in DOMAIN bs' : bs'[k] = y.at
      BY <3>d, <3>2 DEF Id
    <3>7. \A j, k \in DOMAIN bs', y, z \in flow' :
            j < k /\ y.at = bs'[j] /\ z.at = bs'[k] => y.loop[1] <= z.loop[1]
      BY <3>d, <3>3
    <3>8. \A y \in flow', r \in closed' :
            y.kind = "break" /\ r.id = y.loop /\ r.kind \in Loops => Tgt(out', y.at) = r.to
      BY <3>d, <3>4
    <3> QED BY <3>5, <3>6, <3>7, <3>8 DEF Waiting, Id
  <2>4. WaitInv'
    BY <1>0, <1>11, <2>2, <2>3 DEF WaitInv
  <2> QED BY <1>8, <1>9, <2>4 DEF BInv
<1> QED BY <1>2, <1>14, <1>15 DEF bs

(* The end of a loop. *)
LEMMA LoopEndBreaks ==
  ASSUME Core, BInv, LoopEnded
  PROVE  BInv'
<1> DEFINE L == Len(open)
           f == open[L]
           S == Size(out)
           T == Size(out')
           K == Len(bs)
<1>0. FrameInv /\ ClosedInv /\ BreakInv /\ EndedInv /\ EntryInv /\ WaitInv /\ OutOK(out)
  BY DEF Core, BInv
<1>1. /\ open # <<>> /\ f.kind \in Loops /\ open' = Front(open) /\ flow' = flow
      /\ S \in Nat /\ T \in Nat /\ S < T
  BY DEF LoopEnded
<1>2. PICK a : \E b :
        /\ closed' = closed \union {a, b} /\ b.kind \notin Loops
        /\ a.id = <<L, f.from>> /\ a.kind = f.kind
        /\ a.from = f.from /\ a.to = T /\ (f.kind # "do" => a.cond = f.from)
  BY DEF LoopEnded
<1>3. /\ \A r \in closed' : r.kind \in Loops => r \in closed \/ r = a
      /\ a \in closed' /\ closed \subseteq closed' /\ a.kind \in Loops
  BY <1>1, <1>2
<1>4. \/ bs = <<>> /\ bs' = <<>> /\ \A n \in 0 .. S - 1 : Tgt(out, n) # None => Tgt(out', n) = Tgt(out, n)
      \/ /\ bs # <<>> /\ bs' = Front(bs)
         /\ \A n \in 0 .. S - 1 : Tgt(out, n) # None =>
              Tgt(out', n) = IF n = Last(bs) THEN T ELSE Tgt(out, n)
  BY DEF LoopEnded, bs
<1>5. /\ L \in Nat /\ L \in 1 .. L /\ DOMAIN open = 1 .. L /\ open \in Seq(Frames)
      /\ DOMAIN open' = 1 .. L - 1 /\ \A d \in 1 .. L - 1 : open'[d] = open[d]
  <2>1. open \in Seq(Frames) /\ L \in Nat /\ DOMAIN open = 1 .. L
    BY <1>0, FrameTyped DEF FrameInv
  <2>2. L # 0
    BY <1>1, <2>1
  <2>3. L \in 1 .. L
    BY <2>1, <2>2
  <2>4. DOMAIN open' = 1 .. L - 1 /\ \A d \in 1 .. L - 1 : open'[d] = open[d]
    BY <1>1, <2>1, FrontFacts
  <2> QED BY <2>1, <2>3, <2>4
<1>6. f.from \in Nat /\ f.from <= S
  <2>1. f.from \in Nat /\ f.body \in Nat /\ f.from <= f.body /\ f.body <= S
    BY <1>0, <1>5, FrameFacts
  <2> QED BY <1>1, <2>1
<1>7. L \in OpenLoops /\ Id(L) = <<L, f.from>>
  BY <1>1, <1>5 DEF OpenLoops, Id
<1>8. bs \in Seq(Nat) /\ K \in Nat /\ DOMAIN bs = 1 .. K
  <2>1. bs \in Seq(Nat)
    BY <1>0 DEF BreakInv, bs
  <2> QED BY <2>1
<1>9. bs # <<>> => /\ K \in 1 .. K /\ Last(bs) = bs[K] /\ DOMAIN bs' = 1 .. K - 1
                   /\ \A k \in 1 .. K - 1 : bs'[k] = bs[k] /\ k \in 1 .. K /\ k < K
  <2> SUFFICES ASSUME bs # <<>>
               PROVE  /\ K \in 1 .. K /\ Last(bs) = bs[K] /\ DOMAIN bs' = 1 .. K - 1
                      /\ \A k \in 1 .. K - 1 : bs'[k] = bs[k] /\ k \in 1 .. K /\ k < K
    OBVIOUS
  <2>1. bs' = Front(bs) /\ Last(bs) = bs[K]
    BY <1>4 DEF Last
  <2>2. K \in Nat \ {0} /\ DOMAIN bs' = 1 .. K - 1 /\ \A k \in 1 .. K - 1 : bs'[k] = bs[k]
    BY <1>8, <2>1, FrontFacts
  <2>3. K \in Nat \ {0}
    BY <2>2
  <2> HIDE DEF K
  <2>4. K \in 1 .. K /\ \A k \in 1 .. K - 1 : k \in 1 .. K /\ k < K
    BY <2>3
  <2> QED BY <2>1, <2>2, <2>4
<1>o. OpenLoops = {d \in 1 .. L : open[d].kind \in Loops} /\ OpenLoops' = {d \in 1 .. L - 1 : open[d].kind \in Loops}
  BY <1>5 DEF OpenLoops
<1> HIDE DEF L, f, S, T, K
<1>10. \A d \in OpenLoops' : d \in OpenLoops /\ d # L /\ d \in 1 .. L - 1 /\ Id(d) = <<d, open'[d].from>>
  <2> SUFFICES ASSUME NEW d \in OpenLoops'
               PROVE  d \in OpenLoops /\ d # L /\ d \in 1 .. L - 1 /\ Id(d) = <<d, open'[d].from>>
    OBVIOUS
  <2>1. d \in 1 .. L - 1 /\ open[d].kind \in Loops
    BY <1>o
  <2>2. d \in 1 .. L /\ d # L
    BY <1>5, <2>1
  <2> QED BY <1>5, <1>o, <2>1, <2>2 DEF Id
<1>11. \A d \in OpenLoops : d \in OpenLoops' \/ d = L
  <2> SUFFICES ASSUME NEW d \in OpenLoops, d # L PROVE d \in OpenLoops'
    OBVIOUS
  <2>1. d \in 1 .. L /\ open[d].kind \in Loops
    BY <1>o
  <2>2. d \in 1 .. L - 1
    BY <1>5, <2>1
  <2> QED BY <1>o, <2>1, <2>2
<1>12. \A d \in OpenLoops : d <= L
  BY <1>5, <1>o
<1>13. EndedInv'
  <2> SUFFICES ASSUME NEW r \in closed', r.kind \in Loops
               PROVE  /\ r.id \in Nat \X Nat /\ r.id[2] = r.from /\ r.from < r.to
                      /\ r.kind # "do" => r.cond = r.from
                      /\ \A d \in 1 .. L - 1 : r.id[1] <= d => r.to <= open'[d].from
    BY <1>5 DEF EndedInv
  <2>1. CASE r \in closed
    <3>1. /\ r.id \in Nat \X Nat /\ r.id[2] = r.from /\ r.from < r.to
          /\ r.kind # "do" => r.cond = r.from
          /\ \A d \in 1 .. L : r.id[1] <= d => r.to <= open[d].from
      BY <1>0, <1>5, <2>1 DEF EndedInv
    <3>2. \A d \in 1 .. L - 1 : d \in 1 .. L
      BY <1>5
    <3> QED BY <1>5, <3>1, <3>2
  <2>2. CASE r = a
    <3>1. r.id = <<L, f.from>> /\ r.from = f.from /\ r.to = T /\ (r.kind # "do" => r.cond = f.from)
      BY <1>2, <2>2
    <3>2. f.from < T
      BY <1>1, <1>6
    <3>3. \A d \in 1 .. L - 1 : ~(L <= d)
      BY <1>5
    <3> QED BY <1>5, <1>6, <3>1, <3>2, <3>3
  <2> QED BY <1>3, <2>1, <2>2
<1>14. \A x \in flow : /\ x.at \in 0 .. S - 1 /\ Tgt(out, x.at) # None
                       /\ bs = <<>> \/ x.at # Last(bs) => Tgt(out', x.at) = Tgt(out, x.at)
                       /\ bs # <<>> /\ x.at = Last(bs) => Tgt(out', x.at) = T
  <2>1. \A x \in flow : x.at \in 0 .. S - 1 /\ Tgt(out, x.at) # None
    BY <1>0 DEF EntryInv, S
  <2> QED BY <1>4, <2>1
<1>15. bs # <<>> => \E x \in flow : x.at = Last(bs) /\ x.kind = "break"
  <2> SUFFICES ASSUME bs # <<>> PROVE \E x \in flow : x.at = Last(bs) /\ x.kind = "break"
    OBVIOUS
  <2>1. K \in DOMAIN bs /\ Last(bs) = bs[K]
    BY <1>8, <1>9
  <2>2. IsBreak(bs[K])
    BY <1>0, <2>1 DEF BreakInv, bs
  <2> QED BY <2>1, <2>2 DEF IsBreak
<1>16. EntryInv'
  <2> SUFFICES ASSUME NEW x \in flow
               PROVE  /\ x.at \in 0 .. T - 1 /\ Tgt(out', x.at) # None
                      /\ x.kind = "continue" => Tgt(out', x.at) = x.loop[2]
    BY <1>0, <1>1 DEF EntryInv, T
  <2>1. x.at \in 0 .. T - 1
    BY <1>1, <1>14
  <2>2. T # None
    BY <1>1 DEF None
  <2>3. Tgt(out', x.at) # None
    BY <1>14, <2>2
  <2>4. ASSUME x.kind = "continue" PROVE Tgt(out', x.at) = x.loop[2]
    <3>1. Tgt(out, x.at) = x.loop[2]
      BY <1>0, <2>4 DEF EntryInv
    <3>2. bs = <<>> \/ x.at # Last(bs)
      <4> SUFFICES ASSUME bs # <<>>, x.at = Last(bs) PROVE FALSE
        OBVIOUS
      <4>1. PICK y \in flow : y.at = Last(bs) /\ y.kind = "break"
        BY <1>15
      <4>2. x = y
        BY <1>0, <4>1 DEF EntryInv
      <4> QED BY <2>4, <4>1, <4>2
    <3> QED BY <1>14, <3>1, <3>2
  <2> QED BY <2>1, <2>3, <2>4
<1>17. \A j, k \in DOMAIN bs' : j < k => bs'[j] < bs'[k]
  <2>1. CASE bs = <<>>
    <3>1. bs' = <<>>
      BY <1>4, <2>1
    <3> QED BY <3>1
  <2>2. CASE bs # <<>>
    BY <1>0, <1>8, <1>9, <2>2 DEF WaitInv
  <2> QED BY <2>1, <2>2
<1>18. ASSUME OneEach' PROVE Waiting'
  <2>1. OneEach
    BY <1>1, <1>3, <1>18 DEF OneEach, Breaks
  <2>2. Waiting
    BY <1>0, <2>1 DEF WaitInv
  <2>3. PICK x : Breaks(Id(L)) = {x}
    <3>1. Cardinality({y \in flow' : y.kind = "break" /\ y.loop = a.id}) = 1
      BY <1>3, <1>18 DEF OneEach, Breaks
    <3>2. Cardinality(Breaks(Id(L))) = 1
      BY <1>1, <1>2, <1>7, <3>1 DEF Breaks
    <3>3. IsFiniteSet(Breaks(Id(L)))
      BY <1>0, FS_Subset DEF EntryInv, Breaks
    <3> QED BY <3>2, <3>3, FS_Singleton
  <2>4. x \in flow /\ x.kind = "break" /\ x.loop = Id(L) /\ x.loop[1] = L
    <3>1. x \in Breaks(Id(L))
      BY <2>3
    <3> QED BY <3>1 DEF Breaks, Id
  <2>5. PICK k \in DOMAIN bs : bs[k] = x.at
    BY <1>7, <2>2, <2>4 DEF Waiting
  <2>6. bs # <<>>
    BY <2>5
  <2>7. K \in 1 .. K /\ Last(bs) = bs[K] /\ k \in 1 .. K /\ (k = K \/ k < K)
    BY <1>8, <1>9, <2>5, <2>6
  <2>8. x.at = Last(bs)
    <3>1. CASE k = K
      BY <2>5, <2>7, <3>1
    <3>2. CASE k < K
      <4>1. PICK y \in flow, e \in OpenLoops : y.at = bs[K] /\ y.kind = "break" /\ y.loop = Id(e)
        BY <1>8, <2>2, <2>7 DEF Waiting
      <4>2. x.loop[1] <= y.loop[1]
        BY <1>8, <2>2, <2>4, <2>5, <2>7, <3>2, <4>1 DEF Waiting
      <4>3. y.loop[1] = e /\ e <= L /\ e \in Int
        <5>1. y.loop[1] = e
          BY <4>1 DEF Id
        <5>2. e \in Int
          BY <1>o
        <5> QED BY <1>12, <5>1, <5>2
      <4>4. e = L
        BY <1>5, <2>4, <4>2, <4>3
      <4>5. y \in Breaks(Id(L))
        BY <4>1, <4>4 DEF Breaks
      <4>6. y = x
        BY <2>3, <4>5
      <4> QED BY <2>7, <4>1, <4>6
    <3> QED BY <2>7, <3>1, <3>2
  <2>9. \A j \in DOMAIN bs' : j \in DOMAIN bs /\ bs'[j] = bs[j] /\ bs[j] # x.at /\ j \in 1 .. K - 1
    <3> SUFFICES ASSUME NEW j \in 1 .. K - 1
                 PROVE  j \in DOMAIN bs /\ bs'[j] = bs[j] /\ bs[j] # x.at
      BY <1>9, <2>6
    <3>1. j \in 1 .. K /\ j < K /\ bs'[j] = bs[j]
      BY <1>9, <2>6
    <3>2. bs[j] < bs[K]
      BY <1>0, <1>8, <2>7, <3>1 DEF WaitInv
    <3>3. bs[j] \in Nat /\ bs[K] \in Nat
      BY <1>8, <2>7, <3>1
    <3> QED BY <1>8, <2>7, <2>8, <3>1, <3>2, <3>3
  <2>10. \A j \in DOMAIN bs' : \E y \in flow', d \in OpenLoops' :
           y.at = bs'[j] /\ y.kind = "break" /\ y.loop = <<d, open'[d].from>>
    <3> SUFFICES ASSUME NEW j \in DOMAIN bs'
                 PROVE  \E y \in flow', d \in OpenLoops' :
                          y.at = bs'[j] /\ y.kind = "break" /\ y.loop = <<d, open'[d].from>>
      OBVIOUS
    <3>1. PICK y \in flow, d \in OpenLoops : y.at = bs[j] /\ y.kind = "break" /\ y.loop = Id(d)
      BY <2>2, <2>9 DEF Waiting
    <3>2. d # L
      <4> SUFFICES ASSUME d = L PROVE FALSE
        OBVIOUS
      <4>1. y = x
        BY <2>3, <3>1 DEF Breaks
      <4> QED BY <2>9, <3>1, <4>1
    <3>3. d \in OpenLoops' /\ y.loop = <<d, open'[d].from>>
      BY <1>10, <1>11, <3>1, <3>2
    <3> QED BY <1>1, <2>9, <3>1, <3>3
  <2>11. \A y \in flow', d \in OpenLoops' :
           y.kind = "break" /\ y.loop = <<d, open'[d].from>> => \E j \in DOMAIN bs' : bs'[j] = y.at
    <3> SUFFICES ASSUME NEW y \in flow, NEW d \in OpenLoops', y.kind = "break", y.loop = Id(d)
                 PROVE  \E j \in DOMAIN bs' : bs'[j] = y.at
      BY <1>1, <1>10
    <3>1. d \in OpenLoops /\ d # L
      BY <1>10
    <3>2. PICK j \in DOMAIN bs : bs[j] = y.at
      BY <2>2, <3>1 DEF Waiting
    <3>3. j # K
      <4> SUFFICES ASSUME j = K PROVE FALSE
        OBVIOUS
      <4>1. y = x
        BY <1>0, <2>4, <2>7, <2>8, <3>2 DEF EntryInv
      <4>2. x.loop[1] = d
        BY <4>1 DEF Id
      <4> QED BY <2>4, <3>1, <4>2
    <3>4. j \in 1 .. K - 1
      BY <1>8, <3>2, <3>3
    <3>5. j \in DOMAIN bs' /\ bs'[j] = bs[j]
      BY <1>9, <2>6, <3>4
    <3> QED BY <3>2, <3>5
  <2>12. \A i, j \in DOMAIN bs', y, z \in flow' :
           i < j /\ y.at = bs'[i] /\ z.at = bs'[j] => y.loop[1] <= z.loop[1]
    BY <1>1, <2>2, <2>9 DEF Waiting
  <2>13. \A y \in flow', r \in closed' :
           y.kind = "break" /\ r.id = y.loop /\ r.kind \in Loops => Tgt(out', y.at) = r.to
    <3> SUFFICES ASSUME NEW y \in flow, NEW r \in closed', y.kind = "break", r.id = y.loop, r.kind \in Loops
                 PROVE  Tgt(out', y.at) = r.to
      BY <1>1
    <3>1. CASE r = a
      <4>1. y = x
        BY <1>2, <1>7, <2>3, <3>1 DEF Breaks
      <4>2. Tgt(out', y.at) = T
        BY <1>14, <2>6, <2>8, <4>1
      <4> QED BY <1>2, <3>1, <4>2
    <3>2. CASE r \in closed
      <4>1. r.id # Id(L)
        BY <1>7, <3>2, ClosedApart
      <4>2. y # x
        BY <2>4, <4>1
      <4>3. y.at # Last(bs)
        BY <1>0, <2>4, <2>8, <4>2 DEF EntryInv
      <4>4. Tgt(out', y.at) = Tgt(out, y.at)
        BY <1>14, <4>3
      <4>5. Tgt(out, y.at) = r.to
        BY <2>2, <3>2 DEF Waiting
      <4> QED BY <4>4, <4>5
    <3> QED BY <1>3, <3>1, <3>2
  <2> QED BY <2>10, <2>11, <2>12, <2>13 DEF Waiting, Id
<1> QED BY <1>13, <1>16, <1>17, <1>18 DEF BInv, WaitInv

------------------------------------------------------------------------------
(* The quiet actions. *)

(* Nothing is opened, finished or left. *)
LEMMA SameQuiet ==
  ASSUME Kept, UNCHANGED <<open, closed, ir_break_stack, flow>>
  PROVE  Quiet
BY DEF Quiet, OpenLoops

(* A statement is opened. *)
LEMMA OpenQuiet ==
  ASSUME FrameInv, Opened, UNCHANGED <<closed, ir_break_stack, flow>>
  PROVE  Quiet
<1>1. PICK f \in Frames : f.from >= Size(out) /\ open' = Append(open, f)
  BY DEF Opened
<1>2. open \in Seq(Frames)
  BY DEF FrameInv
<1> DEFINE L == Len(open)
<1>3. /\ L \in Nat /\ DOMAIN open = 1 .. L /\ DOMAIN open' = 1 .. L + 1
      /\ open'[L + 1] = f /\ \A d \in 1 .. L : open'[d] = open[d]
  BY <1>1, <1>2
<1> HIDE DEF L
<1>c. /\ \A d \in 1 .. L + 1 : d = L + 1 \/ d \in 1 .. L
      /\ \A d \in 1 .. L : d \in 1 .. L + 1
  BY <1>3
<1>4. \A d \in OpenLoops : d \in OpenLoops' /\ open'[d].from = open[d].from
  BY <1>3, <1>c DEF OpenLoops
<1>5. \A d \in DOMAIN open' :
        (d \in DOMAIN open /\ open'[d] = open[d]) \/ open'[d].from >= Size(out)
  BY <1>1, <1>3, <1>c
<1>6. \A d \in OpenLoops' : d \in OpenLoops \/ open'[d].from >= Size(out)
  BY <1>5 DEF OpenLoops
<1> QED BY <1>4, <1>5, <1>6 DEF Quiet, Opened

(* An if ends, or its then part does. *)
LEMMA IfQuiet ==
  ASSUME FrameInv, Kept, IfEnd \/ ElseEnd \/ ElseStart
  PROVE  Quiet
<1> DEFINE L == Len(open)
<1>1. /\ open # <<>> /\ open[L].kind \notin Loops /\ UNCHANGED <<ir_break_stack, flow>>
      /\ closed \subseteq closed' /\ \A r \in closed' \ closed : r.kind \notin Loops
  BY DEF IfEnd, ElseEnd, ElseStart, Extent, Loops, Last
<1>2. open \in Seq(Frames)
  BY DEF FrameInv
<1>3. /\ L \in Nat \ {0} /\ DOMAIN open = 1 .. L
      /\ Front(open) \in Seq(Frames) /\ Len(Front(open)) = L - 1
      /\ \A d \in 1 .. L - 1 : Front(open)[d] = open[d]
  BY <1>1, <1>2, FrontFacts
<1>c. \A d \in 1 .. L : d = L \/ d \in 1 .. L - 1
  <2> HIDE DEF L
  <2> QED BY <1>3
<1>4. CASE IfEnd \/ ElseEnd
  <2>1. open' = Front(open)
    BY <1>4 DEF IfEnd, ElseEnd
  <2>2. DOMAIN open' = 1 .. L - 1
    BY <1>3, <2>1
  <2> HIDE DEF L
  <2>3. \A d \in 1 .. L - 1 : d \in 1 .. L
    BY <1>3
  <2>4. \A d \in DOMAIN open' : d \in DOMAIN open /\ open'[d] = open[d]
    BY <1>3, <2>1, <2>2, <2>3
  <2>5. \A d \in OpenLoops : d \in OpenLoops' /\ open'[d].from = open[d].from
    BY <1>1, <1>3, <1>c, <2>1, <2>2 DEF OpenLoops, L
  <2> QED BY <1>1, <2>4, <2>5 DEF Quiet, OpenLoops
<1>5. CASE ElseStart
  <2>1. PICK g : /\ open' = Append(Front(open), g) /\ g.kind = "else" /\ g.from = open[L].from
    <3> DEFINE j == insert(out, "jump", None)
               g == [open[L] EXCEPT !.kind = "else", !.exit = j.ctr, !.body = j.ctr + 1]
    <3>1. open' = Append(Front(open), g)
      BY <1>5 DEF ElseStart, Last
    <3>2. open[L] \in Frames
      BY <1>2, <1>3
    <3>3. g.kind = "else" /\ g.from = open[L].from
      BY <3>2 DEF Frames
    <3> QED BY <3>1, <3>3
  <2>2. /\ Len(open') = L /\ DOMAIN open' = 1 .. L /\ open'[L] = g
        /\ \A d \in 1 .. L - 1 : open'[d] = open[d]
    <3> DEFINE F == Front(open)
    <3>1. Len(F) = L - 1 /\ F \in Seq(Frames) /\ L - 1 \in Nat /\ (L - 1) + 1 = L
      BY <1>3
    <3> HIDE DEF F, L
    <3>2. /\ Len(Append(F, g)) = L /\ DOMAIN Append(F, g) = 1 .. L /\ Append(F, g)[L] = g
          /\ \A d \in 1 .. L - 1 : Append(F, g)[d] = F[d]
      BY <3>1
    <3> QED BY <1>3, <2>1, <3>2 DEF F
  <2> HIDE DEF L
  <2>3. \A d \in DOMAIN open' : d \in DOMAIN open /\ open'[d].from = open[d].from
    BY <1>3, <1>c, <2>1, <2>2
  <2>4. "else" \notin Loops
    BY DEF Loops
  <2>5. \A d \in OpenLoops : d \in OpenLoops'
    BY <1>1, <1>3, <1>c, <2>2 DEF OpenLoops, L
  <2>6. \A d \in OpenLoops' : d \in OpenLoops
    BY <1>3, <1>c, <2>1, <2>2, <2>4 DEF OpenLoops
  <2>7. OpenLoops \subseteq DOMAIN open'
    BY <1>3, <2>2 DEF OpenLoops
  <2> QED BY <1>1, <2>3, <2>5, <2>6, <2>7 DEF Quiet
<1> QED BY <1>4, <1>5

(* The initial state. *)
LEMMA InitBreaks ==
  ASSUME Init
  PROVE  BInv
<1>1. flow = {} /\ closed = {} /\ bs = <<>>
  BY DEF Init, Fresh, bs
<1>2. IsFiniteSet({}) /\ DOMAIN bs = {}
  BY <1>1, FS_EmptySet
<1>3. EntryInv /\ EndedInv
  BY <1>1, <1>2 DEF EntryInv, EndedInv
<1>4. WaitInv
  BY <1>1, <1>2 DEF WaitInv, Waiting
<1> QED BY <1>3, <1>4 DEF BInv

(* Every step. *)
LEMMA NextBreaks ==
  ASSUME IInv, BInv, [Next]_vars
  PROVE  BInv'
<1>0. Core /\ Core' /\ FrameInv /\ OutOK(out)
  BY NextInv DEF IInv, Core
<1>q. ASSUME Quiet PROVE BInv'
  BY <1>0, <1>q, QuietKeeps
<1>1. CASE UNCHANGED vars \/ ForCrash
  <2>1. UNCHANGED <<out, open, closed, ir_break_stack, flow>>
    BY <1>1 DEF vars, ForCrash
  <2>2. Kept
    BY <1>0, <2>1, ListTyped DEF Kept
  <2> QED BY <1>q, <2>1, <2>2, SameQuiet
<1>2. CASE FnEnd
  <2>1. "ret" \in Plain /\ Size(out) \in Nat
    BY <1>0, ListTyped DEF Plain, Opcodes
  <2>2. Longer(out, insert(out, "ret", None)) /\ Longer(out, out)
    BY <1>0, <2>1, RetList DEF Plainly, Longer
  <2>3. Longer(out, out')
    BY <1>2, <2>2 DEF FnEnd
  <2>4. Kept
    BY <2>1, <2>3 DEF Kept, Longer
  <2> QED BY <1>2, <1>q, <2>4, SameQuiet DEF FnEnd
<1>3. CASE \E ops \in Stmts : Stmt(ops)
  <2>1. PICK ops \in Stmts : Stmt(ops)
    BY <1>3
  <2>2. Kept
    BY <1>0, <2>1, SourcePlain, StmtInv
  <2> QED BY <1>q, <2>1, <2>2, SameQuiet DEF Stmt
<1>4. CASE \E ops \in Exprs : visit_ret(ops) \/ IfStart(ops) \/ WhileStart(ops) \/ DoEnd(ops)
  <2>0. PICK ops \in Exprs : visit_ret(ops) \/ IfStart(ops) \/ WhileStart(ops) \/ DoEnd(ops)
    BY <1>4
  <2>s. ops \in Seq(Plain)
    BY SourcePlain
  <2>1. CASE visit_ret(ops)
    <3>1. Kept
      BY <1>0, <2>1, <2>s, StmtInv
    <3> QED BY <1>q, <2>1, <3>1, SameQuiet DEF visit_ret
  <2>2. CASE IfStart(ops)
    <3>1. Opened
      BY <1>0, <2>2, <2>s, IfStartInv
    <3> QED BY <1>0, <1>q, <2>2, <3>1, OpenQuiet DEF IfStart
  <2>3. CASE WhileStart(ops)
    <3>1. Opened
      BY <1>0, <2>3, <2>s, WhileStartInv
    <3> QED BY <1>0, <1>q, <2>3, <3>1, OpenQuiet DEF WhileStart, OpenLoop
  <2>4. CASE DoEnd(ops)
    <3>1. LoopEnded
      BY <1>0, <2>4, <2>s, LoopEndInv
    <3> QED BY <1>0, <3>1, LoopEndBreaks
  <2> QED BY <2>0, <2>1, <2>2, <2>3, <2>4
<1>5. CASE \E init \in ForInits, ops \in Exprs \union {<<"none">>}, incr \in ForIncrs :
             ForStart(init, ops, incr)
  <2>1. PICK init \in ForInits, ops \in Exprs \union {<<"none">>}, incr \in ForIncrs :
               ForStart(init, ops, incr)
    BY <1>5
  <2>2. init \in Seq(Plain) /\ ops \in Seq(Plain) /\ incr \in Seq(Plain)
    BY SourcePlain
  <2>3. Opened
    BY <1>0, <2>1, <2>2, ForStartInv
  <2>4. UNCHANGED <<closed, ir_break_stack, flow>>
    BY <2>1 DEF ForStart, OpenLoop
  <2> QED BY <1>0, <1>q, <2>3, <2>4, OpenQuiet
<1>6. CASE IfEnd \/ ElseEnd \/ ElseStart
  <2>1. Kept
    BY <1>0, <1>6, IfEndInv, ElseStartInv
  <2> QED BY <1>0, <1>6, <1>q, <2>1, IfQuiet
<1>7. CASE DoStart
  <2>1. Opened
    BY <1>0, <1>7, DoStartInv
  <2> QED BY <1>0, <1>7, <1>q, <2>1, OpenQuiet DEF DoStart, OpenLoop
<1>8. CASE WhileEnd \/ ForEnd
  <2>1. LoopEnded
    BY <1>0, <1>8, LoopEndInv
  <2> QED BY <1>0, <2>1, LoopEndBreaks
<1>9. CASE visit_break \/ visit_continue
  BY <1>0, <1>9, FlowBreaks
<1> QED BY <1>1, <1>2, <1>3, <1>4, <1>5, <1>6, <1>7, <1>8, <1>9 DEF Next

------------------------------------------------------------------------------

(* ir_break_stack while a function is lowered: when every finished loop    *)
(* has one break, it holds the breaks of the loops that are still open.    *)
THEOREM BreakInvariance == Spec => [](IInv /\ BInv)
<1>1. Init => IInv /\ BInv
  BY InitInv, InitBreaks
<1>2. IInv /\ BInv /\ [Next]_vars => (IInv /\ BInv)'
  BY NextInv, NextBreaks
<1> QED BY <1>1, <1>2, PTL DEF Spec

(* gen.c:54 and 55, for functions of any length and nesting: if every loop *)
(* has one break, emit_loop_flow_instrs sends it to the first instruction  *)
(* after its loop; a continue goes to the condition of its loop.           *)
THEOREM FlowTargets == Spec => []FlowLeavesLoop
<1>1. BInv => FlowLeavesLoop
  <2> SUFFICES ASSUME BInv PROVE FlowLeavesLoop
    OBVIOUS
  <2>1. \A n : At(n).tgt = Tgt(out, n)
    BY DEF At, code, Tgt
  <2>2. ASSUME OneEach PROVE BreakLeavesLoop
    BY <2>1, <2>2 DEF BInv, WaitInv, Waiting, BreakLeavesLoop
  <2>3. ASSUME NEW x \in flow, NEW r \in closed,
               x.kind = "continue", r.id = x.loop, r.kind \in {"while", "for"}
        PROVE  At(x.at).tgt = r.cond
    <3>1. r.kind \in Loops /\ r.kind # "do"
      BY <2>3 DEF Loops
    <3>2. r.cond = x.loop[2]
      BY <2>3, <3>1 DEF BInv, EndedInv
    <3> QED BY <2>1, <2>3, <3>2 DEF BInv, EntryInv
  <2>4. (\A r \in closed : r.kind \in Loops =>
           Cardinality({f \in flow : f.kind = "break" /\ f.loop = r.id}) = 1) => OneEach
    BY DEF OneEach, Breaks
  <2> QED BY <2>2, <2>3, <2>4 DEF FlowLeavesLoop
<1> QED BY <1>1, BreakInvariance, PTL

------------------------------------------------------------------------------
(* Reordering.  The list reorder.c makes of any function: where its        *)
(* allocas are, that what else it holds keeps its order, and when the pass *)
(* fails.  The pointers are described by the order ord of the instructions *)
(* they give.  The first m places after the first instruction hold allocas *)
(* that were moved there, whose prev is NULL; every other prev is right.   *)

Idx(N)   == 0 .. N - 1
Links(N) == [nxt : [Idx(N) -> Idx(N) \union {NULL}], prv : [Idx(N) -> Idx(N) \union {NULL}]]

(* An order of N instructions that leaves the first and the last alone. *)
Order(ord, N) ==
  /\ ord \in [Idx(N) -> Idx(N)]
  /\ \A j, k \in Idx(N) : ord[j] = ord[k] => j = k
  /\ \A n \in Idx(N) : \E k \in Idx(N) : ord[k] = n
  /\ ord[0] = 0 /\ ord[N - 1] = N - 1

Chain(l, N, ord, m) ==
  /\ l \in Links(N) /\ m \in Idx(N)
  /\ \A k \in Idx(N) : l.nxt[ord[k]] = IF k + 1 < N THEN ord[k + 1] ELSE NULL
  /\ \A k \in Idx(N) : l.prv[ord[k]] = IF k <= m THEN NULL ELSE ord[k - 1]

(* Instructions besides the allocas A keep their order. *)
InTurn(ord, N, A) ==
  \A j, k \in Idx(N) : j < k /\ ord[j] \notin A /\ ord[k] \notin A => ord[j] < ord[k]

Arranged(l, N, A, ord, m) ==
  /\ Order(ord, N) /\ Chain(l, N, ord, m) /\ InTurn(ord, N, A)
  /\ \A k \in 1 .. m : ord[k] \in A

(* The scan is at place j, or N when at the end.  Instruction 2, whence it *)
(* starts anew, is at place f.  Before f only 1 and 2 may be left unmoved, *)
(* and no alloca has been passed.                                          *)
Scan(ord, N, A, m, f, j) ==
  /\ f \in m + 1 .. N - 1 /\ ord[f] = 2
  /\ j \in 1 .. N /\ j # f /\ (j < N /\ ord[j] \notin A => f < j)
  /\ \A k \in m + 1 .. f : k = j \/ ord[k] = 2 \/ (2 \notin A /\ ord[k] = 1)
  /\ \A k \in f + 1 .. j - 1 : ord[k] \notin A

Grouped(ord, N, A) ==
  \A k \in Idx(N) : ord[k] \in A => \A j \in 1 .. k : ord[j] \in A

Exchanged(ord, j) == [ord EXCEPT ![j - 1] = ord[j], ![j] = ord[j - 1]]

------------------------------------------------------------------------------

(* A set of numbers has a least one. *)
LEMMA Least ==
  ASSUME NEW T, T \subseteq Nat, T # {}
  PROVE  \E x \in T : \A y \in T : x <= y
<1>1. IsWellFoundedOn(OpToRel(<, Nat), Nat)
  BY NatLessThanWellFounded
<1>2. PICK x \in T : \A y \in T : ~(<<y, x>> \in OpToRel(<, Nat))
  BY <1>1, WFMin, Zenon
<1>3. \A y \in T : ~(y < x)
  BY <1>2 DEF OpToRel
<1> QED BY <1>3

(* What exchanging the instructions at j - 1 and j does to an order. *)
LEMMA ExchangeOrder ==
  ASSUME NEW N \in Nat, NEW ord, Order(ord, N), NEW j \in 2 .. N - 2
  PROVE  /\ Order(Exchanged(ord, j), N)
         /\ Exchanged(ord, j)[j - 1] = ord[j] /\ Exchanged(ord, j)[j] = ord[j - 1]
         /\ \A k \in Idx(N) : k # j - 1 /\ k # j => Exchanged(ord, j)[k] = ord[k]
         /\ j - 1 \in Idx(N) /\ j \in Idx(N) /\ j + 1 \in Idx(N) /\ j - 2 \in Idx(N) /\ j \in Nat
<1> DEFINE E == Exchanged(ord, j)
<1>1. /\ j - 1 \in Idx(N) /\ j \in Idx(N) /\ j + 1 \in Idx(N) /\ j - 2 \in Idx(N) /\ j \in Nat
      /\ j - 1 # j /\ 0 \in Idx(N) /\ N - 1 \in Idx(N)
      /\ 0 # j /\ 0 # j - 1 /\ N - 1 # j /\ N - 1 # j - 1
  BY DEF Idx
<1>2. ord \in [Idx(N) -> Idx(N)]
  BY DEF Order
<1>3. /\ E \in [Idx(N) -> Idx(N)] /\ E[j - 1] = ord[j] /\ E[j] = ord[j - 1]
      /\ \A k \in Idx(N) : k # j - 1 /\ k # j => E[k] = ord[k]
  BY <1>1, <1>2 DEF Exchanged
<1> HIDE DEF E
<1>4. ASSUME NEW a \in Idx(N), NEW b \in Idx(N), E[a] = E[b] PROVE a = b
  BY <1>1, <1>3, <1>4 DEF Order
<1>5. ASSUME NEW n \in Idx(N) PROVE \E k \in Idx(N) : E[k] = n
  <2>1. PICK k \in Idx(N) : ord[k] = n
    BY DEF Order
  <2> QED BY <1>1, <1>3, <2>1
<1>6. E[0] = 0 /\ E[N - 1] = N - 1
  BY <1>1, <1>3 DEF Order
<1>7. Order(E, N)
  BY <1>3, <1>4, <1>5, <1>6 DEF Order
<1> QED BY <1>1, <1>3, <1>7 DEF E

(* The pointers after swap() has exchanged them. *)
LEMMA ExchangeChain ==
  ASSUME NEW N \in Nat, NEW ord, Order(ord, N), NEW l, NEW m, Chain(l, N, ord, m),
         NEW j \in 2 .. N - 2, m < j - 1
  PROVE  LET n == ord[j]
             p == ord[j - 1]
             r == ord[j - 2]
             q == ord[j + 1]
         IN  Chain([nxt |-> [l.nxt EXCEPT ![r] = n, ![n] = p, ![p] = q],
                    prv |-> [l.prv EXCEPT ![n] = r, ![p] = n, ![q] = p]],
                   N, Exchanged(ord, j), m)
<1> DEFINE n == ord[j]
           p == ord[j - 1]
           r == ord[j - 2]
           q == ord[j + 1]
           E == Exchanged(ord, j)
           nx == [l.nxt EXCEPT ![r] = n, ![n] = p, ![p] = q]
           pv == [l.prv EXCEPT ![n] = r, ![p] = n, ![q] = p]
<1>1. /\ E[j - 1] = n /\ E[j] = p /\ \A k \in Idx(N) : k # j - 1 /\ k # j => E[k] = ord[k]
      /\ j - 1 \in Idx(N) /\ j \in Idx(N) /\ j + 1 \in Idx(N) /\ j - 2 \in Idx(N) /\ j \in Nat
  BY ExchangeOrder
<1>2. ord \in [Idx(N) -> Idx(N)] /\ \A a, b \in Idx(N) : ord[a] = ord[b] => a = b
  BY DEF Order
<1>3. n \in Idx(N) /\ p \in Idx(N) /\ r \in Idx(N) /\ q \in Idx(N)
  BY <1>1, <1>2
<1>4. j - 1 # j /\ j - 2 # j /\ j - 2 # j - 1 /\ j + 1 # j /\ j + 1 # j - 1 /\ j + 1 # j - 2
  OBVIOUS
<1>5. n # p /\ n # r /\ n # q /\ p # r /\ p # q /\ r # q
  BY <1>1, <1>2, <1>4
<1>6. l.nxt \in [Idx(N) -> Idx(N) \union {NULL}] /\ l.prv \in [Idx(N) -> Idx(N) \union {NULL}]
  BY DEF Chain, Links
<1> HIDE DEF n, p, q, r, E
<1>7. /\ nx \in [Idx(N) -> Idx(N) \union {NULL}] /\ nx[r] = n /\ nx[n] = p /\ nx[p] = q
      /\ \A x \in Idx(N) : x # r /\ x # n /\ x # p => nx[x] = l.nxt[x]
  BY <1>3, <1>5, <1>6
<1>8. /\ pv \in [Idx(N) -> Idx(N) \union {NULL}] /\ pv[n] = r /\ pv[p] = n /\ pv[q] = p
      /\ \A x \in Idx(N) : x # n /\ x # p /\ x # q => pv[x] = l.prv[x]
  BY <1>3, <1>5, <1>6
<1> HIDE DEF nx, pv
<1>9. PICK c : c = [nxt |-> nx, prv |-> pv]
  OBVIOUS
<1>10. c \in Links(N) /\ c.nxt = nx /\ c.prv = pv /\ m \in Idx(N)
  BY <1>7, <1>8, <1>9 DEF Links, Chain
<1>11. ASSUME NEW k \in Idx(N)
       PROVE  /\ nx[E[k]] = IF k + 1 < N THEN E[k + 1] ELSE NULL
              /\ pv[E[k]] = IF k <= m THEN NULL ELSE E[k - 1]
  <2>0. k \in Nat /\ m \in Nat /\ k < N
    BY <1>10 DEF Idx
  <2>1. CASE k = j - 2
    <3>1. /\ k + 1 < N /\ k + 1 = j - 1 /\ k # j - 1 /\ k # j /\ (~(k <= m) => k - 1 \in Idx(N))
          /\ k - 1 # j - 1 /\ k - 1 # j
      BY <2>0, <2>1 DEF Idx
    <3>2. E[k] = r /\ E[k + 1] = n
      BY <1>1, <2>1, <3>1 DEF r
    <3>3. pv[r] = l.prv[r] /\ l.prv[r] = IF k <= m THEN NULL ELSE ord[k - 1]
      BY <1>3, <1>5, <1>8, <2>1 DEF Chain, r
    <3> QED BY <1>1, <1>7, <3>1, <3>2, <3>3
  <2>2. CASE k = j - 1
    <3>1. k + 1 < N /\ k + 1 = j /\ ~(k <= m) /\ k - 1 = j - 2
      BY <2>0, <2>2
    <3>2. E[k] = n /\ E[k + 1] = p /\ E[k - 1] = r
      BY <1>1, <1>4, <2>2, <3>1 DEF r
    <3> QED BY <1>7, <1>8, <3>1, <3>2
  <2>3. CASE k = j
    <3>1. k + 1 < N /\ k + 1 = j + 1 /\ ~(k <= m) /\ k - 1 = j - 1
      BY <2>0, <2>3
    <3>2. E[k] = p /\ E[k + 1] = q /\ E[k - 1] = n
      BY <1>1, <1>4, <2>3, <3>1 DEF q
    <3> QED BY <1>7, <1>8, <3>1, <3>2
  <2>4. CASE k = j + 1
    <3>1. /\ ~(k <= m) /\ k - 1 = j /\ k # j - 1 /\ k # j /\ k # j - 2
          /\ k + 1 # j /\ k + 1 # j - 1 /\ (k + 1 < N => k + 1 \in Idx(N))
      BY <2>0, <2>4 DEF Idx
    <3>2. E[k] = q /\ E[k - 1] = p /\ (k + 1 < N => E[k + 1] = ord[k + 1])
      BY <1>1, <2>4, <3>1 DEF q
    <3>3. nx[q] = l.nxt[q] /\ l.nxt[q] = IF k + 1 < N THEN ord[k + 1] ELSE NULL
      BY <1>3, <1>5, <1>7, <2>4 DEF Chain, q
    <3> QED BY <1>8, <3>1, <3>2, <3>3
  <2>5. CASE k \notin {j - 2, j - 1, j, j + 1}
    <3>1. /\ k + 1 # j /\ k + 1 # j - 1 /\ k - 1 # j /\ k - 1 # j - 1
          /\ (k + 1 < N => k + 1 \in Idx(N)) /\ (~(k <= m) => k - 1 \in Idx(N))
      BY <2>0, <2>5 DEF Idx
    <3>2. PICK x \in Idx(N) : x = ord[k]
      BY <1>2
    <3>3. E[k] = x /\ x # n /\ x # p /\ x # q /\ x # r
      BY <1>1, <1>2, <2>5, <3>2 DEF n, p, q, r
    <3>4. nx[x] = l.nxt[x] /\ pv[x] = l.prv[x]
      BY <1>7, <1>8, <3>3
    <3>5. /\ l.nxt[x] = IF k + 1 < N THEN ord[k + 1] ELSE NULL
          /\ l.prv[x] = IF k <= m THEN NULL ELSE ord[k - 1]
      BY <3>2 DEF Chain
    <3>6. /\ k + 1 < N => E[k + 1] = ord[k + 1]
          /\ ~(k <= m) => E[k - 1] = ord[k - 1]
      BY <1>1, <3>1
    <3> QED BY <3>3, <3>4, <3>5, <3>6
  <2> QED BY <2>1, <2>2, <2>3, <2>4, <2>5
<1>12. Chain(c, N, E, m)
  BY <1>10, <1>11 DEF Chain
<1> QED BY <1>9, <1>12 DEF nx, pv, n, p, q, r, E

(* swap() in the middle of the list: an alloca moves one place forward. *)
LEMMA ExchangeArranged ==
  ASSUME NEW N \in Nat, NEW A, NEW ord, NEW l, NEW m, Arranged(l, N, A, ord, m),
         NEW j \in 2 .. N - 2, m < j - 1, ord[j] \in A
  PROVE  LET n == ord[j]
             p == ord[j - 1]
             r == ord[j - 2]
             q == ord[j + 1]
         IN  Arranged([nxt |-> [l.nxt EXCEPT ![r] = n, ![n] = p, ![p] = q],
                       prv |-> [l.prv EXCEPT ![n] = r, ![p] = n, ![q] = p]],
                      N, A, Exchanged(ord, j), m)
<1> DEFINE E == Exchanged(ord, j)
<1>1. Order(ord, N) /\ Chain(l, N, ord, m) /\ InTurn(ord, N, A) /\ \A k \in 1 .. m : ord[k] \in A
  BY DEF Arranged
<1>2. /\ Order(E, N) /\ E[j - 1] = ord[j] /\ E[j] = ord[j - 1]
      /\ \A k \in Idx(N) : k # j - 1 /\ k # j => E[k] = ord[k]
      /\ j - 1 \in Idx(N) /\ j \in Idx(N) /\ m \in Idx(N)
  BY <1>1, ExchangeOrder DEF Chain
<1> HIDE DEF E
<1>3. ASSUME NEW a \in Idx(N), NEW b \in Idx(N), a < b, E[a] \notin A, E[b] \notin A
      PROVE  E[a] < E[b]
  <2>0. a \in Nat /\ b \in Nat /\ a # j - 1 /\ b # j - 1
    BY <1>2, <1>3 DEF Idx
  <2>1. CASE a = j
    <3>1. E[a] = ord[j - 1] /\ E[b] = ord[b] /\ j - 1 < b
      BY <1>2, <1>3, <2>0, <2>1
    <3> QED BY <1>1, <1>2, <1>3, <3>1 DEF InTurn
  <2>2. CASE b = j
    <3>1. E[b] = ord[j - 1] /\ E[a] = ord[a] /\ a < j - 1
      BY <1>2, <1>3, <2>0, <2>2
    <3> QED BY <1>1, <1>2, <1>3, <3>1 DEF InTurn
  <2>3. CASE a # j /\ b # j
    <3>1. E[b] = ord[b] /\ E[a] = ord[a]
      BY <1>2, <2>0, <2>3
    <3> QED BY <1>1, <1>3, <3>1 DEF InTurn
  <2> QED BY <2>1, <2>2, <2>3
<1>4. InTurn(E, N, A)
  BY <1>3 DEF InTurn
<1>5. ASSUME NEW k \in 1 .. m PROVE E[k] \in A
  <2>1. k \in Idx(N) /\ k # j - 1 /\ k # j
    BY <1>2 DEF Idx
  <2> QED BY <1>1, <1>2, <2>1
<1> DEFINE c == [nxt |-> [l.nxt EXCEPT ![ord[j - 2]] = ord[j], ![ord[j]] = ord[j - 1], ![ord[j - 1]] = ord[j + 1]],
                 prv |-> [l.prv EXCEPT ![ord[j]] = ord[j - 2], ![ord[j - 1]] = ord[j], ![ord[j + 1]] = ord[j - 1]]]
<1>6. Chain(c, N, E, m)
  BY <1>1, ExchangeChain DEF E
<1> HIDE DEF c
<1>7. Arranged(c, N, A, E, m)
  BY <1>2, <1>4, <1>5, <1>6 DEF Arranged
<1> QED BY <1>7 DEF c, E

(* The scan follows the alloca, and its start if that was passed. *)
LEMMA ExchangeScan ==
  ASSUME NEW N \in Nat, NEW A, NEW ord, Order(ord, N), NEW m \in Nat,
         NEW f, NEW j \in 2 .. N - 2, m < j - 1, ord[j] \in A, Scan(ord, N, A, m, f, j)
  PROVE  Scan(Exchanged(ord, j), N, A, m, IF f = j - 1 THEN j ELSE f, j - 1)
<1> DEFINE E == Exchanged(ord, j)
           g == IF f = j - 1 THEN j ELSE f
<1>1. /\ E[j - 1] = ord[j] /\ E[j] = ord[j - 1]
      /\ \A k \in Idx(N) : k # j - 1 /\ k # j => E[k] = ord[k]
      /\ j - 1 \in Idx(N) /\ j \in Idx(N)
  BY ExchangeOrder
<1> HIDE DEF E
<1>2. /\ f \in m + 1 .. N - 1 /\ f \in Nat /\ f \in Idx(N) /\ ord[f] = 2 /\ j # f
      /\ \A k \in m + 1 .. f : k = j \/ ord[k] = 2 \/ (2 \notin A /\ ord[k] = 1)
      /\ \A k \in f + 1 .. j - 1 : ord[k] \notin A
  BY DEF Scan, Idx
<1>3. CASE f = j - 1
  <2>1. g = j /\ j \in m + 1 .. N - 1 /\ E[j] = 2 /\ j - 1 \in 1 .. N /\ j - 1 # j /\ E[j - 1] \in A
    BY <1>1, <1>2, <1>3
  <2>2. ASSUME NEW k \in m + 1 .. j PROVE k = j - 1 \/ E[k] = 2 \/ (2 \notin A /\ E[k] = 1)
    <3>1. CASE k < j - 1
      <4>1. k \in Idx(N) /\ k # j /\ k # j - 1 /\ k \in m + 1 .. f
        BY <1>2, <1>3, <3>1 DEF Idx
      <4> QED BY <1>1, <1>2, <4>1
    <3>2. CASE k = j
      BY <2>1, <3>2
    <3>c. k < j - 1 \/ k = j - 1 \/ k = j
      OBVIOUS
    <3> QED BY <3>1, <3>2, <3>c
  <2>3. \A k \in j + 1 .. (j - 1) - 1 : E[k] \notin A
    OBVIOUS
  <2> HIDE DEF g
  <2> QED BY <2>1, <2>2, <2>3 DEF Scan, E, g
<1>4. CASE f # j - 1
  <2>1. /\ g = f /\ f # j /\ E[f] = 2 /\ j - 1 \in 1 .. N /\ E[j - 1] \in A
    BY <1>1, <1>2, <1>4
  <2>2. ASSUME NEW k \in m + 1 .. f PROVE k = j - 1 \/ E[k] = 2 \/ (2 \notin A /\ E[k] = 1)
    <3>1. CASE k = j
      <4>1. j - 1 \in m + 1 .. f /\ j - 1 # j
        BY <1>2, <3>1
      <4> QED BY <1>1, <1>2, <3>1, <4>1
    <3>2. CASE k # j /\ k # j - 1
      <4>1. k \in Idx(N)
        BY <1>2 DEF Idx
      <4> QED BY <1>1, <1>2, <3>2, <4>1
    <3> QED BY <3>1, <3>2
  <2>3. ASSUME NEW k \in f + 1 .. (j - 1) - 1 PROVE E[k] \notin A
    <3>1. k \in f + 1 .. j - 1 /\ k \in Idx(N) /\ k # j /\ k # j - 1
      BY <1>2 DEF Idx
    <3> QED BY <1>1, <1>2, <3>1
  <2> HIDE DEF g
  <2> QED BY <1>2, <1>4, <2>1, <2>2, <2>3 DEF Scan, E, g
<1> QED BY <1>3, <1>4

(* swap() at the front: the alloca is in place. *)
LEMMA PlaceArranged ==
  ASSUME NEW N \in Nat, NEW A, NEW ord, NEW l, NEW m, Arranged(l, N, A, ord, m),
         m + 1 \in Idx(N), ord[m + 1] \in A
  PROVE  Arranged([l EXCEPT !.nxt[ord[m]] = ord[m + 1], !.prv[ord[m + 1]] = NULL], N, A, ord, m + 1)
<1> DEFINE n == ord[m + 1]
           p == ord[m]
           nx == [l.nxt EXCEPT ![p] = n]
           pv == [l.prv EXCEPT ![n] = NULL]
<1>1. /\ Order(ord, N) /\ Chain(l, N, ord, m) /\ InTurn(ord, N, A)
      /\ \A k \in 1 .. m : ord[k] \in A
      /\ m \in Idx(N) /\ m \in Nat /\ m + 1 < N
  BY DEF Arranged, Chain, Idx
<1>2. /\ ord \in [Idx(N) -> Idx(N)] /\ \A a, b \in Idx(N) : ord[a] = ord[b] => a = b
      /\ n \in Idx(N) /\ p \in Idx(N)
  BY <1>1 DEF Order
<1>3. /\ l \in Links(N)
      /\ l.nxt \in [Idx(N) -> Idx(N) \union {NULL}] /\ l.prv \in [Idx(N) -> Idx(N) \union {NULL}]
      /\ l.nxt[p] = n
  BY <1>1 DEF Chain, Links
<1> HIDE DEF n, p
<1>4. nx = l.nxt
  BY <1>2, <1>3
<1>5. /\ pv \in [Idx(N) -> Idx(N) \union {NULL}] /\ pv[n] = NULL
      /\ \A x \in Idx(N) : x # n => pv[x] = l.prv[x]
  BY <1>2, <1>3
<1> DEFINE c == [l EXCEPT !.nxt[p] = n, !.prv[n] = NULL]
<1>6. c = [l EXCEPT !.nxt = nx, !.prv = pv]
  OBVIOUS
<1> HIDE DEF nx, pv, c
<1>7. c \in Links(N) /\ c.nxt = l.nxt /\ c.prv = pv
  BY <1>3, <1>4, <1>5, <1>6 DEF Links
<1>8. ASSUME NEW k \in Idx(N) PROVE pv[ord[k]] = IF k <= m + 1 THEN NULL ELSE ord[k - 1]
  <2>1. CASE k = m + 1
    BY <1>1, <1>5, <2>1 DEF n
  <2>2. CASE k # m + 1
    <3>1. ord[k] # n /\ ord[k] \in Idx(N)
      BY <1>2, <2>2 DEF n
    <3>2. pv[ord[k]] = IF k <= m THEN NULL ELSE ord[k - 1]
      BY <1>1, <1>5, <3>1 DEF Chain
    <3>3. k <= m <=> k <= m + 1
      BY <1>1, <2>2 DEF Idx
    <3> QED BY <3>2, <3>3
  <2> QED BY <2>1, <2>2
<1>9. Chain(c, N, ord, m + 1)
  BY <1>1, <1>7, <1>8 DEF Chain
<1>10. ASSUME NEW k \in 1 .. m + 1 PROVE ord[k] \in A
  <2>1. k \in 1 .. m \/ k = m + 1
    BY <1>1
  <2> QED BY <1>1, <2>1
<1>11. Arranged(c, N, A, ord, m + 1)
  BY <1>1, <1>9, <1>10 DEF Arranged
<1> QED BY <1>11 DEF c, n, p

------------------------------------------------------------------------------
(* The states of the pass. *)

Allocas == {n \in Pos : IsAlloca(n)}

(* Targets after reindex. *)
Reindexed(n) ==
  /\ At(n).tgt \in Nat /\ tgt[n] \in At(n).tgt .. Len(code)
  /\ tgt[n] = Len(code) \/ ~IsAlloca(tgt[n])
  /\ \A v \in At(n).tgt .. tgt[n] - 1 : IsAlloca(v)

ScanInv ==
  from = 2 /\ \E ord, m, f, j : /\ Arranged(links, Len(code), Allocas, ord, m)
                                /\ Scan(ord, Len(code), Allocas, m, f, j)
                                /\ it = IF j < Len(code) THEN ord[j] ELSE NULL

GroupInv ==
  \E ord, m : Arranged(links, Len(code), Allocas, ord, m) /\ Grouped(ord, Len(code), Allocas)

ListInv ==
  stage # "no" =>
    /\ phase = "done" /\ Len(code) \in Nat \ {0}
    /\ \A n \in Pos : IsJump(n) => Reindexed(n)
    /\ stage # "undefined" => \A n \in Pos : IsJump(n) => tgt[n] # Len(code)
    /\ stage = "scan" => ScanInv
    /\ stage = "reordered" => GroupInv
    /\ FailsOnlyAtEnd

(* Places in the order, and what the pointers say of them. *)
LEMMA PlaceFacts ==
  ASSUME NEW N \in Nat, NEW A, NEW ord, NEW l, NEW m, Arranged(l, N, A, ord, m), NEW j \in Idx(N)
  PROVE  /\ m \in Nat /\ m < N /\ ord[j] \in Idx(N) /\ ord[j] # NULL /\ j \in Nat /\ j < N
         /\ l.nxt[ord[j]] = IF j + 1 < N THEN ord[j + 1] ELSE NULL
         /\ l.prv[ord[j]] = IF j <= m THEN NULL ELSE ord[j - 1]
         /\ j + 1 < N => ord[j + 1] # NULL
         /\ j > m => ord[j - 1] # NULL /\ j - 1 \in Idx(N)
         /\ j + 1 = N => ord[j] = N - 1
<1>1. Order(ord, N) /\ Chain(l, N, ord, m) /\ m \in Nat /\ m < N
  BY DEF Arranged, Chain, Idx
<1>2. ord \in [Idx(N) -> Idx(N)] /\ ord[N - 1] = N - 1
  BY <1>1 DEF Order
<1>3. \A n \in Idx(N) : n # NULL
  BY DEF Idx, NULL
<1>4. j \in Nat /\ j < N /\ (j + 1 < N => j + 1 \in Idx(N)) /\ (j > m => j - 1 \in Idx(N)) /\ (j + 1 = N => j = N - 1)
  BY <1>1 DEF Idx
<1> QED BY <1>1, <1>2, <1>3, <1>4 DEF Chain

(* One swap() of the scan. *)
LEMMA SwapScan ==
  ASSUME Len(code) \in Nat, NEW ord, NEW l, NEW m, NEW f, NEW j,
         Arranged(l, Len(code), Allocas, ord, m), Scan(ord, Len(code), Allocas, m, f, j),
         j < Len(code), ord[j] \in Allocas, l.prv[ord[j]] # NULL
  PROVE  /\ SwapCrashes(l, ord[j]) => IsAlloca(Len(code) - 1)
         /\ ~SwapCrashes(l, ord[j]) =>
              \E o, k, g, i : /\ Arranged(swap(l, ord[j]), Len(code), Allocas, o, k)
                              /\ Scan(o, Len(code), Allocas, k, g, i)
                              /\ i < Len(code) /\ o[i] = ord[j]
<1>0. PICK N \in Nat : N = Len(code)
  OBVIOUS
<1>1. PICK A : A = Allocas
  OBVIOUS
<1>2. Arranged(l, N, A, ord, m) /\ Scan(ord, N, A, m, f, j)
  BY <1>0, <1>1
<1>3. j \in Idx(N) /\ f \in m + 1 .. N - 1 /\ j # f
  BY <1>0, <1>2 DEF Scan, Idx
<1> DEFINE n == ord[j]
           p == ord[j - 1]
<1>4. /\ m \in Nat /\ m < N /\ j \in Nat /\ j < N
      /\ l.nxt[n] = IF j + 1 < N THEN ord[j + 1] ELSE NULL
      /\ l.prv[n] = IF j <= m THEN NULL ELSE p
      /\ j > m => p # NULL /\ j - 1 \in Idx(N)
      /\ j + 1 = N => n = N - 1
  BY <1>2, <1>3, PlaceFacts
<1>5. j > m /\ l.prv[n] = p /\ p # NULL /\ j - 1 \in Idx(N)
  BY <1>4
<1>6. l.prv[p] = IF j - 1 <= m THEN NULL ELSE ord[(j - 1) - 1]
  BY <1>2, <1>5, PlaceFacts
<1>7. (j - 1) - 1 = j - 2 /\ IsAlloca(n)
  BY <1>4 DEF Allocas
<1>8. CASE j - 1 <= m
  <2>1. j = m + 1 /\ m = j - 1 /\ m + 1 \in Idx(N)
    BY <1>3, <1>4, <1>5, <1>8
  <2>2. l.prv[p] = NULL
    BY <1>6, <1>8
  <2>3. ~SwapCrashes(l, n)
    BY <1>5, <2>2 DEF SwapCrashes
  <2>4. swap(l, n) = [l EXCEPT !.nxt[ord[m]] = ord[m + 1], !.prv[ord[m + 1]] = NULL]
    BY <1>5, <2>1, <2>2 DEF swap
  <2>5. Arranged(swap(l, n), N, A, ord, m + 1)
    <3>1. ord[m + 1] \in A
      BY <1>1, <2>1
    <3>2. Arranged([l EXCEPT !.nxt[ord[m]] = ord[m + 1], !.prv[ord[m + 1]] = NULL], N, A, ord, m + 1)
      BY <1>2, <2>1, <3>1, PlaceArranged
    <3> QED BY <2>4, <3>2
  <2>6. Scan(ord, N, A, m + 1, f, j)
    <3>1. f \in (m + 1) + 1 .. N - 1 /\ \A k \in (m + 1) + 1 .. f : k \in m + 1 .. f
      BY <1>3, <1>4, <2>1
    <3> QED BY <1>2, <3>1 DEF Scan
  <2> QED BY <1>0, <1>1, <1>4, <2>3, <2>5, <2>6
<1>9. CASE j - 1 > m
  <2>1. l.prv[p] = ord[j - 2] /\ ord[j - 2] # NULL
    <3>1. ~(j - 1 <= m)
      BY <1>4, <1>9
    <3>2. (j - 1) - 1 \in Idx(N)
      BY <1>4, <1>9 DEF Idx
    <3>3. ord[(j - 1) - 1] # NULL
      <4>1. PICK h \in Idx(N) : h = (j - 1) - 1
        BY <3>2
      <4>2. ord[h] # NULL
        BY <1>2, PlaceFacts
      <4> QED BY <4>1, <4>2
    <3> QED BY <1>6, <1>7, <3>1, <3>3
  <2>2. SwapCrashes(l, n) <=> l.nxt[n] = NULL
    BY <1>5, <1>7, <2>1 DEF SwapCrashes
  <2>3. ASSUME SwapCrashes(l, n) PROVE IsAlloca(Len(code) - 1)
    <3>1. ~(j + 1 < N)
      BY <1>2, <1>3, <1>4, <2>2, <2>3, PlaceFacts
    <3>2. j + 1 = N
      BY <1>4, <3>1
    <3> QED BY <1>0, <1>4, <1>7, <3>2
  <2>4. ASSUME ~SwapCrashes(l, n)
        PROVE  \E o, k, g, i : /\ Arranged(swap(l, n), N, A, o, k)
                               /\ Scan(o, N, A, k, g, i) /\ i < N /\ o[i] = n
    <3>1. j + 1 < N /\ l.nxt[n] = ord[j + 1]
      BY <1>4, <2>2, <2>4
    <3>2. j \in 2 .. N - 2 /\ m < j - 1
      BY <1>4, <1>9, <3>1
    <3>3. swap(l, n) = [nxt |-> [l.nxt EXCEPT ![ord[j - 2]] = ord[j], ![ord[j]] = ord[j - 1],
                                              ![ord[j - 1]] = ord[j + 1]],
                        prv |-> [l.prv EXCEPT ![ord[j]] = ord[j - 2], ![ord[j - 1]] = ord[j],
                                              ![ord[j + 1]] = ord[j - 1]]]
      BY <1>5, <1>7, <2>1, <3>1 DEF swap
    <3>4. Arranged(swap(l, n), N, A, Exchanged(ord, j), m)
      BY <1>1, <1>2, <3>2, <3>3, ExchangeArranged
    <3>5. Order(ord, N)
      BY <1>2 DEF Arranged
    <3>6. Scan(Exchanged(ord, j), N, A, m, IF f = j - 1 THEN j ELSE f, j - 1)
      BY <1>1, <1>2, <1>4, <3>2, <3>5, ExchangeScan
    <3>7. j - 1 < N /\ Exchanged(ord, j)[j - 1] = n
      BY <3>2, <3>5, ExchangeOrder
    <3> QED BY <3>4, <3>6, <3>7
  <2> QED BY <1>0, <1>1, <2>3, <2>4
<1>c. j - 1 <= m \/ j - 1 > m
  BY <1>4
<1> QED BY <1>8, <1>9, <1>c

(* When the scan has reached the end, the allocas are together. *)
LEMMA ScanEnd ==
  ASSUME NEW N \in Nat, NEW A, NEW ord, NEW l, NEW m, NEW f,
         Arranged(l, N, A, ord, m), Scan(ord, N, A, m, f, N)
  PROVE  Grouped(ord, N, A)
<1>1. /\ m \in Nat /\ f \in m + 1 .. N - 1 /\ ord[f] = 2 /\ f \in Nat /\ f \in Idx(N)
      /\ \A k \in m + 1 .. f : k = N \/ ord[k] = 2 \/ (2 \notin A /\ ord[k] = 1)
      /\ \A k \in f + 1 .. N - 1 : ord[k] \notin A
      /\ \A k \in 1 .. m : ord[k] \in A
      /\ \A a, b \in Idx(N) : ord[a] = ord[b] => a = b
  BY DEF Scan, Arranged, Chain, Order, Idx
<1> SUFFICES ASSUME NEW k \in Idx(N), ord[k] \in A, NEW j \in 1 .. k PROVE ord[j] \in A
  BY DEF Grouped
<1>2. k \in Nat /\ j \in Nat /\ j \in Idx(N) /\ j <= k /\ k < N
  BY DEF Idx
<1>3. k <= f
  BY <1>1, <1>2
<1>4. CASE j <= m
  BY <1>1, <1>2, <1>4
<1>5. CASE j > m
  <2>1. j \in m + 1 .. f /\ k \in m + 1 .. f /\ j # N /\ k # N
    BY <1>1, <1>2, <1>3, <1>5
  <2>2. ord[k] = 2 \/ (2 \notin A /\ ord[k] = 1)
    BY <1>1, <2>1
  <2>3. ord[j] = 2 \/ (2 \notin A /\ ord[j] = 1)
    BY <1>1, <2>1
  <2>4. CASE ord[k] = 2
    BY <2>3, <2>4
  <2>5. CASE 2 \notin A /\ ord[k] = 1
    <3>1. CASE ord[j] = 1
      BY <2>5, <3>1
    <3>2. CASE ord[j] = 2
      <4>1. j = f
        BY <1>1, <1>2, <3>2
      <4>2. k = f
        BY <1>2, <1>3, <4>1
      <4> QED BY <1>1, <2>5, <4>2
    <3> QED BY <2>3, <3>1, <3>2
  <2> QED BY <2>2, <2>4, <2>5
<1> QED BY <1>1, <1>2, <1>4, <1>5

------------------------------------------------------------------------------
(* The actions. *)

(* reindex goes over a run of allocas. *)
LEMMA ReindexFacts ==
  ASSUME Len(code) \in Nat, NEW t \in 0 .. Len(code)
  PROVE  /\ reindex(t) \in t .. Len(code) /\ (reindex(t) = Len(code) \/ ~IsAlloca(reindex(t)))
         /\ \A v \in t .. reindex(t) - 1 : IsAlloca(v)
<1> DEFINE Good(u) == (u = Len(code) \/ ~IsAlloca(u)) /\ \A v \in t .. u - 1 : IsAlloca(v)
           T == {u \in t .. Len(code) : u = Len(code) \/ ~IsAlloca(u)}
<1>1. T \subseteq Nat /\ Len(code) \in T
  OBVIOUS
<1>2. PICK u \in T : \A y \in T : u <= y
  BY <1>1, Least
<1>3. u \in t .. Len(code) /\ (u = Len(code) \/ ~IsAlloca(u))
  BY <1>2
<1>4. ASSUME NEW v \in t .. u - 1 PROVE IsAlloca(v)
  <2>1. v \in t .. Len(code) /\ ~(u <= v)
    BY <1>3
  <2> QED BY <1>2, <2>1
<1>5. \E w \in t .. Len(code) : Good(w)
  BY <1>3, <1>4
<1>6. reindex(t) = CHOOSE w \in t .. Len(code) : Good(w)
  BY DEF reindex
<1> HIDE DEF Good
<1>7. reindex(t) \in t .. Len(code) /\ Good(reindex(t))
  BY <1>5, <1>6, Zenon
<1> QED BY <1>7 DEF Good

(* While the pass runs the code stays as it is. *)
LEMMA Frozen ==
  ASSUME UNCHANGED vars
  PROVE  /\ code' = code /\ Pos' = Pos /\ phase' = phase /\ Allocas' = Allocas
         /\ \A n : At(n)' = At(n) /\ (IsAlloca(n)' <=> IsAlloca(n)) /\ (IsJump(n)' <=> IsJump(n))
BY DEF vars, code, Pos, Allocas, At, IsAlloca, IsJump

(* The list that gen.c made is in its own order. *)
LEMMA GenArranged ==
  ASSUME Len(code) \in Nat \ {0}
  PROVE  Arranged(GenLinks, Len(code), Allocas, [k \in Idx(Len(code)) |-> k], 0)
<1>0. PICK N \in Nat \ {0} : N = Len(code)
  OBVIOUS
<1> DEFINE ord == [k \in Idx(N) |-> k]
           nx == [n \in Idx(N) |-> IF n + 1 \in Idx(N) THEN n + 1 ELSE NULL]
           pv == [n \in Idx(N) |-> IF n = 0 THEN NULL ELSE n - 1]
<1>1. GenLinks = [nxt |-> nx, prv |-> pv]
  BY <1>0 DEF GenLinks, Pos, Idx
<1>2. 0 \in Idx(N) /\ N - 1 \in Idx(N)
  BY DEF Idx
<1>3. Order(ord, N)
  BY <1>2 DEF Order
<1>4. nx \in [Idx(N) -> Idx(N) \union {NULL}] /\ pv \in [Idx(N) -> Idx(N) \union {NULL}]
  BY DEF Idx
<1>5. ASSUME NEW k \in Idx(N)
      PROVE  /\ nx[ord[k]] = IF k + 1 < N THEN ord[k + 1] ELSE NULL
             /\ pv[ord[k]] = IF k <= 0 THEN NULL ELSE ord[k - 1]
  BY DEF Idx
<1> HIDE DEF ord, nx, pv
<1>6. Chain(GenLinks, N, ord, 0)
  BY <1>1, <1>2, <1>4, <1>5 DEF Chain, Links
<1>7. InTurn(ord, N, Allocas)
  BY DEF InTurn, ord
<1>8. \A k \in 1 .. 0 : ord[k] \in Allocas
  OBVIOUS
<1>9. Arranged(GenLinks, N, Allocas, ord, 0)
  BY <1>3, <1>6, <1>7, <1>8 DEF Arranged
<1> QED BY <1>0, <1>9 DEF ord

(* What initial_move and the first swap leave. *)
LEMMA FirstSwap ==
  ASSUME Len(code) \in Nat, 2 \in Pos
  PROVE  /\ SwapCrashes(GenLinks, 2) => IsAlloca(Len(code) - 1)
         /\ ~SwapCrashes(GenLinks, 2) =>
              \E ord, m, f, j : /\ Arranged(swap(GenLinks, 2), Len(code), Allocas, ord, m)
                                /\ Scan(ord, Len(code), Allocas, m, f, j)
                                /\ swap(GenLinks, 2).nxt[2] = IF j < Len(code) THEN ord[j] ELSE NULL
<1>0. PICK N \in Nat \ {0} : N = Len(code) /\ 2 < N
  BY DEF Pos
<1> DEFINE ord == [k \in Idx(N) |-> k]
           A == Allocas
           l == GenLinks
<1>1. Arranged(l, N, A, ord, 0)
  BY <1>0, GenArranged
<1>2. 0 \in Idx(N) /\ 1 \in Idx(N) /\ 2 \in Idx(N) /\ ord[0] = 0 /\ ord[1] = 1 /\ ord[2] = 2
  BY <1>0 DEF Idx
<1>3. /\ l.prv[2] = 1 /\ l.prv[1] = 0 /\ 0 # NULL /\ 1 # NULL
      /\ l.nxt[2] = IF 3 < N THEN 3 ELSE NULL
  BY <1>0, <1>2 DEF GenLinks, Pos, Idx, NULL
<1>4. (2 \in A <=> IsAlloca(2)) /\ 3 # NULL
  BY DEF Allocas, NULL
<1>5. SwapCrashes(l, 2) <=> IsAlloca(2) /\ ~(3 < N)
  BY <1>3, <1>4 DEF SwapCrashes
<1>6. ASSUME SwapCrashes(l, 2) PROVE IsAlloca(Len(code) - 1)
  <2>1. Len(code) - 1 = 2
    BY <1>0, <1>5, <1>6
  <2> QED BY <1>5, <1>6, <2>1
<1>7. CASE ~IsAlloca(2)
  <2>1. swap(l, 2) = l
    BY <1>3, <1>7 DEF swap
  <2>2. \A k \in 1 .. 2 : ord[k] = 2 \/ ord[k] = 1
    BY <1>2
  <2>3. Scan(ord, N, A, 0, 2, 3)
    BY <1>0, <1>2, <1>4, <1>7, <2>2 DEF Scan
  <2>4. l.nxt[2] = IF 3 < N THEN ord[3] ELSE NULL
    BY <1>3 DEF Idx
  <2> HIDE DEF ord
  <2> QED BY <1>0, <1>1, <1>6, <2>1, <2>3, <2>4
<1>8. CASE IsAlloca(2) /\ 3 < N
  <2> DEFINE E == Exchanged(ord, 2)
  <2>1. 2 \in 2 .. N - 2 /\ 0 < 2 - 1 /\ ord[2] \in A /\ 3 \in Idx(N) /\ ord[3] = 3
    BY <1>2, <1>4, <1>8 DEF Idx
  <2>2. swap(l, 2) = [nxt |-> [l.nxt EXCEPT ![0] = 2, ![2] = 1, ![1] = 3],
                      prv |-> [l.prv EXCEPT ![2] = 0, ![1] = 2, ![3] = 1]]
    BY <1>3, <1>8 DEF swap
  <2>3. ord[2 - 2] = 0 /\ ord[2 - 1] = 1 /\ ord[2 + 1] = 3
    BY <1>2, <2>1
  <2> HIDE DEF ord
  <2>4. Arranged(swap(l, 2), N, A, E, 0)
    <3>1. Arranged([nxt |-> [l.nxt EXCEPT ![ord[2 - 2]] = ord[2], ![ord[2]] = ord[2 - 1],
                                          ![ord[2 - 1]] = ord[2 + 1]],
                    prv |-> [l.prv EXCEPT ![ord[2]] = ord[2 - 2], ![ord[2 - 1]] = ord[2],
                                          ![ord[2 + 1]] = ord[2 - 1]]], N, A, E, 0)
      BY <1>1, <2>1, ExchangeArranged
    <3> QED BY <1>2, <2>2, <2>3, <3>1
  <2>5. E[1] = 2 /\ E[2] = 1
    <3>1. Order(ord, N) /\ 2 - 1 = 1
      BY <1>1 DEF Arranged
    <3> QED BY <1>2, <2>1, <3>1, ExchangeOrder
  <2> HIDE DEF E
  <2>6. \A k \in 0 + 1 .. 1 : E[k] = 2
    BY <2>5
  <2>7. Scan(E, N, A, 0, 1, 2)
    BY <1>0, <2>5, <2>6 DEF Scan
  <2>8. swap(l, 2).nxt[E[1]] = E[2]
    <3>1. PICK c : c = swap(l, 2)
      OBVIOUS
    <3>2. Arranged(c, N, A, E, 0)
      BY <2>4, <3>1
    <3>3. PICK h \in Idx(N) : h = 1
      BY <1>2
    <3>4. PICK a : a = A
      OBVIOUS
    <3>5. Arranged(c, N, a, E, 0)
      BY <3>2, <3>4
    <3>6. c.nxt[E[h]] = IF h + 1 < N THEN E[h + 1] ELSE NULL
      BY <3>5, PlaceFacts
    <3>7. 1 + 1 = 2 /\ 2 < N
      BY <1>0
    <3> QED BY <3>1, <3>3, <3>6, <3>7
  <2> QED BY <1>0, <1>6, <2>4, <2>5, <2>7, <2>8
<1> QED BY <1>5, <1>6, <1>7, <1>8

(* reorder_begin. *)
LEMMA BeginInv ==
  ASSUME IInv, TargetsExist, reorder_begin
  PROVE  ListInv'
<1> DEFINE N == Len(code)
<1>1. /\ phase = "done" /\ Pos # {} /\ UNCHANGED vars
      /\ tgt' = [n \in Pos |-> IF IsJump(n) THEN reindex(At(n).tgt) ELSE None]
  BY DEF reorder_begin
<1>2. N \in Nat \ {0} /\ Pos = 0 .. N - 1
  <2>1. Size(out) \in Nat
    BY ListTyped DEF IInv, Core
  <2> QED BY <1>1, <2>1 DEF Pos, Size, code
<1>3. /\ code' = code /\ Pos' = Pos /\ phase' = phase /\ Allocas' = Allocas
      /\ \A n : At(n)' = At(n) /\ (IsAlloca(n)' <=> IsAlloca(n)) /\ (IsJump(n)' <=> IsJump(n))
  BY <1>1, Frozen
<1>4. ASSUME NEW n \in Pos, IsJump(n)
      PROVE  /\ At(n).tgt \in Nat /\ tgt'[n] \in At(n).tgt .. N
             /\ tgt'[n] = N \/ ~IsAlloca(tgt'[n])
             /\ \A v \in At(n).tgt .. tgt'[n] - 1 : IsAlloca(v)
  <2>1. PICK t \in 0 .. N : t = At(n).tgt
    BY <1>1, <1>2, <1>4 DEF TargetsExist
  <2>2. tgt'[n] = reindex(t)
    BY <1>1, <1>4, <2>1
  <2> QED BY SMTT(30), <1>2, <2>1, <2>2, ReindexFacts
<1>5. \A n \in Pos : IsJump(n) => Reindexed(n)'
  BY <1>3, <1>4 DEF Reindexed
<1>6. CASE \E n \in Pos : tgt'[n] = N
  <2>1. stage' = "undefined"
    BY <1>6 DEF reorder_begin
  <2>2. PICK n \in Pos : tgt'[n] = N
    BY <1>6
  <2>3. IsJump(n)
    BY <1>1, <1>2, <2>2 DEF None
  <2>4. IsAlloca(N - 1) \/ At(n).tgt = N
    <3>1. PICK t : t = At(n).tgt
      OBVIOUS
    <3>2. t \in Nat /\ N \in t .. N /\ \A v \in t .. N - 1 : IsAlloca(v)
      BY <1>4, <2>2, <2>3, <3>1
    <3>3. t = N \/ N - 1 \in t .. N - 1
      BY <1>2, <3>2
    <3> QED BY <3>1, <3>2, <3>3
  <2>5. FailsOnlyAtEnd'
    BY <1>3, <2>1, <2>3, <2>4 DEF FailsOnlyAtEnd
  <2> QED BY <1>1, <1>2, <1>3, <1>5, <2>1, <2>5 DEF ListInv
<1>7. CASE ~\E n \in Pos : tgt'[n] = N
  <2>0. \A n \in Pos : IsJump(n) => tgt'[n] # N
    BY <1>7
  <2>1. CASE 2 \notin Pos
    <3>1. stage' = "reordered" /\ links' = GenLinks
      BY <1>7, <2>1 DEF reorder_begin
    <3> DEFINE ord == [k \in Idx(N) |-> k]
    <3>2. Arranged(GenLinks, N, Allocas, ord, 0)
      BY <1>2, GenArranged
    <3>3. Grouped(ord, N, Allocas)
      BY <1>2, <2>1 DEF Grouped, Idx
    <3> HIDE DEF ord
    <3>4. GroupInv'
      BY <1>3, <3>1, <3>2, <3>3 DEF GroupInv
    <3>5. FailsOnlyAtEnd'
      BY <3>1 DEF FailsOnlyAtEnd
    <3> QED BY <1>1, <1>2, <1>3, <1>5, <2>0, <3>1, <3>4, <3>5 DEF ListInv
  <2>2. CASE 2 \in Pos /\ SwapCrashes(GenLinks, 2)
    <3>1. stage' = "crashed"
      BY <1>7, <2>2 DEF reorder_begin
    <3>2. IsAlloca(N - 1)
      BY <1>2, <2>2, FirstSwap
    <3>3. FailsOnlyAtEnd'
      BY <1>3, <3>1, <3>2 DEF FailsOnlyAtEnd
    <3> QED BY <1>1, <1>2, <1>3, <1>5, <2>0, <3>1, <3>3 DEF ListInv
  <2>3. CASE 2 \in Pos /\ ~SwapCrashes(GenLinks, 2)
    <3>1. stage' = "scan" /\ links' = swap(GenLinks, 2) /\ from' = 2 /\ it' = links'.nxt[2]
      BY <1>7, <2>3 DEF reorder_begin
    <3>2. PICK ord, m, f, j : /\ Arranged(swap(GenLinks, 2), N, Allocas, ord, m)
                              /\ Scan(ord, N, Allocas, m, f, j)
                              /\ swap(GenLinks, 2).nxt[2] = IF j < N THEN ord[j] ELSE NULL
      BY <1>2, <2>3, FirstSwap
    <3>3. ScanInv'
      BY <1>3, <3>1, <3>2 DEF ScanInv
    <3>4. FailsOnlyAtEnd'
      BY <3>1 DEF FailsOnlyAtEnd
    <3> QED BY <1>1, <1>2, <1>3, <1>5, <2>0, <3>1, <3>3, <3>4 DEF ListInv
  <2> QED BY <2>1, <2>2, <2>3
<1> QED BY <1>6, <1>7

(* The loop. *)
LEMMA LoopInv ==
  ASSUME ListInv, reorder_skip \/ reorder_swap \/ reorder_next \/ reorder_end
  PROVE  ListInv'
<1> DEFINE N == Len(code)
           A == Allocas
<1>1. stage = "scan" /\ UNCHANGED vars /\ UNCHANGED <<tgt, from>>
  BY DEF reorder_skip, reorder_swap, reorder_next, reorder_end, Scanning
<1>2. /\ phase = "done" /\ N \in Nat \ {0} /\ ScanInv
      /\ \A n \in Pos : IsJump(n) => Reindexed(n) /\ tgt[n] # N
  BY <1>1 DEF ListInv
<1>3. /\ code' = code /\ Pos' = Pos /\ phase' = phase /\ Allocas' = Allocas
      /\ \A n : At(n)' = At(n) /\ (IsAlloca(n)' <=> IsAlloca(n)) /\ (IsJump(n)' <=> IsJump(n))
  BY <1>1, Frozen
<1>4. \A n \in Pos : IsJump(n) => Reindexed(n)' /\ tgt'[n] # N
  BY <1>1, <1>2, <1>3 DEF Reindexed
<1>5. PICK ord, m, f, j : /\ Arranged(links, N, A, ord, m)
                          /\ Scan(ord, N, A, m, f, j)
                          /\ it = IF j < N THEN ord[j] ELSE NULL
  BY <1>2 DEF ScanInv
<1>6. from = 2 /\ from' = 2
  BY <1>1, <1>2 DEF ScanInv
<1>7. j \in 1 .. N /\ (j < N => j \in Idx(N)) /\ f \in Idx(N) /\ ord[f] = 2 /\ m \in Nat /\ f \in m + 1 .. N - 1
  BY <1>2, <1>5 DEF Scan, Idx, Arranged, Chain
<1>8. \A n \in Idx(N) : n \in Pos /\ (IsAlloca(n) <=> n \in A)
  BY DEF Idx, Pos, Allocas
<1>9. ASSUME stage' = "scan", ScanInv' PROVE ListInv'
  BY <1>2, <1>3, <1>4, <1>9 DEF ListInv, FailsOnlyAtEnd
<1>10. it # NULL => j < N /\ it = ord[j] /\ it \in Idx(N) /\ j \in Idx(N)
  BY <1>2, <1>5, <1>7, PlaceFacts
<1>11. CASE reorder_skip
  <2>1. it # NULL /\ ~IsAlloca(it) /\ it' = links.nxt[it] /\ UNCHANGED <<stage, links>>
    BY <1>11 DEF reorder_skip, Scanning
  <2>2. links.nxt[it] = IF j + 1 < N THEN ord[j + 1] ELSE NULL
    BY <1>2, <1>5, <1>10, <2>1, PlaceFacts
  <2>3. Scan(ord, N, A, m, f, j + 1)
    <3>1. j < N /\ ord[j] \notin A /\ f < j
      BY <1>5, <1>8, <1>10, <2>1 DEF Scan
    <3>2. \A k \in f + 1 .. (j + 1) - 1 : k = j \/ k \in f + 1 .. j - 1
      BY <1>7, <3>1
    <3>3. \A k \in m + 1 .. f : k # j
      BY <1>7, <3>1
    <3>4. j + 1 \in 1 .. N /\ f < j + 1 /\ j + 1 # f
      BY <1>2, <1>7, <3>1
    <3> QED BY <1>5, <1>7, <3>1, <3>2, <3>3, <3>4 DEF Scan
  <2>4. ScanInv'
    BY <1>3, <1>5, <1>6, <2>1, <2>2, <2>3 DEF ScanInv
  <2> QED BY <1>1, <1>9, <2>1, <2>4
<1>12. CASE reorder_swap
  <2>1. it # NULL /\ IsAlloca(it) /\ links.prv[it] # NULL /\ it' = it
    BY <1>12 DEF reorder_swap, Scanning
  <2>2. j < N /\ it = ord[j] /\ ord[j] \in A
    BY <1>8, <1>10, <2>1
  <2>3. /\ SwapCrashes(links, ord[j]) => IsAlloca(N - 1)
        /\ ~SwapCrashes(links, ord[j]) =>
             \E o, k, g, i : /\ Arranged(swap(links, ord[j]), N, A, o, k)
                             /\ Scan(o, N, A, k, g, i) /\ i < N /\ o[i] = ord[j]
    <3>1. PICK l : l = links
      OBVIOUS
    <3>2. /\ Len(code) \in Nat /\ Arranged(l, Len(code), Allocas, ord, m)
          /\ Scan(ord, Len(code), Allocas, m, f, j) /\ j < Len(code)
          /\ ord[j] \in Allocas /\ l.prv[ord[j]] # NULL
      BY <1>2, <1>5, <2>1, <2>2, <3>1
    <3>3. /\ SwapCrashes(l, ord[j]) => IsAlloca(Len(code) - 1)
          /\ ~SwapCrashes(l, ord[j]) =>
               \E o, k, g, i : /\ Arranged(swap(l, ord[j]), Len(code), Allocas, o, k)
                               /\ Scan(o, Len(code), Allocas, k, g, i)
                               /\ i < Len(code) /\ o[i] = ord[j]
      BY ONLY <3>2, SwapScan, SMTT(30)
    <3> QED BY <3>1, <3>3
  <2>4. CASE SwapCrashes(links, it)
    <3>1. stage' = "crashed"
      BY <1>12, <2>4 DEF reorder_swap
    <3>2. FailsOnlyAtEnd'
      BY <1>3, <2>2, <2>3, <2>4, <3>1 DEF FailsOnlyAtEnd
    <3> QED BY <1>2, <1>3, <1>4, <3>1, <3>2 DEF ListInv
  <2>5. CASE ~SwapCrashes(links, it)
    <3>1. links' = swap(links, it) /\ stage' = "scan"
      BY <1>1, <1>12, <2>5 DEF reorder_swap
    <3>2. PICK o, k, g, i : /\ Arranged(swap(links, ord[j]), N, A, o, k)
                            /\ Scan(o, N, A, k, g, i) /\ i < N /\ o[i] = ord[j]
      BY <2>2, <2>3, <2>5
    <3>3. ScanInv'
      BY <1>3, <1>6, <2>1, <2>2, <3>1, <3>2 DEF ScanInv
    <3> QED BY <1>9, <3>1, <3>3
  <2> QED BY <2>4, <2>5
<1>13. CASE reorder_next
  <2>1. it # NULL /\ links.prv[it] = NULL /\ it' = links.nxt[2] /\ UNCHANGED <<stage, links>>
    BY <1>6, <1>13 DEF reorder_next, Scanning
  <2>2. j <= m
    BY <1>2, <1>5, <1>10, <2>1, PlaceFacts
  <2>3. links.nxt[2] = IF f + 1 < N THEN ord[f + 1] ELSE NULL
    BY <1>2, <1>5, <1>7, PlaceFacts
  <2>4. Scan(ord, N, A, m, f, f + 1)
    <3>1. \A k \in m + 1 .. f : k # j
      BY <1>7, <2>2
    <3>2. f + 1 \in 1 .. N /\ f + 1 # f /\ f < f + 1 /\ \A k \in f + 1 .. (f + 1) - 1 : FALSE
      BY <1>2, <1>7
    <3> QED BY <1>5, <1>7, <3>1, <3>2 DEF Scan
  <2>5. ScanInv'
    BY <1>3, <1>5, <1>6, <2>1, <2>3, <2>4 DEF ScanInv
  <2> QED BY <1>1, <1>9, <2>1, <2>5
<1>14. CASE reorder_end
  <2>1. it = NULL /\ stage' = "reordered" /\ links' = links
    BY <1>14 DEF reorder_end
  <2>2. j = N
    <3>1. ~(j < N)
      BY <1>2, <1>5, <1>7, <2>1, PlaceFacts
    <3> QED BY <1>2, <1>7, <3>1
  <2>3. Grouped(ord, N, A)
    BY <1>2, <1>5, <2>2, ScanEnd
  <2>4. GroupInv'
    BY <1>3, <1>5, <2>1, <2>3 DEF GroupInv
  <2> QED BY <1>2, <1>3, <1>4, <2>1, <2>4 DEF ListInv, FailsOnlyAtEnd
<1> QED BY <1>11, <1>12, <1>13, <1>14

(* IrGen's invariant and the list's, at every step of generation, linking  *)
(* and reordering.                                                         *)
LEMMA ReorderKeeps ==
  ASSUME IInv, ListInv, [ReorderNext]_<<vars, cfgVars, reorderVars>>
  PROVE  IInv' /\ ListInv'
<1>1. [Next]_vars
  BY DEF ReorderNext, CfgNext, ir_cfg_build, ReorderStep, reorder_begin, reorder_skip,
         reorder_swap, reorder_next, reorder_end
<1>2. IInv'
  BY <1>1, NextInv
<1>3. CASE CfgNext /\ stage = "no" /\ UNCHANGED reorderVars
  BY <1>2, <1>3 DEF reorderVars, ListInv
<1>4. CASE reorder_begin
  BY <1>2, <1>4, DoneTargets, BeginInv
<1>5. CASE reorder_skip \/ reorder_swap \/ reorder_next \/ reorder_end
  BY <1>2, <1>5, LoopInv
<1>6. CASE UNCHANGED <<vars, cfgVars, reorderVars>>
  <2>1. UNCHANGED vars /\ UNCHANGED <<stage, links, tgt, from, it>>
    BY <1>6 DEF reorderVars
  <2>2. /\ code' = code /\ Pos' = Pos /\ phase' = phase /\ Allocas' = Allocas
        /\ \A n : At(n)' = At(n) /\ (IsAlloca(n)' <=> IsAlloca(n)) /\ (IsJump(n)' <=> IsJump(n))
    BY <2>1, Frozen
  <2>3. \A n : Reindexed(n)' <=> Reindexed(n)
    BY <2>1, <2>2 DEF Reindexed
  <2>4. (ScanInv' <=> ScanInv) /\ (GroupInv' <=> GroupInv)
    BY <2>1, <2>2 DEF ScanInv, GroupInv
  <2>5. FailsOnlyAtEnd' <=> FailsOnlyAtEnd
    BY <2>1, <2>2 DEF FailsOnlyAtEnd
  <2> QED BY <1>2, <2>1, <2>2, <2>3, <2>4, <2>5 DEF ListInv
<1> QED BY <1>3, <1>4, <1>5, <1>6 DEF ReorderNext, ReorderStep

(* Walking the next pointers visits the instructions in the order they are *)
(* arranged in.                                                            *)
LEMMA WalkIs ==
  ASSUME Len(code) \in Nat \ {0}, NEW ord, NEW m,
         Arranged(links, Len(code), Allocas, ord, m), NEW k \in 1 .. Len(code)
  PROVE  Walk[k] = [i \in 1 .. k |-> ord[i - 1]]
<1>0. PICK N \in Nat \ {0} : N = Len(code)
  OBVIOUS
<1> DEFINE g(x) == [i \in 1 .. x |-> ord[i - 1]]
           G == [x \in 1 .. N |-> g(x)]
           S == Idx(N)
<1>1. ord \in [Idx(N) -> Idx(N)] /\ ord[0] = 0
  BY <1>0 DEF Arranged, Order
<1>2. ASSUME NEW x \in 1 .. N
      PROVE  g(x) \in Seq(S) /\ Len(g(x)) = x /\ \A i \in 1 .. x : g(x)[i] = ord[i - 1]
  <2>1. \A i \in 1 .. x : i - 1 \in Idx(N)
    BY DEF Idx
  <2> QED BY <1>1, <2>1
<1>3. g(1) = <<0>>
  BY <1>1, <1>2
<1>4. ASSUME NEW x \in 2 .. N PROVE Extended(g(x - 1), x) = g(x)
  <2>1. PICK y \in 1 .. N : y = x - 1
    OBVIOUS
  <2>2. PICK s \in Seq(S) : s = g(y)
    BY <1>2
  <2>3. Len(s) = y /\ \A i \in 1 .. y : s[i] = ord[i - 1]
    BY <1>2, <2>2
  <2>0. x \in 1 .. N
    OBVIOUS
  <2>4. PICK t \in Seq(S) : t = g(x)
    BY <1>2, <2>0
  <2>5. Len(t) = x /\ \A i \in 1 .. x : t[i] = ord[i - 1]
    BY <1>2, <2>0, <2>4
  <2> HIDE DEF g
  <2>6. Last(s) = ord[y - 1]
    BY <2>3 DEF Last
  <2>7. PICK h \in Idx(N) : h = y - 1
    BY <2>1 DEF Idx
  <2>8. PICK l : l = links
    OBVIOUS
  <2>9. PICK A : A = Allocas
    OBVIOUS
  <2>10. Arranged(l, N, A, ord, m)
    BY <1>0, <2>8, <2>9
  <2>11. /\ l.nxt[ord[h]] = IF h + 1 < N THEN ord[h + 1] ELSE NULL
         /\ h + 1 < N => ord[h + 1] # NULL
    BY <2>10, PlaceFacts
  <2>12. h + 1 < N /\ h + 1 = y /\ y \in Idx(N)
    BY <2>1, <2>7 DEF Idx
  <2>13. links.nxt[Last(s)] = ord[y] /\ ord[y] # NULL /\ ord[y] \in S
    BY <1>1, <2>6, <2>7, <2>8, <2>11, <2>12
  <2>14. Extended(s, x) = Append(s, ord[y])
    BY <2>1, <2>3, <2>13 DEF Extended
  <2>15. PICK u \in Seq(S) : u = Append(s, ord[y])
    BY <2>13, AppendProperties
  <2>16. Len(u) = y + 1 /\ u[y + 1] = ord[y] /\ \A i \in 1 .. y : u[i] = s[i]
    BY <2>3, <2>13, <2>15, AppendProperties
  <2>17. ASSUME NEW i \in 1 .. Len(u) PROVE u[i] = t[i]
    <3>1. CASE i \in 1 .. y
      <4>1. i \in 1 .. x
        BY <2>1, <3>1
      <4>2. u[i] = ord[i - 1]
        BY <2>3, <2>16, <3>1
      <4> QED BY <2>5, <4>1, <4>2
    <3>2. CASE i = y + 1
      BY <2>1, <2>5, <2>16, <3>2
    <3> QED BY <2>16, <3>1, <3>2
  <2>18. u = t
    BY <2>1, <2>5, <2>16, <2>17, SeqEqual
  <2> QED BY <2>1, <2>2, <2>4, <2>14, <2>15, <2>18
<1> DEFINE R(W) == [x \in 1 .. Len(code) |-> IF x = 1 THEN <<0>> ELSE Extended(W[x - 1], x)]
<1>5. G = R(G)
  <2>1. ASSUME NEW x \in 1 .. N
        PROVE  G[x] = IF x = 1 THEN <<0>> ELSE Extended(G[x - 1], x)
    <3>1. G[x] = g(x)
      OBVIOUS
    <3> HIDE DEF g
    <3>2. CASE x = 1
      BY <1>3, <3>1, <3>2
    <3>3. CASE x # 1
      <4>1. x \in 2 .. N /\ x - 1 \in 1 .. N
        BY <3>3
      <4>2. G[x - 1] = g(x - 1)
        BY <4>1
      <4> QED BY <1>4, <3>1, <3>3, <4>1, <4>2
    <3> QED BY <3>2, <3>3
  <2> HIDE DEF g
  <2> QED BY <1>0, <2>1
<1>6. Walk = R(Walk)
  <2>1. Walk = CHOOSE W : W = R(W)
    BY DEF Walk
  <2> HIDE DEF R, G
  <2> QED BY <1>5, <2>1, Zenon
<1>7. ASSUME NEW x \in 1 .. N
      PROVE  Walk[x] = IF x = 1 THEN <<0>> ELSE Extended(Walk[x - 1], x)
  <2>1. PICK W : W = Walk
    OBVIOUS
  <2>2. W = R(W)
    BY <1>6, <2>1
  <2>3. W[x] = IF x = 1 THEN <<0>> ELSE Extended(W[x - 1], x)
    BY <1>0, <2>2
  <2> QED BY <2>1, <2>3
<1> HIDE DEF g
<1> DEFINE T == {x \in 1 .. N : Walk[x] # g(x)}
<1>8. T = {}
  <2> SUFFICES ASSUME T # {} PROVE FALSE
    OBVIOUS
  <2>1. T \subseteq Nat
    OBVIOUS
  <2>2. PICK x \in T : \A y \in T : x <= y
    BY <2>1, Least
  <2>3. x \in 1 .. N /\ Walk[x] # g(x)
    BY <2>2
  <2>4. x # 1
    BY <1>3, <1>7, <2>3
  <2>5. x \in 2 .. N /\ x - 1 \in 1 .. N /\ ~(x <= x - 1)
    BY <2>3, <2>4
  <2>6. Walk[x - 1] = g(x - 1)
    BY <2>2, <2>5
  <2>7. Walk[x] = Extended(Walk[x - 1], x)
    BY <1>7, <2>3, <2>4
  <2> QED BY <1>4, <2>3, <2>5, <2>6, <2>7
<1> QED BY <1>0, <1>8 DEF g

(* The list of a reordered function, place by place. *)
LEMMA ListedIs ==
  ASSUME Len(code) \in Nat \ {0}, NEW ord, NEW m, Arranged(links, Len(code), Allocas, ord, m)
  PROVE  /\ Len(Listed) = Len(code) /\ DOMAIN Listed = 1 .. Len(code)
         /\ \A i \in 1 .. Len(code) : Listed[i] = ord[i - 1] /\ i - 1 \in Idx(Len(code))
         /\ ToSet(Listed) = Pos /\ links.nxt[Last(Listed)] = NULL
<1>0. PICK N \in Nat \ {0} : N = Len(code)
  OBVIOUS
<1>1. ord \in [Idx(N) -> Idx(N)] /\ \A n \in Idx(N) : \E k \in Idx(N) : ord[k] = n
  BY <1>0 DEF Arranged, Order
<1> DEFINE s == [i \in 1 .. N |-> ord[i - 1]]
<1>2. N \in 1 .. Len(code)
  BY <1>0
<1>3. Listed = s
  BY <1>0, <1>2, WalkIs DEF Listed
<1>4. \A i \in 1 .. N : i - 1 \in Idx(N)
  BY DEF Idx
<1>5. s \in Seq(Idx(N)) /\ Len(s) = N /\ DOMAIN s = 1 .. N /\ \A i \in 1 .. N : s[i] = ord[i - 1]
  BY <1>1, <1>4
<1> HIDE DEF s
<1>6. ToSet(s) = Pos
  <2>1. ASSUME NEW n \in Idx(N) PROVE \E i \in 1 .. N : s[i] = n
    <3>1. PICK k \in Idx(N) : ord[k] = n
      BY <1>1
    <3>2. k + 1 \in 1 .. N /\ (k + 1) - 1 = k
      BY DEF Idx
    <3>3. s[k + 1] = n
      BY <1>5, <3>1, <3>2
    <3> QED BY <3>2, <3>3
  <2>2. \A i \in 1 .. N : s[i] \in Idx(N)
    BY <1>1, <1>4, <1>5
  <2> QED BY <1>0, <1>5, <2>1, <2>2 DEF ToSet, Pos, Idx
<1>7. links.nxt[Last(s)] = NULL
  <2>1. PICK h \in Idx(N) : h = N - 1
    BY DEF Idx
  <2>2. Last(s) = ord[h]
    BY <1>5, <2>1 DEF Last
  <2>3. PICK l : l = links
    OBVIOUS
  <2>4. PICK A : A = Allocas
    OBVIOUS
  <2>5. Arranged(l, N, A, ord, m)
    BY <1>0, <2>3, <2>4
  <2>6. l.nxt[ord[h]] = IF h + 1 < N THEN ord[h + 1] ELSE NULL
    BY <2>5, PlaceFacts
  <2>7. ~(h + 1 < N)
    BY <2>1
  <2> QED BY <2>2, <2>3, <2>6, <2>7
<1> QED BY <1>0, <1>3, <1>4, <1>5, <1>6, <1>7

(* The inductive invariant of the pass: while it runs, its list holds      *)
(* every instruction once, in an order that moves allocas only.            *)
THEOREM ReorderInvariance == ReorderSpec => [](IInv /\ ListInv)
<1>1. CfgInit /\ ReorderInit => IInv /\ ListInv
  BY InitInv DEF CfgInit, ReorderInit, ListInv
<1>2. IInv /\ ListInv /\ [ReorderNext]_<<vars, cfgVars, reorderVars>> => (IInv /\ ListInv)'
  BY ReorderKeeps
<1> QED BY <1>1, <1>2, PTL DEF ReorderSpec

(* reindex, initial_move and the loop of swap: in a reordered function no  *)
(* instruction is lost or doubled, those that are no allocas keep their    *)
(* order, and a jump leads to the one it led to, for functions of any      *)
(* length.                                                                 *)
THEOREM ControlOrder == ReorderSpec => []ControlKept
<1>1. ListInv => ControlKept
  <2> SUFFICES ASSUME ListInv, stage = "reordered" PROVE ControlKept
    BY DEF ControlKept
  <2>1. /\ Len(code) \in Nat \ {0} /\ GroupInv
        /\ \A n \in Pos : IsJump(n) => Reindexed(n) /\ tgt[n] # Len(code)
    BY DEF ListInv
  <2>2. PICK ord, m : Arranged(links, Len(code), Allocas, ord, m)
    BY <2>1 DEF GroupInv
  <2>3. PICK s : s = Listed
    OBVIOUS
  <2>4. /\ Len(s) = Len(code) /\ DOMAIN s = 1 .. Len(code)
        /\ \A i \in 1 .. Len(code) : s[i] = ord[i - 1] /\ i - 1 \in Idx(Len(code))
        /\ ToSet(s) = Pos /\ links.nxt[Last(s)] = NULL
    BY <2>1, <2>2, <2>3, ListedIs
  <2>5. InTurn(ord, Len(code), Allocas) /\ ord \in [Idx(Len(code)) -> Idx(Len(code))]
    BY <2>2 DEF Arranged, Order
  <2>6. ASSUME NEW j \in DOMAIN s, NEW k \in DOMAIN s, j < k, ~IsAlloca(s[j]), ~IsAlloca(s[k])
        PROVE  s[j] < s[k]
    <3>1. /\ j - 1 \in Idx(Len(code)) /\ k - 1 \in Idx(Len(code)) /\ j - 1 < k - 1
          /\ s[j] = ord[j - 1] /\ s[k] = ord[k - 1]
      BY <2>1, <2>4, <2>6
    <3>2. s[j] \notin Allocas /\ s[k] \notin Allocas
      BY <2>6 DEF Allocas
    <3> QED BY <2>5, <3>1, <3>2 DEF InTurn
  <2>7. \A n \in Pos : IsJump(n) =>
          /\ ~IsAlloca(tgt[n])
          /\ At(n).tgt <= tgt[n] /\ \A v \in At(n).tgt .. tgt[n] - 1 : IsAlloca(v)
    BY <2>1 DEF Reindexed
  <2> QED BY <2>3, <2>4, <2>6, <2>7 DEF ControlKept
<1> QED BY <1>1, ReorderInvariance, PTL

(* opt.h's promise of the pass, for functions of any length: the allocas   *)
(* stand together, after at most the first instruction.                    *)
THEOREM AllocasTogether == ReorderSpec => []AllocasGrouped
<1>1. ListInv => AllocasGrouped
  <2> SUFFICES ASSUME ListInv, stage = "reordered" PROVE AllocasGrouped
    BY DEF AllocasGrouped
  <2>1. Len(code) \in Nat \ {0} /\ GroupInv
    BY DEF ListInv
  <2>2. PICK ord, m : /\ Arranged(links, Len(code), Allocas, ord, m)
                      /\ Grouped(ord, Len(code), Allocas)
    BY <2>1 DEF GroupInv
  <2>3. PICK s : s = Listed
    OBVIOUS
  <2>4. /\ DOMAIN s = 1 .. Len(code) /\ ToSet(s) = Pos
        /\ \A i \in 1 .. Len(code) : s[i] = ord[i - 1] /\ i - 1 \in Idx(Len(code))
    BY <2>1, <2>2, <2>3, ListedIs
  <2>5. ASSUME NEW k \in DOMAIN s, IsAlloca(s[k]), NEW j \in 2 .. k PROVE IsAlloca(s[j])
    <3>1. /\ k \in 1 .. Len(code) /\ j \in 1 .. Len(code) /\ j - 1 \in 1 .. k - 1
          /\ k - 1 \in Idx(Len(code)) /\ s[k] = ord[k - 1] /\ s[j] = ord[j - 1]
      BY <2>1, <2>4
    <3>2. s[k] \in Pos
      BY <2>4 DEF ToSet
    <3>3. ord[k - 1] \in Allocas
      BY <2>5, <3>1, <3>2 DEF Allocas
    <3>4. ord[j - 1] \in Allocas
      BY <2>2, <3>1, <3>3 DEF Grouped
    <3> QED BY <3>1, <3>4 DEF Allocas
  <2> QED BY <2>3, <2>5 DEF AllocasGrouped
<1> QED BY <1>1, ReorderInvariance, PTL

(* swap() follows NULL and reindex reads past the vector only when the     *)
(* last instruction is an alloca or a jump leads past the end.             *)
THEOREM ReorderFailure == ReorderSpec => []FailsOnlyAtEnd
<1>1. ListInv => FailsOnlyAtEnd
  BY DEF ListInv, FailsOnlyAtEnd
<1> QED BY <1>1, ReorderInvariance, PTL

====
