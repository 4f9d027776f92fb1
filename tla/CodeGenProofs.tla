---- MODULE CodeGenProofs ----
(***************************************************************************)
(* The code of a unit: which registers back_end.c lends, what the code of  *)
(* risc_v_i_op computes, where the calls and symbols of emit.c lead, and   *)
(* that the object file of elf.c can be read.                              *)
(***************************************************************************)
EXTENDS Elf, SequenceTheorems, WellFoundedInduction, TLAPS

------------------------------------------------------------------------------
(* Registers.  reg_lru is its first value turned by the number of loans.   *)

Regs == FREE_REG_END - FREE_REG_START + 1

Turned(n) ==
  [i \in 1 .. MAX_REGISTERS |->
     IF i + n <= MAX_REGISTERS THEN init_lru[i + n] ELSE init_lru[i + n - MAX_REGISTERS]]

LruInv ==
  \E n \in 0 .. Regs :
    n < MAX_REGISTERS /\ lru = Turned(n) /\ (phase = "abort" => n = Regs)

(* What the slots hold after n loans. *)
LEMMA Slots ==
  ASSUME NEW n \in 0 .. Regs, n < MAX_REGISTERS, NEW l, l = Turned(n)
  PROVE  \A i \in 1 .. MAX_REGISTERS :
           l[i] = IF i + n <= Regs THEN FREE_REG_START + i + n - 1
                  ELSE IF i + n <= MAX_REGISTERS THEN 0
                  ELSE FREE_REG_START + i + n - MAX_REGISTERS - 1
<1> DEFINE N == MAX_REGISTERS
<1>1. N \in Nat /\ Regs \in 1 .. N /\ FREE_REG_START \in Nat
  BY LruAssumption DEF Regs
<1>0. \A j \in 1 .. N : init_lru[j] = IF j <= Regs THEN FREE_REG_START + j - 1 ELSE 0
  BY DEF init_lru, Regs
<1>2. ASSUME NEW i \in 1 .. N
      PROVE  l[i] = IF i + n <= Regs THEN FREE_REG_START + i + n - 1
                    ELSE IF i + n <= N THEN 0 ELSE FREE_REG_START + i + n - N - 1
  <2>1. l[i] = IF i + n <= N THEN init_lru[i + n] ELSE init_lru[i + n - N]
    BY DEF Turned
  <2>2. i + n \in Nat /\ (i + n <= N => i + n \in 1 .. N)
        /\ (i + n > N => i + n - N \in 1 .. N /\ i + n - N <= Regs)
    BY <1>1
  <2> QED BY <1>0, <1>1, <2>1, <2>2
<1> QED BY <1>2

(* A loan from slot 0 turns the list; at the end of the registers there is *)
(* none to lend.                                                           *)
LEMMA Loan ==
  ASSUME NEW n \in 0 .. Regs, n < MAX_REGISTERS, NEW l, l = Turned(n)
  PROVE  /\ allocate_register(l) = -1 => n = Regs
         /\ allocate_register(l) # -1 =>
              \E m \in 0 .. Regs :
                /\ m < MAX_REGISTERS
                /\ update_lru(update_lru(l, allocate_register(l)), allocate_register(l)) = Turned(m)
<1> DEFINE N == MAX_REGISTERS
           r == l[1]
<1>1. /\ N \in Nat /\ Regs \in 1 .. N /\ FREE_REG_START \in Nat \ {0}
      /\ FREE_REG_END = FREE_REG_START + Regs - 1
  BY LruAssumption DEF Regs
<1>0. \A j \in 1 .. N : init_lru[j] = IF j <= Regs THEN FREE_REG_START + j - 1 ELSE 0
  BY DEF init_lru, Regs
<1>2. \A i \in 1 .. N :
        l[i] = IF i + n <= Regs THEN FREE_REG_START + i + n - 1
               ELSE IF i + n <= N THEN 0 ELSE FREE_REG_START + i + n - N - 1
  BY Slots
<1>3. r = IF n < Regs THEN FREE_REG_START + n ELSE 0
  <2>1. 1 \in 1 .. N
    BY <1>1
  <2> QED BY <1>1, <1>2, <2>1
<1>4. CASE n = Regs
  <2>1. r \notin FREE_REG_START .. FREE_REG_END
    BY <1>1, <1>3, <1>4
  <2> QED BY <1>4, <2>1 DEF allocate_register
<1>5. CASE n < Regs
  <2>1. r \in FREE_REG_START .. FREE_REG_END /\ r # -1 /\ allocate_register(l) = r
    BY <1>1, <1>3, <1>5 DEF allocate_register
  <2>2. \A i \in 2 .. N : l[i] # r
    <3> SUFFICES ASSUME NEW i \in 2 .. N PROVE l[i] # r
      OBVIOUS
    <3>1. i \in 1 .. N
      BY <1>1
    <3> QED BY <1>1, <1>2, <1>3, <1>5, <3>1
  <2> DEFINE u == [k \in 1 .. N |-> IF k = N THEN r ELSE l[k + 1]]
  <2>3. update_lru(l, r) = u
    <3> DEFINE at == {k \in 1 .. N : l[k] = r}
    <3>1. at = {1}
      BY <1>1, <2>2
    <3>2. (CHOOSE k \in at : \A j \in at : k <= j) = 1
      BY <3>1
    <3> QED BY <1>1, <3>1, <3>2 DEF update_lru
  <2>4. update_lru(u, r) = u
    <3> DEFINE at == {k \in 1 .. N : u[k] = r}
    <3>1. at = {N}
      BY <1>1, <2>2
    <3>2. (CHOOSE k \in at : \A j \in at : k <= j) = N
      <4> HIDE DEF at
      <4> QED BY <1>1, <3>1
    <3>3. update_lru(u, r) = [k \in 1 .. N |-> IF k = N THEN r ELSE u[k]]
      <4> HIDE DEF u
      <4> QED BY <1>1, <3>1, <3>2 DEF update_lru
    <3> QED BY <1>1, <3>3
  <2>5. PICK m \in 0 .. Regs : m < N /\ m = IF n + 1 = N THEN 0 ELSE n + 1
    BY <1>1, <1>5
  <2>6. u = Turned(m)
    <3>1. ASSUME NEW k \in 1 .. N PROVE u[k] = IF k + m <= N THEN init_lru[k + m] ELSE init_lru[k + m - N]
      <4>1. CASE k = N
        <5>1. u[k] = FREE_REG_START + n
          BY <1>3, <1>5, <4>1
        <5>2. k + m <= N => k + m = N /\ N = n + 1
          BY <1>1, <2>5, <4>1
        <5>3. k + m > N => k + m - N = n + 1 /\ n + 1 \in 1 .. N
          BY <1>1, <1>5, <2>5, <4>1
        <5>4. N \in 1 .. N
          BY <1>1
        <5> QED BY <1>0, <1>1, <1>5, <2>5, <5>1, <5>2, <5>3, <5>4
      <4>2. CASE k < N
        <5>1. k + 1 \in 1 .. N /\ u[k] = l[k + 1]
          BY <1>1, <4>2
        <5>2. CASE n + 1 = N
          <6>1. m = 0 /\ k + m = k /\ k + 1 + n - N = k /\ Regs = N
            BY <1>1, <1>5, <2>5, <5>2
          <6> QED BY <1>0, <1>1, <1>2, <1>5, <5>1, <5>2, <6>1
        <5>3. CASE n + 1 # N
          <6>1. m = n + 1 /\ k + m = k + 1 + n
            BY <1>1, <1>5, <2>5, <5>3
          <6>2. (k + m <= N => k + m \in 1 .. N) /\ (k + m > N => k + m - N \in 1 .. N /\ k + m - N <= Regs)
            BY <1>1, <1>5, <6>1
          <6> QED BY <1>0, <1>1, <1>2, <5>1, <6>1, <6>2
        <5> QED BY <5>2, <5>3
      <4> QED BY <1>1, <4>1, <4>2
    <3> QED BY <3>1 DEF Turned
  <2> QED BY <2>1, <2>3, <2>4, <2>5, <2>6
<1> QED BY <1>1, <1>4, <1>5

(* risc_v_i_op lends at most one register. *)
LEMMA LoanOf ==
  ASSUME NEW l, NEW op, NEW rds, NEW r, NEW imm,
         NEW o, o = risc_v_i_op(l, op, rds, r, imm), NEW t, t = allocate_register(l)
  PROVE  /\ o.tmp = -1 => o.lru = l /\ t = -1
         /\ o.lru = l \/ (t # -1 /\ o.lru = update_lru(update_lru(l, t), t))
<1> DEFINE used == update_lru(update_lru(l, t), t)
           Plain(c)  == [code |-> c, tmp |-> 0, lru |-> l]
           Borrow(c) == IF t = -1 THEN [code |-> <<>>, tmp |-> -1, lru |-> l]
                                  ELSE [code |-> c, tmp |-> t, lru |-> used]
<1>1. \E c : o = Plain(c) \/ o = Borrow(c)
  <2>1. CASE risc_v_is_valid_imm(imm)
    BY <2>1 DEF risc_v_i_op
  <2>2. CASE ~risc_v_is_valid_imm(imm) /\ op # "load"
    BY <2>2 DEF risc_v_i_op
  <2>3. CASE ~risc_v_is_valid_imm(imm) /\ op = "load"
    BY <2>3 DEF risc_v_i_op
  <2> QED BY <2>1, <2>2, <2>3
<1>2. PICK c : o = Plain(c) \/ o = Borrow(c)
  BY <1>1
<1>3. CASE o = Plain(c)
  BY <1>3
<1>4. CASE o = Borrow(c) /\ t = -1
  BY <1>4
<1>5. CASE o = Borrow(c) /\ t # -1
  BY <1>5
<1> QED BY <1>2, <1>3, <1>4, <1>5

LEMMA LruStep == LruInv /\ [Next]_vars => LruInv'
<1> SUFFICES ASSUME LruInv, [Next]_vars PROVE LruInv'
  OBVIOUS
<1>1. PICK n \in 0 .. Regs : n < MAX_REGISTERS /\ lru = Turned(n) /\ (phase = "abort" => n = Regs)
  BY DEF LruInv
<1>2. \A k : Turned(k)' = Turned(k)
  BY DEF Turned, init_lru
<1>3. ASSUME lru' = lru, phase' = "abort" => phase = "abort" PROVE LruInv'
  BY <1>1, <1>3 DEF LruInv, Regs, Turned, init_lru
<1>4. ASSUME NEW o, NEW op, NEW rds, NEW r, NEW imm, o = risc_v_i_op(lru, op, rds, r, imm),
             lru' = o.lru, phase' = "abort" => o.tmp = -1
      PROVE  LruInv'
  <2>1. PICK t : t = allocate_register(lru)
    OBVIOUS
  <2>2. /\ o.tmp = -1 => o.lru = lru /\ t = -1
        /\ o.lru = lru \/ (t # -1 /\ o.lru = update_lru(update_lru(lru, t), t))
    BY <1>4, <2>1, LoanOf
  <2>3. CASE o.tmp = -1
    <3>1. n = Regs /\ lru' = Turned(n)
      BY <1>1, <1>4, <2>1, <2>2, <2>3, Loan
    <3> QED BY <1>1, <3>1 DEF LruInv, Regs, Turned, init_lru
  <2>4. CASE o.tmp # -1
    <3>1. \E m \in 0 .. Regs : m < MAX_REGISTERS /\ lru' = Turned(m)
      BY <1>1, <1>4, <2>1, <2>2, Loan
    <3>2. phase' # "abort"
      BY <1>4, <2>4
    <3> QED BY <3>1, <3>2 DEF LruInv, Regs, Turned, init_lru
  <2> QED BY <2>3, <2>4
<1>5. ASSUME NEW e \in Expressions, visit_store(e) \/ visit_ret(e) PROVE LruInv'
  <2>1. PICK res : /\ res = visit(e) /\ lru' = res.lru
                   /\ phase' = "abort" => res.how = "abort"
    <3>1. PICK tail, failed : EmitNode(visit(e), tail, failed)
      BY <1>5 DEF visit_store, visit_ret
    <3>2. \/ phase' = visit(e).how /\ visit(e).how # "gen"
          \/ phase' \in {"crash", "gen"}
      BY <3>1 DEF EmitNode
    <3> QED BY <3>1, <3>2 DEF EmitNode
  <2>2. phase # "abort"
    BY <1>5 DEF visit_store, visit_ret, InFunction
  <2>3. CASE e.kind = "imm"
    <3>1. PICK o : o = risc_v_i_op(lru, "addi", t0, zero, e.v)
      OBVIOUS
    <3>2. res = Result(o.code, "none", o.lru, IF o.tmp = -1 THEN "abort" ELSE "gen")
      BY <2>1, <2>3, <3>1 DEF visit, visit_imm
    <3>3. res.lru = o.lru /\ (res.how = "abort" => o.tmp = -1)
      BY <3>2 DEF Result
    <3> QED BY <1>4, <2>1, <3>1, <3>3
  <2>4. CASE e.kind = "call"
    <3>1. res = visit_fn_call(e.f)
      BY <2>1, <2>4 DEF visit
    <3>2. res.lru = lru /\ res.how # "abort"
      BY <3>1 DEF visit_fn_call, Result
    <3> QED BY <1>3, <2>1, <3>2
  <2>5. CASE e.kind = "other"
    <3>1. res = Result(<<>>, "none", lru, "gen")
      BY <2>1, <2>5 DEF visit
    <3>2. res.lru = lru /\ res.how # "abort"
      BY <3>1 DEF Result
    <3> QED BY <1>3, <2>1, <3>2
  <2> QED BY <2>3, <2>4, <2>5 DEF Expressions
<1>6. ASSUME NEW op, NEW rds, NEW r, NEW imm, back_end_native(op, rds, r, imm), phase = "gen"
      PROVE  LruInv'
  <2>1. PICK o : o = risc_v_i_op(lru, op, rds, r, imm)
    OBVIOUS
  <2>2. lru' = o.lru /\ (phase' = "abort" => o.tmp = -1)
    BY <1>6, <2>1 DEF back_end_native
  <2> QED BY <1>4, <2>1, <2>2
<1>7. CASE \/ UNCHANGED vars \/ back_end_native_return
           \/ visit_fn_main \/ visit_fn_end \/ back_end_emit \/ back_end_init \/ PutOutside
           \/ \E f \in Names : visit_fn_usual(f)
  <2>1. lru' = lru /\ (phase' = "abort" => phase = "abort")
    BY <1>7 DEF vars, back_end_native_return, visit_fn_main, visit_fn_end, back_end_emit,
                back_end_init, PutOutside, visit_fn_usual, put
  <2> QED BY <1>3, <2>1
<1> QED BY <1>5, <1>6, <1>7 DEF Next

(* allocate_register hands out the registers in turn, and gives up only    *)
(* when each has been lent once, for any number of registers.              *)
THEOREM LoansInTurn == Spec => []LentInTurn
<1>1. Init => LruInv
  <2> SUFFICES ASSUME Init PROVE LruInv
    OBVIOUS
  <2>1. lru = Turned(0)
    <3>1. \A i \in 1 .. MAX_REGISTERS : i + 0 = i /\ i <= MAX_REGISTERS
      BY LruAssumption
    <3>2. init_lru = [i \in 1 .. MAX_REGISTERS |-> init_lru[i]]
      BY DEF init_lru
    <3> QED BY <3>1, <3>2 DEF Init, Turned
  <2>2. 0 \in 0 .. Regs /\ 0 < MAX_REGISTERS /\ phase # "abort"
    BY LruAssumption DEF Init, Regs
  <2> QED BY <2>1, <2>2 DEF LruInv
<1>2. LruInv => LentInTurn
  <2> SUFFICES ASSUME LruInv PROVE LentInTurn
    OBVIOUS
  <2> DEFINE N == MAX_REGISTERS
  <2>1. PICK n \in 0 .. Regs : n < N /\ lru = Turned(n) /\ (phase = "abort" => n = Regs)
    BY DEF LruInv
  <2>2. /\ N \in Nat /\ Regs \in 1 .. N /\ FREE_REG_START \in Nat \ {0}
        /\ FREE_REG_END = FREE_REG_START + Regs - 1
    BY LruAssumption DEF Regs
  <2>3. \A i \in 1 .. N :
          lru[i] = IF i + n <= Regs THEN FREE_REG_START + i + n - 1
                   ELSE IF i + n <= N THEN 0 ELSE FREE_REG_START + i + n - N - 1
    BY <2>1, Slots
  <2>4. \A i, j \in 1 .. N : i # j /\ lru[i] # 0 => lru[i] # lru[j]
    BY <2>1, <2>2, <2>3
  <2>5. ASSUME phase = "abort", NEW r \in FREE_REG_START .. FREE_REG_END
        PROVE  /\ lru[N] # 0
               /\ \E k \in 1 .. N : lru[k] = r /\ \E j \in 1 .. k : lru[j] = 0
    <3>1. n = Regs /\ n < N
      BY <2>1, <2>5
    <3>2. 1 \in 1 .. N /\ N \in 1 .. N /\ r - FREE_REG_START + 1 + N - n \in 1 .. N
      BY <2>2, <2>5, <3>1
    <3>3. lru[1] = 0 /\ lru[N] # 0
      BY <2>2, <2>3, <3>1, <3>2
    <3>4. PICK k \in 1 .. N : k = r - FREE_REG_START + 1 + N - n
      BY <3>2
    <3>5. lru[k] = r
      BY <2>2, <2>3, <2>5, <3>1, <3>4
    <3> QED BY <3>3, <3>4, <3>5
  <2> QED BY <2>4, <2>5 DEF LentInTurn
<1> QED BY <1>1, <1>2, LruStep, PTL DEF Spec

------------------------------------------------------------------------------
(* Addresses.  While the first unit is generated the text is only added    *)
(* to: at its end, and, when main is reached, one instruction before all   *)
(* others.  Offsets handed out before that count this instruction already. *)

shift == IF main_emitted THEN 0 ELSE _start_size
Size  == Len(text)

Heads(f, i) == text[i].fn = f /\ text[i].head

(* The function f begins where mapping_fn says it will. *)
Settled(f) ==
  \E i \in 1 .. Size :
    /\ Heads(f, i) /\ 4 * (i - 1) + shift = mapping_fn[f]
    /\ \A j \in 1 .. Size : Heads(f, j) => j = i

(* main has been entered and has no code yet. *)
Pending ==
  /\ fn = "main" /\ mapping_fn["main"] = 4 * Size
  /\ \A i \in 1 .. Size : text[i].fn # "main"

IsSeq(s) == \E S : s \in Seq(S)

TextInv ==
  /\ IsSeq(text) /\ text_seek = 4 * Size
  /\ \A i \in 1 .. Size : /\ text[i].fn \in DOMAIN mapping_fn \union {"_start"}
                          /\ text[i].fn = "_start" <=> (main_emitted /\ i = 1)
  /\ main_emitted => Size > 0 /\ text[1].head

NameInv ==
  /\ main_emitted \in BOOLEAN /\ (main_emitted <=> "main" \in DOMAIN mapping_fn)
  /\ DOMAIN mapping_fn \subseteq Names
  /\ fn \in DOMAIN mapping_fn \union {"none"} /\ (phase = "emit" => fn = "none")
  /\ \A f \in DOMAIN mapping_fn :
       mapping_fn[f] \in Int /\ (Settled(f) \/ (f = "main" /\ Pending))

SymbolInv ==
  /\ IsSeq(symtab)
  /\ \A k \in 1 .. Len(symtab) :
       \/ symtab[k].name = "_start" /\ symtab[k].off = 0
       \/ symtab[k].name \in DOMAIN mapping_fn /\ symtab[k].off = mapping_fn[symtab[k].name]

(* jal reaches 1 MiB in either direction. *)
InReach == 4 * Size < 1048576

Lands(i) ==
  /\ text[i].imm \in Int
  /\ 4 * (i - 1) + text[i].imm = mapping_fn[text[i].callee] - shift

JumpInv ==
  \A i \in 1 .. Size : text[i].op = "jal" =>
    text[i].callee \in DOMAIN mapping_fn /\ (InReach => Lands(i))

AddrInv == TextInv /\ NameInv /\ SymbolInv /\ JumpInv

UnitInv == unit \in Nat \ {0} /\ (unit = 1 /\ phase \in {"gen", "emit"} => AddrInv)

(* Sequences. *)
LEMMA SeqJoin ==
  ASSUME NEW s, NEW t, IsSeq(s), IsSeq(t)
  PROVE  /\ IsSeq(s \o t) /\ Len(s) \in Nat /\ Len(t) \in Nat
         /\ Len(s \o t) = Len(s) + Len(t)
         /\ \A i \in 1 .. Len(s) : (s \o t)[i] = s[i]
         /\ \A i \in 1 .. Len(t) : (s \o t)[Len(s) + i] = t[i]
<1>1. PICK S : s \in Seq(S)
  BY DEF IsSeq
<1>2. PICK T : t \in Seq(T)
  BY DEF IsSeq
<1>3. PICK U : s \in Seq(U) /\ t \in Seq(U)
  <2>1. s \in Seq(S \union T) /\ t \in Seq(S \union T)
    BY <1>1, <1>2
  <2> QED BY <2>1
<1>4. s \o t \in Seq(U) /\ Len(s \o t) = Len(s) + Len(t)
  BY <1>3
<1> QED BY <1>3, <1>4 DEF IsSeq

(* put at the end, and before all others. *)
LEMMA PutAtEnd ==
  ASSUME NEW s, NEW c, IsSeq(s)
  PROVE  Inserted(s, 4 * Len(s), c) = s \o c \o <<>>
<1>1. PICK S : s \in Seq(S)
  BY DEF IsSeq
<1>2. Len(s) \in Nat /\ (4 * Len(s)) \div 4 = Len(s)
  BY <1>1
<1>3. SubSeq(s, 1, Len(s)) = s /\ SubSeq(s, Len(s) + 1, Len(s)) = <<>>
  BY <1>1, <1>2
<1> QED BY <1>2, <1>3 DEF Inserted

LEMMA PutAtStart ==
  ASSUME NEW s, NEW c, IsSeq(s)
  PROVE  Inserted(s, 0, c) = <<>> \o c \o s
<1>1. PICK S : s \in Seq(S)
  BY DEF IsSeq
<1>2. Len(s) \in Nat /\ 0 \div 4 = 0
  BY <1>1
<1>3. SubSeq(s, 1, 0) = <<>> /\ SubSeq(s, 0 + 1, Len(s)) = s
  BY <1>1, <1>2
<1> QED BY <1>2, <1>3 DEF Inserted

LEMMA TagIs ==
  ASSUME NEW c, IsSeq(c), NEW f, NEW h, NEW g, NEW t, t = Tag(c, f, h, g)
  PROVE  /\ IsSeq(t) /\ Len(t) = Len(c) /\ Len(c) \in Nat
         /\ \A i \in 1 .. Len(c) : /\ t[i].op = c[i].op /\ t[i].imm = c[i].imm
                                   /\ t[i].fn = f /\ t[i].callee = g
                                   /\ t[i].head = (h /\ i = 1)
<1>1. PICK S : c \in Seq(S)
  BY DEF IsSeq
<1>2. PICK n \in Nat : n = Len(c) /\ DOMAIN c = 1 .. n
  BY <1>1
<1> DEFINE e(i) == [op |-> c[i].op, rd |-> c[i].rd, r1 |-> c[i].r1, r2 |-> c[i].r2,
                    imm |-> c[i].imm, fn |-> f, head |-> h /\ i = 1, callee |-> g]
           T == {e(i) : i \in 1 .. n}
<1>3. t = [i \in 1 .. n |-> e(i)]
  BY <1>2 DEF Tag
<1>4. t \in Seq(T) /\ Len(t) = n
  <2> HIDE DEF e
  <2> QED BY <1>3
<1>5. \A i \in 1 .. n : t[i] = e(i)
  BY <1>3
<1>6. \A i \in 1 .. n : e(i).op = c[i].op /\ e(i).imm = c[i].imm /\ e(i).fn = f /\ e(i).callee = g
  OBVIOUS
<1>7. \A i \in 1 .. n : e(i).head = (h /\ i = 1)
  BY Zenon
<1> HIDE DEF e
<1>8. IsSeq(t)
  BY <1>4 DEF IsSeq
<1>9. \A i \in 1 .. n : t[i].head = (h /\ i = 1)
  BY <1>5, <1>7, Zenon
<1>10. \A i \in 1 .. n : t[i].op = c[i].op /\ t[i].imm = c[i].imm /\ t[i].fn = f /\ t[i].callee = g
  BY <1>5, <1>6, Zenon
<1> QED BY <1>2, <1>4, <1>8, <1>9, <1>10, Zenon

(* put() while the cursor is at the end. *)
LEMMA PutIs ==
  ASSUME TextInv, NEW c, IsSeq(c), NEW f, NEW h, NEW g, put(Tag(c, f, h, g))
  PROVE  /\ IsSeq(text') /\ Size \in Nat /\ Len(c) \in Nat
         /\ Size' = Size + Len(c) /\ text_seek' = 4 * Size'
         /\ \A i \in 1 .. Size : text'[i] = text[i]
         /\ \A i \in 1 .. Len(c) : /\ text'[Size + i].op = c[i].op /\ text'[Size + i].imm = c[i].imm
                                   /\ text'[Size + i].fn = f /\ text'[Size + i].callee = g
                                   /\ text'[Size + i].head = (h /\ i = 1)
<1>1. PICK t : t = Tag(c, f, h, g)
  OBVIOUS
<1>2. /\ IsSeq(t) /\ Len(t) = Len(c) /\ Len(c) \in Nat
      /\ \A i \in 1 .. Len(c) : /\ t[i].op = c[i].op /\ t[i].imm = c[i].imm
                                /\ t[i].fn = f /\ t[i].callee = g
                                /\ t[i].head = (h /\ i = 1)
  BY <1>1, TagIs
<1>3. IsSeq(text) /\ text_seek = 4 * Len(text)
  BY DEF TextInv, Size
<1>4. text' = text \o t \o <<>> /\ text_seek' = text_seek + 4 * Len(t)
  BY <1>1, <1>3, PutAtEnd DEF put
<1>5. PICK u : u = text \o t
  OBVIOUS
<1>6. /\ IsSeq(u) /\ Len(text) \in Nat /\ Len(u) = Len(text) + Len(t)
      /\ \A i \in 1 .. Len(text) : u[i] = text[i]
      /\ \A i \in 1 .. Len(t) : u[Len(text) + i] = t[i]
  BY <1>2, <1>3, <1>5, SeqJoin
<1>7. u \o <<>> = u
  BY <1>6 DEF IsSeq
<1>8. text' = u
  BY <1>4, <1>5, <1>7
<1>9. /\ IsSeq(text') /\ Size' = Size + Len(c)
      /\ \A i \in 1 .. Size : text'[i] = text[i]
      /\ \A i \in 1 .. Len(c) : text'[Size + i] = t[i]
  BY <1>2, <1>6, <1>8 DEF Size
<1>10. text_seek' = 4 * Size'
  <2>1. PICK m, n \in Nat : m = Len(text) /\ n = Len(c)
    BY <1>2, <1>6
  <2>2. text_seek' = 4 * m + 4 * n /\ Size' = m + n
    BY <1>2, <1>3, <1>4, <1>9, <2>1 DEF Size
  <2> QED BY <2>1, <2>2
<1>11. \A i \in 1 .. Len(c) : text'[Size + i].head = (h /\ i = 1)
  <2> TAKE i \in 1 .. Len(c)
  <2>1. text'[Size + i] = t[i]
    BY <1>9
  <2>2. t[i].head = (h /\ i = 1)
    BY <1>2, Zenon
  <2> QED BY <2>1, <2>2, Zenon
<1>12. Size \in Nat
  BY <1>6 DEF Size
<1>13. \A i \in 1 .. Len(c) : /\ text'[Size + i].op = c[i].op /\ text'[Size + i].imm = c[i].imm
                              /\ text'[Size + i].fn = f /\ text'[Size + i].callee = g
  BY <1>2, <1>9
<1> QED BY <1>2, <1>9, <1>10, <1>11, <1>12, <1>13, Zenon

(* The immediate of a jal holds offsets within reach. *)
JalImm(off) == SignExtend(off - (off % 2), 2097152)
Near(k)     == -262144 <= k /\ k < 262144

LEMMA JalField ==
  ASSUME NEW k \in Int, Near(k)
  PROVE  JalImm(4 * k) = 4 * k
BY SMT DEF SignExtend, JalImm, Near

LEMMA JalIs ==
  ASSUME NEW off, NEW reg
  PROVE  risc_v_jal(reg, off) = <<Instr("jal", reg, 0, 0, JalImm(off))>>
BY SMT DEF risc_v_jal, JalImm

(* Where a function that can be called begins. *)
LEMMA Begins ==
  ASSUME TextInv, NameInv, NEW g \in DOMAIN mapping_fn
  PROVE  \E k \in 0 .. Size : mapping_fn[g] - shift = 4 * k
<1>0. Size \in Nat
  BY DEF TextInv, IsSeq, Size
<1>1. CASE Settled(g)
  <2>1. PICK i \in 1 .. Size : 4 * (i - 1) + shift = mapping_fn[g]
    BY <1>1 DEF Settled
  <2>2. shift \in Int
    BY DEF shift, _start_size
  <2>3. i - 1 \in 0 .. Size /\ mapping_fn[g] - shift = 4 * (i - 1)
    BY <1>0, <2>1, <2>2
  <2> QED BY <2>3
<1>2. CASE g = "main" /\ Pending
  <2>1. shift = 0 /\ mapping_fn[g] = 4 * Size
    BY <1>2 DEF NameInv, Pending, shift
  <2>2. Size \in 0 .. Size /\ mapping_fn[g] - shift = 4 * Size
    BY <1>0, <2>1
  <2> QED BY <2>2
<1> QED BY <1>1, <1>2 DEF NameInv

(* Code is added to the function that is being visited. *)
LEMMA Adding ==
  ASSUME AddrInv, fn \in DOMAIN mapping_fn, UNCHANGED <<symtab, mapping_fn, main_emitted>>,
         phase' = "gen", NEW c, IsSeq(c), NEW g,
         put(Tag(c, fn, ~\E i \in DOMAIN text : text[i].fn = fn, g)),
         fn' = fn \/ (fn' = "none" /\ Len(c) > 0),
         \A i \in 1 .. Len(c) : c[i].op = "jal" =>
           /\ i = 1 /\ g \in DOMAIN mapping_fn
           /\ c[i].imm = JalImm(call_off(g))
  PROVE  AddrInv'
<1>0. TextInv /\ NameInv /\ SymbolInv /\ JumpInv
  BY DEF AddrInv
<1>1. PICK h : h = (~\E i \in DOMAIN text : text[i].fn = fn)
  OBVIOUS
<1>2. put(Tag(c, fn, h, g))
  BY <1>1
<1>3. /\ IsSeq(text') /\ Size \in Nat /\ Len(c) \in Nat
      /\ Size' = Size + Len(c) /\ text_seek' = 4 * Size'
      /\ \A i \in 1 .. Size : text'[i] = text[i]
      /\ \A i \in 1 .. Len(c) : /\ text'[Size + i].op = c[i].op /\ text'[Size + i].imm = c[i].imm
                                /\ text'[Size + i].fn = fn /\ text'[Size + i].callee = g
                                /\ text'[Size + i].head = (h /\ i = 1)
  BY <1>0, <1>2, PutIs
<1>4. h <=> ~\E i \in 1 .. Size : text[i].fn = fn
  <2>1. DOMAIN text = 1 .. Size
    BY <1>0 DEF TextInv, IsSeq, Size
  <2> QED BY <1>1, <2>1, Zenon
<1>5. fn # "_start" /\ fn # "none"
  BY <1>0, NamesAssumption DEF NameInv
<1>6. shift' = shift
  BY DEF shift
<1>7. ASSUME NEW j \in 1 .. Size' PROVE j \in 1 .. Size \/ \E i \in 1 .. Len(c) : j = Size + i
  <2>1. CASE j > Size
    <3>1. j - Size \in 1 .. Len(c) /\ j = Size + (j - Size)
      BY <1>3, <1>7, <2>1
    <3> QED BY <3>1
  <2> QED BY <1>3, <1>7, <2>1
<1>8. TextInv'
  <2>1. ASSUME NEW j \in 1 .. Size'
        PROVE  /\ text'[j].fn \in DOMAIN mapping_fn \union {"_start"}
               /\ text'[j].fn = "_start" <=> (main_emitted /\ j = 1)
    <3>1. CASE j \in 1 .. Size
      BY <1>0, <1>3, <3>1 DEF TextInv
    <3>2. ASSUME NEW i \in 1 .. Len(c), j = Size + i PROVE <2>1!2
      <4>1. text'[j].fn = fn
        BY <1>3, <3>2
      <4>2. ~(main_emitted /\ j = 1)
        BY <1>0, <1>3, <3>2 DEF TextInv
      <4> QED BY <1>5, <4>1, <4>2
    <3> QED BY <1>7, <3>1, <3>2
  <2>2. main_emitted => Size' > 0 /\ text'[1].head
    <3> SUFFICES ASSUME main_emitted PROVE Size' > 0 /\ text'[1].head
      OBVIOUS
    <3>1. Size > 0 /\ text[1].head /\ 1 \in 1 .. Size
      BY <1>0, <1>3 DEF TextInv
    <3>2. text'[1] = text[1]
      BY <1>3, <3>1
    <3>3. Size' > 0
      BY <1>3, <3>1
    <3> QED BY <3>1, <3>2, <3>3
  <2> QED BY <1>3, <2>1, <2>2 DEF TextInv
<1>9. NameInv'
  <2>1. ASSUME NEW f \in DOMAIN mapping_fn, Settled(f) PROVE Settled(f)'
    <3>1. PICK i \in 1 .. Size : /\ Heads(f, i) /\ 4 * (i - 1) + shift = mapping_fn[f]
                                 /\ \A j \in 1 .. Size : Heads(f, j) => j = i
      BY <2>1 DEF Settled
    <3>2. i \in 1 .. Size' /\ text'[i] = text[i]
      BY <1>3
    <3>3. ASSUME NEW j \in 1 .. Size', text'[j].fn = f, text'[j].head PROVE j = i
      <4>1. CASE j \in 1 .. Size
        BY <1>3, <3>1, <3>3, <4>1 DEF Heads
      <4>2. ASSUME NEW k \in 1 .. Len(c), j = Size + k PROVE FALSE
        <5>1. f = fn /\ text'[j].head = (h /\ k = 1)
          BY <1>3, <3>3, <4>2, Zenon
        <5>2. text[i].fn = fn
          BY <3>1, <5>1 DEF Heads
        <5>3. ~h
          BY <1>4, <5>2, Zenon
        <5> QED BY <3>3, <5>1, <5>3, Zenon
      <4> QED BY <1>7, <4>1, <4>2
    <3> QED BY <1>6, <3>1, <3>2, <3>3 DEF Settled, Heads
  <2>2. ASSUME Pending PROVE Settled("main")' \/ Pending'
    <3>0. fn = "main" /\ mapping_fn["main"] = 4 * Size /\ \A i \in 1 .. Size : text[i].fn # "main"
      BY <2>2 DEF Pending
    <3>1. CASE Len(c) = 0
      <4>1. Size' = Size /\ \A i \in 1 .. Size : text'[i].fn # "main"
        BY <1>3, <3>0, <3>1
      <4> QED BY <3>0, <3>1, <4>1 DEF Pending
    <3>2. CASE Len(c) > 0
      <4>1. PICK i \in 1 .. Size' : i = Size + 1
        BY <1>3, <3>2
      <4>2. h
        BY <1>4, <3>0, Zenon
      <4>3. 1 \in 1 .. Len(c)
        BY <1>3, <3>2
      <4>4. text'[i].fn = "main" /\ text'[i].head
        BY <1>3, <3>0, <4>1, <4>2, <4>3, Zenon
      <4>5. shift = 0 /\ 4 * (i - 1) + shift = mapping_fn["main"]
        <5>1. main_emitted
          BY <1>0, <3>0 DEF NameInv
        <5> QED BY <1>3, <3>0, <4>1, <5>1 DEF shift
      <4>6. ASSUME NEW j \in 1 .. Size', text'[j].fn = "main", text'[j].head PROVE j = i
        <5>1. j \notin 1 .. Size
          BY <1>3, <3>0, <4>6
        <5>2. PICK k \in 1 .. Len(c) : j = Size + k
          BY <1>7, <5>1
        <5>3. text'[j].head = (h /\ k = 1)
          BY <1>3, <5>2, Zenon
        <5>4. k = 1
          BY <4>6, <5>3, Zenon
        <5> QED BY <4>1, <5>2, <5>4
      <4> QED BY <1>6, <4>1, <4>4, <4>5, <4>6 DEF Settled, Heads
    <3> QED BY <1>3, <3>1, <3>2
  <2> QED BY <1>0, <2>1, <2>2 DEF NameInv
<1>10. SymbolInv'
  BY <1>0 DEF SymbolInv
<1>11. JumpInv'
  <2> SUFFICES ASSUME NEW j \in 1 .. Size', text'[j].op = "jal"
               PROVE  /\ text'[j].callee \in DOMAIN mapping_fn
                      /\ InReach' => Lands(j)'
    BY DEF JumpInv
  <2>1. InReach' => InReach
    BY <1>3, SMT DEF InReach
  <2>2. CASE j \in 1 .. Size
    BY <1>0, <1>3, <1>6, <2>1, <2>2 DEF JumpInv, Lands
  <2>3. ASSUME NEW k \in 1 .. Len(c), j = Size + k
        PROVE  text'[j].callee \in DOMAIN mapping_fn /\ (InReach' => Lands(j)')
    <3>1. /\ k = 1 /\ text'[j].callee = g /\ g \in DOMAIN mapping_fn
          /\ text'[j].imm = JalImm(call_off(g))
      BY <1>3, <2>3
    <3>2. PICK b \in 0 .. Size : mapping_fn[g] - shift = 4 * b
      BY <1>0, <3>1, Begins
    <3>3. call_off(g) = 4 * (b - Size)
      <4>1. mapping_fn[g] \in Int /\ text_seek = 4 * Size
        BY <1>0, <3>1 DEF NameInv, TextInv
      <4>2. shift \in Int /\ call_off(g) = mapping_fn[g] - text_seek - shift
        BY DEF call_off, shift, _start_size
      <4>3. PICK m, q, z \in Int : m = mapping_fn[g] /\ q = Size /\ z = shift
        BY <1>3, <4>1, <4>2
      <4>4. m - z = 4 * b /\ call_off(g) = m - 4 * q - z /\ b \in Int
        BY <1>3, <3>2, <4>1, <4>2, <4>3
      <4>5. m - 4 * q - z = 4 * (b - q)
        BY <4>4
      <4> QED BY <4>3, <4>4, <4>5, Zenon
    <3>4. ASSUME InReach' PROVE Lands(j)'
      <4>1. PICK d \in Int : d = b - Size /\ Near(d)
        BY <1>3, <2>1, <3>2, <3>4, SMT DEF InReach, Near
      <4>2. text'[j].imm = 4 * d
        BY <3>1, <3>3, <4>1, JalField
      <4>3. 4 * (j - 1) + 4 * d = 4 * b
        BY <1>3, <2>3, <3>1, <4>1
      <4> QED BY <1>6, <3>1, <3>2, <4>1, <4>2, <4>3 DEF Lands
    <3> QED BY <3>1, <3>4
  <2> QED BY <1>7, <2>2, <2>3
<1> QED BY <1>8, <1>9, <1>10, <1>11 DEF AddrInv

(* Code without calls. *)
Straight(c) == IsSeq(c) /\ \A i \in 1 .. Len(c) : c[i].op # "jal"

LEMMA StraightOne ==
  ASSUME NEW op, op # "jal", NEW rd, NEW r1, NEW r2, NEW imm
  PROVE  Straight(<<Instr(op, rd, r1, r2, imm)>>) /\ Len(<<Instr(op, rd, r1, r2, imm)>>) = 1
<1>1. PICK x : x = Instr(op, rd, r1, r2, imm)
  OBVIOUS
<1>2. x.op = op
  BY <1>1 DEF Instr
<1>3. IsSeq(<<x>>) /\ Len(<<x>>) = 1 /\ <<x>>[1] = x
  <2>1. <<x>> \in Seq({x})
    OBVIOUS
  <2> QED BY <2>1 DEF IsSeq
<1> QED BY <1>1, <1>2, <1>3 DEF Straight

LEMMA StraightNone == Straight(<<>>) /\ Len(<<>>) = 0
<1>1. <<>> \in Seq({}) /\ Len(<<>>) = 0
  OBVIOUS
<1> QED BY <1>1 DEF Straight, IsSeq

LEMMA StraightJoin ==
  ASSUME NEW a, NEW b, Straight(a), Straight(b)
  PROVE  /\ Straight(a \o b) /\ Len(a) \in Nat /\ Len(b) \in Nat
         /\ Len(a \o b) = Len(a) + Len(b)
<1>1. IsSeq(a) /\ IsSeq(b)
  BY DEF Straight
<1>2. PICK u : u = a \o b
  OBVIOUS
<1>3. /\ IsSeq(u) /\ Len(a) \in Nat /\ Len(b) \in Nat /\ Len(u) = Len(a) + Len(b)
      /\ \A i \in 1 .. Len(a) : u[i] = a[i]
      /\ \A i \in 1 .. Len(b) : u[Len(a) + i] = b[i]
  BY <1>1, <1>2, SeqJoin
<1>4. ASSUME NEW i \in 1 .. Len(u) PROVE u[i].op # "jal"
  <2>1. CASE i <= Len(a)
    BY <1>3, <2>1 DEF Straight
  <2>2. CASE i > Len(a)
    <3>0. PICK m, n \in Nat : m = Len(a) /\ n = Len(b) /\ i \in 1 .. m + n /\ i > m
      BY <1>3, <2>2
    <3>1. PICK k \in 1 .. n : i = m + k
      <4>1. i - m \in 1 .. n /\ i = m + (i - m)
        BY <3>0
      <4> QED BY <4>1
    <3> QED BY <1>3, <3>0, <3>1 DEF Straight
  <2> QED BY <1>3, <2>1, <2>2
<1> QED BY <1>2, <1>3, <1>4 DEF Straight

LEMMA StraightSmall ==
  ASSUME NEW op, op # "jal", NEW rds, NEW r, NEW imm
  PROVE  /\ Straight(risc_v_i_op_internal(op, rds, r, imm))
         /\ Len(risc_v_i_op_internal(op, rds, r, imm)) = 1
         /\ Straight(Small(op, rds, r, imm)) /\ Len(Small(op, rds, r, imm)) = 1
BY StraightOne DEF risc_v_i_op_internal, Small

LEMMA StraightStore ==
  ASSUME NEW reg, NEW addr, NEW off PROVE Straight(risc_v_s_op("sd", reg, addr, off))
BY StraightOne, StraightNone DEF risc_v_s_op

(* What begins and ends a function. *)
LEMMA PrologueStraight ==
  Straight(back_end_native_prologue(0)) /\ Len(back_end_native_prologue(0)) > 0
<1>1. PICK x : x = align_to_16_bytes(0)
  OBVIOUS
<1>2. PICK a, b, c, d : /\ a = Small("addi", sp, sp, -(x + 16)) /\ b = risc_v_s_op("sd", ra, sp, x + 8)
                        /\ c = risc_v_s_op("sd", s0, sp, x) /\ d = Small("addi", s0, sp, x + 16)
  OBVIOUS
<1>3. Straight(a) /\ Len(a) = 1 /\ Straight(b) /\ Straight(c) /\ Straight(d)
  BY <1>2, StraightSmall, StraightStore
<1>4. back_end_native_prologue(0) = a \o b \o c \o d
  BY <1>1, <1>2 DEF back_end_native_prologue
<1>5. Straight(a \o b) /\ Len(a \o b) > 0
  BY <1>3, StraightJoin
<1>6. Straight(a \o b \o c) /\ Len(a \o b \o c) > 0
  BY <1>3, <1>5, StraightJoin
<1>7. Straight(a \o b \o c \o d) /\ Len(a \o b \o c \o d) > 0
  BY <1>3, <1>6, StraightJoin
<1> QED BY <1>4, <1>7

LEMMA EpilogueStraight ==
  /\ Straight(back_end_native_epilogue(0) \o back_end_native_ret)
  /\ Len(back_end_native_epilogue(0) \o back_end_native_ret) > 0
<1>1. PICK x : x = align_to_16_bytes(0)
  OBVIOUS
<1>2. PICK a, b, c, d : /\ a = Small("load", ra, sp, x + 8) /\ b = Small("load", s0, sp, x)
                        /\ c = Small("addi", sp, sp, x + 16) /\ d = Small("jalr", zero, ra, 0)
  OBVIOUS
<1>3. Straight(a) /\ Len(a) = 1 /\ Straight(b) /\ Straight(c) /\ Straight(d)
  BY <1>2, StraightSmall
<1>4. back_end_native_epilogue(0) \o back_end_native_ret = a \o b \o c \o d
  BY <1>1, <1>2 DEF back_end_native_epilogue, back_end_native_ret
<1>5. Straight(a \o b) /\ Len(a \o b) > 0
  BY <1>3, StraightJoin
<1>6. Straight(a \o b \o c) /\ Len(a \o b \o c) > 0
  BY <1>3, <1>5, StraightJoin
<1>7. Straight(a \o b \o c \o d) /\ Len(a \o b \o c \o d) > 0
  BY <1>3, <1>6, StraightJoin
<1> QED BY <1>4, <1>7

LEMMA ExitStraight ==
  Straight(back_end_native_syscall_0(93)) /\ Len(back_end_native_syscall_0(93)) > 0
<1>1. PICK a, b : a = Small("addi", a7, zero, 93) /\ b = <<Instr("ecall", 0, 0, 0, 0)>>
  OBVIOUS
<1>2. Straight(a) /\ Len(a) = 1 /\ Straight(b)
  BY <1>1, StraightSmall, StraightOne
<1>3. Straight(a \o b) /\ Len(a \o b) > 0
  BY <1>2, StraightJoin
<1> QED BY <1>1, <1>3 DEF back_end_native_syscall_0

(* An integer constant. *)
LEMMA SetRegStraight ==
  ASSUME NEW reg, NEW imm PROVE Straight(risc_v_native_setreg32s(reg, imm))
<1>1. PICK up : up = IF imm % Fields >= Fields \div 2 THEN Int32(imm + Fields) ELSE imm
  OBVIOUS
<1>2. PICK a, b, c : /\ a = risc_v_i_op_internal("addi", reg, zero, imm) /\ b = risc_v_lui(reg, up)
                     /\ c = IF up % Fields = 0 THEN <<>> ELSE risc_v_i_op_internal("addi", reg, reg, up)
  OBVIOUS
<1>3. Straight(a) /\ Straight(b) /\ Straight(c)
  BY <1>2, StraightSmall, StraightOne, StraightNone DEF risc_v_lui
<1>4. Straight(b \o c)
  BY <1>3, StraightJoin
<1>5. risc_v_native_setreg32s(reg, imm) \in {a, b \o c}
  BY <1>1, <1>2 DEF risc_v_native_setreg32s
<1> QED BY <1>3, <1>4, <1>5

LEMMA ImmStraight ==
  ASSUME NEW l, NEW imm PROVE Straight(risc_v_i_op(l, "addi", t0, zero, imm).code)
<1>1. PICK t, half : t = allocate_register(l) /\ half = imm \div 2
  OBVIOUS
<1>2. PICK a, b, c, d, e :
        /\ a = risc_v_i_op_internal("addi", t0, zero, imm)
        /\ b = risc_v_i_op_internal("addi", t0, zero, half)
        /\ c = risc_v_i_op_internal("addi", t0, t0, imm - half)
        /\ d = risc_v_native_setreg32s(t, imm)
        /\ e = risc_v_r_op(risc_v_i_to_r("addi"), t0, zero, t)
  OBVIOUS
<1>3. Straight(a) /\ Straight(b) /\ Straight(c) /\ Straight(d)
  BY <1>2, StraightSmall, SetRegStraight
<1>4. Straight(e)
  <2>1. risc_v_i_to_r("addi") # "jal"
    BY DEF risc_v_i_to_r
  <2> QED BY <1>2, <2>1, StraightOne DEF risc_v_r_op
<1>5. Straight(b \o c) /\ Straight(d \o e) /\ Straight(<<>>)
  BY <1>3, <1>4, StraightJoin, StraightNone
<1>6. risc_v_i_op(l, "addi", t0, zero, imm).code \in {a, b \o c, d \o e, <<>>}
  BY <1>1, <1>2 DEF risc_v_i_op
<1> QED BY <1>3, <1>5, <1>6

(* A node: a constant or a call, and the move of a result. *)
LEMMA NodeCode ==
  ASSUME NEW e \in Expressions, NEW res, res = visit(e), res.how = "gen",
         NEW tail, Straight(tail), NEW c, c = res.code \o tail
  PROVE  /\ IsSeq(c)
         /\ \A i \in 1 .. Len(c) : c[i].op = "jal" =>
              /\ i = 1 /\ res.callee \in DOMAIN mapping_fn
              /\ c[i].imm = JalImm(call_off(res.callee))
<1>1. ASSUME Straight(res.code) PROVE IsSeq(c) /\ \A i \in 1 .. Len(c) : c[i].op # "jal"
  <2>1. Straight(c)
    BY <1>1, StraightJoin
  <2> QED BY <2>1 DEF Straight
<1>2. CASE e.kind = "imm"
  <2>1. res.code = risc_v_i_op(lru, "addi", t0, zero, e.v).code
    BY <1>2 DEF visit, visit_imm, Result
  <2>2. Straight(res.code)
    BY <2>1, ImmStraight
  <2> QED BY <1>1, <2>2
<1>3. CASE e.kind = "other"
  <2>1. res.code = <<>>
    BY <1>3 DEF visit, Result
  <2>2. Straight(res.code)
    BY <2>1, StraightNone
  <2> QED BY <1>1, <2>2
<1>4. CASE e.kind = "call"
  <2>1. PICK f : f = e.f
    OBVIOUS
  <2>2. res = visit_fn_call(f)
    BY <1>4, <2>1 DEF visit
  <2>3. f \in DOMAIN mapping_fn
    BY <2>2 DEF visit_fn_call, Result
  <2>4. res.callee = f /\ res.code = back_end_native_call(call_off(f))
    BY <2>2, <2>3 DEF visit_fn_call, Result
  <2>5. PICK off : off = call_off(f)
    OBVIOUS
  <2>6. PICK j : j = Instr("jal", ra, 0, 0, JalImm(off))
    OBVIOUS
  <2>7. res.code = <<j>>
    BY <2>4, <2>5, <2>6, JalIs DEF back_end_native_call
  <2>8. j.imm = JalImm(off)
    BY <2>6 DEF Instr
  <2>9. IsSeq(<<j>>) /\ Len(<<j>>) = 1 /\ <<j>>[1] = j
    <3>1. <<j>> \in Seq({j})
      OBVIOUS
    <3> QED BY <3>1 DEF IsSeq
  <2>10. PICK b : b = <<j>>
    OBVIOUS
  <2>11. IsSeq(tail)
    BY DEF Straight
  <2>12. /\ IsSeq(c) /\ Len(tail) \in Nat /\ Len(c) = 1 + Len(tail) /\ c[1] = j
         /\ \A i \in 1 .. Len(tail) : c[1 + i] = tail[i]
    <3>1. /\ IsSeq(b \o tail) /\ Len(tail) \in Nat /\ Len(b \o tail) = Len(b) + Len(tail)
          /\ \A i \in 1 .. Len(b) : (b \o tail)[i] = b[i]
          /\ \A i \in 1 .. Len(tail) : (b \o tail)[Len(b) + i] = tail[i]
      BY <2>9, <2>10, <2>11, SeqJoin
    <3>2. c = b \o tail /\ Len(b) = 1 /\ 1 \in 1 .. 1 /\ b[1] = j
      BY <2>7, <2>9, <2>10
    <3> QED BY <3>1, <3>2
  <2>13. ASSUME NEW i \in 1 .. Len(c), c[i].op = "jal" PROVE i = 1
    <3>1. CASE i > 1
      <4>1. PICK n \in Nat : n = Len(tail) /\ i \in 1 .. n + 1
        BY <2>12
      <4>2. PICK k \in 1 .. n : i = 1 + k
        <5>1. i - 1 \in 1 .. n /\ i = 1 + (i - 1)
          BY <3>1, <4>1
        <5> QED BY <5>1
      <4>3. c[i] = tail[k] /\ tail[k].op # "jal"
        BY <2>12, <4>1, <4>2 DEF Straight
      <4> QED BY <2>13, <4>3
    <3> QED BY <2>12, <3>1
  <2>14. ASSUME NEW i \in 1 .. Len(c), c[i].op = "jal"
         PROVE  i = 1 /\ res.callee \in DOMAIN mapping_fn /\ c[i].imm = JalImm(call_off(res.callee))
    <3>1. i = 1
      BY <2>13, <2>14
    <3>2. res.callee = f /\ c[i].imm = JalImm(off)
      BY <2>4, <2>8, <2>12, <3>1
    <3> QED BY <2>3, <2>5, <3>1, <3>2, Zenon
  <2> QED BY <2>12, <2>14
<1> QED BY <1>1, <1>2, <1>3, <1>4 DEF Expressions

LEMMA NodeKeeps ==
  ASSUME UnitInv, NEW e \in Expressions, visit_store(e) \/ visit_ret(e)
  PROVE  UnitInv'
<1>1. PICK tail, failed :
        EmitNode(visit(e), tail, failed) /\ Straight(tail)
  <2>1. CASE visit_store(e)
    BY <2>1, StraightNone DEF visit_store
  <2>2. CASE visit_ret(e)
    BY <2>2, StraightSmall DEF visit_ret
  <2> QED BY <2>1, <2>2
<1>2. phase = "gen" /\ fn # "none"
  BY DEF visit_store, visit_ret, InFunction
<1>3. unit' = unit /\ fn' = fn /\ UNCHANGED <<symtab, mapping_fn, main_emitted>>
  BY <1>1 DEF EmitNode
<1>4. PICK res : res = visit(e)
  OBVIOUS
<1>5. ASSUME unit = 1, phase' \in {"gen", "emit"} PROVE AddrInv'
  <2>1. AddrInv
    BY <1>2, <1>5 DEF UnitInv
  <2>2. phase' = "gen" /\ res.how = "gen" /\ ~failed
    <3>1. phase' = IF res.how # "gen" THEN res.how ELSE IF failed THEN "crash" ELSE "gen"
      BY <1>1, <1>4 DEF EmitNode
    <3>2. res.how # "emit"
      BY <1>4 DEF visit, visit_imm, visit_fn_call, Result, Expressions
    <3> QED BY <1>5, <3>1, <3>2
  <2>3. PICK c : c = res.code \o tail
    OBVIOUS
  <2>4. put(Tag(c, fn, ~\E i \in DOMAIN text : text[i].fn = fn, res.callee))
    BY <1>1, <1>4, <2>2, <2>3, Zenon DEF EmitNode
  <2>5. /\ IsSeq(c)
        /\ \A i \in 1 .. Len(c) : c[i].op = "jal" =>
             /\ i = 1 /\ res.callee \in DOMAIN mapping_fn
             /\ c[i].imm = JalImm(call_off(res.callee))
    BY <1>1, <1>4, <2>2, <2>3, NodeCode
  <2>6. fn \in DOMAIN mapping_fn
    BY <1>2, <2>1 DEF AddrInv, NameInv
  <2> QED BY <1>3, <2>1, <2>2, <2>4, <2>5, <2>6, Adding
<1> QED BY <1>3, <1>5 DEF UnitInv

LEMMA EndKeeps ==
  ASSUME UnitInv, visit_fn_end PROVE UnitInv'
<1>1. /\ phase = "gen" /\ phase' = phase /\ unit' = unit /\ fn # "none" /\ fn' = "none"
      /\ UNCHANGED <<symtab, mapping_fn, main_emitted>>
  BY DEF visit_fn_end
<1>2. PICK c : c = IF fn = "main" THEN back_end_native_syscall_0(93)
                   ELSE back_end_native_epilogue(0) \o back_end_native_ret
  OBVIOUS
<1>3. Straight(c) /\ Len(c) > 0
  BY <1>2, ExitStraight, EpilogueStraight
<1>4. put(Tag(c, fn, ~\E i \in DOMAIN text : text[i].fn = fn, "none"))
  BY <1>2, Zenon DEF visit_fn_end
<1>5. ASSUME unit = 1 PROVE AddrInv'
  <2>1. AddrInv
    BY <1>1, <1>5 DEF UnitInv
  <2>2. fn \in DOMAIN mapping_fn
    BY <1>1, <2>1 DEF AddrInv, NameInv
  <2>3. /\ IsSeq(c)
        /\ \A i \in 1 .. Len(c) : c[i].op = "jal" =>
             i = 1 /\ "none" \in DOMAIN mapping_fn /\ c[i].imm = JalImm(call_off("none"))
    BY <1>3 DEF Straight
  <2> QED BY <1>1, <1>3, <1>4, <2>1, <2>2, <2>3, Adding
<1> QED BY <1>1, <1>5 DEF UnitInv

(* A new name in mapping_fn. *)
LEMMA MappedIs ==
  ASSUME NEW f, f \notin DOMAIN mapping_fn, NEW off, mapping_fn' = Mapped(f, off)
  PROVE  /\ DOMAIN mapping_fn' = DOMAIN mapping_fn \union {f} /\ mapping_fn'[f] = off
         /\ \A g \in DOMAIN mapping_fn : mapping_fn'[g] = mapping_fn[g] /\ g # f
BY DEF Mapped

LEMMA SymbolAdded ==
  ASSUME SymbolInv, NEW f, NEW off, f \notin DOMAIN mapping_fn, mapping_fn' = Mapped(f, off),
         symtab' = Append(symtab, [name |-> f, off |-> off])
  PROVE  SymbolInv'
<1>1. /\ DOMAIN mapping_fn' = DOMAIN mapping_fn \union {f} /\ mapping_fn'[f] = off
      /\ \A g \in DOMAIN mapping_fn : mapping_fn'[g] = mapping_fn[g]
  BY MappedIs
<1>2. PICK S : symtab \in Seq(S)
  BY DEF SymbolInv, IsSeq
<1>3. PICK x : x = [name |-> f, off |-> off]
  OBVIOUS
<1>4. PICK T : symtab \in Seq(T) /\ x \in T
  <2>1. symtab \in Seq(S \union {x}) /\ x \in S \union {x}
    BY <1>2
  <2> QED BY <2>1
<1>5. /\ symtab' \in Seq(T) /\ Len(symtab') = Len(symtab) + 1 /\ Len(symtab) \in Nat
      /\ symtab'[Len(symtab) + 1] = x
      /\ \A k \in 1 .. Len(symtab) : symtab'[k] = symtab[k]
  BY <1>3, <1>4
<1>6. ASSUME NEW k \in 1 .. Len(symtab')
      PROVE  \/ symtab'[k].name = "_start" /\ symtab'[k].off = 0
             \/ symtab'[k].name \in DOMAIN mapping_fn' /\ symtab'[k].off = mapping_fn'[symtab'[k].name]
  <2>1. CASE k \in 1 .. Len(symtab)
    BY <1>1, <1>5, <2>1 DEF SymbolInv
  <2>2. CASE k = Len(symtab) + 1
    <3>1. symtab'[k] = x /\ x.name = f /\ x.off = off
      BY <1>3, <1>5, <2>2
    <3> QED BY <1>1, <3>1
  <2> QED BY <1>5, <2>1, <2>2
<1> QED BY <1>5, <1>6 DEF SymbolInv, IsSeq

(* A function other than main begins. *)
LEMMA UsualKeeps ==
  ASSUME UnitInv, NEW f \in Names, visit_fn_usual(f) PROVE UnitInv'
<1>1. /\ phase = "gen" /\ phase' = phase /\ unit' = unit /\ fn = "none" /\ fn' = f /\ f # "main"
      /\ f \notin DOMAIN mapping_fn /\ main_emitted' = main_emitted
      /\ symtab' = Append(symtab, [name |-> f, off |-> usual_off])
      /\ mapping_fn' = Mapped(f, usual_off)
  BY DEF visit_fn_usual
<1>2. PICK c : c = back_end_native_prologue(0)
  OBVIOUS
<1>3. Straight(c) /\ Len(c) > 0 /\ IsSeq(c)
  BY <1>2, PrologueStraight DEF Straight
<1>0. put(Tag(c, f, TRUE, "none"))
  BY <1>2 DEF visit_fn_usual
<1>4. PICK h : h = TRUE
  OBVIOUS
<1>a. put(Tag(c, f, h, "none"))
  BY <1>0, <1>4, Zenon
<1>5. SUFFICES ASSUME unit = 1 PROVE AddrInv'
  BY <1>1 DEF UnitInv
<1>6. TextInv /\ NameInv /\ SymbolInv /\ JumpInv
  BY <1>1, <1>5 DEF UnitInv, AddrInv
<1>7. /\ IsSeq(text') /\ Size \in Nat /\ Len(c) \in Nat
      /\ Size' = Size + Len(c) /\ text_seek' = 4 * Size'
      /\ \A i \in 1 .. Size : text'[i] = text[i]
      /\ \A i \in 1 .. Len(c) : /\ text'[Size + i].op = c[i].op /\ text'[Size + i].imm = c[i].imm
                                /\ text'[Size + i].fn = f /\ text'[Size + i].callee = "none"
                                /\ text'[Size + i].head = (h /\ i = 1)
  BY <1>3, <1>6, <1>a, PutIs
<1>8. /\ DOMAIN mapping_fn' = DOMAIN mapping_fn \union {f} /\ mapping_fn'[f] = usual_off
      /\ \A g \in DOMAIN mapping_fn : mapping_fn'[g] = mapping_fn[g] /\ g # f
  BY <1>1, MappedIs
<1>9. shift' = shift /\ shift \in Int /\ usual_off = 4 * Size + shift
  <2>1. text_seek = 4 * Size
    BY <1>6 DEF TextInv
  <2> QED BY <1>1, <1>7, <2>1 DEF shift, usual_off, _start_size
<1>10. f # "_start" /\ f # "none"
  BY NamesAssumption
<1>11. ASSUME NEW j \in 1 .. Size' PROVE j \in 1 .. Size \/ \E i \in 1 .. Len(c) : j = Size + i
  <2>1. CASE j > Size
    <3>1. j - Size \in 1 .. Len(c) /\ j = Size + (j - Size)
      BY <1>7, <1>11, <2>1
    <3> QED BY <3>1
  <2> QED BY <1>7, <1>11, <2>1
<1>12. TextInv'
  <2>1. ASSUME NEW j \in 1 .. Size'
        PROVE  /\ text'[j].fn \in DOMAIN mapping_fn' \union {"_start"}
               /\ text'[j].fn = "_start" <=> (main_emitted /\ j = 1)
    <3>1. CASE j \in 1 .. Size
      BY <1>6, <1>7, <1>8, <3>1 DEF TextInv
    <3>2. ASSUME NEW i \in 1 .. Len(c), j = Size + i PROVE <2>1!2
      <4>1. text'[j].fn = f
        BY <1>7, <3>2
      <4>2. ~(main_emitted /\ j = 1)
        BY <1>6, <1>7, <3>2 DEF TextInv
      <4> QED BY <1>8, <1>10, <4>1, <4>2
    <3> QED BY <1>11, <3>1, <3>2
  <2>2. main_emitted => Size' > 0 /\ text'[1].head
    <3> SUFFICES ASSUME main_emitted PROVE Size' > 0 /\ text'[1].head
      OBVIOUS
    <3>1. Size > 0 /\ text[1].head /\ 1 \in 1 .. Size
      BY <1>6, <1>7 DEF TextInv
    <3>2. text'[1] = text[1]
      BY <1>7, <3>1
    <3>3. Size' > 0
      BY <1>7, <3>1
    <3> QED BY <3>1, <3>2, <3>3
  <2> QED BY <1>1, <1>7, <2>1, <2>2 DEF TextInv
<1>13. ASSUME NEW g \in DOMAIN mapping_fn PROVE Settled(g)'
  <2>1. Settled(g)
    BY <1>1, <1>6 DEF NameInv, Pending
  <2>2. PICK i \in 1 .. Size : /\ Heads(g, i) /\ 4 * (i - 1) + shift = mapping_fn[g]
                               /\ \A j \in 1 .. Size : Heads(g, j) => j = i
    BY <2>1 DEF Settled
  <2>3. i \in 1 .. Size' /\ text'[i] = text[i]
    BY <1>7
  <2>4. ASSUME NEW j \in 1 .. Size', text'[j].fn = g, text'[j].head PROVE j = i
    <3>1. CASE j \in 1 .. Size
      BY <1>7, <2>2, <2>4, <3>1 DEF Heads
    <3>2. ASSUME NEW k \in 1 .. Len(c), j = Size + k PROVE FALSE
      BY <1>7, <1>8, <2>4, <3>2
    <3> QED BY <1>11, <3>1, <3>2
  <2> QED BY <1>8, <1>9, <2>2, <2>3, <2>4 DEF Settled, Heads
<1>14. Settled(f)'
  <2>1. PICK i \in 1 .. Size' : i = Size + 1
    BY <1>3, <1>7
  <2>2. 1 \in 1 .. Len(c)
    BY <1>3, <1>7
  <2>3. text'[i].fn = f /\ text'[i].head
    BY <1>4, <1>7, <2>1, <2>2, Zenon
  <2>4. 4 * (i - 1) + shift' = mapping_fn'[f]
    BY <1>7, <1>8, <1>9, <2>1
  <2>5. ASSUME NEW j \in 1 .. Size', text'[j].fn = f, text'[j].head PROVE j = i
    <3>1. j \notin 1 .. Size
      BY <1>1, <1>6, <1>7, <1>10, <2>5 DEF TextInv
    <3>2. PICK k \in 1 .. Len(c) : j = Size + k
      BY <1>11, <3>1
    <3>3. text'[j].head = (h /\ k = 1)
      BY <1>7, <3>2, Zenon
    <3>4. k = 1
      BY <2>5, <3>3, Zenon
    <3> QED BY <2>1, <3>2, <3>4
  <2> QED BY <2>1, <2>3, <2>4, <2>5 DEF Settled, Heads
<1>15. NameInv'
  <2>1. mapping_fn'[f] \in Int /\ \A g \in DOMAIN mapping_fn : mapping_fn'[g] \in Int
    BY <1>6, <1>7, <1>8, <1>9 DEF NameInv
  <2>2. \A g \in DOMAIN mapping_fn' : mapping_fn'[g] \in Int /\ Settled(g)'
    BY <1>8, <1>13, <1>14, <2>1
  <2> QED BY <1>1, <1>6, <1>8, <2>2 DEF NameInv
<1>16. SymbolInv'
  BY <1>1, <1>6, SymbolAdded
<1>17. JumpInv'
  <2> SUFFICES ASSUME NEW j \in 1 .. Size', text'[j].op = "jal"
               PROVE  /\ text'[j].callee \in DOMAIN mapping_fn'
                      /\ InReach' => Lands(j)'
    BY DEF JumpInv
  <2>1. InReach' => InReach
    BY <1>7, SMT DEF InReach
  <2>2. j \in 1 .. Size
    <3>1. ASSUME NEW k \in 1 .. Len(c), j = Size + k PROVE FALSE
      BY <1>3, <1>7, <3>1 DEF Straight
    <3> QED BY <1>11, <3>1
  <2>3. text'[j] = text[j] /\ text[j].callee \in DOMAIN mapping_fn /\ (InReach => Lands(j))
    BY <1>6, <1>7, <2>2 DEF JumpInv
  <2> QED BY <1>8, <1>9, <2>1, <2>3 DEF Lands
<1> QED BY <1>12, <1>15, <1>16, <1>17 DEF AddrInv

(* main begins: _start is put before everything else. *)
LEMMA MainKeeps ==
  ASSUME UnitInv, visit_fn_main PROVE UnitInv'
<1>1. /\ phase = "gen" /\ phase' = phase /\ unit' = unit /\ fn = "none" /\ fn' = "main"
      /\ "main" \notin DOMAIN mapping_fn /\ main_emitted' = TRUE
      /\ symtab' = Append(symtab, [name |-> "main", off |-> main_seek])
      /\ mapping_fn' = Mapped("main", main_seek)
      /\ text_seek' = text_seek + 4
  BY DEF visit_fn_main, _start_size
<1>2. SUFFICES ASSUME unit = 1 PROVE AddrInv'
  BY <1>1 DEF UnitInv
<1>3. TextInv /\ NameInv /\ SymbolInv /\ JumpInv
  BY <1>1, <1>2 DEF UnitInv, AddrInv
<1>4. PICK j : j = Instr("jal", ra, 0, 0, JalImm(main_seek))
  OBVIOUS
<1>5. PICK c, h : c = <<j>> /\ h = TRUE
  OBVIOUS
<1>6. IsSeq(c) /\ Len(c) = 1 /\ c[1] = j /\ j.op = "jal" /\ j.imm = JalImm(main_seek)
  <2>1. <<j>> \in Seq({j})
    OBVIOUS
  <2>2. j.op = "jal" /\ j.imm = JalImm(main_seek)
    BY <1>4 DEF Instr
  <2> QED BY <1>5, <2>1, <2>2 DEF IsSeq
<1>7. PICK t : t = Tag(c, "_start", h, "main")
  OBVIOUS
<1>8. text' = Inserted(text, 0, t)
  <2>1. back_end_native_call(main_seek) = c
    BY <1>4, <1>5, JalIs DEF back_end_native_call
  <2>2. text' = MainInserted(Tag(back_end_native_call(main_seek), "_start", TRUE, "main"))
    BY DEF visit_fn_main
  <2> QED BY <1>5, <1>7, <2>1, <2>2, Zenon DEF MainInserted
<1>9. /\ IsSeq(t) /\ Len(t) = Len(c) /\ Len(c) \in Nat
      /\ \A i \in 1 .. Len(c) : /\ t[i].op = c[i].op /\ t[i].imm = c[i].imm
                                /\ t[i].fn = "_start" /\ t[i].callee = "main"
                                /\ t[i].head = (h /\ i = 1)
  BY <1>6, <1>7, TagIs
<1>10. PICK x : x = t[1]
  OBVIOUS
<1>11. /\ x.op = "jal" /\ x.imm = JalImm(main_seek) /\ x.fn = "_start" /\ x.callee = "main"
       /\ x.head
  <2>1. 1 \in 1 .. Len(c)
    BY <1>6
  <2>2. x.head = (h /\ 1 = 1)
    BY <1>9, <1>10, <2>1, Zenon
  <2>3. x.head
    BY <1>5, <2>2, Zenon
  <2> QED BY <1>6, <1>9, <1>10, <2>1, <2>3
<1>12. /\ IsSeq(text') /\ Size \in Nat /\ Size' = Size + 1 /\ text'[1] = x
       /\ \A i \in 1 .. Size : text'[1 + i] = text[i]
  <2>1. IsSeq(text)
    BY <1>3 DEF TextInv
  <2>2. text' = <<>> \o t \o text
    BY <1>8, <2>1, PutAtStart
  <2>3. <<>> \o t = t
    BY <1>9 DEF IsSeq
  <2>4. text' = t \o text
    BY <2>2, <2>3
  <2>5. Len(t) = 1 /\ 1 \in 1 .. 1
    BY <1>6, <1>9
  <2>6. /\ IsSeq(t \o text) /\ Len(text) \in Nat /\ Len(t \o text) = Len(t) + Len(text)
        /\ \A i \in 1 .. Len(t) : (t \o text)[i] = t[i]
        /\ \A i \in 1 .. Len(text) : (t \o text)[Len(t) + i] = text[i]
    BY <1>9, <2>1, SeqJoin
  <2> QED BY <1>10, <2>4, <2>5, <2>6 DEF Size
<1>13. /\ DOMAIN mapping_fn' = DOMAIN mapping_fn \union {"main"} /\ mapping_fn'["main"] = main_seek
       /\ \A g \in DOMAIN mapping_fn : mapping_fn'[g] = mapping_fn[g] /\ g # "main"
  BY <1>1, MappedIs
<1>14. ~main_emitted /\ shift = 4 /\ shift' = 0 /\ main_seek = 4 * Size' /\ main_seek \in Int
       /\ text_seek = 4 * Size
  <2>1. ~main_emitted
    BY <1>1, <1>3 DEF NameInv
  <2>2. text_seek = 4 * Size
    BY <1>3 DEF TextInv
  <2> QED BY <1>1, <1>12, <2>1, <2>2 DEF shift, main_seek, _start_size
<1>15. ASSUME NEW k \in 1 .. Size', k # 1 PROVE \E i \in 1 .. Size : k = 1 + i
  <2>1. k - 1 \in 1 .. Size /\ k = 1 + (k - 1)
    BY <1>12, <1>15
  <2> QED BY <2>1
<1>16. "main" # "_start" /\ "main" \in Names /\ "_start" \notin DOMAIN mapping_fn
  BY <1>3, NamesAssumption DEF NameInv
<1>17. \A i \in 1 .. Size : text[i].fn \in DOMAIN mapping_fn
  BY <1>3, <1>14 DEF TextInv
<1>18. TextInv'
  <2>1. ASSUME NEW k \in 1 .. Size'
        PROVE  /\ text'[k].fn \in DOMAIN mapping_fn' \union {"_start"}
               /\ text'[k].fn = "_start" <=> (main_emitted' /\ k = 1)
    <3>1. CASE k = 1
      BY <1>1, <1>11, <1>12, <3>1
    <3>2. CASE k # 1
      <4>1. PICK i \in 1 .. Size : k = 1 + i
        BY <1>15, <3>2
      <4> QED BY <1>12, <1>13, <1>16, <1>17, <3>2, <4>1
    <3> QED BY <3>1, <3>2
  <2>2. Size' > 0 /\ text'[1].head
    <3>1. Size' > 0
      BY <1>12
    <3> QED BY <1>11, <1>12, <3>1
  <2>3. text_seek' = 4 * Size'
    BY <1>1, <1>12, <1>14
  <2> QED BY <1>12, <2>1, <2>2, <2>3 DEF TextInv
<1>19. ASSUME NEW g \in DOMAIN mapping_fn PROVE Settled(g)'
  <2>1. Settled(g)
    BY <1>1, <1>3 DEF NameInv, Pending
  <2>2. PICK i \in 1 .. Size : /\ Heads(g, i) /\ 4 * (i - 1) + shift = mapping_fn[g]
                               /\ \A k \in 1 .. Size : Heads(g, k) => k = i
    BY <2>1 DEF Settled
  <2>3. PICK m \in 1 .. Size' : m = 1 + i
    BY <1>12
  <2>4. text'[m] = text[i] /\ 4 * (m - 1) + shift' = mapping_fn'[g]
    BY <1>12, <1>13, <1>14, <2>2, <2>3
  <2>5. ASSUME NEW k \in 1 .. Size', text'[k].fn = g, text'[k].head PROVE k = m
    <3>1. k # 1
      BY <1>11, <1>12, <1>16, <2>5
    <3>2. PICK n \in 1 .. Size : k = 1 + n
      BY <1>15, <3>1
    <3>3. Heads(g, n)
      BY <1>12, <2>5, <3>2 DEF Heads
    <3> QED BY <2>2, <2>3, <3>2, <3>3
  <2> QED BY <2>2, <2>3, <2>4, <2>5 DEF Settled, Heads
<1>20. Pending'
  <2>1. ASSUME NEW k \in 1 .. Size' PROVE text'[k].fn # "main"
    <3>1. CASE k = 1
      BY <1>11, <1>12, <1>16, <3>1
    <3>2. CASE k # 1
      <4>1. PICK i \in 1 .. Size : k = 1 + i
        BY <1>15, <3>2
      <4> QED BY <1>1, <1>12, <1>17, <4>1
    <3> QED BY <3>1, <3>2
  <2> QED BY <1>1, <1>13, <1>14, <2>1 DEF Pending
<1>21. NameInv'
  <2>1. ASSUME NEW g \in DOMAIN mapping_fn'
        PROVE  mapping_fn'[g] \in Int /\ (Settled(g)' \/ (g = "main" /\ Pending'))
    <3>1. CASE g = "main"
      BY <1>13, <1>14, <1>20, <3>1
    <3>2. CASE g # "main"
      BY <1>3, <1>13, <1>19, <3>2 DEF NameInv
    <3> QED BY <3>1, <3>2
  <2>2. DOMAIN mapping_fn' \subseteq Names
    BY <1>3, <1>13, <1>16 DEF NameInv
  <2> QED BY <1>1, <1>13, <2>1, <2>2 DEF NameInv
<1>22. SymbolInv'
  BY <1>1, <1>3, SymbolAdded
<1>23. JumpInv'
  <2> SUFFICES ASSUME NEW k \in 1 .. Size', text'[k].op = "jal"
               PROVE  /\ text'[k].callee \in DOMAIN mapping_fn'
                      /\ InReach' => Lands(k)'
    BY DEF JumpInv
  <2>1. InReach' => InReach
    BY <1>12, SMT DEF InReach
  <2>2. CASE k = 1
    <3>1. text'[k].callee = "main" /\ text'[k].imm = JalImm(main_seek)
      BY <1>11, <1>12, <2>2
    <3>2. ASSUME InReach' PROVE Lands(k)'
      <4>1. PICK d \in Int : d = Size' /\ Near(d)
        BY <1>12, <3>2, SMT DEF InReach, Near
      <4>2. text'[k].imm = 4 * d
        BY <1>14, <3>1, <4>1, JalField
      <4>3. 4 * (k - 1) + 4 * d = main_seek - shift'
        BY <1>14, <2>2, <4>1
      <4> QED BY <1>13, <3>1, <4>1, <4>2, <4>3 DEF Lands
    <3> QED BY <1>13, <3>1, <3>2
  <2>3. CASE k # 1
    <3>1. PICK i \in 1 .. Size : k = 1 + i
      BY <1>15, <2>3
    <3>2. /\ text'[k] = text[i] /\ text[i].callee \in DOMAIN mapping_fn
          /\ InReach => Lands(i)
      BY <1>3, <1>12, <3>1 DEF JumpInv
    <3>3. ASSUME InReach' PROVE Lands(k)'
      <4>1. PICK a, m \in Int : a = text[i].imm /\ m = mapping_fn[text[i].callee]
        BY <1>3, <2>1, <3>2, <3>3 DEF Lands, NameInv
      <4>2. 4 * (i - 1) + a = m - 4
        BY <1>14, <2>1, <3>2, <3>3, <4>1 DEF Lands
      <4>3. 4 * (k - 1) + a = m - 0
        BY <3>1, <4>1, <4>2
      <4> QED BY <1>13, <1>14, <3>2, <4>1, <4>3 DEF Lands
    <3> QED BY <1>13, <3>2, <3>3
  <2> QED BY <2>2, <2>3
<1> QED BY <1>18, <1>21, <1>22, <1>23 DEF AddrInv

LEMMA UnitStep == UnitInv /\ [Next]_vars => UnitInv'
<1> SUFFICES ASSUME UnitInv, [Next]_vars PROVE UnitInv'
  OBVIOUS
<1>1. ASSUME UNCHANGED <<text, text_seek, symtab, mapping_fn, main_emitted, unit, fn>>,
             phase' \in {"gen", "emit"} =>
               phase \in {"gen", "emit"} /\ (phase' = "emit" => fn = "none")
      PROVE  UnitInv'
  <2>1. ASSUME AddrInv, phase' = "emit" => fn = "none" PROVE AddrInv'
    BY <1>1, <2>1, SMT DEF AddrInv, TextInv, NameInv, SymbolInv, JumpInv, Settled, Pending,
                           Heads, Lands, shift, Size, InReach
  <2> QED BY <1>1, <2>1 DEF UnitInv
<1>2. CASE UNCHANGED vars
  <2>1. unit = 1 /\ phase = "emit" => fn = "none"
    BY DEF UnitInv, AddrInv, NameInv
  <2> QED BY <1>1, <1>2, <2>1 DEF vars, UnitInv
<1>3. CASE back_end_native_return \/ back_end_emit \/ PutOutside
  BY <1>1, <1>3 DEF back_end_native_return, back_end_emit, PutOutside
<1>4. ASSUME NEW op, NEW rds, NEW r, NEW imm, phase = "gen", fn = "none", back_end_native(op, rds, r, imm)
      PROVE  UnitInv'
  BY <1>1, <1>4 DEF back_end_native
<1>5. CASE back_end_init
  <2>1. unit' = unit + 1 /\ unit \in Nat \ {0}
    BY <1>5 DEF back_end_init, UnitInv
  <2>2. unit' \in Nat \ {0} /\ unit' # 1
    BY <2>1
  <2> QED BY <2>2 DEF UnitInv
<1> QED BY <1>2, <1>3, <1>4, <1>5, MainKeeps, UsualKeeps, EndKeeps, NodeKeeps DEF Next

(* emit.c and back_end.c while the first unit is generated: every function *)
(* begins where mapping_fn says, once _start is in place, and every call   *)
(* in reach leads there.                                                   *)
THEOREM AddressInvariance == Spec => []UnitInv
<1>1. Init => UnitInv
  <2> SUFFICES ASSUME Init PROVE UnitInv
    OBVIOUS
  <2>1. /\ text = <<>> /\ text_seek = 0 /\ symtab = <<[name |-> "_start", off |-> 0]>>
        /\ DOMAIN mapping_fn = {} /\ main_emitted = FALSE /\ fn = "none" /\ phase = "gen" /\ unit = 1
    BY DEF Init
  <2>2. IsSeq(text) /\ Size = 0
    BY <2>1, StraightNone DEF Straight, Size
  <2>3. TextInv /\ JumpInv
    BY <2>1, <2>2 DEF TextInv, JumpInv
  <2>4. NameInv
    BY <2>1 DEF NameInv
  <2>5. SymbolInv
    <3>1. PICK x : x = [name |-> "_start", off |-> 0]
      OBVIOUS
    <3>2. symtab \in Seq({x}) /\ Len(symtab) = 1 /\ symtab[1] = x
      BY <2>1, <3>1
    <3>3. x.name = "_start" /\ x.off = 0
      BY <3>1
    <3> QED BY <3>2, <3>3 DEF SymbolInv, IsSeq
  <2> QED BY <2>1, <2>3, <2>4, <2>5 DEF UnitInv, AddrInv
<1> QED BY <1>1, UnitStep, PTL DEF Spec

(* At the end of the unit every function has its first instruction where   *)
(* the table says.                                                         *)
LEMMA AddressIs ==
  ASSUME UnitInv, Emitted, NEW f \in DOMAIN mapping_fn
  PROVE  AddressOf(f) = mapping_fn[f] - shift
<1>1. TextInv /\ NameInv /\ fn = "none" /\ mapping_fn[f] \in Int
  BY DEF UnitInv, Emitted, AddrInv, NameInv
<1>2. Settled(f)
  BY <1>1 DEF NameInv, Pending
<1>3. PICK i \in 1 .. Size : /\ Heads(f, i) /\ 4 * (i - 1) + shift = mapping_fn[f]
                             /\ \A j \in 1 .. Size : Heads(f, j) => j = i
  BY <1>2 DEF Settled
<1>4. DOMAIN text = 1 .. Size
  BY <1>1 DEF TextInv, IsSeq, Size
<1>5. {j \in DOMAIN text : text[j].fn = f /\ text[j].head} = {i}
  BY <1>3, <1>4, Zenon DEF Heads
<1>6. AddressOf(f) = 4 * (i - 1)
  <2>1. (CHOOSE j \in {i} : TRUE) = i
    OBVIOUS
  <2> QED BY <1>5, <2>1, Zenon DEF AddressOf
<1>7. shift \in Int
  BY DEF shift, _start_size
<1> QED BY <1>1, <1>3, <1>6, <1>7

LEMMA StartAddress ==
  ASSUME UnitInv, Emitted, main_emitted PROVE AddressOf("_start") = 0
<1>1. TextInv
  BY DEF UnitInv, Emitted, AddrInv
<1>2. DOMAIN text = 1 .. Size /\ Size \in Nat
  BY <1>1 DEF TextInv, IsSeq, Size
<1>3. 1 \in 1 .. Size /\ text[1].head /\ \A i \in 1 .. Size : text[i].fn = "_start" <=> i = 1
  BY <1>1, <1>2 DEF TextInv
<1>4. {j \in DOMAIN text : text[j].fn = "_start" /\ text[j].head} = {1}
  <2>1. PICK i : i = 1
    OBVIOUS
  <2>2. text[i].fn = "_start" /\ text[i].head /\ i \in DOMAIN text
    BY <1>2, <1>3, <2>1, Zenon
  <2>3. \A j \in DOMAIN text : text[j].fn = "_start" => j = i
    BY <1>2, <1>3, <2>1, Zenon
  <2>4. {j \in DOMAIN text : text[j].fn = "_start" /\ text[j].head} = {i}
    BY <2>2, <2>3, Zenon
  <2> QED BY <2>1, <2>4, Zenon
<1>5. (CHOOSE j \in {1} : TRUE) = 1
  OBVIOUS
<1>6. AddressOf("_start") = 4 * (1 - 1)
  BY <1>4, <1>5, Zenon DEF AddressOf
<1> QED BY <1>6

(* visit_fn_call: in a text within the reach of jal, every call ends at    *)
(* the function it names, for any number of functions, in any order, with  *)
(* main anywhere among them or missing.                                    *)
THEOREM CallOffsets == Spec => [](InReach => CallsLand)
<1>1. UnitInv => (InReach => CallsLand)
  <2> SUFFICES ASSUME UnitInv, InReach, Emitted, NEW i \in DOMAIN text, text[i].op = "jal"
               PROVE  4 * (i - 1) + text[i].imm = AddressOf(text[i].callee)
    BY DEF CallsLand
  <2>1. TextInv /\ JumpInv
    BY DEF UnitInv, Emitted, AddrInv
  <2>2. i \in 1 .. Size
    BY <2>1 DEF TextInv, IsSeq, Size
  <2>3. text[i].callee \in DOMAIN mapping_fn /\ Lands(i)
    BY <2>1, <2>2 DEF JumpInv
  <2>4. AddressOf(text[i].callee) = mapping_fn[text[i].callee] - shift
    BY <2>3, AddressIs
  <2> QED BY <2>3, <2>4 DEF Lands
<1> QED BY <1>1, AddressInvariance, PTL

(* put_symbol: with main in the unit, the offset of every symbol is the    *)
(* address of its function, although the symbols of functions before main  *)
(* were recorded before _start was there.                                  *)
THEOREM SymbolOffsets == Spec => []SymbolsPoint
<1>1. UnitInv => SymbolsPoint
  <2> SUFFICES ASSUME UnitInv, Emitted, main_emitted, NEW k \in DOMAIN symtab
               PROVE  symtab[k].off = AddressOf(symtab[k].name)
    BY DEF SymbolsPoint
  <2>1. NameInv /\ SymbolInv
    BY DEF UnitInv, Emitted, AddrInv
  <2>2. k \in 1 .. Len(symtab)
    BY <2>1 DEF SymbolInv, IsSeq
  <2>3. CASE symtab[k].name = "_start" /\ symtab[k].off = 0
    BY <2>3, StartAddress
  <2>4. CASE symtab[k].name \in DOMAIN mapping_fn /\ symtab[k].off = mapping_fn[symtab[k].name]
    <3>1. PICK f \in DOMAIN mapping_fn : f = symtab[k].name
      BY <2>4
    <3>2. AddressOf(f) = mapping_fn[f] - shift /\ shift = 0 /\ mapping_fn[f] \in Int
      BY <2>1, AddressIs DEF shift, NameInv
    <3> QED BY <2>4, <3>1, <3>2
  <2> QED BY <2>1, <2>2, <2>3, <2>4 DEF SymbolInv
<1> QED BY <1>1, AddressInvariance, PTL

------------------------------------------------------------------------------
(* Immediate operations: what the code of risc_v_i_op does on the machine. *)

(* What at most three instructions do. *)
LEMMA RunIs ==
  ASSUME NEW R, NEW c, Len(c) \in 1 .. 3
  PROVE  /\ Len(c) = 1 => Run(R, c) = Exec(R, c[1])
         /\ Len(c) = 2 => Run(R, c) = Exec(Exec(R, c[1]), c[2])
         /\ Len(c) = 3 => Run(R, c) = Exec(Exec(Exec(R, c[1]), c[2]), c[3])
<1> DEFINE X1 == Exec(R, c[1])
           X2 == Exec(X1, c[2])
           X3 == Exec(X2, c[3])
           val(n) == IF n = 0 THEN R ELSE IF n = 1 THEN X1 ELSE IF n = 2 THEN X2 ELSE X3
           G == [n \in 0 .. Len(c) |-> val(n)]
           body(f) == [n \in 0 .. Len(c) |-> IF n = 0 THEN R ELSE Exec(f[n - 1], c[n])]
           F == CHOOSE f : f = body(f)
<1>1. Run(R, c) = F[Len(c)]
  BY DEF Run
<1>2. ASSUME NEW n \in 0 .. Len(c)
      PROVE  val(n) = IF n = 0 THEN R ELSE Exec(G[n - 1], c[n])
  <2>1. n \in {0, 1, 2, 3}
    OBVIOUS
  <2>2. CASE n = 0
    BY <2>2
  <2>3. CASE n = 1
    <3>1. G[0] = R
      OBVIOUS
    <3> QED BY <2>3, <3>1
  <2>4. CASE n = 2
    <3>1. 1 \in 0 .. Len(c)
      BY <2>4
    <3>2. G[1] = X1
      BY <3>1
    <3> HIDE DEF G
    <3> QED BY <2>4, <3>2
  <2>5. CASE n = 3
    <3>1. 2 \in 0 .. Len(c)
      BY <2>5
    <3>2. G[2] = X2
      BY <3>1
    <3> HIDE DEF G
    <3> QED BY <2>5, <3>2
  <2> QED BY <2>1, <2>2, <2>3, <2>4, <2>5
<1>3. G = body(G)
  BY <1>2
<1> HIDE DEF G
<1>4. F = body(F)
  BY <1>3, Zenon
<1> HIDE DEF F
<1>5. \A n \in 0 .. Len(c) : F[n] = IF n = 0 THEN R ELSE Exec(F[n - 1], c[n])
  BY <1>4, Zenon
<1>6. F[0] = R
  BY <1>5
<1>7. F[1] = X1
  <2>1. 1 \in 0 .. Len(c) /\ 1 # 0 /\ 1 - 1 = 0
    OBVIOUS
  <2> QED BY <1>5, <1>6, <2>1
<1>8. Len(c) > 1 => F[2] = X2
  <2> SUFFICES ASSUME Len(c) > 1 PROVE F[2] = X2
    OBVIOUS
  <2>1. 2 \in 0 .. Len(c) /\ 2 # 0 /\ 2 - 1 = 1
    OBVIOUS
  <2> QED BY <1>5, <1>7, <2>1
<1>9. Len(c) > 2 => F[3] = X3
  <2> SUFFICES ASSUME Len(c) > 2 PROVE F[3] = X3
    OBVIOUS
  <2>1. 3 \in 0 .. Len(c) /\ 3 # 0 /\ 3 - 1 = 2
    OBVIOUS
  <2> QED BY <1>5, <1>8, <2>1
<1>10. (Len(c) = 2 => Len(c) > 1) /\ (Len(c) = 3 => Len(c) > 2)
  OBVIOUS
<1> QED BY <1>1, <1>7, <1>8, <1>9, <1>10

(* The widths of RISC-V. *)
RealWidths == ImmBits = 12 /\ WordBits = 32

(* The numbers those widths give. *)
LEMMA Widths ==
  ASSUME RealWidths
  PROVE  /\ Fields = 4096 /\ Fields \div 2 = 2048
         /\ Words = 4294967296 /\ Words \div 2 = 2147483648
BY SMT DEF RealWidths, Fields, Words

ImmRange   == -2048 .. 2047
IsInt32(v) == v \in Int /\ -2147483648 <= v /\ v < 2147483648
PastEnd(v) == v \in Int /\ 2147483648 <= v /\ v < 2147483648 + 4096

(* What the immediate field of an instruction gives back. *)
LEMMA FieldIs ==
  ASSUME RealWidths, NEW v \in Int
  PROVE  /\ SignExtend(v % Fields, Fields) = SignExtend(v, Fields)
         /\ SignExtend(v, Fields) \in ImmRange
         /\ SignExtend(v, Fields) \in Int
         /\ v \in ImmRange => SignExtend(v, Fields) = v
         /\ risc_v_is_valid_imm(v) <=> v \in ImmRange
<1>1. Fields = 4096
  BY Widths, SMT
<1>2. SignExtend(v % Fields, Fields) = SignExtend(v, Fields)
  BY <1>1, SMT DEF SignExtend
<1>3. SignExtend(v, Fields) \in ImmRange /\ SignExtend(v, Fields) \in Int
  BY <1>1, SMT DEF SignExtend, ImmRange
<1>4. v \in ImmRange => SignExtend(v, Fields) = v
  BY <1>1, SMT DEF SignExtend, ImmRange
<1> QED BY <1>2, <1>3, <1>4, Zenon DEF risc_v_is_valid_imm

(* An upper part with a carry, and the field added to it. *)
LEMMA CarryIs ==
  ASSUME RealWidths, NEW v \in Int
  PROVE  /\ ~(v % Fields >= Fields \div 2) => v - (v % Fields) + SignExtend(v, Fields) = v
         /\ v % Fields >= Fields \div 2
              => (v + Fields) - ((v + Fields) % Fields) + SignExtend(v + Fields, Fields) = v
         /\ v % Fields = 0 => SignExtend(v, Fields) = 0
         /\ (v - SignExtend(v, Fields)) % Fields = 0
         /\ v % Fields \in 0 .. Fields - 1
<1>1. Fields = 4096
  BY Widths, SMT
<1>2. v % Fields >= Fields \div 2
        => (v + Fields) - ((v + Fields) % Fields) + SignExtend(v + Fields, Fields) = v
  BY <1>1, SMT DEF SignExtend
<1>3. ~(v % Fields >= Fields \div 2) => v - (v % Fields) + SignExtend(v, Fields) = v
  BY <1>1, SMT DEF SignExtend
<1>4. v % Fields = 0 => SignExtend(v, Fields) = 0
  BY <1>1, SMT DEF SignExtend
<1>5. (v - SignExtend(v, Fields)) % Fields = 0
  BY <1>1, SMT DEF SignExtend
<1>6. v % Fields \in 0 .. Fields - 1
  BY <1>1, SMT
<1> QED BY <1>2, <1>3, <1>4, <1>5, <1>6

(* The low bits of v - Words are those of v. *)
LEMMA WordAway ==
  ASSUME RealWidths, NEW v \in Int
  PROVE  /\ Words \in Int /\ (v - Words) - ((v - Words) % Fields) = v - (v % Fields) - Words
         /\ SignExtend(v - Words, Fields) = SignExtend(v, Fields)
<1>1. Fields = 4096 /\ Words = 4294967296
  BY Widths, SMT
<1>2. (v - Words) % Fields = v % Fields
  BY <1>1, SMT
<1>3. v % Fields \in Int
  BY <1>1, SMT
<1>4. (v - Words) - ((v - Words) % Fields) = v - (v % Fields) - Words
  BY <1>1, <1>2, <1>3, SMT
<1> QED BY <1>1, <1>2, <1>4, SMT DEF SignExtend

(* An int keeps what fits, and wraps once past its end. *)
LEMMA WordIs ==
  ASSUME RealWidths, NEW v \in Int
  PROVE  /\ IsInt32(v) => Int32(v) = v
         /\ PastEnd(v) => Int32(v) = v - Words
         /\ Int32(v - Words) = Int32(v)
<1>1. Words = 4294967296
  BY Widths, SMT
<1>2. IsInt32(v) /\ 0 <= v => Int32(v) = v
  BY <1>1, SMT DEF SignExtend, Int32, IsInt32
<1>3. IsInt32(v) /\ v < 0 => Int32(v) = v
  BY <1>1, SMT DEF SignExtend, Int32, IsInt32
<1>4. 0 <= v \/ v < 0
  BY SMT
<1>5. PastEnd(v) => Int32(v) = v - Words
  BY <1>1, SMT DEF SignExtend, Int32, PastEnd
<1>6. Int32(v - Words) = Int32(v)
  BY <1>1, SMT DEF SignExtend, Int32
<1> QED BY <1>2, <1>3, <1>4, <1>5, <1>6

(* Wrapping twice is wrapping once. *)
LEMMA Add32 ==
  ASSUME RealWidths, NEW a \in Int, NEW h \in Int, NEW g \in Int
  PROVE  Int32(a + h) \in Int /\ Int32(Int32(a + h) + g) = Int32(a + (h + g))
<1>1. Words = 4294967296
  BY Widths, SMT
<1> QED BY <1>1, SMT DEF SignExtend, Int32

Ops == {"addi", "addiw", "load"}

(* A register is written; register zero cannot be. *)
WriteReg(R, rd, v) == IF rd = zero THEN R ELSE [R EXCEPT ![rd] = v]

(* One instruction of each format. *)
LEMMA ImmExec ==
  ASSUME RealWidths, NEW R, NEW op \in Ops, NEW rd, NEW r, NEW v \in Int
  PROVE  Exec(R, Instr(op, rd, r, 0, v % Fields))
           = WriteReg(R, rd, Wanted(R, op, r, SignExtend(v, Fields)))
<1>1. SignExtend(v % Fields, Fields) = SignExtend(v, Fields)
  BY FieldIs
<1>2. PICK i : i = Instr(op, rd, r, 0, v % Fields)
  OBVIOUS
<1>3. i.op = op /\ i.rd = rd /\ i.r1 = r /\ i.imm = v % Fields
  BY <1>2 DEF Instr
<1> DEFINE Out == WriteReg(R, rd, Wanted(R, op, r, SignExtend(v, Fields)))
<1>4. op = "addi" => Exec(R, i) = Out
  BY <1>1, <1>3, Zenon DEF Exec, Wanted, WriteReg
<1>5. op = "addiw" => Exec(R, i) = Out
  BY <1>1, <1>3, Zenon DEF Exec, Wanted, WriteReg
<1>6. op = "load" => Exec(R, i) = Out
  BY <1>1, <1>3, Zenon DEF Exec, Wanted, WriteReg
<1> HIDE DEF Out
<1>7. Exec(R, i) = Out
  BY <1>4, <1>5, <1>6 DEF Ops
<1> QED BY <1>2, <1>7, Zenon DEF Out

(* Register operations and lui. *)
LEMMA RegExec ==
  ASSUME NEW R, NEW rd, NEW r, NEW q, NEW v
  PROVE  /\ Exec(R, Instr("add", rd, r, q, 0)) = WriteReg(R, rd, R[r] + R[q])
         /\ Exec(R, Instr("addw", rd, r, q, 0)) = WriteReg(R, rd, Int32(R[r] + R[q]))
         /\ Exec(R, Instr("lui", rd, 0, 0, v)) = WriteReg(R, rd, v)
<1>1. ASSUME NEW i, i.op = "add", i.rd = rd, i.r1 = r, i.r2 = q
      PROVE  Exec(R, i) = WriteReg(R, rd, R[r] + R[q])
  BY <1>1, Zenon DEF Exec, WriteReg
<1>2. ASSUME NEW i, i.op = "addw", i.rd = rd, i.r1 = r, i.r2 = q
      PROVE  Exec(R, i) = WriteReg(R, rd, Int32(R[r] + R[q]))
  BY <1>2, Zenon DEF Exec, WriteReg
<1>3. ASSUME NEW i, i.op = "lui", i.rd = rd, i.imm = v
      PROVE  Exec(R, i) = WriteReg(R, rd, v)
  BY <1>3, Zenon DEF Exec, WriteReg
<1>4. /\ Instr("add", rd, r, q, 0).op = "add" /\ Instr("add", rd, r, q, 0).rd = rd
      /\ Instr("add", rd, r, q, 0).r1 = r /\ Instr("add", rd, r, q, 0).r2 = q
  BY DEF Instr
<1>5. /\ Instr("addw", rd, r, q, 0).op = "addw" /\ Instr("addw", rd, r, q, 0).rd = rd
      /\ Instr("addw", rd, r, q, 0).r1 = r /\ Instr("addw", rd, r, q, 0).r2 = q
  BY DEF Instr
<1>6. /\ Instr("lui", rd, 0, 0, v).op = "lui" /\ Instr("lui", rd, 0, 0, v).rd = rd
      /\ Instr("lui", rd, 0, 0, v).imm = v
  BY DEF Instr
<1> QED BY <1>1, <1>2, <1>3, <1>4, <1>5, <1>6, Zenon

(* What a register holds after it or another one was written. *)
LEMMA WriteIs ==
  ASSUME NEW R, NEW rd \in DOMAIN R, NEW v
  PROVE  /\ DOMAIN WriteReg(R, rd, v) = DOMAIN R
         /\ rd # zero => WriteReg(R, rd, v)[rd] = v
         /\ \A q \in DOMAIN R : q # rd => WriteReg(R, rd, v)[q] = R[q]
BY DEF WriteReg

(* The registers before a call. *)
LEMMA RegsIs ==
  /\ DOMAIN R0 \subseteq Nat
  /\ Operands \subseteq DOMAIN R0 /\ FREE_REG_START .. FREE_REG_END \subseteq DOMAIN R0
  /\ \A q \in DOMAIN R0 : R0[q] \in Int
<1>1. DOMAIN R0 = {zero, ra, sp, t0, s0, a0, a7} \union Operands \union FREE_REG_START .. FREE_REG_END
  BY DEF R0
<1>2. \A q \in DOMAIN R0 : R0[q] = 1000 * q
  BY DEF R0
<1>3. FREE_REG_START .. FREE_REG_END \subseteq Nat
  BY LruAssumption
<1>4. {zero, ra, sp, t0, s0, a0, a7} \subseteq Nat
  BY DEF zero, ra, sp, t0, s0, a0, a7
<1>5. DOMAIN R0 \subseteq Nat
  BY <1>1, <1>3, <1>4, OperandsAssumption
<1>6. \A q \in Nat : 1000 * q \in Int
  OBVIOUS
<1> QED BY <1>1, <1>2, <1>5, <1>6

(* What the code of a call is to do. *)
Does(code, op, rds, r, imm, tmp) ==
  /\ rds # zero => Run(R0, code)[rds] = Wanted(R0, op, r, imm)
  /\ \A q \in DOMAIN R0 \ {rds, tmp} : Run(R0, code)[q] = R0[q]

(* An immediate that fits is one instruction. *)
LEMMA FitsDoes ==
  ASSUME RealWidths, NEW op \in Ops, NEW rds \in Operands, NEW r \in Operands,
         NEW imm \in ImmRange, NEW tmp
  PROVE  Does(risc_v_i_op_internal(op, rds, r, imm), op, rds, r, imm, tmp)
<1> DEFINE c == risc_v_i_op_internal(op, rds, r, imm)
<1>0. imm \in Int
  BY DEF ImmRange
<1>1. Len(c) = 1 /\ c[1] = Instr(op, rds, r, 0, imm % Fields)
  BY DEF risc_v_i_op_internal
<1>2. SignExtend(imm, Fields) = imm
  BY <1>0, FieldIs
<1> HIDE DEF c
<1>3. Run(R0, c) = Exec(R0, c[1])
  BY <1>1, RunIs
<1>4. Run(R0, c) = WriteReg(R0, rds, Wanted(R0, op, r, imm))
  BY <1>0, <1>1, <1>2, <1>3, ImmExec, Zenon
<1>5. rds \in DOMAIN R0
  BY RegsIs
<1>6. Does(c, op, rds, r, imm, tmp)
  <2>1. rds # zero => Run(R0, c)[rds] = Wanted(R0, op, r, imm)
    BY <1>4, <1>5, WriteIs
  <2>2. \A q \in DOMAIN R0 : q # rds => Run(R0, c)[q] = R0[q]
    BY <1>4, <1>5, WriteIs
  <2> QED BY <2>1, <2>2, Zenon DEF Does
<1> QED BY <1>6 DEF c

(* An immediate whose halves fit is added in two instructions. *)
LEMMA HalvesDo ==
  ASSUME RealWidths, NEW op \in {"addi", "addiw"}, NEW rds \in Operands, NEW r \in Operands,
         NEW imm \in Int, risc_v_is_valid_imm(imm \div 2), imm # Fields - 1, NEW tmp
  PROVE  Does(risc_v_i_op_internal(op, rds, r, imm \div 2)
                \o risc_v_i_op_internal(op, rds, rds, imm - imm \div 2), op, rds, r, imm, tmp)
<1>1. PICK h \in Int : h = imm \div 2 /\ (imm = 2 * h \/ imm = 2 * h + 1)
  OBVIOUS
<1>2. PICK g \in Int : g = imm - h
  OBVIOUS
<1>3. h \in ImmRange
  BY <1>1, FieldIs
<1>4. g \in ImmRange
  <2>1. Fields = 4096
    BY Widths, SMT
  <2> QED BY <1>1, <1>2, <1>3, <2>1, SMT DEF ImmRange
<1>5. SignExtend(h, Fields) = h /\ SignExtend(g, Fields) = g
  BY <1>3, <1>4, FieldIs
<1>6. PICK c : c = risc_v_i_op_internal(op, rds, r, h) \o risc_v_i_op_internal(op, rds, rds, g)
  OBVIOUS
<1>7. Len(c) = 2 /\ c[1] = Instr(op, rds, r, 0, h % Fields) /\ c[2] = Instr(op, rds, rds, 0, g % Fields)
  BY <1>6 DEF risc_v_i_op_internal
<1>8. Run(R0, c) = Exec(Exec(R0, c[1]), c[2])
  BY <1>7, RunIs
<1>9. op \in Ops
  BY DEF Ops
<1>10. PICK R1 : R1 = WriteReg(R0, rds, Wanted(R0, op, r, h))
  OBVIOUS
<1>11. Exec(R0, c[1]) = R1
  <2>1. Exec(R0, Instr(op, rds, r, 0, h % Fields))
          = WriteReg(R0, rds, Wanted(R0, op, r, SignExtend(h, Fields)))
    BY <1>9, ImmExec
  <2> QED BY <1>5, <1>7, <1>10, <2>1, Zenon
<1>12. Run(R0, c) = WriteReg(R1, rds, Wanted(R1, op, rds, g))
  <2>1. Exec(R1, Instr(op, rds, rds, 0, g % Fields))
          = WriteReg(R1, rds, Wanted(R1, op, rds, SignExtend(g, Fields)))
    BY <1>9, ImmExec
  <2> QED BY <1>5, <1>7, <1>8, <1>11, <2>1, Zenon
<1>13. rds \in DOMAIN R0 /\ DOMAIN R1 = DOMAIN R0 /\ R0[r] \in Int
  BY <1>10, RegsIs, WriteIs
<1>14. rds # zero => Wanted(R1, op, rds, g) = Wanted(R0, op, r, imm)
  <2> SUFFICES ASSUME rds # zero PROVE Wanted(R1, op, rds, g) = Wanted(R0, op, r, imm)
    OBVIOUS
  <2>1. R1[rds] = Wanted(R0, op, r, h)
    BY <1>10, <1>13, WriteIs
  <2>2. imm = h + g
    BY <1>2
  <2>3. CASE op = "addi"
    <3>1. Wanted(R0, op, r, h) = R0[r] + h /\ Wanted(R0, op, r, imm) = R0[r] + imm
      BY <2>3, Zenon DEF Wanted
    <3>2. Wanted(R1, op, rds, g) = R1[rds] + g
      BY <2>3, Zenon DEF Wanted
    <3> QED BY <1>13, <2>1, <2>2, <3>1, <3>2
  <2>4. CASE op = "addiw"
    <3>1. Wanted(R0, op, r, h) = Int32(R0[r] + h) /\ Wanted(R0, op, r, imm) = Int32(R0[r] + imm)
      BY <2>4, Zenon DEF Wanted
    <3>2. Wanted(R1, op, rds, g) = Int32(R1[rds] + g)
      BY <2>4, Zenon DEF Wanted
    <3>3. Int32(Int32(R0[r] + h) + g) = Int32(R0[r] + (h + g))
      BY <1>13, Add32
    <3> QED BY <2>1, <2>2, <3>1, <3>2, <3>3, Zenon
  <2> QED BY <2>3, <2>4
<1>15. \A q \in DOMAIN R0 : q # rds => Run(R0, c)[q] = R0[q]
  BY <1>10, <1>12, <1>13, WriteIs
<1>16. rds # zero => Run(R0, c)[rds] = Wanted(R0, op, r, imm)
  BY <1>12, <1>13, <1>14, WriteIs
<1>17. Does(c, op, rds, r, imm, tmp)
  BY <1>15, <1>16, Zenon DEF Does
<1> QED BY <1>1, <1>2, <1>6, <1>17, Zenon

(* The word risc_v_native_setreg32s puts in the upper part. *)
Upper(imm) == IF imm % Fields >= Fields \div 2 THEN Int32(imm + Fields) ELSE imm
Built(u)   == u - (u % Fields) + SignExtend(u, Fields)

(* The two parts make the immediate, or, where the carry runs over the     *)
(* end of an int, an immediate one word too small.                         *)
LEMMA BuiltIs ==
  ASSUME RealWidths, NEW imm, IsInt32(imm)
  PROVE  /\ Upper(imm) \in Int
         /\ \/ Built(Upper(imm)) = imm
            \/ imm >= Words \div 2 - Fields \div 2 /\ Built(Upper(imm)) = imm - Words
<1>0. imm \in Int
  BY DEF IsInt32
<1>1. CASE ~(imm % Fields >= Fields \div 2)
  BY <1>0, <1>1, CarryIs DEF Upper, Built
<1>2. CASE imm % Fields >= Fields \div 2
  <2>1. Fields \in Int /\ Fields = 4096
    BY Widths, SMT
  <2>2. PICK v \in Int : v = imm + Fields
    BY <1>0, <2>1
  <2>3. Built(v) = imm
    BY <1>0, <1>2, <2>2, CarryIs DEF Built
  <2>4. Upper(imm) = Int32(v)
    BY <1>2, <2>2 DEF Upper
  <2>5. CASE IsInt32(v)
    BY <2>3, <2>4, <2>5, WordIs
  <2>6. CASE ~IsInt32(v)
    <3>1. PastEnd(v) /\ imm >= 2147483648 - 4096
      BY <2>1, <2>2, <2>6, SMT DEF IsInt32, PastEnd
    <3>2. imm >= Words \div 2 - Fields \div 2
      <4>1. imm % 4096 >= 2048
        BY <1>2, <2>1, Widths, SMT
      <4>2. imm >= 2147483648 - 2048
        BY <1>0, <3>1, <4>1, SMT
      <4> QED BY <4>2, Widths, SMT
    <3>3. Upper(imm) = v - Words
      BY <2>4, <3>1, WordIs
    <3>4. Built(v - Words) = Built(v) - Words
      <4>1. PICK a \in Int, b \in Int : a = v - (v % Fields) /\ b = SignExtend(v, Fields)
        <5>1. v % Fields \in Int
          BY <2>1, SMT
        <5> QED BY <5>1, FieldIs
      <4>2. (v - Words) - ((v - Words) % Fields) = a - Words /\ Words \in Int
        BY <4>1, WordAway
      <4>3. SignExtend(v - Words, Fields) = b
        BY <4>1, WordAway
      <4>4. Built(v) = a + b /\ Built(v - Words) = (a - Words) + b
        BY <4>1, <4>2, <4>3 DEF Built
      <4> QED BY <4>1, <4>2, <4>4
    <3>5. v - Words \in Int
      BY WordAway
    <3> QED BY <2>3, <3>2, <3>3, <3>4, <3>5
  <2> QED BY <2>5, <2>6
<1> QED BY <1>1, <1>2

(* Two and three instructions in a row. *)
Two(a, b)      == <<a>> \o <<b>>
Three(a, b, d) == (<<a>> \o <<b>>) \o <<d>>

LEMMA InARow ==
  ASSUME NEW a, NEW b, NEW d
  PROVE  /\ Len(Two(a, b)) = 2 /\ Two(a, b)[1] = a /\ Two(a, b)[2] = b
         /\ Len(Three(a, b, d)) = 3
         /\ Three(a, b, d)[1] = a /\ Three(a, b, d)[2] = b /\ Three(a, b, d)[3] = d
BY DEF Two, Three

(* After risc_v_native_setreg32s the borrowed register holds that value,   *)
(* and the register operation has the effect of the immediate one.         *)
LEMMA BorrowDoes ==
  ASSUME RealWidths, NEW op \in {"addi", "addiw"}, NEW rds \in Operands, NEW r \in Operands,
         NEW imm, IsInt32(imm), ~risc_v_is_valid_imm(imm),
         NEW tmp \in FREE_REG_START .. FREE_REG_END, tmp # r,
         op # "addiw" => ~(imm >= Words \div 2 - Fields \div 2)
  PROVE  Does(risc_v_native_setreg32s(tmp, imm)
                \o risc_v_r_op(risc_v_i_to_r(op), rds, r, tmp), op, rds, r, imm, tmp)
<1> DEFINE u == Upper(imm)
           lui == Instr("lui", tmp, 0, 0, u - (u % Fields))
           low == Instr("addi", tmp, tmp, 0, u % Fields)
           fin == Instr(risc_v_i_to_r(op), rds, r, tmp, 0)
<1>1. u \in Int /\ u % Fields \in Int /\ u - (u % Fields) \in Int /\ SignExtend(u, Fields) \in Int
  <2>1. u \in Int
    BY BuiltIs
  <2>2. Fields = 4096
    BY Widths, SMT
  <2>3. u % Fields \in Int
    BY <2>1, <2>2, SMT
  <2> HIDE DEF u
  <2> QED BY <2>1, <2>3, FieldIs
<1>2. PICK c : c = risc_v_native_setreg32s(tmp, imm) \o risc_v_r_op(risc_v_i_to_r(op), rds, r, tmp)
  OBVIOUS
<1>3. \/ u % Fields = 0 /\ c = Two(lui, fin)
      \/ c = Three(lui, low, fin)
  <2>1. c = (<<lui>> \o (IF u % Fields = 0 THEN <<>> ELSE <<low>>)) \o <<fin>>
    BY <1>2, Zenon DEF risc_v_native_setreg32s, risc_v_lui, risc_v_i_op_internal, risc_v_r_op, Upper
  <2>2. <<lui>> \o <<>> = <<lui>>
    BY DEF Instr
  <2> HIDE DEF u, lui, low, fin
  <2> QED BY <2>1, <2>2, Zenon DEF Two, Three
<1> HIDE DEF lui, low, fin, u
<1>4. \/ u % Fields = 0 /\ Len(c) = 2 /\ c[1] = lui /\ c[2] = fin
      \/ Len(c) = 3 /\ c[1] = lui /\ c[2] = low /\ c[3] = fin
  <2>1. c = Two(lui, fin) => Len(c) = 2 /\ c[1] = lui /\ c[2] = fin
    BY InARow
  <2>2. c = Three(lui, low, fin) => Len(c) = 3 /\ c[1] = lui /\ c[2] = low /\ c[3] = fin
    BY InARow
  <2> QED BY <1>3, <2>1, <2>2, Zenon
<1>5. /\ tmp # zero /\ tmp \in DOMAIN R0 /\ rds \in DOMAIN R0 /\ r \in DOMAIN R0
      /\ R0[r] \in Int /\ tmp \in Int
  BY RegsIs, LruAssumption DEF zero
<1>6. PICK R1 : R1 = WriteReg(R0, tmp, u - (u % Fields))
  OBVIOUS
<1>7. Exec(R0, lui) = R1
  BY <1>6, RegExec, Zenon DEF lui
<1>8. /\ DOMAIN R1 = DOMAIN R0 /\ R1[tmp] = u - (u % Fields)
      /\ \A q \in DOMAIN R0 : q # tmp => R1[q] = R0[q]
  BY <1>5, <1>6, WriteIs
<1>9. PICK R2 : /\ Run(R0, c) = Exec(R2, fin)
                /\ DOMAIN R2 = DOMAIN R0 /\ R2[tmp] = Built(u)
                /\ \A q \in DOMAIN R0 : q # tmp => R2[q] = R0[q]
  <2>1. CASE u % Fields = 0 /\ Len(c) = 2 /\ c[1] = lui /\ c[2] = fin
    <3>1. Run(R0, c) = Exec(R1, fin)
      BY <1>7, <2>1, RunIs
    <3>2. SignExtend(u, Fields) = 0
      BY <1>1, <2>1, CarryIs
    <3>3. Built(u) = u - (u % Fields)
      BY <1>1, <3>2 DEF Built
    <3> QED BY <1>8, <3>1, <3>3
  <2>2. CASE Len(c) = 3 /\ c[1] = lui /\ c[2] = low /\ c[3] = fin
    <3>1. Run(R0, c) = Exec(Exec(R1, low), fin)
      BY <1>7, <2>2, RunIs
    <3>2. "addi" \in Ops
      BY DEF Ops
    <3>3. Exec(R1, low) = WriteReg(R1, tmp, Wanted(R1, "addi", tmp, SignExtend(u, Fields)))
      BY <1>1, <3>2, ImmExec DEF low
    <3>4. Wanted(R1, "addi", tmp, SignExtend(u, Fields)) = R1[tmp] + SignExtend(u, Fields)
      BY Zenon DEF Wanted
    <3>5. Exec(R1, low) = WriteReg(R1, tmp, Built(u))
      BY <1>8, <3>3, <3>4, Zenon DEF Built
    <3>6. tmp \in DOMAIN R1
      BY <1>5, <1>8
    <3>7. /\ DOMAIN Exec(R1, low) = DOMAIN R0 /\ Exec(R1, low)[tmp] = Built(u)
          /\ \A q \in DOMAIN R0 : q # tmp => Exec(R1, low)[q] = R0[q]
      BY <1>5, <1>8, <3>5, <3>6, WriteIs
    <3> QED BY <3>1, <3>7
  <2> QED BY <1>4, <2>1, <2>2
<1>10. Run(R0, c) = WriteReg(R2, rds, Wanted(R0, op, r, imm))
  <2>1. R2[r] = R0[r] /\ R2[tmp] = Built(u)
    BY <1>5, <1>9
  <2>2. imm \in Int
    BY DEF IsInt32
  <2>3. Built(u) = imm \/ (imm >= Words \div 2 - Fields \div 2 /\ Built(u) = imm - Words)
    BY BuiltIs DEF u
  <2>4. CASE op = "addi"
    <3>1. fin = Instr("add", rds, r, tmp, 0)
      BY <2>4 DEF fin, risc_v_i_to_r
    <3>2. Exec(R2, fin) = WriteReg(R2, rds, R2[r] + R2[tmp])
      BY <3>1, RegExec
    <3>3. Built(u) = imm
      BY <2>3, <2>4, Zenon
    <3>4. Wanted(R0, op, r, imm) = R0[r] + imm
      BY <2>4, Zenon DEF Wanted
    <3> QED BY <1>9, <2>1, <3>2, <3>3, <3>4, Zenon
  <2>5. CASE op = "addiw"
    <3>1. fin = Instr("addw", rds, r, tmp, 0)
      BY <2>5 DEF fin, risc_v_i_to_r
    <3>2. Exec(R2, fin) = WriteReg(R2, rds, Int32(R2[r] + R2[tmp]))
      BY <3>1, RegExec
    <3>3. Int32(R0[r] + Built(u)) = Int32(R0[r] + imm)
      <4>1. PICK b \in Int : b = R0[r] + imm
        BY <1>5, <2>2
      <4>2. Words \in Int /\ Int32(b - Words) = Int32(b)
        BY WordIs, WordAway
      <4>3. R0[r] + (imm - Words) = b - Words
        BY <1>5, <2>2, <4>1, <4>2
      <4> QED BY <2>3, <4>1, <4>2, <4>3, Zenon
    <3>4. Wanted(R0, op, r, imm) = Int32(R0[r] + imm)
      BY <2>5, Zenon DEF Wanted
    <3> QED BY <1>9, <2>1, <3>2, <3>3, <3>4, Zenon
  <2> QED BY <2>4, <2>5
<1>11. rds # zero => Run(R0, c)[rds] = Wanted(R0, op, r, imm)
  BY <1>5, <1>9, <1>10, WriteIs
<1>12. \A q \in DOMAIN R0 : q # rds /\ q # tmp => Run(R0, c)[q] = R0[q]
  BY <1>5, <1>9, <1>10, WriteIs
<1>13. Does(c, op, rds, r, imm, tmp)
  BY <1>11, <1>12, Zenon DEF Does
<1> QED BY <1>2, <1>13, Zenon

(* The upper part of an offset below the end of an int is an int. *)
LEMMA UpperInt ==
  ASSUME RealWidths, NEW imm, IsInt32(imm), ~(imm >= Words \div 2 - Fields \div 2),
         NEW lo \in ImmRange, NEW u \in Int, u = imm - lo, u % Fields = 0
  PROVE  Int32(u) = u
<1>1. Fields = 4096 /\ Words \div 2 - Fields \div 2 = 2147483648 - 2048
  BY Widths, SMT
<1>2. imm \in Int /\ imm < 2147483648 - 2048 /\ imm >= -2147483648
  BY <1>1, SMT DEF IsInt32
<1>3. u % 4096 = 0
  BY <1>1, SMT
<1>4. u < 2147483648
  BY <1>2, SMT DEF ImmRange
<1>5. u >= -2147483648
  BY <1>2, <1>3, SMT DEF ImmRange
<1>6. IsInt32(u)
  BY <1>4, <1>5, SMT DEF IsInt32
<1> QED BY <1>6, WordIs

(* A load adds the upper part of its offset to the base first. *)
LEMMA LoadDoes ==
  ASSUME RealWidths, NEW rds \in Operands, NEW r \in Operands, NEW imm, IsInt32(imm),
         NEW tmp \in FREE_REG_START .. FREE_REG_END, tmp # r,
         ~(imm >= Words \div 2 - Fields \div 2)
  PROVE  Does((risc_v_lui(tmp, Int32(imm - SignExtend(imm, Fields)))
                 \o risc_v_r_op("add", tmp, tmp, r))
                 \o risc_v_i_op_internal("load", rds, tmp, SignExtend(imm, Fields)),
              "load", rds, r, imm, tmp)
<1>0. imm \in Int
  BY DEF IsInt32
<1>1. PICK lo \in Int : lo = SignExtend(imm, Fields) /\ lo \in ImmRange
  BY <1>0, FieldIs
<1>2. PICK u \in Int : u = imm - lo /\ u % Fields = 0
  BY <1>0, <1>1, CarryIs
<1>3. Int32(u) = u
  BY <1>1, <1>2, UpperInt
<1> DEFINE lui == Instr("lui", tmp, 0, 0, u)
           add == Instr("add", tmp, tmp, r, 0)
           ld  == Instr("load", rds, tmp, 0, lo % Fields)
<1>4. PICK c : c = Three(lui, add, ld)
  OBVIOUS
<1>5. c = (risc_v_lui(tmp, Int32(imm - SignExtend(imm, Fields)))
             \o risc_v_r_op("add", tmp, tmp, r))
             \o risc_v_i_op_internal("load", rds, tmp, SignExtend(imm, Fields))
  <2>1. u - (u % Fields) = u
    BY <1>2
  <2>2. risc_v_lui(tmp, u) = <<lui>>
    BY <2>1, Zenon DEF risc_v_lui
  <2>3. risc_v_r_op("add", tmp, tmp, r) = <<add>>
    BY Zenon DEF risc_v_r_op
  <2>4. risc_v_i_op_internal("load", rds, tmp, lo) = <<ld>>
    BY Zenon DEF risc_v_i_op_internal
  <2> HIDE DEF lui, add, ld
  <2> QED BY <1>1, <1>2, <1>3, <1>4, <2>2, <2>3, <2>4, Zenon DEF Three
<1> HIDE DEF lui, add, ld
<1>6. Len(c) = 3 /\ c[1] = lui /\ c[2] = add /\ c[3] = ld
  BY <1>4, InARow
<1>7. /\ tmp # zero /\ tmp \in DOMAIN R0 /\ rds \in DOMAIN R0 /\ r \in DOMAIN R0
      /\ R0[r] \in Int /\ tmp \in Int
  BY RegsIs, LruAssumption DEF zero
<1>8. PICK R1 : R1 = WriteReg(R0, tmp, u)
  OBVIOUS
<1>9. Exec(R0, lui) = R1
  BY <1>8, RegExec, Zenon DEF lui
<1>10. /\ DOMAIN R1 = DOMAIN R0 /\ R1[tmp] = u
       /\ \A q \in DOMAIN R0 : q # tmp => R1[q] = R0[q]
  BY <1>7, <1>8, WriteIs
<1>11. PICK R2 : R2 = WriteReg(R1, tmp, u + R0[r])
  OBVIOUS
<1>12. Exec(R1, add) = R2
  <2>1. Exec(R1, add) = WriteReg(R1, tmp, R1[tmp] + R1[r])
    BY RegExec DEF add
  <2> QED BY <1>7, <1>10, <1>11, <2>1, Zenon
<1>13. /\ DOMAIN R2 = DOMAIN R0 /\ R2[tmp] = u + R0[r]
       /\ \A q \in DOMAIN R0 : q # tmp => R2[q] = R0[q]
  BY <1>7, <1>10, <1>11, WriteIs
<1>14. Exec(R2, ld) = WriteReg(R2, rds, Wanted(R0, "load", r, imm))
  <2>1. "load" \in Ops
    BY DEF Ops
  <2>2. Exec(R2, ld) = WriteReg(R2, rds, Wanted(R2, "load", tmp, SignExtend(lo, Fields)))
    BY <2>1, ImmExec DEF ld
  <2>3. SignExtend(lo, Fields) = lo
    BY <1>1, FieldIs
  <2>4. Wanted(R2, "load", tmp, lo) = Loaded(R2[tmp] + lo)
    BY Zenon DEF Wanted
  <2>5. Wanted(R0, "load", r, imm) = Loaded(R0[r] + imm)
    BY Zenon DEF Wanted
  <2>6. R2[tmp] + lo = R0[r] + imm
    BY <1>0, <1>2, <1>7, <1>13
  <2> QED BY <2>2, <2>3, <2>4, <2>5, <2>6, Zenon
<1>15. Run(R0, c) = WriteReg(R2, rds, Wanted(R0, "load", r, imm))
  BY <1>6, <1>9, <1>12, <1>14, RunIs
<1>16. rds # zero => Run(R0, c)[rds] = Wanted(R0, "load", r, imm)
  BY <1>7, <1>13, <1>15, WriteIs
<1>17. \A q \in DOMAIN R0 : q # rds /\ q # tmp => Run(R0, c)[q] = R0[q]
  BY <1>7, <1>13, <1>15, WriteIs
<1>18. Does(c, "load", rds, r, imm, tmp)
  BY <1>16, <1>17, Zenon DEF Does
<1> QED BY <1>5, <1>18, Zenon

(* What the caller sees is the code of risc_v_i_op for some reg_lru. *)
NativeInv ==
  native # NoCall => \E l : LET o == risc_v_i_op(l, native.op, native.rds, native.r, native.imm)
                            IN /\ native.op \in Ops /\ native.rds \in Operands
                               /\ native.r \in Operands /\ native.imm \in DirectImms
                               /\ native.tmp = o.tmp /\ native.code = o.code

(* Only a direct call writes native. *)
LEMMA NativeStep == NativeInv /\ [Next]_vars => NativeInv'
<1> SUFFICES ASSUME NativeInv, [Next]_vars PROVE NativeInv'
  OBVIOUS
<1>1. CASE native' = native
  BY <1>1, Zenon DEF NativeInv
<1>2. CASE back_end_native_return
  BY <1>2, Zenon DEF back_end_native_return, NativeInv
<1>3. ASSUME NEW op \in Ops, NEW rds \in Operands, NEW r \in Operands, NEW imm \in DirectImms,
             back_end_native(op, rds, r, imm)
      PROVE  NativeInv'
  <2>1. native' = [op |-> op, rds |-> rds, r |-> r, imm |-> imm,
                   tmp |-> risc_v_i_op(lru, op, rds, r, imm).tmp,
                   code |-> risc_v_i_op(lru, op, rds, r, imm).code]
    BY <1>3, Zenon DEF back_end_native
  <2>2. /\ native'.op = op /\ native'.rds = rds /\ native'.r = r /\ native'.imm = imm
        /\ native'.tmp = risc_v_i_op(lru, op, rds, r, imm).tmp
        /\ native'.code = risc_v_i_op(lru, op, rds, r, imm).code
    BY <2>1
  <2> QED BY <2>2, Zenon DEF NativeInv
<1>4. CASE UNCHANGED vars
  BY <1>1, <1>4 DEF vars
<1>5. CASE Next
  <2>1. visit_fn_main \/ visit_fn_end \/ back_end_emit \/ back_end_init \/ PutOutside => native' = native
    BY DEF visit_fn_main, visit_fn_end, back_end_emit, back_end_init, PutOutside
  <2>2. (\E f \in Names : visit_fn_usual(f)) => native' = native
    BY DEF visit_fn_usual
  <2>3. (\E e \in Expressions : visit_store(e) \/ visit_ret(e)) => native' = native
    BY Zenon DEF visit_store, visit_ret, EmitNode
  <2> QED BY <1>1, <1>2, <1>3, <1>5, <2>1, <2>2, <2>3, Zenon DEF Next, Ops
<1> QED BY <1>4, <1>5

(* risc_v_i_op as a whole. *)
LEMMA OpDoes ==
  ASSUME RealWidths, NEW l, NEW op \in Ops, NEW rds \in Operands, NEW r \in Operands, NEW imm, IsInt32(imm),
         NEW o, o = risc_v_i_op(l, op, rds, r, imm), o.tmp # -1,
         ~(op # "load" /\ imm = Fields - 1),
         ~(op # "addiw" /\ imm >= Words \div 2 - Fields \div 2),
         ~(o.tmp = r /\ o.tmp # 0)
  PROVE  Does(o.code, op, rds, r, imm, o.tmp)
<1>0. imm \in Int
  BY DEF IsInt32
<1> DEFINE t == allocate_register(l)
           half == imm \div 2
           lo == SignExtend(imm, Fields)
           Plain(c) == [code |-> c, tmp |-> 0, lru |-> l]
           Lent(c) == IF t = -1 THEN [code |-> <<>>, tmp |-> -1, lru |-> l]
                      ELSE [code |-> c, tmp |-> t, lru |-> update_lru(update_lru(l, t), t)]
           A == risc_v_i_op_internal(op, rds, r, imm)
           B == risc_v_i_op_internal(op, rds, r, half) \o risc_v_i_op_internal(op, rds, rds, imm - half)
           C == risc_v_native_setreg32s(t, imm) \o risc_v_r_op(risc_v_i_to_r(op), rds, r, t)
           D == (risc_v_lui(t, Int32(imm - lo)) \o risc_v_r_op("add", t, t, r))
                  \o risc_v_i_op_internal("load", rds, t, lo)
<1>1. ASSUME NEW c, o = Plain(c)
      PROVE  o.code = c
  BY <1>1
<1>2. ASSUME NEW c, o = Lent(c)
      PROVE  o.code = c /\ o.tmp = t /\ t # -1
  <2>1. t # -1
    BY <1>2
  <2>2. o = [code |-> c, tmp |-> t, lru |-> update_lru(update_lru(l, t), t)]
    BY <1>2, <2>1, Zenon
  <2> QED BY <2>1, <2>2
<1>3. t # -1 => t \in FREE_REG_START .. FREE_REG_END
  BY DEF allocate_register
<1> HIDE DEF t
<1>4. \/ risc_v_is_valid_imm(imm) /\ o = Plain(A)
      \/ ~risc_v_is_valid_imm(imm) /\ op # "load" /\ risc_v_is_valid_imm(half) /\ o = Plain(B)
      \/ ~risc_v_is_valid_imm(imm) /\ op # "load" /\ ~risc_v_is_valid_imm(half) /\ o = Lent(C)
      \/ op = "load" /\ o = Lent(D)
  BY Zenon DEF risc_v_i_op, t
<1>5. op # "load" => op \in {"addi", "addiw"}
  BY DEF Ops
<1>6. CASE risc_v_is_valid_imm(imm) /\ o = Plain(A)
  <2>1. imm \in ImmRange
    BY <1>0, <1>6, FieldIs
  <2>2. o.code = A
    BY <1>1, <1>6, Zenon
  <2> QED BY <2>1, <2>2, FitsDoes, Zenon
<1>7. CASE op # "load" /\ risc_v_is_valid_imm(half) /\ o = Plain(B)
  <2>1. o.code = B
    BY <1>1, <1>7, Zenon
  <2> QED BY <1>0, <1>5, <1>7, <2>1, HalvesDo, Zenon
<1>8. ASSUME NEW c, o = Lent(c)
      PROVE  o.code = c /\ o.tmp = t /\ t \in FREE_REG_START .. FREE_REG_END /\ t # r
  <2>1. o.code = c /\ o.tmp = t /\ t # -1
    BY <1>2, <1>8, Zenon
  <2>2. t \in FREE_REG_START .. FREE_REG_END
    BY <1>3, <2>1
  <2>3. t # 0
    BY <2>2, LruAssumption
  <2> QED BY <2>1, <2>2, <2>3
<1>9. CASE ~risc_v_is_valid_imm(imm) /\ op # "load" /\ o = Lent(C)
  <2>1. o.code = C /\ o.tmp = t /\ t \in FREE_REG_START .. FREE_REG_END /\ t # r
    BY <1>8, <1>9, Zenon
  <2> QED BY <1>5, <1>9, <2>1, BorrowDoes, Zenon
<1>10. CASE op = "load" /\ o = Lent(D)
  <2>1. o.code = D /\ o.tmp = t /\ t \in FREE_REG_START .. FREE_REG_END /\ t # r
    BY <1>8, <1>10, Zenon
  <2> QED BY <1>10, <2>1, LoadDoes, Zenon
<1> QED BY <1>4, <1>6, <1>7, <1>9, <1>10, Zenon

(* With the widths of RISC-V, whatever way risc_v_i_op lowers an immediate *)
(* operation or a load (one instruction, two halves, a borrowed register), *)
(* the code leaves the wanted value in the destination and changes only    *)
(* that and the borrowed register, outside the cases NativeComputes names. *)
THEOREM ImmediateCode == RealWidths => (Spec => []NativeComputes)
<1> SUFFICES ASSUME RealWidths PROVE Spec => []NativeComputes
  OBVIOUS
<1>1. Init => NativeInv
  BY Zenon DEF Init, NativeInv
<1>2. NativeInv => NativeComputes
  <2> SUFFICES ASSUME NativeInv, native # NoCall, native.tmp # -1, ~SplitTooLarge(native),
                      ~CarryOverflows(native), ~TempIsOperand(native)
               PROVE  Does(native.code, native.op, native.rds, native.r, native.imm, native.tmp)
    BY Zenon DEF NativeComputes, Does
  <2>1. PICK l : /\ native.op \in Ops /\ native.rds \in Operands
                 /\ native.r \in Operands /\ native.imm \in DirectImms
                 /\ native.tmp = risc_v_i_op(l, native.op, native.rds, native.r, native.imm).tmp
                 /\ native.code = risc_v_i_op(l, native.op, native.rds, native.r, native.imm).code
    BY Zenon DEF NativeInv
  <2>2. IsInt32(native.imm)
    BY <2>1, Widths, ImmsAssumption, SMT DEF IsInt32
  <2>3. PICK o : o = risc_v_i_op(l, native.op, native.rds, native.r, native.imm)
    OBVIOUS
  <2>4. Does(o.code, native.op, native.rds, native.r, native.imm, o.tmp)
    BY <2>1, <2>2, <2>3, OpDoes, Zenon DEF SplitTooLarge, CarryOverflows, TempIsOperand
  <2> QED BY <2>1, <2>3, <2>4, Zenon
<1> QED BY <1>1, <1>2, NativeStep, PTL DEF Spec

------------------------------------------------------------------------------
(* The object file: what the writes of elf_init leave where the headers    *)
(* point.                                                                  *)

(* The least of a set of numbers. *)
LEMMA Least ==
  ASSUME NEW T, T \subseteq Nat, T # {}
  PROVE  \E x \in T : \A y \in T : x <= y
<1>1. IsWellFoundedOn(OpToRel(<, Nat), Nat)
  BY NatLessThanWellFounded
<1>2. PICK x \in T : \A y \in T : ~(<<y, x>> \in OpToRel(<, Nat))
  BY <1>1, WFMin, Zenon
<1>3. \A y \in T : ~(y < x)
  BY <1>2 DEF OpToRel
<1> QED BY <1>3

(* A recursion over 0 .. N has a solution. *)
Solves(f, V, N, v, step) ==
  f \in [0 .. N -> V] /\ f[0] = v /\ \A n \in 1 .. N : f[n] = step[n][f[n - 1]]

LEMMA Recursion ==
  ASSUME NEW V, NEW N \in Nat, NEW v \in V, NEW step \in [1 .. N -> [V -> V]]
  PROVE  \E f : Solves(f, V, N, v, step)
<1> DEFINE Sol(f, m) == f \in [0 .. m -> V] /\ f[0] = v /\ \A n \in 1 .. m : f[n] = step[n][f[n - 1]]
           T == {m \in 0 .. N : ~\E f : Sol(f, m)}
<1>1. ASSUME NEW m \in 0 .. N - 1, NEW f, Sol(f, m)
      PROVE  \E g : Sol(g, m + 1)
  <2> DEFINE w == step[m + 1][f[m]]
             g == [n \in 0 .. m + 1 |-> IF n = m + 1 THEN w ELSE f[n]]
  <2>1. f[m] \in V /\ m + 1 \in 1 .. N /\ w \in V
    BY <1>1
  <2>2. g \in [0 .. m + 1 -> V] /\ g[0] = v /\ g[m + 1] = w /\ \A n \in 0 .. m : g[n] = f[n]
    BY <1>1, <2>1
  <2> HIDE DEF g
  <2>3. ASSUME NEW n \in 1 .. m + 1
        PROVE  g[n] = step[n][g[n - 1]]
    <3>1. CASE n = m + 1
      BY <2>2, <3>1
    <3>2. CASE n # m + 1
      <4>1. n \in 1 .. m /\ n - 1 \in 0 .. m /\ n \in 0 .. m
        BY <3>2
      <4> QED BY <1>1, <2>2, <4>1
    <3> QED BY <3>1, <3>2
  <2>4. Sol(g, m + 1)
    BY <2>2, <2>3
  <2> HIDE DEF Sol
  <2> QED BY <2>4
<1>2. \E f : Sol(f, 0)
  <2>1. Sol([n \in 0 .. 0 |-> v], 0)
    OBVIOUS
  <2> HIDE DEF Sol
  <2> QED BY <2>1
<1> HIDE DEF Sol
<1>3. T = {}
  <2> SUFFICES ASSUME T # {} PROVE FALSE
    OBVIOUS
  <2>1. T \subseteq Nat
    OBVIOUS
  <2>2. PICK m \in T : \A y \in T : m <= y
    BY <2>1, Least
  <2>3. m # 0 /\ m \in 0 .. N
    BY <1>2
  <2>4. m - 1 \in 0 .. N - 1 /\ m - 1 \in 0 .. N /\ ~(m <= m - 1) /\ (m - 1) + 1 = m
    BY <2>3
  <2>5. \E f : Sol(f, m - 1)
    BY <2>2, <2>4
  <2> QED BY <2>2, <2>4, <2>5, <1>1
<1>4. N \in 0 .. N
  OBVIOUS
<1>5. PICK f : Sol(f, N)
  BY <1>3, <1>4
<1> QED BY <1>5 DEF Sol, Solves

(* Sums.  f is the sequence of the partial sums of s. *)
SumsTo(f, s) == f \in [0 .. Len(s) -> Nat] /\ f[0] = 0 /\ \A n \in 1 .. Len(s) : f[n] = f[n - 1] + s[n]

Sizes(s) == IsSeq(s) /\ \A n \in 1 .. Len(s) : s[n] \in Nat

LEMMA SumsExist ==
  ASSUME NEW s, Sizes(s)
  PROVE  \E f : SumsTo(f, s)
<1> DEFINE N == Len(s)
           step == [n \in 1 .. N |-> [x \in Nat |-> x + s[n]]]
<1>1. N \in Nat
  BY DEF Sizes, IsSeq
<1>2. step \in [1 .. N -> [Nat -> Nat]] /\ \A x \in Nat, n \in 1 .. N : step[n][x] = x + s[n]
  BY DEF Sizes
<1> HIDE DEF step
<1>3. PICK f : Solves(f, Nat, N, 0, step)
  BY <1>1, <1>2, Recursion
<1>4. ASSUME NEW n \in 1 .. N PROVE f[n] = f[n - 1] + s[n]
  <2>1. n - 1 \in 0 .. N
    BY <1>1
  <2>2. f[n - 1] \in Nat
    BY <2>1, <1>3 DEF Solves
  <2> QED BY <2>2, <1>2, <1>3 DEF Solves
<1>5. SumsTo(f, s)
  BY <1>3, <1>4 DEF SumsTo, Solves
<1> QED BY <1>5

(* They are what Sum computes, of the sequence and of what it begins with. *)
LEMMA SumIs ==
  ASSUME NEW s, Sizes(s), NEW f, SumsTo(f, s), NEW n \in 0 .. Len(s),
         NEW t, Len(t) = n, \A i \in 1 .. n : t[i] = s[i]
  PROVE  Sum(t) = f[n] /\ f[n] \in Nat
<1> DEFINE g == [i \in 0 .. Len(t) |-> f[i]]
           body(h) == [i \in 0 .. Len(t) |-> IF i = 0 THEN 0 ELSE h[i - 1] + t[i]]
           F == CHOOSE h : h = body(h)
           T == {i \in 0 .. n : F[i] # f[i]}
<1>1. Len(s) \in Nat /\ n \in Nat
  BY DEF Sizes, IsSeq
<1>2. ASSUME NEW i \in 0 .. Len(t)
      PROVE  f[i] = IF i = 0 THEN 0 ELSE g[i - 1] + t[i]
  <2>1. CASE i = 0
    BY <2>1 DEF SumsTo
  <2>2. CASE i # 0
    <3>1. i \in 1 .. n /\ i \in 1 .. Len(s) /\ i - 1 \in 0 .. Len(t)
      BY <1>1, <2>2
    <3>2. f[i] = f[i - 1] + s[i]
      BY <3>1 DEF SumsTo
    <3>3. g[i - 1] = f[i - 1]
      BY <3>1
    <3>4. t[i] = s[i]
      BY <3>1
    <3> HIDE DEF g
    <3> QED BY <2>2, <3>2, <3>3, <3>4
  <2> QED BY <2>1, <2>2
<1>3. g = body(g)
  BY <1>2
<1>4. F = body(F)
  <2> HIDE DEF g
  <2> QED BY <1>3, Zenon
<1>5. Sum(t) = F[n]
  BY DEF Sum
<1> HIDE DEF F, g
<1>6. \A i \in 0 .. n : F[i] = IF i = 0 THEN 0 ELSE F[i - 1] + t[i]
  BY <1>4, Zenon
<1>7. T = {}
  <2> SUFFICES ASSUME T # {} PROVE FALSE
    OBVIOUS
  <2>1. T \subseteq Nat
    OBVIOUS
  <2>2. PICK i \in T : \A j \in T : i <= j
    BY <2>1, Least
  <2>3. i # 0
    BY <1>6, <2>2 DEF SumsTo
  <2>4. i - 1 \in 0 .. n /\ ~(i <= i - 1) /\ i \in 1 .. n /\ i \in 1 .. Len(s)
    BY <1>1, <2>3
  <2>5. F[i - 1] = f[i - 1]
    BY <2>2, <2>4
  <2>6. f[i] = f[i - 1] + s[i] /\ t[i] = s[i]
    BY <2>4 DEF SumsTo
  <2>7. F[i] = F[i - 1] + t[i]
    BY <1>6, <2>3, <2>4
  <2> QED BY <2>2, <2>5, <2>6, <2>7
<1>8. n \in 0 .. n /\ f[n] \in Nat
  BY <1>1 DEF SumsTo
<1>9. F[n] = f[n]
  BY <1>7, <1>8
<1> QED BY <1>5, <1>8, <1>9

(* They grow. *)
LEMMA SumsGrow ==
  ASSUME NEW s, Sizes(s), NEW f, SumsTo(f, s), NEW m \in 0 .. Len(s), NEW n \in m .. Len(s)
  PROVE  f[m] <= f[n] /\ f[m] \in Nat /\ f[n] \in Nat
<1> DEFINE T == {i \in m .. Len(s) : ~(f[m] <= f[i])}
<1>1. Len(s) \in Nat /\ \A i \in 0 .. Len(s) : f[i] \in Nat
  BY DEF Sizes, IsSeq, SumsTo
<1>2. T = {}
  <2> SUFFICES ASSUME T # {} PROVE FALSE
    OBVIOUS
  <2>1. T \subseteq Nat
    BY <1>1
  <2>2. PICK i \in T : \A j \in T : i <= j
    BY <2>1, Least
  <2>3. i # m
    BY <1>1, <2>2
  <2>4. i - 1 \in m .. Len(s) /\ ~(i <= i - 1) /\ i \in 1 .. Len(s) /\ i - 1 \in 0 .. Len(s)
    BY <1>1, <2>3
  <2>5. f[m] <= f[i - 1]
    BY <2>2, <2>4
  <2>6. f[i] = f[i - 1] + s[i] /\ s[i] \in Nat
    BY <2>4 DEF SumsTo, Sizes
  <2>7. f[i - 1] \in Nat /\ f[m] \in Nat
    BY <1>1, <2>4
  <2> QED BY <2>2, <2>5, <2>6, <2>7
<1> QED BY <1>1, <1>2

(* VECTOR_GROW leaves room for what was pushed. *)
LEMMA CapacityIs ==
  ASSUME NEW n \in Nat
  PROVE  Capacity(n) \in Nat /\ n <= Capacity(n)
<1> DEFINE grow(x, k) == LET more == x + x \div 2
                         IN CASE k - 1 < x -> x
                              [] k - 1 >= x /\ more = 0 -> 2
                              [] OTHER -> more
           step == [k \in 1 .. n |-> [x \in Nat |-> grow(x, k)]]
           body(h) == [k \in 0 .. n |-> IF k = 0 THEN 0 ELSE grow(h[k - 1], k)]
           F == CHOOSE h : h = body(h)
           T == {k \in 0 .. n : ~(F[k] \in Nat /\ k <= F[k] /\ F[k] # 1)}
<1>1. ASSUME NEW x \in Nat, NEW k \in 1 .. n
      PROVE  /\ grow(x, k) \in Nat
             /\ (k - 1 <= x /\ x # 1) => (k <= grow(x, k) /\ grow(x, k) # 1)
  <2>1. x \div 2 \in Nat /\ (x >= 2 => x \div 2 >= 1) /\ (x = 0 => x \div 2 = 0)
    OBVIOUS
  <2>2. CASE k - 1 < x
    BY <2>2
  <2>3. CASE k - 1 >= x /\ x + x \div 2 = 0
    <3>1. grow(x, k) = 2
      BY <2>3
    <3> HIDE DEF grow
    <3> QED BY <2>3, <3>1, <2>1
  <2>4. CASE k - 1 >= x /\ x + x \div 2 # 0
    <3>1. grow(x, k) = x + x \div 2
      BY <2>4
    <3> HIDE DEF grow
    <3> QED BY <2>4, <3>1, <2>1
  <2> QED BY <2>2, <2>3, <2>4
<1> HIDE DEF grow
<1>2. step \in [1 .. n -> [Nat -> Nat]] /\ \A x \in Nat, k \in 1 .. n : step[k][x] = grow(x, k)
  BY <1>1
<1> HIDE DEF step
<1>3. PICK f : Solves(f, Nat, n, 0, step)
  BY <1>2, Recursion
<1>4. f = body(f)
  <2>1. ASSUME NEW k \in 0 .. n PROVE f[k] = IF k = 0 THEN 0 ELSE grow(f[k - 1], k)
    <3>1. k # 0 => k \in 1 .. n /\ k - 1 \in 0 .. n
      OBVIOUS
    <3>2. k # 0 => f[k - 1] \in Nat
      BY <1>3, <3>1 DEF Solves
    <3> QED BY <1>2, <1>3, <3>1, <3>2 DEF Solves
  <2>2. f \in [0 .. n -> Nat]
    BY <1>3 DEF Solves
  <2> QED BY <2>1, <2>2
<1>5. F = body(F)
  BY <1>4, Zenon
<1>6. Capacity(n) = F[n]
  BY DEF Capacity, grow
<1> HIDE DEF F
<1>7. \A k \in 0 .. n : F[k] = IF k = 0 THEN 0 ELSE grow(F[k - 1], k)
  BY <1>5, Zenon
<1>8. T = {}
  <2> SUFFICES ASSUME T # {} PROVE FALSE
    OBVIOUS
  <2>1. T \subseteq Nat
    OBVIOUS
  <2>2. PICK k \in T : \A j \in T : k <= j
    BY <2>1, Least
  <2>3. k # 0
    BY <1>7, <2>2
  <2>4. k - 1 \in 0 .. n /\ ~(k <= k - 1) /\ k \in 1 .. n
    BY <2>3
  <2>5. F[k - 1] \in Nat /\ k - 1 <= F[k - 1] /\ F[k - 1] # 1
    BY <2>2, <2>4
  <2>6. F[k] = grow(F[k - 1], k)
    BY <1>7, <2>3, <2>4
  <2> QED BY <2>2, <2>4, <2>5, <2>6, <1>1
<1>9. n \in 0 .. n
  OBVIOUS
<1> QED BY <1>6, <1>8, <1>9

(* A string and its end. *)
LEMMA SymbolIs ==
  ASSUME NEW name, NameLen[name] \in Nat, NEW B, Nul \in B, \A j \in Nat : <<name, 0, j>> \in B
  PROVE  emit_symbol(name) \in Seq(B) /\ Len(emit_symbol(name)) = NameLen[name] + 1
<1> DEFINE b == Block(name, 0, NameLen[name])
<1>1. b = [j \in 1 .. NameLen[name] |-> <<name, 0, j>>]
  BY DEF Block
<1>2. b \in Seq(B)
  BY <1>1
<1>3. Len(b) = NameLen[name]
  BY <1>1
<1> HIDE DEF b
<1>4. emit_symbol(name) = Append(b, Nul)
  BY DEF emit_symbol, b
<1> QED BY <1>2, <1>3, <1>4

(* s are the sizes of the strings names with their ends; f their sums.     *)
SizesOf(names, s) ==
  /\ IsSeq(names) /\ Sizes(s) /\ Len(s) = Len(names)
  /\ \A k \in 1 .. Len(names) : NameLen[names[k]] \in Nat /\ s[k] = NameLen[names[k]] + 1

(* The strings of a table follow each other after a NUL. *)
TableOf(table, names, s, f) ==
  /\ IsSeq(table) /\ Len(table) = f[Len(s)] + 1
  /\ \A k \in 1 .. Len(names) : \A j \in 1 .. s[k] : table[f[k - 1] + 1 + j] = emit_symbol(names[k])[j]

LEMMA StringsIs ==
  ASSUME NEW names, NEW s, SizesOf(names, s), NEW f, SumsTo(f, s)
  PROVE  TableOf(Strings(names), names, s, f)
<1> DEFINE N == Len(names)
           B == {Nul} \union {<<names[k], 0, j>> : k \in 1 .. N, j \in Nat}
           V == Seq(B)
           e(k) == emit_symbol(names[k])
           step == [k \in 1 .. N |-> [x \in V |-> x \o e(k)]]
           body(h) == [n \in 0 .. N |-> IF n = 0 THEN <<Nul>> ELSE h[n - 1] \o e(n)]
           F == CHOOSE h : h = body(h)
           OK(n) == /\ F[n] \in V /\ Len(F[n]) = f[n] + 1
                    /\ \A k \in 1 .. n : \A j \in 1 .. s[k] : F[n][f[k - 1] + 1 + j] = e(k)[j]
           T == {n \in 0 .. N : ~OK(n)}
<1>0. /\ IsSeq(names) /\ Sizes(s) /\ Len(s) = Len(names)
      /\ \A k \in 1 .. Len(names) : NameLen[names[k]] \in Nat /\ s[k] = NameLen[names[k]] + 1
  BY DEF SizesOf
<1>1. N \in Nat /\ \A n \in 0 .. N : f[n] \in Nat
  BY <1>0 DEF IsSeq, SumsTo
<1>2. ASSUME NEW k \in 1 .. N PROVE e(k) \in V /\ Len(e(k)) = s[k] /\ s[k] \in Nat
  <2>1. NameLen[names[k]] \in Nat /\ Nul \in B /\ \A j \in Nat : <<names[k], 0, j>> \in B
    BY <1>0
  <2> HIDE DEF B
  <2> QED BY <1>0, <2>1, SymbolIs
<1>3. <<Nul>> \in V
  <2>1. PICK x \in B : x = Nul
    OBVIOUS
  <2> HIDE DEF B
  <2> QED BY <2>1
<1> HIDE DEF e, B
<1>4. step \in [1 .. N -> [V -> V]] /\ \A k \in 1 .. N, x \in V : step[k][x] = x \o e(k)
  BY <1>2
<1> HIDE DEF step
<1>5. PICK h : Solves(h, V, N, <<Nul>>, step)
  <2> HIDE DEF V, N
  <2> QED BY <1>1, <1>3, <1>4, Recursion
<1>6. h = body(h)
  <2>1. ASSUME NEW n \in 0 .. N PROVE h[n] = IF n = 0 THEN <<Nul>> ELSE h[n - 1] \o e(n)
    <3>1. n # 0 => n \in 1 .. N /\ n - 1 \in 0 .. N
      BY <1>1
    <3>2. n # 0 => h[n - 1] \in V
      BY <1>5, <3>1 DEF Solves
    <3> HIDE DEF V
    <3> QED BY <1>4, <1>5, <3>1, <3>2 DEF Solves
  <2>2. h \in [0 .. N -> V]
    BY <1>5 DEF Solves
  <2> QED BY <2>1, <2>2
<1>7. F = body(F)
  BY <1>6, Zenon
<1>8. Strings(names) = F[N]
  BY DEF Strings, e
<1> HIDE DEF F
<1>9. \A n \in 0 .. N : F[n] = IF n = 0 THEN <<Nul>> ELSE F[n - 1] \o e(n)
  BY <1>7, Zenon
<1>10. OK(0)
  <2>1. F[0] = <<Nul>> /\ f[0] = 0
    BY <1>1, <1>9 DEF SumsTo
  <2> QED BY <2>1, <1>3
<1>11. ASSUME NEW n \in 1 .. N, OK(n - 1) PROVE OK(n)
  <2>1. n \in 0 .. N /\ n - 1 \in 0 .. N /\ n # 0 /\ n \in Nat
    BY <1>1
  <2>2. F[n] = F[n - 1] \o e(n)
    BY <2>1, <1>9
  <2>3. f[n] = f[n - 1] + s[n] /\ f[n - 1] \in Nat /\ s[n] \in Nat
    BY <1>0, <1>1, <1>2, <2>1 DEF SumsTo
  <2>4. PICK x \in Seq(B), y \in Seq(B) : x = F[n - 1] /\ y = e(n)
    BY <1>2, <1>11
  <2>5. Len(x) = f[n - 1] + 1 /\ Len(y) = s[n]
    BY <1>2, <1>11, <2>4
  <2>6. /\ x \o y \in Seq(B) /\ Len(x \o y) = f[n] + 1
        /\ \A i \in 1 .. Len(x) : (x \o y)[i] = x[i]
        /\ \A j \in 1 .. Len(y) : (x \o y)[Len(x) + j] = y[j]
    <3>1. x \o y \in Seq(B)
      OBVIOUS
    <3>2. IsSeq(x) /\ IsSeq(y)
      BY DEF IsSeq
    <3>3. /\ Len(x \o y) = Len(x) + Len(y) /\ Len(x) \in Nat /\ Len(y) \in Nat
          /\ \A i \in 1 .. Len(x) : (x \o y)[i] = x[i]
          /\ \A j \in 1 .. Len(y) : (x \o y)[Len(x) + j] = y[j]
      BY <3>2, SeqJoin
    <3>4. PICK a \in Nat, b \in Nat : a = f[n - 1] /\ b = s[n]
      BY <2>3
    <3>5. f[n] = a + b /\ Len(x) = a + 1 /\ Len(y) = b
      BY <2>3, <2>5, <3>4
    <3>6. Len(x \o y) = f[n] + 1
      BY <3>3, <3>5
    <3> QED BY <3>1, <3>3, <3>6
  <2>7. ASSUME NEW k \in 1 .. n, NEW j \in 1 .. s[k] PROVE F[n][f[k - 1] + 1 + j] = e(k)[j]
    <3>1. CASE k = n
      BY <2>2, <2>4, <2>5, <2>6, <3>1
    <3>2. CASE k # n
      <4>1. k \in 1 .. n - 1 /\ k \in 1 .. N /\ k - 1 \in 0 .. N /\ k \in 0 .. N /\ k \in 0 .. Len(s)
            /\ n - 1 \in k .. Len(s) /\ k \in 1 .. Len(s)
        BY <1>0, <1>1, <2>1, <3>2
      <4>2. F[n - 1][f[k - 1] + 1 + j] = e(k)[j]
        BY <1>11, <4>1
      <4>3. f[k] = f[k - 1] + s[k] /\ f[k - 1] \in Nat /\ s[k] \in Nat
        BY <1>0, <1>1, <1>2, <4>1 DEF SumsTo
      <4>4. f[k] <= f[n - 1]
        BY <1>0, <4>1, SumsGrow
      <4>5. f[k - 1] + 1 + j \in 1 .. Len(x)
        <5>1. PICK a \in Nat, b \in Nat, c \in Nat : a = f[k - 1] /\ b = s[k] /\ c = f[n - 1]
          BY <2>3, <4>3
        <5>2. a + b <= c /\ j \in 1 .. b
          BY <4>3, <4>4, <5>1
        <5>3. Len(x) = c + 1
          BY <2>5, <5>1
        <5>4. a + 1 + j \in 1 .. c + 1
          BY <5>2
        <5> QED BY <5>1, <5>3, <5>4
      <4> QED BY <2>2, <2>4, <2>6, <4>2, <4>5
    <3> QED BY <3>1, <3>2
  <2> QED BY <2>2, <2>4, <2>6, <2>7
<1> HIDE DEF OK
<1>12. T = {}
  <2> SUFFICES ASSUME T # {} PROVE FALSE
    OBVIOUS
  <2>1. T \subseteq Nat
    BY <1>1
  <2>2. PICK n \in T : \A m \in T : n <= m
    BY <2>1, Least
  <2>3. n # 0 /\ n \in 0 .. N
    BY <1>10, <2>2
  <2>4. n - 1 \in 0 .. N /\ ~(n <= n - 1) /\ n \in 1 .. N
    BY <1>1, <2>3
  <2> QED BY <2>2, <2>4, <1>11
<1>13. OK(N) /\ N = Len(s)
  BY <1>0, <1>1, <1>12
<1> QED BY <1>1, <1>8, <1>13 DEF OK, IsSeq, e, TableOf

LEMMA Times ==
  ASSUME NEW k \in Nat, NEW l \in Nat, NEW e \in Nat, k < l
  PROVE  k * e \in Nat /\ l * e \in Nat /\ k * e + e <= l * e
<1>1. PICK d \in Nat : l = k + 1 + d
  <2>1. l - k - 1 \in Nat /\ l = k + 1 + (l - k - 1)
    OBVIOUS
  <2> QED BY <2>1
<1>2. l * e = k * e + e + d * e /\ d * e \in Nat /\ k * e \in Nat
  BY <1>1
<1> QED BY <1>2

LEMMA BlockIs ==
  ASSUME NEW what, NEW n, NEW size \in Nat
  PROVE  /\ IsSeq(Block(what, n, size)) /\ Len(Block(what, n, size)) = size
         /\ \A j \in 1 .. size : Block(what, n, size)[j] = <<what, n, j>>
<1> DEFINE V == {<<what, n, j>> : j \in Nat}
           b == [j \in 1 .. size |-> <<what, n, j>>]
<1>1. \A j \in 1 .. size : <<what, n, j>> \in V
  OBVIOUS
<1> HIDE DEF V
<1>2. b \in Seq(V) /\ Len(b) = size
  BY <1>1
<1>3. IsSeq(b)
  BY <1>2 DEF IsSeq
<1> QED BY <1>2, <1>3 DEF Block

(* A write that is not written over can be read. *)
Apart(w, at, size) == at + size <= w.at \/ w.at + Len(w.bytes) <= at

Placed(W) ==
  IsSeq(W) /\ \A v \in 1 .. Len(W) : W[v].at \in Nat /\ IsSeq(W[v].bytes)

LEMMA ReadsIs ==
  ASSUME NEW W, Placed(W), NEW w \in 1 .. Len(W), NEW skip \in Nat,
         NEW bytes, IsSeq(bytes), skip + Len(bytes) <= Len(W[w].bytes),
         \A j \in 1 .. Len(bytes) : W[w].bytes[skip + j] = bytes[j],
         \A v \in w + 1 .. Len(W) : Apart(W[v], W[w].at + skip, Len(bytes))
  PROVE  Reads(W, W[w].at + skip, bytes)
<1>1. /\ Len(W) \in Nat /\ DOMAIN W = 1 .. Len(W) /\ Len(bytes) \in Nat
      /\ DOMAIN bytes = 1 .. Len(bytes)
      /\ \A v \in 1 .. Len(W) : W[v].at \in Nat /\ Len(W[v].bytes) \in Nat
  <2>1. \A s : IsSeq(s) => Len(s) \in Nat /\ DOMAIN s = 1 .. Len(s)
    BY DEF IsSeq
  <2> QED BY <2>1 DEF Placed
<1>2. SUFFICES ASSUME NEW j \in 1 .. Len(bytes)
               PROVE  Byte(W, W[w].at + skip + j - 1) = bytes[j]
  BY <1>1 DEF Reads
<1> DEFINE a == W[w].at + skip + j - 1
           over == {v \in DOMAIN W : a \in W[v].at .. (W[v].at + Len(W[v].bytes) - 1)}
           lst == CHOOSE v \in over : \A u \in over : u <= v
<1>3. a \in Nat /\ a - W[w].at + 1 = skip + j
  <2>1. PICK x \in Nat : x = W[w].at
    BY <1>1
  <2> QED BY <1>1, <2>1
<1>4. w \in over
  <2>1. PICK x \in Nat, y \in Nat, z \in Nat : x = W[w].at /\ y = Len(W[w].bytes) /\ z = Len(bytes)
    BY <1>1
  <2>2. a = x + skip + j - 1 /\ skip + z <= y /\ j \in 1 .. z
    BY <2>1
  <2>3. a \in x .. (x + y - 1)
    BY <2>2
  <2> HIDE DEF a
  <2> QED BY <1>1, <2>1, <2>3
<1>5. ASSUME NEW v \in over PROVE v <= w
  <2> SUFFICES ASSUME ~(v <= w) PROVE FALSE
    OBVIOUS
  <2>1. v \in 1 .. Len(W) /\ v \in w + 1 .. Len(W)
    BY <1>1
  <2>2. Apart(W[v], W[w].at + skip, Len(bytes))
    BY <2>1
  <2> DEFINE x == W[v].at
             y == Len(W[v].bytes)
             z == Len(bytes)
             p == W[w].at + skip
  <2>3. x \in Nat /\ y \in Nat /\ z \in Nat /\ p \in Nat
    <3>1. x \in Nat /\ y \in Nat /\ z \in Nat /\ W[w].at \in Nat
      BY <1>1, <2>1
    <3>2. PICK q \in Nat : q = W[w].at
      BY <3>1
    <3>3. p = q + skip
      BY <3>2
    <3> HIDE DEF p
    <3>4. p \in Nat
      BY <3>3
    <3> QED BY <3>1, <3>4
  <2>4. a = p + j - 1 /\ j \in 1 .. z
    <3>1. a = p + j - 1
      BY Zenon
    <3> QED BY <3>1
  <2>5. a \in x .. (x + y - 1)
    <3>1. v \in over
      OBVIOUS
    <3> HIDE DEF a
    <3> QED BY <3>1
  <2>6. p + z <= x \/ x + y <= p
    BY <2>2 DEF Apart
  <2> HIDE DEF a, over, x, y, z, p
  <2> QED BY <2>3, <2>4, <2>5, <2>6
<1>6. over \subseteq Nat
  BY <1>1
<1>7. Byte(W, a) = IF over = {} THEN Nul ELSE W[lst].bytes[a - W[lst].at + 1]
  BY DEF Byte
<1> HIDE DEF over
<1>8. lst \in over /\ \A u \in over : u <= lst
  BY <1>4, <1>5
<1> HIDE DEF lst, a
<1>9. lst = w
  <2>1. lst <= w /\ w <= lst /\ lst \in Nat /\ w \in Nat
    BY <1>4, <1>5, <1>6, <1>8
  <2> QED BY <2>1
<1>10. Byte(W, a) = W[w].bytes[skip + j]
  BY <1>3, <1>4, <1>7, <1>9
<1> QED BY <1>10 DEF a

Listed ==
  /\ IsSeq(text) /\ IsSeq(symtab)
  /\ \A k \in 1 .. Len(symtab) : symtab[k].name \in Names \union {"_start"}

symbols == Len(symtab)
sym_names == [k \in DOMAIN symtab |-> symtab[k].name]
sym_sizes == [k \in DOMAIN symtab |-> NameLen[symtab[k].name] + 1]
name_sizes == [k \in 1 .. 4 |-> NameLen[SectionNames[k]] + 1]

LEMMA SymbolNames ==
  ASSUME Listed
  PROVE  /\ symbols \in Nat /\ DOMAIN symtab = 1 .. symbols
         /\ IsSeq(sym_names) /\ Len(sym_names) = symbols
         /\ Sizes(sym_sizes) /\ Len(sym_sizes) = symbols /\ SizesOf(sym_names, sym_sizes)
         /\ \A k \in 1 .. symbols : /\ sym_names[k] = symtab[k].name
                                    /\ NameLen[symtab[k].name] \in Nat
                                    /\ sym_sizes[k] = NameLen[symtab[k].name] + 1
<1>1. symbols \in Nat /\ DOMAIN symtab = 1 .. symbols
  BY DEF Listed, IsSeq, symbols
<1>2. ASSUME NEW k \in 1 .. symbols PROVE NameLen[symtab[k].name] \in Nat
  BY SizesAssumption DEF Listed, symbols
<1>3. /\ sym_names = [k \in 1 .. symbols |-> symtab[k].name]
      /\ sym_sizes = [k \in 1 .. symbols |-> NameLen[symtab[k].name] + 1]
  BY <1>1 DEF sym_names, sym_sizes
<1>4. sym_sizes \in Seq(Nat) /\ Len(sym_sizes) = symbols
  BY <1>1, <1>2, <1>3
<1>5. sym_names \in Seq(Names \union {"_start"}) /\ Len(sym_names) = symbols
  <2>1. \A k \in 1 .. symbols : symtab[k].name \in Names \union {"_start"}
    BY DEF Listed, symbols
  <2> QED BY <1>1, <1>3, <2>1
<1>6. IsSeq(sym_sizes) /\ IsSeq(sym_names)
  BY <1>4, <1>5 DEF IsSeq
<1>7. \A k \in 1 .. symbols : sym_sizes[k] \in Nat
  BY <1>2, <1>3
<1>8. Sizes(sym_sizes)
  BY <1>4, <1>6, <1>7 DEF Sizes
<1>10. SizesOf(sym_names, sym_sizes)
  BY <1>2, <1>3, <1>4, <1>5, <1>6, <1>8 DEF SizesOf
<1>9. \A k \in 1 .. symbols : /\ sym_names[k] = symtab[k].name
                             /\ sym_sizes[k] = NameLen[symtab[k].name] + 1
  BY <1>3
<1> QED BY <1>1, <1>2, <1>4, <1>5, <1>6, <1>8, <1>9, <1>10

LEMMA SectionIs ==
  /\ IsSeq(SectionNames) /\ Len(SectionNames) = 4
  /\ Sizes(name_sizes) /\ Len(name_sizes) = 4 /\ SizesOf(SectionNames, name_sizes)
  /\ \A k \in 1 .. 4 : NameLen[SectionNames[k]] \in Nat /\ name_sizes[k] = NameLen[SectionNames[k]] + 1
  /\ name_sizes[1] + name_sizes[2] + name_sizes[3] + name_sizes[4] + 1 <= SHSTRTAB_SIZE
<1>1. /\ Len(SectionNames) = 4 /\ SectionNames[1] = ".text" /\ SectionNames[2] = ".strtab"
      /\ SectionNames[3] = ".shstrtab" /\ SectionNames[4] = ".symtab"
  BY DEF SectionNames
<1>2. IsSeq(SectionNames)
  <2>1. SectionNames \in Seq({".text", ".strtab", ".shstrtab", ".symtab"})
    BY DEF SectionNames
  <2> QED BY <2>1 DEF IsSeq
<1>3. /\ NameLen[".text"] \in Nat /\ NameLen[".strtab"] \in Nat
      /\ NameLen[".shstrtab"] \in Nat /\ NameLen[".symtab"] \in Nat
  BY SizesAssumption
<1>4. ASSUME NEW k \in 1 .. 4 PROVE NameLen[SectionNames[k]] \in Nat
  <2>1. k \in {1, 2, 3, 4}
    OBVIOUS
  <2> QED BY <1>1, <1>3, <2>1
<1>5. name_sizes \in Seq(Nat) /\ Len(name_sizes) = 4
  BY <1>4 DEF name_sizes
<1>6. /\ name_sizes[1] = NameLen[".text"] + 1 /\ name_sizes[2] = NameLen[".strtab"] + 1
      /\ name_sizes[3] = NameLen[".shstrtab"] + 1 /\ name_sizes[4] = NameLen[".symtab"] + 1
  BY <1>1 DEF name_sizes
<1>7. name_sizes[1] + name_sizes[2] + name_sizes[3] + name_sizes[4] + 1 <= SHSTRTAB_SIZE
  <2>1. PICK a \in Nat, b \in Nat, c \in Nat, d \in Nat :
          /\ a = NameLen[".text"] /\ b = NameLen[".strtab"]
          /\ c = NameLen[".shstrtab"] /\ d = NameLen[".symtab"]
    BY <1>3
  <2>2. 5 + a + b + c + d <= SHSTRTAB_SIZE /\ SHSTRTAB_SIZE \in Nat
    BY <2>1, LayoutAssumption, SizesAssumption
  <2>3. name_sizes[1] = a + 1 /\ name_sizes[2] = b + 1 /\ name_sizes[3] = c + 1 /\ name_sizes[4] = d + 1
    BY <1>6, <2>1
  <2> QED BY <2>2, <2>3
<1>8. IsSeq(name_sizes)
  BY <1>5 DEF IsSeq
<1>9. \A k \in 1 .. 4 : name_sizes[k] = NameLen[SectionNames[k]] + 1
  BY DEF name_sizes
<1>10. Sizes(name_sizes)
  <2>1. \A k \in 1 .. Len(name_sizes) : name_sizes[k] \in Nat
    <3>1. \A k \in 1 .. 4 : NameLen[SectionNames[k]] + 1 \in Nat
      BY <1>4
    <3> QED BY <1>5, <1>9, <3>1
  <2> QED BY <1>8, <2>1 DEF Sizes
<1>11. SizesOf(SectionNames, name_sizes)
  BY <1>1, <1>2, <1>4, <1>5, <1>9, <1>10 DEF SizesOf
<1> QED BY <1>1, <1>2, <1>4, <1>5, <1>7, <1>9, <1>10, <1>11

(* Sections follow each other. *)
LEMMA SectionsAt ==
  ASSUME Listed
  PROVE  /\ text_count \in Nat /\ calculate_strtab_size \in Nat
         /\ text_off = ELF_TEXT_OFF
         /\ strtab_off = text_off + text_count
         /\ shstrtab_off = strtab_off + calculate_strtab_size
         /\ symtab_off = shstrtab_off + SHSTRTAB_SIZE
         /\ {text_off, strtab_off, shstrtab_off, symtab_off} \subseteq Nat
<1> DEFINE a == text_count
           b == calculate_strtab_size
           c == SHSTRTAB_SIZE
           d == (Len(symtab) + 1) * ELF_SYMTAB_ENTSIZE
<1>1. a \in Nat
  BY DEF Listed, IsSeq, text_count
<1>2. b \in Nat
  <2>1. PICK f : SumsTo(f, sym_sizes)
    BY SymbolNames, SumsExist
  <2>2. symbols \in 0 .. Len(sym_sizes) /\ Len(sym_sizes) = symbols /\ Sizes(sym_sizes)
    BY SymbolNames
  <2>3. Sum(sym_sizes) \in Nat
    BY <2>1, <2>2, SumIs
  <2> QED BY <2>3 DEF calculate_strtab_size, sym_sizes
<1>3. c \in Nat /\ d \in Nat /\ ELF_TEXT_OFF \in Nat
  <2>1. Len(symtab) \in Nat /\ ELF_SYMTAB_ENTSIZE \in Nat
    BY SizesAssumption DEF Listed, IsSeq
  <2>2. (Len(symtab) + 1) * ELF_SYMTAB_ENTSIZE \in Nat
    BY <2>1
  <2> QED BY <2>2, SizesAssumption
<1>4. section_sizes = <<a, b, c, d>>
  BY DEF section_sizes
<1> HIDE DEF a, b, c, d
<1>5. section_sizes \in Seq(Nat) /\ Len(section_sizes) = 4 /\ section_sizes[1] = a
      /\ section_sizes[2] = b /\ section_sizes[3] = c /\ section_sizes[4] = d
  BY <1>1, <1>2, <1>3, <1>4
<1>6. Sizes(section_sizes)
  BY <1>5 DEF Sizes, IsSeq
<1>7. PICK f : SumsTo(f, section_sizes)
  BY <1>6, SumsExist
<1>8. ASSUME NEW i \in 1 .. 4 PROVE section_off(i) = ELF_TEXT_OFF + f[i - 1]
  <2> DEFINE t == SubSeq(section_sizes, 1, i - 1)
  <2>1. Len(t) = i - 1
    BY <1>5
  <2>2. \A j \in 1 .. i - 1 : t[j] = section_sizes[j]
    BY <1>5
  <2>3. i - 1 \in 0 .. Len(section_sizes)
    BY <1>5
  <2> HIDE DEF t
  <2>4. Sum(t) = f[i - 1]
    BY <1>6, <1>7, <2>1, <2>2, <2>3, SumIs
  <2> QED BY <2>4 DEF section_off, t
<1>9. f[0] = 0 /\ f[1] = a /\ f[2] = a + b /\ f[3] = a + b + c
  <2>1. f[0] = 0 /\ f[1] = f[1 - 1] + a /\ f[2] = f[2 - 1] + b /\ f[3] = f[3 - 1] + c
    BY <1>5, <1>7 DEF SumsTo
  <2> QED BY <2>1, <1>1, <1>2, <1>3
<1>10. text_off = ELF_TEXT_OFF + 0 /\ strtab_off = ELF_TEXT_OFF + a
       /\ shstrtab_off = ELF_TEXT_OFF + (a + b) /\ symtab_off = ELF_TEXT_OFF + (a + b + c)
  <2>1. /\ section_off(1) = ELF_TEXT_OFF + f[0] /\ section_off(2) = ELF_TEXT_OFF + f[1]
        /\ section_off(3) = ELF_TEXT_OFF + f[2] /\ section_off(4) = ELF_TEXT_OFF + f[3]
    BY <1>8
  <2> QED BY <1>9, <2>1 DEF text_off, strtab_off, shstrtab_off, symtab_off
<1>11. /\ text_off \in Nat /\ strtab_off \in Nat /\ shstrtab_off \in Nat /\ symtab_off \in Nat
       /\ text_off = ELF_TEXT_OFF /\ strtab_off = text_off + a /\ shstrtab_off = strtab_off + b
       /\ symtab_off = shstrtab_off + c
  BY <1>1, <1>2, <1>3, <1>10
<1> QED BY <1>1, <1>2, <1>11 DEF a, b, c

(* Names begin where headers and symbols say. *)
LEMMA NamesAt ==
  ASSUME Listed
  PROVE  /\ \A f : SumsTo(f, sym_sizes) =>
              /\ f[symbols] = calculate_strtab_size
              /\ \A k \in 1 .. symbols : sym_name(k) = f[k - 1] + 1 /\ f[k - 1] \in Nat
         /\ \A f : SumsTo(f, name_sizes) =>
              /\ f[4] = name_sizes[1] + name_sizes[2] + name_sizes[3] + name_sizes[4]
              /\ \A k \in 1 .. 4 : shdr_name_ptr(k) = f[k - 1] + 1 /\ f[k - 1] \in Nat
<1>1. ASSUME NEW f, SumsTo(f, sym_sizes)
      PROVE  /\ f[symbols] = calculate_strtab_size
             /\ \A k \in 1 .. symbols : sym_name(k) = f[k - 1] + 1 /\ f[k - 1] \in Nat
  <2>1. symbols \in 0 .. Len(sym_sizes) /\ Len(sym_sizes) = symbols /\ Sizes(sym_sizes) /\ symbols \in Nat
    BY SymbolNames
  <2>2. Sum(sym_sizes) = f[symbols]
    BY <1>1, <2>1, SumIs
  <2>3. ASSUME NEW k \in 1 .. symbols PROVE sym_name(k) = f[k - 1] + 1 /\ f[k - 1] \in Nat
    <3> DEFINE t == [j \in 1 .. (k - 1) |-> NameLen[symtab[j].name] + 1]
    <3>1. Len(t) = k - 1 /\ k - 1 \in 0 .. Len(sym_sizes)
      BY <2>1
    <3>2. \A j \in 1 .. k - 1 : t[j] = sym_sizes[j]
      BY <2>1, SymbolNames
    <3> HIDE DEF t
    <3>3. Sum(t) = f[k - 1] /\ f[k - 1] \in Nat
      BY <1>1, <2>1, <3>1, <3>2, SumIs
    <3> QED BY <3>3 DEF sym_name, t
  <2> QED BY <2>2, <2>3 DEF calculate_strtab_size, sym_sizes
<1>2. ASSUME NEW f, SumsTo(f, name_sizes)
      PROVE  /\ f[4] = name_sizes[1] + name_sizes[2] + name_sizes[3] + name_sizes[4]
             /\ \A k \in 1 .. 4 : shdr_name_ptr(k) = f[k - 1] + 1 /\ f[k - 1] \in Nat
  <2>1. Len(name_sizes) = 4 /\ Sizes(name_sizes)
    BY SectionIs
  <2>2. ASSUME NEW k \in 1 .. 4 PROVE shdr_name_ptr(k) = f[k - 1] + 1 /\ f[k - 1] \in Nat
    <3> DEFINE t == [j \in 1 .. (k - 1) |-> NameLen[SectionNames[j]] + 1]
    <3>1. Len(t) = k - 1 /\ k - 1 \in 0 .. Len(name_sizes)
      BY <2>1
    <3>2. \A j \in 1 .. k - 1 : t[j] = name_sizes[j]
      BY SectionIs
    <3> HIDE DEF t
    <3>3. Sum(t) = f[k - 1] /\ f[k - 1] \in Nat
      BY <1>2, <2>1, <3>1, <3>2, SumIs
    <3> QED BY <3>3 DEF shdr_name_ptr, t
  <2>3. f[4] = name_sizes[1] + name_sizes[2] + name_sizes[3] + name_sizes[4]
    <3>1. /\ f[0] = 0 /\ f[1] = f[1 - 1] + name_sizes[1] /\ f[2] = f[2 - 1] + name_sizes[2]
          /\ f[3] = f[3 - 1] + name_sizes[3] /\ f[4] = f[4 - 1] + name_sizes[4]
      BY <1>2, <2>1 DEF SumsTo
    <3>2. name_sizes[1] \in Nat /\ name_sizes[2] \in Nat /\ name_sizes[3] \in Nat /\ name_sizes[4] \in Nat
      BY <2>1 DEF Sizes
    <3> QED BY <3>1, <3>2
  <2> QED BY <2>2, <2>3
<1> QED BY <1>1, <1>2

(* The list of writes: five headers of sections, the text, two tables of   *)
(* names, the symbols, and the headers of the file.                        *)
LEMMA WritesAre ==
  ASSUME Listed, NEW W, W = elf_init
  PROVE  /\ IsSeq(W) /\ Len(W) = symbols + 11
         /\ \A i \in 1 .. 5 : W[i] = Write(ELF_SH_OFF + (i - 1) * ELF_SH_SIZE, Block("shdr", i - 1, ELF_SH_SIZE))
         /\ W[6] = Write(text_off, Block("text", 0, Capacity(text_count)))
         /\ W[7] = Write(shstrtab_off, Strings(SectionNames))
         /\ W[8] = Write(strtab_off, Strings(sym_names))
         /\ \A k \in 0 .. symbols :
              W[9 + k] = Write(symtab_off + k * ELF_SYMTAB_ENTSIZE, Block("sym", k, ELF_SYMTAB_ENTSIZE))
         /\ W[symbols + 10] = Write(ELF_PHDR_OFF, Block("phdr", 0, ELF_PHDR_SIZE))
         /\ W[symbols + 11] = Write(0, Block("fhdr", 0, ELF_PHDR_OFF))
<1> DEFINE h(i) == Write(ELF_SH_OFF + (i - 1) * ELF_SH_SIZE, Block("shdr", i - 1, ELF_SH_SIZE))
           s(k) == Write(symtab_off + (k - 1) * ELF_SYMTAB_ENTSIZE, Block("sym", k - 1, ELF_SYMTAB_ENTSIZE))
           w6 == Write(text_off, Block("text", 0, Capacity(text_count)))
           w7 == Write(shstrtab_off, Strings(SectionNames))
           w8 == Write(strtab_off, Strings(sym_names))
           w10 == Write(ELF_PHDR_OFF, Block("phdr", 0, ELF_PHDR_SIZE))
           w11 == Write(0, Block("fhdr", 0, ELF_PHDR_OFF))
           N == symbols
           H == [i \in 1 .. 5 |-> h(i)]
           S == [k \in 1 .. (N + 1) |-> s(k)]
<1>1. W = H \o <<w6>> \o <<w7>> \o (<<w8>> \o S) \o (<<w10>> \o <<w11>>)
  BY DEF elf_init, emit_shdrs, emit_text, emit_shstrtab, emit_symtab, emit_fhdr, emit_phdrs, symbols, sym_names
<1>2. N \in Nat
  BY SymbolNames
<1> HIDE DEF h, s, w6, w7, w8, w10, w11, N
<1>3. /\ IsSeq(H) /\ Len(H) = 5 /\ (\A i \in 1 .. 5 : H[i] = h(i))
      /\ IsSeq(S) /\ Len(S) = N + 1 /\ (\A k \in 1 .. N + 1 : S[k] = s(k))
  <2>1. H \in Seq({h(i) : i \in 1 .. 5}) /\ Len(H) = 5
    OBVIOUS
  <2>2. S \in Seq({s(k) : k \in 1 .. N + 1}) /\ Len(S) = N + 1
    BY <1>2
  <2> QED BY <2>1, <2>2 DEF IsSeq
<1> HIDE DEF H, S
<1>4. \A x : IsSeq(<<x>>) /\ Len(<<x>>) = 1 /\ <<x>>[1] = x
  <2> TAKE x
  <2>1. <<x>> \in Seq({x})
    OBVIOUS
  <2> QED BY <2>1 DEF IsSeq
<1> DEFINE A6 == H \o <<w6>>
           A7 == A6 \o <<w7>>
           B == <<w8>> \o S
           C == <<w10>> \o <<w11>>
           A8 == A7 \o B
<1>5. /\ IsSeq(A6) /\ Len(A6) = 6 /\ (\A i \in 1 .. 5 : A6[i] = h(i)) /\ A6[6] = w6
  <2>1. IsSeq(H) /\ IsSeq(<<w6>>)
    BY <1>3, <1>4
  <2> HIDE DEF H
  <2>2. /\ IsSeq(A6) /\ Len(A6) = Len(H) + Len(<<w6>>)
        /\ (\A i \in 1 .. Len(H) : A6[i] = H[i])
        /\ (\A i \in 1 .. Len(<<w6>>) : A6[Len(H) + i] = <<w6>>[i])
    BY <2>1, SeqJoin
  <2> HIDE DEF A6
  <2>3. Len(H) = 5 /\ Len(<<w6>>) = 1 /\ <<w6>>[1] = w6
    BY <1>3, <1>4
  <2>4. Len(A6) = 6 /\ A6[6] = w6 /\ \A i \in 1 .. 5 : A6[i] = H[i]
    BY <2>2, <2>3
  <2> QED BY <2>2, <2>4, <1>3
<1>6. /\ IsSeq(A7) /\ Len(A7) = 7 /\ (\A i \in 1 .. 5 : A7[i] = h(i)) /\ A7[6] = w6 /\ A7[7] = w7
  <2>1. IsSeq(A6) /\ IsSeq(<<w7>>)
    BY <1>5, <1>4
  <2> HIDE DEF A6
  <2>2. /\ IsSeq(A7) /\ Len(A7) = Len(A6) + Len(<<w7>>)
        /\ (\A i \in 1 .. Len(A6) : A7[i] = A6[i])
        /\ (\A i \in 1 .. Len(<<w7>>) : A7[Len(A6) + i] = <<w7>>[i])
    BY <2>1, SeqJoin
  <2> HIDE DEF A7
  <2>3. Len(A6) = 6 /\ Len(<<w7>>) = 1 /\ <<w7>>[1] = w7
    BY <1>5, <1>4
  <2>4. Len(A7) = 7 /\ A7[7] = w7 /\ \A i \in 1 .. 6 : A7[i] = A6[i]
    BY <2>2, <2>3
  <2> QED BY <2>2, <2>4, <1>5
<1>7. /\ IsSeq(B) /\ Len(B) = N + 2 /\ B[1] = w8 /\ (\A k \in 1 .. N + 1 : B[1 + k] = s(k))
  <2>1. 1 \in 1 .. Len(<<w8>>) /\ Len(<<w8>>) + Len(S) = N + 2 /\ Len(<<w8>>) = 1
    BY <1>2, <1>3, <1>4
  <2> QED BY <2>1, <1>3, <1>4, SeqJoin
<1>8. /\ IsSeq(C) /\ Len(C) = 2 /\ C[1] = w10 /\ C[2] = w11
  <2>1. 1 \in 1 .. Len(<<w10>>) /\ 1 \in 1 .. Len(<<w11>>) /\ Len(<<w10>>) + Len(<<w11>>) = 2 /\ Len(<<w10>>) + 1 = 2
    BY <1>4
  <2> QED BY <2>1, <1>4, SeqJoin
<1> HIDE DEF A7, B, C
<1>9. /\ IsSeq(A8) /\ Len(A8) = N + 9 /\ (\A i \in 1 .. 7 : A8[i] = A7[i])
      /\ A8[8] = w8 /\ (\A k \in 1 .. N + 1 : A8[8 + k] = s(k))
  <2>1. /\ 1 \in 1 .. Len(B) /\ Len(A7) + Len(B) = N + 9 /\ Len(A7) + 1 = 8
        /\ \A k \in 1 .. N + 1 : 1 + k \in 1 .. Len(B) /\ Len(A7) + (1 + k) = 8 + k
    BY <1>2, <1>6, <1>7
  <2>2. /\ IsSeq(A8) /\ Len(A8) = Len(A7) + Len(B)
        /\ (\A i \in 1 .. Len(A7) : A8[i] = A7[i]) /\ (\A i \in 1 .. Len(B) : A8[Len(A7) + i] = B[i])
    <3>1. IsSeq(A7) /\ IsSeq(B)
      BY <1>6, <1>7
    <3> QED BY <3>1, SeqJoin
  <2> HIDE DEF A8
  <2>3. ASSUME NEW k \in 1 .. N + 1 PROVE A8[8 + k] = s(k)
    BY <2>1, <2>2, <1>7
  <2> QED BY <2>1, <2>2, <2>3, <1>6, <1>7
<1>10. W = A8 \o C
  BY <1>1 DEF A7, B, C
<1> HIDE DEF A8
<1>11. /\ IsSeq(W) /\ Len(W) = N + 11 /\ (\A i \in 1 .. N + 9 : W[i] = A8[i]) /\ W[N + 10] = w10 /\ W[N + 11] = w11
  <2>1. 1 \in 1 .. Len(C) /\ 2 \in 1 .. Len(C) /\ Len(A8) + Len(C) = N + 11 /\ Len(A8) + 1 = N + 10
        /\ Len(A8) + 2 = N + 11
    BY <1>2, <1>8, <1>9
  <2>2. /\ IsSeq(W) /\ Len(W) = Len(A8) + Len(C)
        /\ (\A i \in 1 .. Len(A8) : W[i] = A8[i]) /\ (\A i \in 1 .. Len(C) : W[Len(A8) + i] = C[i])
    <3>1. IsSeq(A8) /\ IsSeq(C)
      BY <1>8, <1>9
    <3> QED BY <3>1, <1>10, SeqJoin
  <2> QED BY <2>1, <2>2, <1>8, <1>9
<1>12. \A i \in 1 .. 7 : i \in 1 .. N + 9 /\ W[i] = A7[i]
  BY <1>2, <1>9, <1>11
<1>13. (\A i \in 1 .. 5 : W[i] = h(i)) /\ W[6] = w6 /\ W[7] = w7 /\ W[8] = w8
  BY <1>2, <1>6, <1>9, <1>11, <1>12
<1>14. ASSUME NEW k \in 0 .. N
       PROVE  W[9 + k] = Write(symtab_off + k * ELF_SYMTAB_ENTSIZE, Block("sym", k, ELF_SYMTAB_ENTSIZE))
  <2>1. k + 1 \in 1 .. N + 1 /\ 8 + (k + 1) = 9 + k /\ 9 + k \in 1 .. N + 9 /\ k + 1 - 1 = k
    BY <1>2
  <2>2. W[9 + k] = s(k + 1)
    BY <2>1, <1>9, <1>11
  <2> QED BY <2>1, <2>2 DEF s
<1> QED BY <1>11, <1>13, <1>14 DEF h, w6, w7, w8, w10, w11, N

(* What a reader finds, if everything ends before the section headers.     *)
Image(W) ==
  /\ Reads(W, 0, Block("fhdr", 0, ELF_PHDR_OFF))
  /\ Reads(W, ELF_PHDR_OFF, Block("phdr", 0, ELF_PHDR_SIZE))
  /\ \A i \in 0..4 : Reads(W, ELF_SH_OFF + i * ELF_SH_SIZE, Block("shdr", i, ELF_SH_SIZE))
  /\ Reads(W, text_off, Block("text", 0, text_count))
  /\ \A i \in 1..4 : Reads(W, shstrtab_off + shdr_name_ptr(i), emit_symbol(SectionNames[i]))
  /\ \A k \in DOMAIN symtab :
       /\ Reads(W, symtab_off + k * ELF_SYMTAB_ENTSIZE, Block("sym", k, ELF_SYMTAB_ENTSIZE))
       /\ Reads(W, strtab_off + sym_name(k), emit_symbol(symtab[k].name))

LEMMA ImageIs ==
  ASSUME Listed, Fits
  PROVE  Image(elf_init)
<1> DEFINE N == symbols
           E == ELF_SYMTAB_ENTSIZE
           S == ELF_SH_SIZE
           w(i) == elf_init[i]
           at(i) == w(i).at
           size(i) == Len(w(i).bytes)
<1>1. PICK W : W = elf_init
  OBVIOUS
<1>2. N \in Nat /\ DOMAIN symtab = 1 .. N
  BY SymbolNames
<1>3. PICK to \in Nat, so \in Nat, ho \in Nat, yo \in Nat, tc \in Nat, sz \in Nat, cap \in Nat :
        /\ to = text_off /\ so = strtab_off /\ ho = shstrtab_off /\ yo = symtab_off
        /\ tc = text_count /\ sz = calculate_strtab_size /\ cap = Capacity(text_count)
  BY SectionsAt, CapacityIs
<1>4. /\ to = ELF_TEXT_OFF /\ so = to + tc /\ ho = so + sz /\ yo = ho + SHSTRTAB_SIZE /\ tc <= cap
  BY <1>3, SectionsAt, CapacityIs
<1>5. PICK f : SumsTo(f, sym_sizes)
  BY SymbolNames, SumsExist
<1>6. PICK g : SumsTo(g, name_sizes)
  BY SectionIs, SumsExist
<1>7. PICK ss, hs : ss = Strings(sym_names) /\ hs = Strings(SectionNames)
  OBVIOUS
<1>8. /\ IsSeq(ss) /\ Len(ss) = sz + 1
      /\ \A k \in 1 .. N : \A j \in 1 .. sym_sizes[k] : ss[sym_name(k) + j] = emit_symbol(symtab[k].name)[j]
  <2>1. /\ IsSeq(sym_names) /\ Len(sym_names) = N /\ Sizes(sym_sizes) /\ Len(sym_sizes) = N
        /\ \A k \in 1 .. N : /\ sym_names[k] = symtab[k].name
                             /\ NameLen[sym_names[k]] \in Nat
                             /\ sym_sizes[k] = NameLen[sym_names[k]] + 1
    BY SymbolNames
  <2>2. /\ IsSeq(ss) /\ Len(ss) = f[N] + 1
        /\ \A k \in 1 .. N : \A j \in 1 .. sym_sizes[k] : ss[f[k - 1] + 1 + j] = emit_symbol(sym_names[k])[j]
    <3>1. TableOf(ss, sym_names, sym_sizes, f)
      BY <1>5, <1>7, SymbolNames, StringsIs
    <3> HIDE DEF N
    <3> QED BY <2>1, <3>1 DEF TableOf
  <2>3. f[N] = sz /\ \A k \in 1 .. N : sym_name(k) = f[k - 1] + 1
    BY <1>3, <1>5, NamesAt
  <2> QED BY <2>1, <2>2, <2>3
<1>9. /\ IsSeq(hs) /\ Len(hs) = g[4] + 1 /\ g[4] \in Nat /\ g[4] + 1 <= SHSTRTAB_SIZE
      /\ \A k \in 1 .. 4 : \A j \in 1 .. name_sizes[k] : hs[shdr_name_ptr(k) + j] = emit_symbol(SectionNames[k])[j]
  <2>1. /\ IsSeq(SectionNames) /\ Len(SectionNames) = 4 /\ Sizes(name_sizes) /\ Len(name_sizes) = 4
        /\ \A k \in 1 .. 4 : NameLen[SectionNames[k]] \in Nat /\ name_sizes[k] = NameLen[SectionNames[k]] + 1
    BY SectionIs
  <2>2. /\ IsSeq(hs) /\ Len(hs) = g[4] + 1
        /\ \A k \in 1 .. 4 : \A j \in 1 .. name_sizes[k] : hs[g[k - 1] + 1 + j] = emit_symbol(SectionNames[k])[j]
    <3>1. TableOf(hs, SectionNames, name_sizes, g)
      BY <1>6, <1>7, SectionIs, StringsIs
    <3> QED BY <2>1, <3>1 DEF TableOf
  <2>3. /\ g[4] = name_sizes[1] + name_sizes[2] + name_sizes[3] + name_sizes[4]
        /\ \A k \in 1 .. 4 : shdr_name_ptr(k) = g[k - 1] + 1
    BY <1>6, NamesAt
  <2>4. g[4] \in Nat
    BY <1>6, <2>1 DEF SumsTo
  <2> QED BY <2>2, <2>3, <2>4, SectionIs
<1>10. /\ {ELF_TEXT_OFF, ELF_SH_OFF, S, ELF_PHDR_OFF, ELF_PHDR_SIZE, E, SHSTRTAB_SIZE} \subseteq Nat
       /\ ELF_PHDR_OFF + ELF_PHDR_SIZE <= ELF_TEXT_OFF /\ ELF_TEXT_OFF < ELF_SH_OFF
  BY SizesAssumption, LayoutAssumption
<1>11. to + cap <= ELF_SH_OFF /\ yo + (N + 1) * E <= ELF_SH_OFF
  <2>1. section_sizes[4] = (N + 1) * E
    BY DEF section_sizes, symbols
  <2> QED BY <1>3, <2>1 DEF Fits
<1>12. ASSUME NEW k \in 0 .. N
       PROVE  k * E \in Nat /\ yo + k * E + E <= ELF_SH_OFF /\ \A l \in k + 1 .. N : k * E + E <= l * E
  <2>1. k * E \in Nat /\ (N + 1) * E \in Nat /\ k * E + E <= (N + 1) * E
    BY <1>2, <1>10, Times
  <2>2. ASSUME NEW l \in k + 1 .. N PROVE k * E + E <= l * E
    <3>1. k \in Nat /\ l \in Nat /\ k < l /\ E \in Nat
      BY <1>2, <1>10
    <3> HIDE DEF E, N
    <3> QED BY <3>1, Times
  <2>3. yo + k * E + E <= ELF_SH_OFF
    <3>1. PICK x \in Nat, y \in Nat : x = k * E /\ y = (N + 1) * E
      BY <2>1
    <3>2. x + E <= y /\ yo + y <= ELF_SH_OFF
      BY <1>11, <2>1, <3>1
    <3>3. yo + x + E <= ELF_SH_OFF
      BY <1>10, <3>2
    <3> QED BY <3>1, <3>3
  <2> QED BY <2>1, <2>2, <2>3
<1>13. /\ IsSeq(W) /\ Len(W) = N + 11
       /\ \A i \in 0 .. 4 : W[i + 1] = Write(ELF_SH_OFF + i * S, Block("shdr", i, S))
       /\ W[6] = Write(to, Block("text", 0, cap)) /\ W[7] = Write(ho, hs) /\ W[8] = Write(so, ss)
       /\ \A k \in 0 .. N : W[9 + k] = Write(yo + k * E, Block("sym", k, E))
       /\ W[N + 10] = Write(ELF_PHDR_OFF, Block("phdr", 0, ELF_PHDR_SIZE))
       /\ W[N + 11] = Write(0, Block("fhdr", 0, ELF_PHDR_OFF))
  <2>1. ASSUME NEW i \in 0 .. 4 PROVE W[i + 1] = Write(ELF_SH_OFF + i * S, Block("shdr", i, S))
    <3>1. i + 1 \in 1 .. 5 /\ i + 1 - 1 = i
      OBVIOUS
    <3> QED BY <1>1, <3>1, WritesAre
  <2> HIDE DEF N, E, S
  <2> QED BY <1>1, <1>3, <1>7, <2>1, WritesAre DEF N, E, S
<1> HIDE DEF N, E, S
<1>L. IsSeq(W) /\ Len(W) = N + 11
  BY <1>13
<1>H. \A i \in 0 .. 4 : W[i + 1] = Write(ELF_SH_OFF + i * S, Block("shdr", i, S))
  BY <1>13
<1>Y. \A k \in 0 .. N : W[9 + k] = Write(yo + k * E, Block("sym", k, E))
  BY <1>13
<1>14. \A a, b : Write(a, b).at = a /\ Write(a, b).bytes = b
  BY DEF Write
<1>15. ASSUME NEW i \in 0 .. 4
       PROVE  i * S \in Nat /\ W[i + 1].at = ELF_SH_OFF + i * S /\ W[i + 1].bytes = Block("shdr", i, S)
  <2>1. i * S \in Nat
    <3>1. S \in Nat /\ i \in Nat
      BY <1>10
    <3> QED BY <3>1
  <2>2. W[i + 1] = Write(ELF_SH_OFF + i * S, Block("shdr", i, S))
    BY <1>H
  <2> QED BY <2>1, <2>2, <1>14
<1>16. ASSUME NEW k \in 0 .. N
       PROVE  W[9 + k].at = yo + k * E /\ W[9 + k].bytes = Block("sym", k, E)
  <2>1. W[9 + k] = Write(yo + k * E, Block("sym", k, E))
    BY <1>Y
  <2> QED BY <2>1, <1>14
<1>17. /\ W[6].at = to /\ W[6].bytes = Block("text", 0, cap)
       /\ W[7].at = ho /\ W[7].bytes = hs /\ W[8].at = so /\ W[8].bytes = ss
       /\ W[N + 10].at = ELF_PHDR_OFF /\ W[N + 10].bytes = Block("phdr", 0, ELF_PHDR_SIZE)
       /\ W[N + 11].at = 0 /\ W[N + 11].bytes = Block("fhdr", 0, ELF_PHDR_OFF)
  BY <1>13, <1>14
<1>18. ASSUME NEW v \in 1 .. Len(W)
       PROVE  \/ \E i \in 0 .. 4 : v = i + 1
              \/ v \in {6, 7, 8, N + 10, N + 11}
              \/ \E k \in 0 .. N : v = 9 + k
  <2>1. v \in 1 .. N + 11
    BY <1>L
  <2>2. v <= 5 => v - 1 \in 0 .. 4 /\ v = (v - 1) + 1
    BY <2>1
  <2>3. v >= 9 /\ v <= N + 9 => v - 9 \in 0 .. N /\ v = 9 + (v - 9)
    BY <1>2, <2>1
  <2>4. v <= 5 \/ v \in {6, 7, 8, N + 10, N + 11} \/ (v >= 9 /\ v <= N + 9)
    BY <1>2, <2>1
  <2> QED BY <2>2, <2>3, <2>4
<1>19. Placed(W)
  <2>1. ASSUME NEW v \in 1 .. Len(W) PROVE W[v].at \in Nat /\ IsSeq(W[v].bytes)
    <3>1. ASSUME NEW i \in 0 .. 4, v = i + 1 PROVE W[v].at \in Nat /\ IsSeq(W[v].bytes)
      <4>1. PICK x \in Nat, y \in Nat : x = i * S /\ y = ELF_SH_OFF
        BY <1>10, <1>15
      <4>2. W[v].at = y + x /\ W[v].bytes = Block("shdr", i, S) /\ S \in Nat
        BY <1>10, <1>15, <3>1, <4>1
      <4> QED BY <4>2, BlockIs
    <3>2. ASSUME NEW k \in 0 .. N, v = 9 + k PROVE W[v].at \in Nat /\ IsSeq(W[v].bytes)
      <4>1. yo + k * E \in Nat
        BY <1>12
      <4> QED BY <1>10, <1>16, <3>2, <4>1, BlockIs
    <3>3. CASE v \in {6, 7, 8, N + 10, N + 11}
      <4>1. /\ IsSeq(Block("text", 0, cap)) /\ IsSeq(Block("phdr", 0, ELF_PHDR_SIZE))
            /\ IsSeq(Block("fhdr", 0, ELF_PHDR_OFF)) /\ IsSeq(ss) /\ IsSeq(hs)
        <5>1. ELF_PHDR_OFF \in Nat /\ ELF_PHDR_SIZE \in Nat
          BY <1>10
        <5> QED BY <1>8, <1>9, <5>1, BlockIs
      <4>2. ELF_PHDR_OFF \in Nat
        BY <1>10
      <4>3. CASE v = 6
        BY <1>17, <4>1, <4>3
      <4>4. CASE v = 7
        BY <1>17, <4>1, <4>4
      <4>5. CASE v = 8
        BY <1>17, <4>1, <4>5
      <4>6. CASE v = N + 10
        BY <1>17, <4>1, <4>2, <4>6
      <4>7. CASE v = N + 11
        BY <1>17, <4>1, <4>7
      <4> QED BY <3>3, <4>3, <4>4, <4>5, <4>6, <4>7
    <3> QED BY <1>18, <3>1, <3>2, <3>3
  <2> QED BY <1>L, <2>1 DEF Placed
(* What lies between the headers is apart from them. *)
<1>20. ASSUME NEW a \in Nat, NEW n \in Nat, a >= ELF_TEXT_OFF
       PROVE  Apart(W[N + 10], a, n) /\ Apart(W[N + 11], a, n)
  <2>1. ELF_PHDR_OFF \in Nat /\ ELF_PHDR_SIZE \in Nat
    BY <1>10
  <2>2. Len(W[N + 10].bytes) = ELF_PHDR_SIZE /\ Len(W[N + 11].bytes) = ELF_PHDR_OFF
    BY <1>17, <2>1, BlockIs
  <2>3. ELF_PHDR_OFF + ELF_PHDR_SIZE <= a /\ 0 + ELF_PHDR_OFF <= a
    BY <1>10, <1>20
  <2> QED BY <1>17, <2>2, <2>3 DEF Apart
<1>21. ASSUME NEW a \in Nat, NEW n \in Nat, a + n <= yo \/ a >= ELF_SH_OFF, NEW k \in 0 .. N
       PROVE  Apart(W[9 + k], a, n)
  <2>1. PICK x \in Nat : x = k * E
    BY <1>12
  <2>2. W[9 + k].at = yo + x /\ Len(W[9 + k].bytes) = E /\ yo + x + E <= ELF_SH_OFF
    <3>1. E \in Nat
      BY <1>10
    <3>2. W[9 + k].at = yo + x /\ W[9 + k].bytes = Block("sym", k, E) /\ yo + x + E <= ELF_SH_OFF
      BY <1>12, <1>16, <2>1
    <3> QED BY <3>1, <3>2, BlockIs
  <2>3. a + n <= yo + x \/ yo + x + E <= a
    BY <1>10, <1>21, <2>2
  <2> QED BY <2>2, <2>3 DEF Apart
<1>22. ASSUME NEW a \in Nat, NEW n \in Nat, a + n <= so \/ a >= ho + 1
       PROVE  Apart(W[8], a, n)
  <2>1. W[8].at = so /\ Len(W[8].bytes) = sz + 1
    BY <1>8, <1>17
  <2> QED BY <1>4, <1>22, <2>1 DEF Apart
<1>23. ASSUME NEW a \in Nat, NEW n \in Nat, a + n <= ho \/ a >= yo
       PROVE  Apart(W[7], a, n)
  <2>1. W[7].at = ho /\ Len(W[7].bytes) = g[4] + 1
    BY <1>9, <1>17
  <2>2. PICK x \in Nat : x = g[4] /\ x + 1 <= SHSTRTAB_SIZE
    BY <1>9
  <2>3. a + n <= ho \/ ho + (x + 1) <= a
    BY <1>4, <1>10, <1>23, <2>2
  <2> QED BY <2>1, <2>2, <2>3 DEF Apart
<1>24. ho + 1 <= yo /\ yo <= ELF_SH_OFF /\ to <= so /\ so <= ho
  <2>1. 1 <= SHSTRTAB_SIZE
    BY <1>9, <1>10
  <2>2. yo + 0 * E + E <= ELF_SH_OFF /\ 0 * E = 0
    BY <1>2, <1>10, <1>12
  <2>3. yo <= ELF_SH_OFF
    BY <1>10, <2>2
  <2> QED BY <1>4, <1>10, <2>1, <2>3
<1>25. Reads(W, 0, Block("fhdr", 0, ELF_PHDR_OFF))
  <2>1. N + 11 \in 1 .. Len(W) /\ \A v \in N + 11 + 1 .. Len(W) : FALSE
    BY <1>2, <1>L
  <2>2. Reads(W, W[N + 11].at + 0, W[N + 11].bytes)
    <3>1. IsSeq(W[N + 11].bytes) /\ 0 + Len(W[N + 11].bytes) <= Len(W[N + 11].bytes)
          /\ \A j \in 1 .. Len(W[N + 11].bytes) : W[N + 11].bytes[0 + j] = W[N + 11].bytes[j]
      BY <1>10, <1>17, BlockIs
    <3> QED BY <1>19, <2>1, <3>1, ReadsIs
  <2> QED BY <1>17, <2>2
(* A whole write. *)
<1>26. ASSUME NEW v \in 1 .. Len(W), NEW a, NEW bytes, a = W[v].at, bytes = W[v].bytes,
              \A u \in v + 1 .. Len(W) : Apart(W[u], a, Len(bytes))
       PROVE  Reads(W, a, bytes)
  <2>1. a \in Nat /\ IsSeq(bytes)
    BY <1>19, <1>26 DEF Placed
  <2>2. Len(bytes) \in Nat
    BY <2>1 DEF IsSeq
  <2>3. a + 0 = a /\ 0 + Len(bytes) = Len(bytes) /\ \A j \in 1 .. Len(bytes) : bytes[0 + j] = bytes[j]
    BY <2>1, <2>2
  <2>4. 0 + Len(bytes) <= Len(W[v].bytes) /\ \A j \in 1 .. Len(bytes) : W[v].bytes[0 + j] = bytes[j]
    BY <1>26, <2>2, <2>3
  <2>5. \A u \in v + 1 .. Len(W) : Apart(W[u], W[v].at + 0, Len(bytes))
    BY <1>26, <2>3
  <2>6. Reads(W, W[v].at + 0, bytes)
    BY <1>19, <2>1, <2>4, <2>5, ReadsIs
  <2> QED BY <1>26, <2>3, <2>6
(* What stands between the headers, and is apart from the sections behind. *)
<1>27. ASSUME NEW v \in 6 .. N + 9, NEW a \in Nat, NEW n \in Nat, a >= ELF_TEXT_OFF,
              v < 7 => a + n <= ho \/ a >= yo,
              v < 8 => a + n <= so \/ a >= ho + 1,
              \A l \in 0 .. N : v < 9 + l => Apart(W[9 + l], a, n)
       PROVE  \A u \in v + 1 .. Len(W) : Apart(W[u], a, n)
  <2> TAKE u \in v + 1 .. Len(W)
  <2>1. u \in 7 .. N + 11 /\ u \in 1 .. Len(W) /\ v < u
    BY <1>2, <1>L
  <2>2. CASE u \in {N + 10, N + 11}
    BY <1>20, <1>27, <2>2
  <2>3. CASE u = 7
    BY <1>23, <1>27, <2>1, <2>3
  <2>4. CASE u = 8
    BY <1>22, <1>27, <2>1, <2>4
  <2>5. CASE u \in 9 .. N + 9
    <3>1. u - 9 \in 0 .. N /\ 9 + (u - 9) = u
      BY <1>2, <2>5
    <3> QED BY <1>27, <2>1, <3>1
  <2> QED BY <1>2, <2>1, <2>2, <2>3, <2>4, <2>5
<1>28. Reads(W, ELF_PHDR_OFF, Block("phdr", 0, ELF_PHDR_SIZE))
  <2>1. N + 10 \in 1 .. Len(W) /\ \A u \in N + 10 + 1 .. Len(W) : u = N + 11
    BY <1>2, <1>L
  <2>2. Apart(W[N + 11], ELF_PHDR_OFF, Len(Block("phdr", 0, ELF_PHDR_SIZE)))
    <3>1. Len(W[N + 11].bytes) = ELF_PHDR_OFF /\ ELF_PHDR_OFF \in Nat
      BY <1>10, <1>17, BlockIs
    <3> QED BY <1>17, <3>1 DEF Apart
  <2> QED BY <1>17, <1>26, <2>1, <2>2
<1>29. ASSUME NEW i \in 0 .. 4
       PROVE  Reads(W, ELF_SH_OFF + i * S, Block("shdr", i, S))
  <2> DEFINE a == ELF_SH_OFF + i * S
  <2>1. i + 1 \in 1 .. Len(W) /\ a \in Nat /\ S \in Nat /\ a >= ELF_SH_OFF
    <3>1. PICK x \in Nat : x = i * S
      BY <1>15
    <3>2. a = ELF_SH_OFF + x /\ ELF_SH_OFF \in Nat /\ S \in Nat
      BY <1>10, <3>1
    <3> HIDE DEF a
    <3>3. a \in Nat /\ a >= ELF_SH_OFF
      BY <3>2
    <3>4. i + 1 \in 1 .. Len(W)
      BY <1>2, <1>L
    <3> QED BY <3>2, <3>3, <3>4
  <2>2. W[i + 1].at = a /\ W[i + 1].bytes = Block("shdr", i, S) /\ Len(Block("shdr", i, S)) = S
    BY <1>10, <1>15, BlockIs
  <2> HIDE DEF a
  <2>3. ASSUME NEW u \in i + 1 + 1 .. Len(W) PROVE Apart(W[u], a, S)
    <3>1. u \in 1 .. Len(W)
      BY <1>L
    <3>2. ASSUME NEW l \in 0 .. 4, u = l + 1 PROVE Apart(W[u], a, S)
      <4>1. W[u].at = ELF_SH_OFF + l * S
        BY <1>15, <3>2
      <4>2. i < l /\ i \in Nat /\ l \in Nat
        BY <3>2
      <4>3. i * S \in Nat /\ l * S \in Nat /\ i * S + S <= l * S
        BY <2>1, <4>2, Times
      <4>4. PICK x \in Nat, y \in Nat : x = i * S /\ y = l * S
        BY <4>3
      <4>5. a + S <= ELF_SH_OFF + y
        <5>1. a = ELF_SH_OFF + x /\ x + S <= y /\ ELF_SH_OFF \in Nat /\ S \in Nat
          BY <1>10, <4>3, <4>4 DEF a
        <5> QED BY <5>1
      <4> QED BY <4>1, <4>4, <4>5 DEF Apart
    <3>3. CASE u = 6
      <4>1. Len(W[6].bytes) = cap
        BY <1>17, BlockIs
      <4>2. to + cap <= a
        BY <1>10, <1>11, <2>1
      <4> QED BY <1>17, <3>3, <4>1, <4>2 DEF Apart
    <3>4. CASE u = 7
      <4>1. a >= yo
        BY <1>10, <1>24, <2>1
      <4> QED BY <1>23, <2>1, <3>4, <4>1
    <3>5. CASE u = 8
      <4>1. a >= ho + 1
        BY <1>10, <1>24, <2>1
      <4> QED BY <1>22, <2>1, <3>5, <4>1
    <3>6. CASE u \in {N + 10, N + 11}
      <4>1. a >= ELF_TEXT_OFF
        BY <1>10, <2>1
      <4> QED BY <1>20, <2>1, <3>6, <4>1
    <3>7. ASSUME NEW l \in 0 .. N, u = 9 + l PROVE Apart(W[u], a, S)
      BY <1>21, <2>1, <3>7
    <3> QED BY <1>18, <3>1, <3>2, <3>3, <3>4, <3>5, <3>6, <3>7
  <2>4. Reads(W, a, Block("shdr", i, S))
    BY <1>26, <2>1, <2>2, <2>3
  <2> QED BY <2>4 DEF a
<1>30. ASSUME NEW k \in 0 .. N
       PROVE  Reads(W, yo + k * E, Block("sym", k, E))
  <2> DEFINE a == yo + k * E
  <2>1. 9 + k \in 6 .. N + 9 /\ 9 + k \in 1 .. Len(W) /\ a \in Nat /\ E \in Nat /\ a >= yo
    <3>1. PICK x \in Nat : x = k * E
      BY <1>12
    <3>2. a = yo + x /\ E \in Nat
      BY <1>10, <3>1
    <3> HIDE DEF a
    <3>3. a \in Nat /\ a >= yo
      BY <3>2
    <3> QED BY <1>2, <1>L, <3>2, <3>3
  <2>2. W[9 + k].at = a /\ W[9 + k].bytes = Block("sym", k, E) /\ Len(Block("sym", k, E)) = E
    BY <1>10, <1>16, BlockIs
  <2> HIDE DEF a
  <2>3. a >= ELF_TEXT_OFF
    BY <1>4, <1>24, <2>1
  <2>4. ASSUME NEW l \in 0 .. N, 9 + k < 9 + l PROVE Apart(W[9 + l], a, E)
    <3>1. W[9 + l].at = yo + l * E /\ l \in k + 1 .. N
      BY <1>16, <2>4
    <3>2. k * E + E <= l * E /\ k * E \in Nat /\ l * E \in Nat
      BY <1>12, <3>1
    <3>3. PICK x \in Nat, y \in Nat : x = k * E /\ y = l * E
      BY <3>2
    <3>4. a + E <= yo + y
      BY <2>1, <3>2, <3>3 DEF a
    <3> QED BY <3>1, <3>3, <3>4 DEF Apart
  <2>5. \A u \in 9 + k + 1 .. Len(W) : Apart(W[u], a, E)
    BY <1>27, <2>1, <2>3, <2>4
  <2>6. Reads(W, a, Block("sym", k, E))
    BY <1>26, <2>1, <2>2, <2>5
  <2> QED BY <2>6 DEF a
<1>31. Reads(W, text_off, Block("text", 0, text_count))
  <2> DEFINE b == Block("text", 0, tc)
  <2>1. /\ IsSeq(b) /\ Len(b) = tc /\ Len(W[6].bytes) = cap
        /\ \A j \in 1 .. tc : b[j] = <<"text", 0, j>> /\ W[6].bytes[0 + j] = <<"text", 0, j>>
    <3>1. \A j \in 1 .. tc : j \in 1 .. cap /\ 0 + j = j
      BY <1>4
    <3>2. \A j \in 1 .. tc : Block("text", 0, cap)[0 + j] = <<"text", 0, j>>
      BY <3>1, BlockIs
    <3> QED BY <1>17, <3>2, BlockIs
  <2> HIDE DEF b
  <2>2. 6 \in 6 .. N + 9 /\ 6 \in 1 .. Len(W) /\ W[6].at + 0 = to /\ 0 + tc <= cap
    <3>1. W[6].at = to /\ to + 0 = to /\ 0 + tc <= cap
      BY <1>4, <1>17
    <3> QED BY <1>2, <1>L, <3>1
  <2>3. to + tc <= ho /\ to + tc <= so /\ to + tc <= yo /\ to >= ELF_TEXT_OFF
    BY <1>4, <1>24
  <2>4. \A l \in 0 .. N : Apart(W[9 + l], to, tc)
    BY <1>21, <2>3
  <2>5. \A u \in 6 + 1 .. Len(W) : Apart(W[u], to, tc)
    <3>1. PICK v \in 6 .. N + 9 : v = 6
      BY <2>2
    <3>2. \A u \in v + 1 .. Len(W) : Apart(W[u], to, tc)
      BY <1>27, <2>3, <2>4
    <3> QED BY <3>1, <3>2
  <2>6. Reads(W, W[6].at + 0, b)
    <3>1. PICK v \in 1 .. Len(W), skip \in Nat : v = 6 /\ skip = 0
      BY <2>2
    <3>2. W[v].at + skip = to /\ skip + tc <= cap
      BY <2>2, <3>1
    <3>3. \A j \in 1 .. tc : W[v].bytes[skip + j] = b[j]
      BY <2>1, <3>1
    <3>4. \A u \in v + 1 .. Len(W) : Apart(W[u], W[v].at + skip, Len(b))
      BY <2>1, <2>5, <3>1, <3>2
    <3>5. skip + Len(b) <= Len(W[v].bytes)
      BY <2>1, <3>1, <3>2
    <3>6. Reads(W, W[v].at + skip, b)
      BY <1>19, <2>1, <3>3, <3>4, <3>5, ReadsIs
    <3> QED BY <3>1, <3>6
  <2> QED BY <1>3, <2>2, <2>6 DEF b
<1>32. ASSUME NEW i \in 1 .. 4
       PROVE  Reads(W, shstrtab_off + shdr_name_ptr(i), emit_symbol(SectionNames[i]))
  <2> DEFINE b == emit_symbol(SectionNames[i])
  <2>1. /\ SumsTo(g, name_sizes) /\ Sizes(name_sizes) /\ Len(name_sizes) = 4
        /\ NameLen[SectionNames[i]] \in Nat /\ name_sizes[i] = NameLen[SectionNames[i]] + 1
    BY <1>6, SectionIs
  <2>2. IsSeq(b) /\ Len(b) = name_sizes[i] /\ name_sizes[i] \in Nat
    <3>1. PICK B : Nul \in B /\ \A j \in Nat : <<SectionNames[i], 0, j>> \in B
      <4>1. Nul \in {Nul} \union {<<SectionNames[i], 0, j>> : j \in Nat}
        OBVIOUS
      <4>2. \A j \in Nat : <<SectionNames[i], 0, j>> \in {Nul} \union {<<SectionNames[i], 0, x>> : x \in Nat}
        OBVIOUS
      <4> QED BY <4>1, <4>2
    <3>2. b \in Seq(B) /\ Len(b) = NameLen[SectionNames[i]] + 1
      BY <2>1, <3>1, SymbolIs
    <3> QED BY <2>1, <3>2 DEF IsSeq
  <2> HIDE DEF b
  <2>3. PICK p \in Nat, n \in Nat, x \in Nat, m \in Nat :
          p = shdr_name_ptr(i) /\ n = name_sizes[i] /\ x = g[i - 1] /\ m = g[4]
    <3>1. shdr_name_ptr(i) = g[i - 1] + 1 /\ g[i - 1] \in Nat
      BY <1>6, NamesAt
    <3>2. shdr_name_ptr(i) \in Nat
      BY <3>1
    <3> QED BY <1>9, <2>2, <3>1, <3>2
  <2>4. p = x + 1 /\ x + n <= m /\ m + 1 <= SHSTRTAB_SIZE
    <3>1. shdr_name_ptr(i) = g[i - 1] + 1
      BY <1>6, NamesAt
    <3>2. i \in 1 .. Len(name_sizes) /\ i \in 0 .. Len(name_sizes) /\ 4 \in i .. Len(name_sizes)
      BY <2>1
    <3>3. g[i] = g[i - 1] + name_sizes[i] /\ g[i] <= g[4]
      BY <2>1, <3>2, SumsGrow DEF SumsTo
    <3> QED BY <1>9, <2>3, <3>1, <3>3
  <2>5. /\ p + Len(b) <= Len(W[7].bytes) /\ \A j \in 1 .. Len(b) : W[7].bytes[p + j] = b[j]
    <3>1. Len(W[7].bytes) = m + 1 /\ Len(b) = n
      BY <1>9, <1>17, <2>2, <2>3
    <3>2. \A j \in 1 .. n : W[7].bytes[p + j] = b[j]
      BY <1>9, <1>17, <2>3 DEF b
    <3> QED BY <2>4, <3>1, <3>2
  <2>6. 7 \in 6 .. N + 9 /\ 7 \in 1 .. Len(W) /\ W[7].at = ho
    BY <1>2, <1>L, <1>17
  <2>7. /\ ho + p \in Nat /\ ho + p >= ELF_TEXT_OFF /\ ho + p + n <= yo /\ ho + p >= ho + 1
    BY <1>4, <1>10, <1>24, <2>4
  <2>8. \A l \in 0 .. N : Apart(W[9 + l], ho + p, n)
    BY <1>21, <2>7
  <2>9. \A u \in 7 + 1 .. Len(W) : Apart(W[u], ho + p, n)
    <3>1. PICK q \in Nat, v \in 6 .. N + 9 : q = ho + p /\ v = 7
      BY <2>6, <2>7
    <3>2. q >= ELF_TEXT_OFF /\ (v < 7 => q + n <= ho \/ q >= yo) /\ (v < 8 => q + n <= so \/ q >= ho + 1)
      BY <2>7, <3>1
    <3>3. \A l \in 0 .. N : v < 9 + l => Apart(W[9 + l], q, n)
      BY <2>8, <3>1
    <3>4. \A u \in v + 1 .. Len(W) : Apart(W[u], q, n)
      BY <1>27, <3>1, <3>2, <3>3
    <3> QED BY <3>1, <3>4
  <2>10. Reads(W, W[7].at + p, b)
    BY <1>19, <2>2, <2>3, <2>5, <2>6, <2>9, ReadsIs
  <2> QED BY <1>3, <2>3, <2>6, <2>10 DEF b
<1>33. ASSUME NEW k \in 1 .. N
       PROVE  Reads(W, strtab_off + sym_name(k), emit_symbol(symtab[k].name))
  <2> DEFINE name == symtab[k].name
             b == emit_symbol(name)
  <2>1. /\ SumsTo(f, sym_sizes) /\ Sizes(sym_sizes) /\ Len(sym_sizes) = N
        /\ NameLen[name] \in Nat /\ sym_sizes[k] = NameLen[name] + 1
    BY <1>5, SymbolNames DEF N
  <2>2. IsSeq(b) /\ Len(b) = sym_sizes[k] /\ sym_sizes[k] \in Nat
    <3> HIDE DEF name
    <3>1. PICK B : Nul \in B /\ \A j \in Nat : <<name, 0, j>> \in B
      <4>1. Nul \in {Nul} \union {<<name, 0, j>> : j \in Nat}
        OBVIOUS
      <4>2. \A j \in Nat : <<name, 0, j>> \in {Nul} \union {<<name, 0, x>> : x \in Nat}
        OBVIOUS
      <4> QED BY <4>1, <4>2
    <3>2. b \in Seq(B) /\ Len(b) = NameLen[name] + 1
      BY <2>1, <3>1, SymbolIs
    <3> QED BY <2>1, <3>2 DEF IsSeq
  <2>3. b = emit_symbol(symtab[k].name)
    OBVIOUS
  <2> HIDE DEF b, name
  <2>4. sym_name(k) = f[k - 1] + 1 /\ f[k - 1] \in Nat /\ f[N] = sz
    BY <1>3, <1>5, NamesAt DEF N
  <2>5. PICK p \in Nat, n \in Nat, x \in Nat : p = sym_name(k) /\ n = sym_sizes[k] /\ x = f[k - 1]
    <3>1. sym_name(k) \in Nat
      BY <2>4
    <3> QED BY <2>2, <2>4, <3>1
  <2>6. p = x + 1 /\ x + n <= sz
    <3>1. k \in 1 .. Len(sym_sizes) /\ k \in 0 .. Len(sym_sizes) /\ N \in k .. Len(sym_sizes)
      BY <1>2, <2>1
    <3>2. f[k] = f[k - 1] + sym_sizes[k] /\ f[k] <= f[N]
      BY <2>1, <3>1, SumsGrow DEF SumsTo
    <3> QED BY <2>4, <2>5, <3>2
  <2>7. /\ p + Len(b) <= Len(W[8].bytes) /\ \A j \in 1 .. Len(b) : W[8].bytes[p + j] = b[j]
    <3>1. Len(W[8].bytes) = sz + 1 /\ Len(b) = n
      BY <1>8, <1>17, <2>2, <2>5
    <3>2. \A j \in 1 .. n : W[8].bytes[p + j] = b[j]
      BY <1>8, <1>17, <2>3, <2>5
    <3> QED BY <2>6, <3>1, <3>2
  <2>8. 8 \in 6 .. N + 9 /\ 8 \in 1 .. Len(W) /\ W[8].at = so
    BY <1>2, <1>L, <1>17
  <2>9. /\ so + p \in Nat /\ so + p >= ELF_TEXT_OFF /\ so + p + n <= yo
    BY <1>4, <1>10, <1>24, <2>6
  <2>10. \A l \in 0 .. N : Apart(W[9 + l], so + p, n)
    BY <1>21, <2>9
  <2>11. \A u \in 8 + 1 .. Len(W) : Apart(W[u], so + p, n)
    <3>1. PICK q \in Nat, v \in 6 .. N + 9 : q = so + p /\ v = 8
      BY <2>8, <2>9
    <3>2. q >= ELF_TEXT_OFF /\ (v < 7 => q + n <= ho \/ q >= yo) /\ (v < 8 => q + n <= so \/ q >= ho + 1)
      BY <2>9, <3>1
    <3>3. \A l \in 0 .. N : v < 9 + l => Apart(W[9 + l], q, n)
      BY <2>10, <3>1
    <3>4. \A u \in v + 1 .. Len(W) : Apart(W[u], q, n)
      BY <1>27, <3>1, <3>2, <3>3
    <3> QED BY <3>1, <3>4
  <2>12. Reads(W, W[8].at + p, b)
    BY <1>19, <2>2, <2>5, <2>7, <2>8, <2>11, ReadsIs
  <2> QED BY <1>3, <2>3, <2>5, <2>8, <2>12
<1>34. \A k \in DOMAIN symtab : Reads(W, symtab_off + k * ELF_SYMTAB_ENTSIZE, Block("sym", k, ELF_SYMTAB_ENTSIZE))
  <2>1. \A k \in 1 .. N : k \in 0 .. N
    BY <1>2
  <2> QED BY <1>2, <1>3, <1>30, <2>1 DEF E
<1>35. \A i \in 0 .. 4 : Reads(W, ELF_SH_OFF + i * ELF_SH_SIZE, Block("shdr", i, ELF_SH_SIZE))
  BY <1>29 DEF S
<1> QED BY <1>1, <1>2, <1>25, <1>28, <1>31, <1>32, <1>33, <1>34, <1>35 DEF Image

(* elf.c: an object file whose sections end before the section headers     *)
(* shows a reader every header, the text, and each section and symbol with *)
(* its name, whatever the functions, their names and the sizes are.        *)
THEOREM ObjectFile == Spec => []ImageReadable
<1>1. UnitInv => ImageReadable
  <2> SUFFICES ASSUME UnitInv, Emitted, Fits PROVE Image(elf_init)
    BY DEF ImageReadable, Image
  <2>1. TextInv /\ NameInv /\ SymbolInv
    BY DEF UnitInv, Emitted, AddrInv
  <2>2. \A k \in 1 .. Len(symtab) : symtab[k].name \in Names \union {"_start"}
    BY <2>1 DEF SymbolInv, NameInv
  <2>3. Listed
    BY <2>1, <2>2 DEF Listed, TextInv, SymbolInv
  <2> QED BY <2>3, ImageIs
<1> QED BY <1>1, AddressInvariance, PTL

====
