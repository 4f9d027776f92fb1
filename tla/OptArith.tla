---- MODULE OptArith ----
(***************************************************************************)
(* What opt() of the driver does to an instruction `t = l op r` and what   *)
(* the evaluator then makes of it: the type pass of middle_end/ir/type.c,  *)
(* the rewriting of middle_end/opt/arith.c and the arithmetic of           *)
(* back_end/eval.c.  Both variables and t have one type, as the semantic   *)
(* analysis demands.  A float is a small whole number; the bits of a       *)
(* literal, which arith.c looks at, are those of the union ir_imm_val.     *)
(***************************************************************************)
EXTENDS Integers

CONSTANTS IntBits,    \* width of int
          CharBits,   \* width of char
          Floats,     \* floats in use
          Dts,        \* types in use: "int", "char", "bool", "float"
          Ops         \* operators in use

VARIABLES phase,      \* "gen", "typed", "optimised", "done", or "abort"
          dt,         \* type of the variables
          vals,       \* their values
          void_fn,    \* the unit has a function that returns nothing
          orig,       \* history: the right-hand side as generated
          body,       \* store->body
          result      \* the value stored

arithVars == <<phase, dt, vals, void_fn, orig, body, result>>

ASSUME WidthsAssumption == IntBits \in Nat /\ CharBits \in Nat /\ 2 <= CharBits /\ CharBits < IntBits
ASSUME DtsAssumption == Dts \subseteq {"int", "char", "bool", "float"}

(* 1 << n *)
Pow2[n \in 0 .. IntBits] == IF n = 0 THEN 1 ELSE 2 * Pow2[n - 1]

ASSUME FloatsAssumption == Floats \subseteq 0 .. Pow2[IntBits] - 1

Signed(w)  == -Pow2[w - 1] .. Pow2[w - 1] - 1
Wrap(x, w) == ((x + Pow2[w - 1]) % Pow2[w]) - Pow2[w - 1]

Values(t) == CASE t = "int" -> Signed(IntBits) [] t = "char" -> Signed(CharBits)
               [] t = "bool" -> 0..1           [] t = "float" -> Floats

(* Nodes.  ti is type_info.dt: "unknown" until the type pass has seen it.  *)
Imm(t, v)      == [kind |-> "imm", dt |-> t, v |-> v]
Sym(i)         == [kind |-> "sym", idx |-> i, ti |-> "unknown"]
Bin(op, l, r)  == [kind |-> "bin", op |-> op, lhs |-> l, rhs |-> r]

Abort == -(2 * Pow2[IntBits])     \* weak_unreachable: no value is this small

------------------------------------------------------------------------------
(* type.c *)

type_pass_sym(n) == [n EXCEPT !.ti = dt]

type_pass(n) ==
  CASE n.kind = "sym" -> type_pass_sym(n)
    [] n.kind = "imm" -> n
    [] n.kind = "bin" ->
         LET Typed(m) == IF m.kind = "sym" THEN type_pass_sym(m) ELSE m
         IN  Bin(n.op, Typed(n.lhs), Typed(n.rhs))

(* fn_type_save asks for the size of every function's return type, and     *)
(* ir_type_size knows none for void.                                       *)
fn_type_save_fails == void_fn

------------------------------------------------------------------------------
(* arith.c *)

(* r_imm->imm.__int, whatever the literal's type.  Of the floats, 2.0 has  *)
(* a single bit set, 0.0 none.                                             *)
imm___int(n) ==
  CASE n.dt = "int"   -> n.v
    [] n.dt = "char"  -> n.v % Pow2[CharBits]
    [] n.dt = "bool"  -> n.v
    [] n.dt = "float" -> IF n.v = 0 THEN 0 ELSE IF n.v = 2 THEN Pow2[IntBits - 2] ELSE 3

is_power_of_two(x) == \E k \in 0 .. IntBits - 2 : x = Pow2[k]

(* Mutant: counts the bit from 1.                                          *)
nth_bit_FromOne(x) == (CHOOSE k \in 0 .. IntBits - 2 : x = Pow2[k]) + 1
nth_bit(x)         == CHOOSE k \in 0 .. IntBits - 2 : x = Pow2[k]

(* Mutant: x | 0 is taken for 0.                                           *)
opt_arith_bin_OrZero(b) ==
  LET l == b.lhs
      r == b.rhs
      k == imm___int(r)
  IN  CASE b.op = "-" /\ l.kind = "sym" /\ r.kind = "sym" ->
             IF l.idx = r.idx THEN Imm("int", 0) ELSE b
        [] l.kind = "sym" /\ r.kind = "imm" ->
             CASE b.op \in {"+", "-"} /\ k = 0              -> Sym(l.idx)
               [] b.op \in {"*", "&", "|"} /\ k = 0         -> Imm("int", 0)
               [] b.op = "*" /\ is_power_of_two(k)          -> Bin("<<", Sym(l.idx), Imm("int", nth_bit(k)))
               [] OTHER                                     -> b
        [] OTHER -> b

opt_arith_bin(b) ==
  LET l == b.lhs
      r == b.rhs
      k == imm___int(r)
  IN  CASE b.op = "-" /\ l.kind = "sym" /\ r.kind = "sym" ->
             IF l.idx = r.idx THEN Imm("int", 0) ELSE b
        [] l.kind = "sym" /\ r.kind = "imm" ->
             CASE b.op \in {"+", "-", "|"} /\ k = 0         -> Sym(l.idx)
               [] b.op \in {"*", "&"} /\ k = 0              -> Imm("int", 0)
               [] b.op = "*" /\ is_power_of_two(k)          -> Bin("<<", Sym(l.idx), Imm("int", nth_bit(k)))
               [] OTHER                                     -> b
        [] OTHER -> b

------------------------------------------------------------------------------
(* eval.c *)

(* get() copies type_info.bytes bytes into a zeroed value.                 *)
eval_sym(n) == [dt |-> n.ti, v |-> IF n.ti = "unknown" THEN 0 ELSE vals[n.idx]]
eval_imm(n) == [dt |-> n.dt, v |-> n.v]
Operand(n)  == IF n.kind = "sym" THEN eval_sym(n) ELSE eval_imm(n)

Truth(p) == IF p THEN 1 ELSE 0
(* Bit k of a number, and an operation bit by bit on the low w of them.    *)
Bit(x, k) == (x \div Pow2[k]) % 2
BitOp(op, l, r, w) ==
  LET a == l % Pow2[w]
      b == r % Pow2[w]
      bit(k) == IF op = "&" THEN Bit(a, k) * Bit(b, k) ELSE Truth(Bit(a, k) + Bit(b, k) > 0)
      low[k \in 0 .. w] == IF k = 0 THEN 0 ELSE low[k - 1] + Pow2[k - 1] * bit(k - 1)
  IN  Wrap(low[w], w)

eval_logical(op, l, r) == Truth(IF op = "<" THEN l < r ELSE l = r)

(* C arithmetic; shifts and overflow as the build does them.               *)
eval_ints(op, l, r, w) ==
  CASE op = "+"  -> Wrap(l + r, w)
    [] op = "-"  -> Wrap(l - r, w)
    [] op = "*"  -> Wrap(l * r, w)
    [] op = "<<" -> Wrap(l * Pow2[r], w)
    [] op \in {"&", "|"} -> BitOp(op, l, r, w)

eval_bools(op, l, r) == CASE op = "&" -> l * r [] op = "|" -> Truth(l + r > 0) [] OTHER -> Abort

eval_floats(op, l, r) ==
  CASE op = "+" -> l + r [] op = "-" -> l - r [] op = "*" -> l * r [] OTHER -> Abort

compute(op, l, r) ==
  IF l.dt # r.dt THEN Abort
  ELSE CASE l.dt = "bool"    -> eval_bools(op, l.v, r.v)
         [] l.dt = "unknown" -> Abort
         [] l.dt # "bool" /\ op \in {"<", "=="} -> eval_logical(op, l.v, r.v)
         [] l.dt = "int"     -> eval_ints(op, l.v, r.v, IntBits)
         [] l.dt = "char"    -> eval_ints(op, l.v, r.v, CharBits)
         [] l.dt = "float"   -> eval_floats(op, l.v, r.v)

eval_store(n) ==
  IF n.kind = "bin" THEN compute(n.op, Operand(n.lhs), Operand(n.rhs)) ELSE Operand(n).v

------------------------------------------------------------------------------

(* Operators the analysis accepts between two operands of a type.          *)
Allowed(t) == CASE t = "bool" -> {"&", "|"}
                [] t = "float" -> {"+", "-", "*", "<", "=="}
                [] OTHER -> {"+", "-", "*", "&", "|", "<", "=="}

ArithInit ==
  /\ phase = "gen" /\ result = 0 /\ void_fn \in BOOLEAN
  /\ dt \in Dts /\ vals \in [0..1 -> Values(dt)]
  /\ \E op \in Ops \intersect Allowed(dt), i \in 0..1 :
       \E r \in {Sym(j) : j \in 0..1} \union {Imm(dt, v) : v \in Values(dt)} :
         orig = Bin(op, Sym(i), r)
  /\ body = orig

ir_type_pass ==
  /\ phase = "gen"
  /\ IF fn_type_save_fails THEN phase' = "abort" /\ UNCHANGED body
     ELSE phase' = "typed" /\ body' = type_pass(body)
  /\ UNCHANGED <<dt, vals, void_fn, orig, result>>

ir_opt_arith ==
  /\ phase = "typed" /\ phase' = "optimised"
  /\ body' = opt_arith_bin(body)
  /\ UNCHANGED <<dt, vals, void_fn, orig, result>>

eval ==
  /\ phase = "optimised"
  /\ result' = eval_store(body)
  /\ phase' = IF result' = Abort THEN "abort" ELSE "done"
  /\ UNCHANGED <<dt, vals, void_fn, orig, body>>

ArithNext == ir_type_pass \/ ir_opt_arith \/ eval

ArithSpec == ArithInit /\ [][ArithNext]_arithVars

------------------------------------------------------------------------------

(* The value the instruction was generated to store.                       *)
Meant == eval_store(type_pass(orig))

(* A shift of a char or a float by an int, which compute() refuses; x * 2.0 *)
(* is taken for a multiplication by a power of two as well.                *)
MixedShift == body.kind = "bin" /\ body.op = "<<" /\ dt # "int"

(* Every rewriting is an identity of the arithmetic it rewrites, for every *)
(* type of operand, negative and smallest values included: with its new    *)
(* symbols typed, the new right-hand side has the value of the old one.    *)
RewriteSound ==
  phase = "optimised" /\ ~MixedShift => eval_store(type_pass(body)) = Meant

(* opt.h:42, "A + 0 = A", and the other laws it lists: the evaluator       *)
(* stores the value that the program says.                                 *)
StoresMeant ==
  /\ phase = "done" => result = Meant
  /\ phase = "abort" => void_fn
====
