---- MODULE CodeGen ----
(***************************************************************************)
(* The code generator back_end/emit.c on top of back_end/back_end.c: it    *)
(* walks the functions of a unit and inserts instructions at text_seek.    *)
(* _start is a jump to main that is inserted at address 0 when main is     *)
(* reached, which moves all code generated so far by one instruction.      *)
(* The functions and nodes of a unit are chosen as the walk reaches them.  *)
(* Nodes emit.c ignores (bin, sym, jump, cond, ...) emit nothing and are   *)
(* one kind, "other"; stack offsets of allocas are computed but not used.  *)
(***************************************************************************)
EXTENDS RiscV

CONSTANTS Names,      \* names of functions, among them "main"
          Imms,       \* integer constants of the program
          Operands,   \* registers a direct caller of risc_v_i_op may name
          DirectImms, \* and its immediates
          MaxNodes,   \* bound: nodes of a unit
          MaxUnits    \* bound: units one process compiles

VARIABLES text,          \* the instructions of output->instrs
          text_seek,     \* byte offset of the next instruction
          symtab,
          mapping_fn,    \* offsets of the functions met so far
          main_emitted,
          tmp_active,    \* __tmp_reg_active has been set
          lru,           \* reg_lru
          fn,            \* the function being visited, or "none"
          phase,         \* "gen", "emit" and how things may end
          nodes, unit,   \* counters for the bounds
          native         \* a direct call of risc_v_i_op, or NoCall

vars == <<text, text_seek, symtab, mapping_fn, main_emitted, tmp_active, lru, fn,
          phase, nodes, unit, native>>

(* _start is the name of the code the back end adds itself.                *)
ASSUME NamesAssumption == "main" \in Names /\ Names \intersect {"none", "_start"} = {}
ASSUME OperandsAssumption == Operands \subseteq Nat
ASSUME ImmsAssumption == Imms \union DirectImms \subseteq -(Words \div 2)..(Words \div 2 - 1)

_start_size == 4
NoCall == [op |-> "none", rds |-> 0, r |-> 0, imm |-> 0, tmp |-> 0, code |-> <<>>]

(* In the text an instruction also carries, for the properties, the        *)
(* function it belongs to, whether it is its first, and whom it calls.     *)
Tag(code, f, head, callee) ==
  [i \in DOMAIN code |->
     [op |-> code[i].op, rd |-> code[i].rd, r1 |-> code[i].r1, r2 |-> code[i].r2,
      imm |-> code[i].imm, fn |-> f, head |-> head /\ i = 1, callee |-> callee]]

(* hashmap_put of a new name.                                              *)
Mapped(f, off) == [g \in DOMAIN mapping_fn \union {f} |-> IF g = f THEN off ELSE mapping_fn[g]]

(* put: every byte is inserted before what stands at text_seek.            *)
InText == text_seek <= 4 * Len(text)
Inserted(txt, seek, code) ==
  SubSeq(txt, 1, seek \div 4) \o code \o SubSeq(txt, seek \div 4 + 1, Len(txt))
put(code) ==
  /\ text' = Inserted(text, text_seek, code)
  /\ text_seek' = text_seek + 4 * Len(code)

Init ==
  /\ text = <<>> /\ text_seek = 0
  /\ symtab = <<[name |-> "_start", off |-> 0]>>
  /\ mapping_fn = [f \in {} |-> 0]
  /\ main_emitted = FALSE /\ tmp_active = FALSE
  /\ lru = init_lru
  /\ fn = "none" /\ phase = "gen" /\ nodes = 0 /\ unit = 1 /\ native = NoCall

------------------------------------------------------------------------------
main_seek == text_seek + _start_size
MainInserted(jump) == Inserted(text, 0, jump)

visit_fn_main ==
  /\ phase = "gen" /\ fn = "none" /\ native = NoCall /\ "main" \notin DOMAIN mapping_fn /\ InText
  /\ main_emitted' = TRUE
  /\ symtab' = Append(symtab, [name |-> "main", off |-> main_seek])
  /\ mapping_fn' = Mapped("main", main_seek)
  /\ text' = MainInserted(Tag(back_end_native_call(main_seek), "_start", TRUE, "main"))
  /\ text_seek' = text_seek + _start_size
  /\ fn' = "main"
  /\ UNCHANGED <<tmp_active, lru, phase, nodes, unit, native>>

(* Mutant: the space for _start is counted after main too.                 *)
usual_off_Always == text_seek + _start_size
usual_off == IF main_emitted THEN text_seek ELSE text_seek + _start_size

visit_fn_usual(f) ==
  /\ phase = "gen" /\ fn = "none" /\ native = NoCall /\ f # "main" /\ f \notin DOMAIN mapping_fn /\ InText
  /\ symtab' = Append(symtab, [name |-> f, off |-> usual_off])
  /\ mapping_fn' = Mapped(f, usual_off)
  /\ put(Tag(back_end_native_prologue(0), f, TRUE, "none"))
  /\ fn' = f
  /\ UNCHANGED <<main_emitted, tmp_active, lru, phase, nodes, unit, native>>

(* The end of a function: exit(2) for main, epilogue and ret for others.   *)
visit_fn_end ==
  /\ phase = "gen" /\ fn # "none"
  /\ LET first == ~\E i \in DOMAIN text : text[i].fn = fn IN
     put(Tag(IF fn = "main" THEN back_end_native_syscall_0(93)
             ELSE back_end_native_epilogue(0) \o back_end_native_ret, fn, first, "none"))
  /\ fn' = "none"
  /\ UNCHANGED <<symtab, mapping_fn, main_emitted, tmp_active, lru, phase, nodes, unit, native>>

------------------------------------------------------------------------------
(* Nodes.  What visiting an expression emits, and how it may fail.         *)

Result(code, callee, l, how) == [code |-> code, callee |-> callee, lru |-> l, how |-> how]

visit_imm(v) ==
  LET o == risc_v_i_op(lru, "addi", t0, zero, v)
  IN Result(o.code, "none", o.lru, IF o.tmp = -1 THEN "abort" ELSE "gen")

(* Mutant: the space for _start is not taken off before main.              *)
call_off_NoStart(f) == mapping_fn[f] - text_seek
call_off(f) == mapping_fn[f] - text_seek - (IF main_emitted THEN 0 ELSE _start_size)

visit_fn_call(f) ==
  IF f \in DOMAIN mapping_fn
  THEN Result(back_end_native_call(call_off(f)), f, lru, "gen")
  ELSE Result(<<>>, "none", lru, "fatal")

Expressions == [kind : {"imm"}, v : Imms] \union [kind : {"call"}, f : Names] \union [kind : {"other"}]

visit(e) ==
  CASE e.kind = "imm"   -> visit_imm(e.v)
    [] e.kind = "call"  -> visit_fn_call(e.f)
    [] e.kind = "other" -> Result(<<>>, "none", lru, "gen")

InFunction == phase = "gen" /\ fn # "none" /\ nodes < MaxNodes /\ nodes' = nodes + 1

EmitNode(res, tail, failed) ==
  LET first == ~\E i \in DOMAIN text : text[i].fn = fn IN
  /\ IF res.how = "gen" /\ ~failed
     THEN put(Tag(res.code \o tail, fn, first, res.callee))
     ELSE UNCHANGED <<text, text_seek>>
  /\ phase' = IF res.how # "gen" THEN res.how ELSE IF failed THEN "crash" ELSE "gen"
  /\ lru' = res.lru
  /\ UNCHANGED <<symtab, mapping_fn, main_emitted, fn, unit, native>>

(* A node of its own, or the body of a store.                              *)
visit_store(e) ==
  /\ InFunction
  /\ tmp_active' = (tmp_active \/ e.kind = "imm")
  /\ EmitNode(visit(e), <<>>, FALSE)

(* The result is taken from the active register, which is a NULL pointer   *)
(* until the first integer constant.                                       *)
visit_ret(e) ==
  /\ InFunction
  /\ tmp_active' = (tmp_active \/ e.kind = "imm")
  /\ EmitNode(visit(e), Small("addi", a0, t0, 0), ~tmp_active')

(* back_end_emit; the object file is the subject of module Elf.            *)
back_end_emit ==
  /\ phase = "gen" /\ fn = "none" /\ text # <<>>
  /\ phase' = "emit"
  /\ UNCHANGED <<text, text_seek, symtab, mapping_fn, main_emitted, tmp_active, lru, fn,
                 nodes, unit, native>>

(* The same process compiles another unit: back_end_init and back_end_gen  *)
(* set the output, the tables and _start anew, and nothing else.           *)
back_end_init ==
  /\ phase = "emit" /\ unit < MaxUnits
  /\ unit' = unit + 1 /\ nodes' = 0 /\ phase' = "gen"
  /\ text' = <<>>
  /\ symtab' = <<[name |-> "_start", off |-> text_seek]>>
  /\ mapping_fn' = [f \in {} |-> 0]
  /\ UNCHANGED <<text_seek, main_emitted, tmp_active, lru, fn, native>>

(* vector_emplace at a position past the end writes outside the vector.    *)
PutOutside ==
  /\ phase = "gen" /\ fn = "none" /\ ~InText
  /\ phase' = "corrupt"
  /\ UNCHANGED <<text, text_seek, symtab, mapping_fn, main_emitted, tmp_active, lru, fn,
                 nodes, unit, native>>

(* A caller that uses the generic instructions directly, as tests do.      *)
back_end_native(op, rds, r, imm) ==
  /\ LET o == risc_v_i_op(lru, op, rds, r, imm) IN
     /\ native' = [op |-> op, rds |-> rds, r |-> r, imm |-> imm, tmp |-> o.tmp, code |-> o.code]
     /\ lru' = o.lru
     /\ phase' = IF o.tmp = -1 THEN "abort" ELSE "gen"
  /\ UNCHANGED <<text, text_seek, symtab, mapping_fn, main_emitted, tmp_active, fn, nodes, unit>>

back_end_native_return ==
  /\ phase = "gen" /\ native # NoCall
  /\ native' = NoCall
  /\ UNCHANGED <<text, text_seek, symtab, mapping_fn, main_emitted, tmp_active, lru, fn,
                 phase, nodes, unit>>

Next ==
  \/ back_end_native_return
  \/ visit_fn_main \/ visit_fn_end \/ back_end_emit \/ back_end_init \/ PutOutside
  \/ \E f \in Names : visit_fn_usual(f)
  \/ \E e \in Expressions : visit_store(e) \/ visit_ret(e)
  \/ /\ phase = "gen" /\ text = <<>> /\ fn = "none" /\ unit = 1 /\ native = NoCall
     /\ \E op \in {"addi", "addiw", "load"}, rds, r \in Operands, imm \in DirectImms :
          back_end_native(op, rds, r, imm)

Spec == Init /\ [][Next]_vars

------------------------------------------------------------------------------
(* Properties.                                                             *)

AddressOf(f) ==
  LET heads == {i \in DOMAIN text : text[i].fn = f /\ text[i].head}
  IN 4 * ((CHOOSE i \in heads : TRUE) - 1)

Emitted == phase = "emit" /\ unit = 1

(* In the text of the first unit every jump and link ends at the first     *)
(* instruction of the function it calls, although inserting _start moves   *)
(* the code after some of the offsets were computed.                       *)
CallsLand ==
  Emitted => \A i \in DOMAIN text :
    text[i].op = "jal" => 4 * (i - 1) + text[i].imm = AddressOf(text[i].callee)

(* With main in the unit, every symbol is at its function and execution    *)
(* starts with the jump to main.                                           *)
SymbolsPoint ==
  Emitted /\ main_emitted => \A k \in DOMAIN symtab : symtab[k].off = AddressOf(symtab[k].name)

(* Values of the registers before a direct call.                           *)
R0 == [r \in {zero, ra, sp, t0, s0, a0, a7} \union Operands
             \union FREE_REG_START..FREE_REG_END |-> 1000 * r]

(* risc_v_i_op is wrong in three cases: an immediate of all ones under the *)
(* sign bit of twice the range is split into halves one of which does not  *)
(* fit; the carry overflows a word at the upper end; and the borrowed      *)
(* register may be the operand.                                            *)
SplitTooLarge(c) == c.op # "load" /\ c.imm = Fields - 1
CarryOverflows(c) == c.op # "addiw" /\ c.imm >= Words \div 2 - Fields \div 2
TempIsOperand(c) == c.tmp = c.r /\ c.tmp # 0

(* Otherwise the code of an immediate operation or a load, whatever way it *)
(* is lowered, leaves the wanted value in the destination and changes no   *)
(* register but the destination and the borrowed one.                      *)
NativeComputes ==
  native # NoCall /\ native.tmp # -1
    /\ ~SplitTooLarge(native) /\ ~CarryOverflows(native) /\ ~TempIsOperand(native)
  => LET R == Run(R0, native.code) IN
     /\ native.rds # zero => R[native.rds] = Wanted(R0, native.op, native.r, native.imm)
     /\ \A r \in DOMAIN R0 \ {native.rds, native.tmp} : R[r] = R0[r]

(* Registers are lent in turn, none twice before every other was; the      *)
(* allocator gives up only when each has been lent.                        *)
LentInTurn ==
  LET Lent == {r \in FREE_REG_START..FREE_REG_END : lru[MAX_REGISTERS] # 0 /\
                 \E k \in 1..MAX_REGISTERS : lru[k] = r /\ \E j \in 1..k : lru[j] = 0}
  IN /\ \A i, j \in 1..MAX_REGISTERS : i # j /\ lru[i] # 0 => lru[i] # lru[j]
     /\ phase = "abort" => Lent = FREE_REG_START..FREE_REG_END
====
