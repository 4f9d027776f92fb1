---- MODULE RiscV ----
(***************************************************************************)
(* Instruction selection of back_end/risc_v.c.  An instruction is a record *)
(* whose immediate is the bits of its field, so what does not fit is cut   *)
(* off as the encoder cuts it.  The width of the immediate field (12) and  *)
(* of an int (32) are parameters.  Exec is the machine: it says what a     *)
(* sequence of instructions does, and is external to the repository.       *)
(***************************************************************************)
EXTENDS Integers, Sequences, FiniteSets

CONSTANTS ImmBits, WordBits,                            \* 12, 32
          MAX_REGISTERS, FREE_REG_START, FREE_REG_END   \* 32, 5, 31

(* The frame offsets of the prologue (16) fit an immediate.                *)
ASSUME BitsAssumption == ImmBits \in Nat /\ WordBits \in Nat /\ 6 <= ImmBits /\ ImmBits < WordBits
ASSUME LruAssumption == /\ FREE_REG_START \in Nat \ {0} /\ FREE_REG_END \in Nat
                        /\ FREE_REG_START <= FREE_REG_END
                        /\ MAX_REGISTERS \in Nat
                        /\ FREE_REG_END - FREE_REG_START < MAX_REGISTERS

zero == 0
ra == 1
sp == 2
t0 == 5
s0 == 8
a0 == 10
a7 == 17

Fields == 2^ImmBits
Words  == 2^WordBits
SignExtend(v, span) == IF v % span >= span \div 2 THEN (v % span) - span ELSE v % span
Int32(v) == SignExtend(v, Words)

------------------------------------------------------------------------------
(* Register allocation: reg_lru, from slot 0 to slot MAX_REGISTERS - 1.    *)

init_lru ==
  [i \in 1..MAX_REGISTERS |->
     IF i <= FREE_REG_END - FREE_REG_START + 1 THEN FREE_REG_START + i - 1 ELSE 0]

(* Mutant: the slot of the register is not closed up.                      *)
update_lru_NoShift(lru, reg) == [lru EXCEPT ![MAX_REGISTERS] = reg]

(* The first slot with reg is closed up; reg goes to the last slot.        *)
update_lru(lru, reg) ==
  LET at == {k \in 1..MAX_REGISTERS : lru[k] = reg}
      first == IF at = {} THEN MAX_REGISTERS + 1 ELSE CHOOSE k \in at : \A j \in at : k <= j
  IN [k \in 1..MAX_REGISTERS |->
        CASE k = MAX_REGISTERS -> reg
          [] k < MAX_REGISTERS /\ k >= first -> lru[k + 1]
          [] OTHER -> lru[k]]

(* The register in slot 0, or -1 when that slot holds none.                *)
allocate_register(lru) == IF lru[1] \in FREE_REG_START..FREE_REG_END THEN lru[1] ELSE -1

------------------------------------------------------------------------------
(* Encoding.                                                               *)

Instr(op, rd, r1, r2, imm) == [op |-> op, rd |-> rd, r1 |-> r1, r2 |-> r2, imm |-> imm]

risc_v_is_valid_imm(imm) == SignExtend(imm, Fields) = imm

risc_v_lui(reg, imm) == <<Instr("lui", reg, 0, 0, imm - (imm % Fields))>>
risc_v_r_op(op, rds, r1, r2) == <<Instr(op, rds, r1, r2, 0)>>
risc_v_i_op_internal(op, rds, r, imm) == <<Instr(op, rds, r, 0, imm % Fields)>>

(* An offset that does not fit emits nothing.                              *)
risc_v_s_op(op, reg, addr, off) ==
  IF risc_v_is_valid_imm(off) THEN <<Instr(op, 0, addr, reg, off % Fields)>> ELSE <<>>

(* off is cut to 21 bits, the lowest of which is not kept.                 *)
risc_v_jal(reg, off) ==
  <<Instr("jal", reg, 0, 0, SignExtend(off - (off % 2), 2097152))>>

(* Mutant: no carry into the upper part.                                   *)
risc_v_native_setreg32s_NoCarry(reg, imm) ==
  IF risc_v_is_valid_imm(imm) THEN risc_v_i_op_internal("addi", reg, zero, imm)
  ELSE risc_v_lui(reg, imm) \o risc_v_i_op_internal("addi", reg, reg, imm)

risc_v_native_setreg32s(reg, imm) ==
  IF risc_v_is_valid_imm(imm) THEN risc_v_i_op_internal("addi", reg, zero, imm)
  ELSE LET up == IF imm % Fields >= Fields \div 2 THEN Int32(imm + Fields) ELSE imm
       IN risc_v_lui(reg, up) \o
          (IF up % Fields = 0 THEN <<>> ELSE risc_v_i_op_internal("addi", reg, reg, up))

risc_v_i_to_r(op) == CASE op = "addi" -> "add" [] op = "addiw" -> "addw" [] OTHER -> op

(* An immediate operation: its code, the register it borrowed (0 if none,  *)
(* -1 if there was none to borrow: abort()), and reg_lru after it.         *)
risc_v_i_op(lru, op, rds, r, imm) ==
  LET rtmp == allocate_register(lru)
      used == update_lru(update_lru(lru, rtmp), rtmp)
      half == imm \div 2
      lo   == SignExtend(imm, Fields)
      Plain(code) == [code |-> code, tmp |-> 0, lru |-> lru]
      Borrowing(code) == IF rtmp = -1 THEN [code |-> <<>>, tmp |-> -1, lru |-> lru]
                                      ELSE [code |-> code, tmp |-> rtmp, lru |-> used]
  IN CASE risc_v_is_valid_imm(imm) -> Plain(risc_v_i_op_internal(op, rds, r, imm))
       [] ~risc_v_is_valid_imm(imm) /\ op # "load" ->
            IF risc_v_is_valid_imm(half)
            THEN Plain(risc_v_i_op_internal(op, rds, r, half) \o
                       risc_v_i_op_internal(op, rds, rds, imm - half))
            ELSE Borrowing(risc_v_native_setreg32s(rtmp, imm) \o
                           risc_v_r_op(risc_v_i_to_r(op), rds, r, rtmp))
       [] OTHER -> Borrowing(risc_v_lui(rtmp, Int32(imm - lo)) \o
                             risc_v_r_op("add", rtmp, rtmp, r) \o
                             risc_v_i_op_internal("load", rds, rtmp, lo))

------------------------------------------------------------------------------
(* Generic instructions; the immediates here fit, so risc_v_i_op makes one *)
(* instruction of each and leaves reg_lru alone.                           *)

Small(op, rds, r, imm) == risc_v_i_op_internal(op, rds, r, imm)

back_end_native_ret == Small("jalr", zero, ra, 0)
back_end_native_call(off) == risc_v_jal(ra, off)
back_end_native_syscall_0(nr) == Small("addi", a7, zero, nr) \o <<Instr("ecall", 0, 0, 0, 0)>>

align_to_16_bytes(num) == ((num + 15) \div 16) * 16

back_end_native_prologue(stack_usage) ==
  LET extra == align_to_16_bytes(stack_usage) IN
  Small("addi", sp, sp, -(extra + 16)) \o risc_v_s_op("sd", ra, sp, extra + 8) \o
  risc_v_s_op("sd", s0, sp, extra) \o Small("addi", s0, sp, extra + 16)

back_end_native_epilogue(stack_usage) ==
  LET extra == align_to_16_bytes(stack_usage) IN
  Small("load", ra, sp, extra + 8) \o Small("load", s0, sp, extra) \o
  Small("addi", sp, sp, extra + 16)

------------------------------------------------------------------------------
(* The machine, on wide registers.  A load from address a gives Loaded(a). *)

Loaded(a) == 1000000 + a

Exec(R, i) ==
  LET v == CASE i.op = "lui"   -> i.imm
             [] i.op = "addi"  -> R[i.r1] + SignExtend(i.imm, Fields)
             [] i.op = "addiw" -> Int32(R[i.r1] + SignExtend(i.imm, Fields))
             [] i.op = "add"   -> R[i.r1] + R[i.r2]
             [] i.op = "addw"  -> Int32(R[i.r1] + R[i.r2])
             [] i.op = "load"  -> Loaded(R[i.r1] + SignExtend(i.imm, Fields))
  IN IF i.rd = zero THEN R ELSE [R EXCEPT ![i.rd] = v]

Run(R, code) ==
  LET f[n \in 0..Len(code)] == IF n = 0 THEN R ELSE Exec(f[n - 1], code[n])
  IN f[Len(code)]

Wanted(R, op, r, imm) ==
  CASE op = "addi"  -> R[r] + imm
    [] op = "addiw" -> Int32(R[r] + imm)
    [] op = "load"  -> Loaded(R[r] + imm)
====
