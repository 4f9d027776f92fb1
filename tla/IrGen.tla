---- MODULE IrGen ----
(***************************************************************************)
(* middle_end/ir/gen.c: lowering of a function body to a linear list of    *)
(* instructions whose jumps name instruction indices.  The AST is visited  *)
(* in source order, so the model reads it as a sequence of events: a       *)
(* simple statement, or the start or the end of a control statement, the   *)
(* points at which visit_if and the loop visitors call visit(body).  What  *)
(* those visitors keep in C locals across that call is a frame of `open`.  *)
(*                                                                         *)
(* Expressions are reduced to the instructions they emit.  Instruction     *)
(* indices start at 0, so the instruction of index n is code[n + 1].       *)
(***************************************************************************)
EXTENDS Integers, SequencesExt

CONSTANTS Stmts,        \* what simple statements emit: sequences of opcodes
          Exprs,        \* what the visit of a condition or of a returned value emits
          ForInits,     \* what a for's init part emits
          ForIncrs,     \* what a for's increment part emits
          Kinds,        \* the control statements in use
          ReturnTypes,  \* the return types in use: "void", "int"
          MaxLen,       \* bound: no statement starts once this many instructions exist
          MaxNest       \* bound on the nesting of control statements

(* The instructions; a store of a call is told from other stores, and      *)
(* "none" marks an absent part of a for.  Only control statements emit     *)
(* jumps and conditions.                                                   *)
Opcodes == {"none", "alloca", "alloca_array", "imm", "sym", "store", "store_call", "bin",
            "push", "pop", "jump", "cond", "ret", "member", "string", "fn_call"}
Plain == Opcodes \ {"jump", "cond"}

ASSUME OpsAssumption ==
  Stmts \union Exprs \union ForInits \union ForIncrs \subseteq Seq(Plain)
ASSUME KindsAssumption == Kinds \subseteq {"if", "while", "do", "for", "break", "continue", "ret"}
ASSUME ReturnTypesAssumption == ReturnTypes \subseteq {"void", "int"}
ASSUME BoundsAssumption == MaxLen \in Nat /\ MaxNest \in Nat

NULL == -2     \* ir_last == NULL
None == -1     \* an absent part, and the -1 of a target that is patched later

VARIABLES
  out,                   \* the list and ir.c's ir_instr_idx: [code, ctr, loop]
  last,                  \* ir_last->instr_idx, or NULL
  open,                  \* the control statements being visited, innermost last
  ir_break_stack,        \* indices of break jumps not attached yet
  ir_loop_header_stack,
  ir_block_depth,
  dt,                    \* return type of the function
  phase,                 \* "body", "done", or "crashed"
  closed,                \* history: the code ranges of finished statements
  flow                   \* history: the break and continue jumps and their loops

vars == <<out, last, open, ir_break_stack, ir_loop_header_stack, ir_block_depth,
          dt, phase, closed, flow>>

Loops == {"while", "do", "for"}

------------------------------------------------------------------------------
(* Creating an instruction and inserting it at the end of the list. *)

(* Mutant: the index is read before it is incremented. *)
emit_IdxBefore(o, ops, target) ==
  [code |-> o.code \o [n \in 1 .. Len(ops) |->
              [op |-> ops[n], idx |-> o.ctr + n - 1, tgt |-> target, loop |-> o.loop]],
   ctr  |-> o.ctr + Len(ops),
   loop |-> o.loop]

(* One instruction per opcode.  Every constructor increments ir_instr_idx  *)
(* once before it reads it; the call inside a store_call shares the count  *)
(* of its store.                                                           *)
emit(o, ops, target) ==
  [code |-> o.code \o [n \in 1 .. Len(ops) |->
              [op |-> ops[n], idx |-> o.ctr + n, tgt |-> target, loop |-> o.loop]],
   ctr  |-> o.ctr + Len(ops),
   loop |-> o.loop]

insert(o, op, target) == emit(o, <<op>>, target)

(* A visit of an expression or of a simple statement: none of the          *)
(* instructions it emits is a jump.                                        *)
visit(o, ops) == emit(o, ops, None)

patch(o, n, target) == [o EXCEPT !.code[n + 1].tgt = target]

(* A condition: true goes to the instruction after the exit jump, whose    *)
(* own target is patched once the body is visited.                         *)
cond_jump(o) ==
  LET j == insert(insert(o, "cond", None), "jump", None)
  IN  patch(j, j.ctr - 1, j.ctr + 1)

(* The index the next instruction will get, as the visitors compute it.    *)
NextIdx == IF last = NULL THEN 0 ELSE last + 1

Extent(id, kind, from, to, cond) ==
  [id |-> id, kind |-> kind, from |-> from, to |-> to, cond |-> cond]

------------------------------------------------------------------------------

(* visit_fn_decl up to visit(decl->body): reset_fn_state, the parameters,  *)
(* ir_reset_state.                                                         *)
Fresh(t) ==
  /\ out = [code |-> <<>>, ctr |-> -1, loop |-> 0] /\ last = NULL
  /\ open = <<>> /\ ir_break_stack = <<>> /\ ir_loop_header_stack = <<>>
  /\ ir_block_depth = 0 /\ dt = t /\ phase = "body"
  /\ closed = {} /\ flow = {}

Init == \E t \in ReturnTypes : Fresh(t)

Room == phase = "body" /\ Len(out.code) < MaxLen
CanOpen(kind) == kind \in Kinds /\ Room /\ Len(open) < MaxNest

Stmt(ops) ==
  /\ Room
  /\ out' = visit(out, ops) /\ last' = out'.ctr
  /\ UNCHANGED <<open, ir_break_stack, ir_loop_header_stack, ir_block_depth,
                 dt, phase, closed, flow>>

visit_ret(ops) ==
  /\ "ret" \in Kinds /\ Room
  /\ out' = insert(visit(out, ops), "ret", None) /\ last' = out'.ctr
  /\ UNCHANGED <<open, ir_break_stack, ir_loop_header_stack, ir_block_depth,
                 dt, phase, closed, flow>>

------------------------------------------------------------------------------
(* visit_if. *)

IfStart(ops) ==
  /\ CanOpen("if")
  /\ LET j == cond_jump(visit(out, ops))
     IN  /\ out' = j /\ last' = j.ctr
         /\ open' = Append(open, [kind |-> "if", from |-> NextIdx, exit |-> j.ctr,
                                  body |-> j.ctr + 1, incr |-> <<>>])
  /\ ir_block_depth' = ir_block_depth + 1
  /\ UNCHANGED <<ir_break_stack, ir_loop_header_stack, dt, phase, closed, flow>>

(* Mutant: the exit jump goes to the last instruction of the body. *)
IfEnd_Short ==
  /\ phase = "body" /\ open # <<>> /\ Last(open).kind = "if"
  /\ LET f == Last(open) IN
       /\ out' = patch(out, f.exit, NextIdx - 1)
       /\ closed' = closed \union
            {Extent(<<Len(open), f.from>>, "if", f.from, NextIdx, None),
             Extent(<<Len(open), f.body>>, "then", f.body, NextIdx, None)}
  /\ open' = Front(open)
  /\ ir_block_depth' = ir_block_depth - 1
  /\ UNCHANGED <<last, ir_break_stack, ir_loop_header_stack, dt, phase, flow>>

(* The end of an if without else.  *)
IfEnd ==
  /\ phase = "body" /\ open # <<>> /\ Last(open).kind = "if"
  /\ LET f == Last(open) IN
       /\ out' = patch(out, f.exit, NextIdx)
       /\ closed' = closed \union
            {Extent(<<Len(open), f.from>>, "if", f.from, NextIdx, None),
             Extent(<<Len(open), f.body>>, "then", f.body, NextIdx, None)}
  /\ open' = Front(open)
  /\ ir_block_depth' = ir_block_depth - 1
  /\ UNCHANGED <<last, ir_break_stack, ir_loop_header_stack, dt, phase, flow>>

(* The end of the then part of an if with else: it ends with a jump over   *)
(* the else part, and the exit jump of the condition goes to the else part. *)
ElseStart ==
  /\ Room /\ open # <<>> /\ Last(open).kind = "if"
  /\ LET f == Last(open)
         j == insert(out, "jump", None)
     IN  /\ out' = patch(j, f.exit, j.ctr + 1) /\ last' = j.ctr
         /\ open' = Append(Front(open), [f EXCEPT !.kind = "else", !.exit = j.ctr,
                                                !.body = j.ctr + 1])
         /\ closed' = closed \union
              {Extent(<<Len(open), f.body>>, "then", f.body, j.ctr, None)}
  /\ UNCHANGED <<ir_break_stack, ir_loop_header_stack, ir_block_depth, dt, phase, flow>>

ElseEnd ==
  /\ phase = "body" /\ open # <<>> /\ Last(open).kind = "else"
  /\ LET f == Last(open) IN
       /\ out' = patch(out, f.exit, NextIdx)
       /\ closed' = closed \union
            {Extent(<<Len(open), f.from>>, "if", f.from, NextIdx, None),
             Extent(<<Len(open), f.body>>, "else", f.body, NextIdx, None)}
  /\ open' = Front(open)
  /\ ir_block_depth' = ir_block_depth - 1
  /\ UNCHANGED <<last, ir_break_stack, ir_loop_header_stack, dt, phase, flow>>

------------------------------------------------------------------------------
(* Loops. *)

(* ++ir_loop_idx for a loop that no other block surrounds.                 *)
Enter(o) == IF ir_block_depth = 0 THEN [o EXCEPT !.loop = @ + 1] ELSE o

OpenLoop(kind, header, exit, body, incr) ==
  /\ open' = Append(open, [kind |-> kind, from |-> header, exit |-> exit,
                           body |-> body, incr |-> incr])
  /\ ir_loop_header_stack' = Append(ir_loop_header_stack, header)
  /\ ir_block_depth' = ir_block_depth + 1
  /\ UNCHANGED <<ir_break_stack, dt, closed, flow>>

WhileStart(ops) ==
  /\ CanOpen("while")
  /\ LET j == cond_jump(visit(Enter(out), ops))
     IN  /\ out' = j /\ last' = j.ctr
         /\ OpenLoop("while", NextIdx, j.ctr, j.ctr + 1, <<>>)
  /\ UNCHANGED phase

DoStart ==
  /\ CanOpen("do")
  /\ out' = Enter(out)
  /\ OpenLoop("do", NextIdx, None, NextIdx, <<>>)
  /\ UNCHANGED <<last, phase>>

(* init <<"none">> stands for an absent init part, ops <<"none">> for an   *)
(* absent condition.  The header index is read from ir_last, which is      *)
(* still NULL when nothing was visited before.                             *)
ForStart(init, ops, incr) ==
  /\ CanOpen("for")
  /\ ~(init = <<"none">> /\ last = NULL)
  /\ LET i == IF init = <<"none">> THEN out ELSE visit(out, init)
         e == Enter(i)
         j == cond_jump(visit(e, ops))
         r == IF ops = <<"none">> THEN e ELSE j
         n == IF init = <<"none">> THEN NextIdx ELSE i.ctr + 1
     IN  /\ out' = r /\ last' = r.ctr
         /\ OpenLoop("for", n, IF ops = <<"none">> THEN None ELSE j.ctr, r.ctr + 1, incr)
  /\ UNCHANGED phase

ForCrash ==
  /\ CanOpen("for") /\ <<"none">> \in ForInits /\ last = NULL
  /\ phase' = "crashed"
  /\ UNCHANGED <<out, last, open, ir_break_stack, ir_loop_header_stack,
                 ir_block_depth, dt, closed, flow>>

(* Mutants: a break goes to the end of the loop; the header is not popped. *)
emit_loop_flow_instrs_Inside(o) ==
  /\ out' = IF ir_break_stack # <<>> THEN patch(o, Last(ir_break_stack), o.ctr) ELSE o
  /\ last' = o.ctr
  /\ ir_break_stack' = IF ir_break_stack # <<>> THEN Front(ir_break_stack) ELSE <<>>
  /\ ir_loop_header_stack' = Front(ir_loop_header_stack)

emit_loop_flow_instrs_NoPop(o) ==
  /\ out' = IF ir_break_stack # <<>> THEN patch(o, Last(ir_break_stack), o.ctr + 1) ELSE o
  /\ last' = o.ctr
  /\ ir_break_stack' = IF ir_break_stack # <<>> THEN Front(ir_break_stack) ELSE <<>>
  /\ UNCHANGED ir_loop_header_stack

(* The latest break that waits for a target gets the index after ir_last;  *)
(* one break per loop end, whichever loop it is in.                        *)
emit_loop_flow_instrs(o) ==
  /\ out' = IF ir_break_stack # <<>> THEN patch(o, Last(ir_break_stack), o.ctr + 1) ELSE o
  /\ last' = o.ctr
  /\ ir_break_stack' = IF ir_break_stack # <<>> THEN Front(ir_break_stack) ELSE <<>>
  /\ ir_loop_header_stack' = Front(ir_loop_header_stack)

CloseLoop(o, body_end, cond) ==
  /\ emit_loop_flow_instrs(o)
  /\ closed' = closed \union
       {Extent(<<Len(open), Last(open).from>>, Last(open).kind, Last(open).from, o.ctr + 1, cond),
        Extent(<<Len(open), Last(open).body>>, "body", Last(open).body, body_end, None)}
  /\ open' = Front(open)
  /\ ir_block_depth' = ir_block_depth - 1
  /\ UNCHANGED <<dt, phase, flow>>

Closing(kind) == phase = "body" /\ open # <<>> /\ Last(open).kind = kind

WhileEnd ==
  /\ Closing("while")
  /\ LET j == insert(out, "jump", Last(open).from)
     IN  CloseLoop(patch(j, Last(open).exit, j.ctr + 1), NextIdx, Last(open).from)

DoEnd(ops) ==
  /\ Closing("do")
  /\ CloseLoop(insert(visit(out, ops), "cond", Last(open).from), NextIdx, NextIdx)

ForEnd ==
  /\ Closing("for")
  /\ LET j == insert(visit(out, Last(open).incr), "jump", Last(open).from)
     IN  CloseLoop(IF Last(open).exit = None THEN j ELSE patch(j, Last(open).exit, j.ctr + 1),
                   NextIdx, Last(open).from)

(* The parser accepts break and continue only inside a loop body.          *)
OpenLoops == {d \in DOMAIN open : open[d].kind \in Loops}
InnerLoop == LET d == CHOOSE d \in OpenLoops : \A e \in OpenLoops : e <= d
             IN  <<d, open[d].from>>

visit_break ==
  /\ "break" \in Kinds /\ Room /\ OpenLoops # {}
  /\ out' = insert(out, "jump", 0) /\ last' = out'.ctr
  /\ ir_break_stack' = Append(ir_break_stack, out'.ctr)
  /\ flow' = flow \union {[at |-> out'.ctr, kind |-> "break", loop |-> InnerLoop]}
  /\ UNCHANGED <<open, ir_loop_header_stack, ir_block_depth, dt, phase, closed>>

visit_continue ==
  /\ "continue" \in Kinds /\ Room /\ OpenLoops # {}
  /\ out' = insert(out, "jump", Last(ir_loop_header_stack)) /\ last' = out'.ctr
  /\ flow' = flow \union {[at |-> out'.ctr, kind |-> "continue", loop |-> InnerLoop]}
  /\ UNCHANGED <<open, ir_break_stack, ir_loop_header_stack, ir_block_depth,
                 dt, phase, closed>>

------------------------------------------------------------------------------

(* Mutant: no closing ret after a ret. *)
FnEnd_OneRet ==
  /\ phase = "body" /\ open = <<>>
  /\ dt = "void" \/ \E n \in DOMAIN out.code : out.code[n].op = "ret"
  /\ out' = IF dt = "void" /\ ~(out.code # <<>> /\ Last(out.code).op = "ret")
            THEN insert(out, "ret", None) ELSE out
  /\ last' = out'.ctr
  /\ phase' = "done"
  /\ UNCHANGED <<open, ir_break_stack, ir_loop_header_stack, ir_block_depth,
                 dt, closed, flow>>

(* The end of visit_fn_decl: only a void function gets a closing ret.  The  *)
(* function analysis has rejected other functions that have no return.     *)
FnEnd ==
  /\ phase = "body" /\ open = <<>>
  /\ dt = "void" \/ \E n \in DOMAIN out.code : out.code[n].op = "ret"
  /\ out' = IF dt = "void" THEN insert(out, "ret", None) ELSE out
  /\ last' = out'.ctr
  /\ phase' = "done"
  /\ UNCHANGED <<open, ir_break_stack, ir_loop_header_stack, ir_block_depth,
                 dt, closed, flow>>

Next ==
  \/ \E ops \in Stmts : Stmt(ops)
  \/ \E ops \in Exprs : visit_ret(ops) \/ IfStart(ops) \/ WhileStart(ops) \/ DoEnd(ops)
  \/ \E init \in ForInits, ops \in Exprs \union {<<"none">>}, incr \in ForIncrs :
       ForStart(init, ops, incr)
  \/ ForCrash
  \/ IfEnd \/ ElseStart \/ ElseEnd \/ DoStart \/ WhileEnd \/ ForEnd
  \/ visit_break \/ visit_continue \/ FnEnd

Spec == Init /\ [][Next]_vars

------------------------------------------------------------------------------

code == out.code
Pos  == 0 .. Len(code) - 1
At(n) == code[n + 1]
IsJump(n) == At(n).op \in {"jump", "cond"}
Inside(r) == r.from .. r.to - 1
IsBreak(n) == \E f \in flow : f.at = n /\ f.kind = "break"

(* Jumps keep to the statements of the source, whatever mix of statements  *)
(* was open when they were patched.  Code of a finished control statement, *)
(* or of one of its bodies, is entered at its first instruction only, and  *)
(* a loop is left only for the instruction right after it.  (A break that  *)
(* emit_loop_flow_instrs attached to an inner loop may do otherwise.)      *)
JumpsStructured ==
  \A r \in closed, n \in Pos :
    IsJump(n) /\ ~IsBreak(n) =>
      /\ n \notin Inside(r) /\ At(n).tgt \in Inside(r) => At(n).tgt = r.from
      /\ n \in Inside(r) /\ r.kind \in Loops => At(n).tgt \in r.from .. r.to

(* In a finished function every jump names an instruction that exists and  *)
(* bears that very instr_idx, as ir_cfg_build's link_target asserts when   *)
(* it looks targets up by it.  Only a function that returns a value, which *)
(* gets no closing ret, may have jumps just past its end.                  *)
TargetsExist ==
  phase = "done" => \A n \in Pos : IsJump(n) =>
    \/ At(n).tgt \in Pos /\ At(At(n).tgt).idx = At(n).tgt
    \/ dt = "int" /\ At(n).tgt = Len(code)

(* gen.c:54, "break, jumps to the first statement after current loop".     *)
BreakLeavesLoop ==
  \A f \in flow, r \in closed :
    (f.kind = "break" /\ r.id = f.loop /\ r.kind \in Loops) => At(f.at).tgt = r.to

(* It does so in functions where every loop has exactly one break; and, as *)
(* gen.c:55 says, a continue of a while or for loop, however deeply        *)
(* nested, goes to the first instruction of the loop's condition.          *)
FlowLeavesLoop ==
  /\ (\A r \in closed : r.kind \in Loops =>
        Cardinality({f \in flow : f.kind = "break" /\ f.loop = r.id}) = 1) => BreakLeavesLoop
  /\ \A f \in flow, r \in closed :
       (f.kind = "continue" /\ r.id = f.loop /\ r.kind \in {"while", "for"})
         => At(f.at).tgt = r.cond

====
