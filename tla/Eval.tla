---- MODULE Eval ----
(***************************************************************************)
(* back_end/eval.c: the evaluator's data stack and its calls.  Variables   *)
(* of a function are numbered (sym_idx), parameters first; stack_map gives *)
(* the place of a variable of the running function in the byte array       *)
(* `stack`, and a call saves and restores stack_map as a whole.            *)
(*                                                                         *)
(* `last`, through which an operand's value reaches its user, lives within *)
(* one action.  Which instruction comes next is left open: any sequence of *)
(* allocations, stores, calls and returns is a behaviour.  The history     *)
(* field env of a frame records what the program itself would say of its   *)
(* variables: the value last assigned, its size, the sp at its allocation. *)
(***************************************************************************)
EXTENDS Integers, SequencesExt

CONSTANTS Vals,      \* values of variables
          Sizes,     \* sizes in bytes a variable can have
          ArgLists,  \* argument lists of calls: sequences of Imm(v) and Sym(s)
          MaxSp,     \* bound on sp
          MaxSyms,   \* bound on the variables of one function
          MaxDepth   \* bound on the depth of calls

ASSUME BoundsAssumption == MaxSp \in Nat /\ MaxSyms \in Nat /\ MaxDepth \in Nat
ASSUME ValsAssumption == Vals \subseteq Nat
ASSUME SizesAssumption == Sizes \subseteq Nat \ {0}
ASSUME ArgsAssumption ==
  ArgLists \subseteq Seq([kind : {"imm"}, x : Vals] \union [kind : {"sym"}, x : Nat])

Undef   == -1   \* a variable not assigned yet
Garbage == -2   \* bytes that are not the bytes of one value
NoDest  == -1

VARIABLES
  stack,      \* the bytes written so far: a function from addresses
  stack_map,
  sp,
  frames,     \* functions being evaluated, the running one last
  pc,         \* "run", or "args" while call_eval pushes arguments, or "done"
  callee      \* the call whose arguments are pushed

vars == <<stack, stack_map, sp, frames, pc, callee>>

Imm(v) == [kind |-> "imm", x |-> v]
Sym(s) == [kind |-> "sym", x |-> s]

(* stack_map is an array of char: a stack pointer is reduced to a signed    *)
(* byte when it is stored and sign-extended when it is read.               *)
to_char(x) == ((x + 128) % 256) - 128

Bytes(addr, size) == addr .. addr + size - 1

Write(mem, addr, size, v) ==
  [b \in Bytes(addr, size) \union DOMAIN mem |-> IF b \in Bytes(addr, size) THEN v ELSE mem[b]]

get(mem, addr, size) ==
  IF \E v \in Vals : \A b \in Bytes(addr, size) : b \in DOMAIN mem /\ mem[b] = v
  THEN mem[addr] ELSE Garbage

Run == frames[Len(frames)]
NoCallee == [args |-> <<>>, bp |-> 0, map |-> <<>>, env |-> <<>>, dest |-> NoDest]

(* env as a sequence: variable s is env[s + 1]. *)
Var(env, s) == env[s + 1]
Vars(env)   == 0 .. Len(env) - 1
Entry(v, size, at) == [val |-> v, size |-> size, at |-> at]

Usable == {s \in Vars(Run.env) : Var(Run.env, s).val # Undef}

ZeroMap == [s \in 0 .. MaxSyms - 1 |-> 0]

(* eval(): reset, then the call of main. *)
Init ==
  /\ stack = <<>> /\ stack_map = ZeroMap /\ sp = 0
  /\ frames = <<[bp |-> 0, map |-> ZeroMap, env |-> <<>>, dest |-> NoDest]>>
  /\ pc = "run" /\ callee = NoCallee

------------------------------------------------------------------------------

(* push() gives variable sym the place at sp. *)
push(map, sym) == [map EXCEPT ![sym] = to_char(sp)]

(* Mutant: every variable takes one byte. *)
eval_alloca_Byte(size) ==
  LET sym == Len(Run.env) IN
  /\ pc = "run" /\ sym < MaxSyms /\ sp + size <= MaxSp
  /\ stack_map' = push(stack_map, sym)
  /\ sp' = sp + 1
  /\ frames' = [frames EXCEPT ![Len(frames)].env = Append(@, Entry(Undef, size, sp))]
  /\ UNCHANGED <<stack, pc, callee>>

eval_alloca(size) ==
  LET sym == Len(Run.env) IN
  /\ pc = "run" /\ sym < MaxSyms /\ sp + size <= MaxSp
  /\ stack_map' = push(stack_map, sym)
  /\ sp' = sp + size
  /\ frames' = [frames EXCEPT ![Len(frames)].env = Append(@, Entry(Undef, size, sp))]
  /\ UNCHANGED <<stack, pc, callee>>

(* set(): store v in variable s of the running function. *)
set(s, v, map, fs) ==
  /\ stack' = Write(stack, map[s], Var(fs[Len(fs)].env, s).size, v)
  /\ frames' = [fs EXCEPT ![Len(fs)].env[s + 1].val = v]

eval_store_imm(s, v) ==
  /\ pc = "run"
  /\ set(s, v, stack_map, frames)
  /\ UNCHANGED <<stack_map, sp, pc, callee>>

(* The history says which value the copy should have: stack is given what  *)
(* get() finds.                                                            *)
eval_store_sym(to, from) ==
  /\ pc = "run" /\ Var(Run.env, to).size = Var(Run.env, from).size
  /\ stack' = Write(stack, stack_map[to], Var(Run.env, to).size,
                    get(stack, stack_map[from], Var(Run.env, from).size))
  /\ frames' = [frames EXCEPT ![Len(frames)].env[to + 1].val = Var(Run.env, from).val]
  /\ UNCHANGED <<stack_map, sp, pc, callee>>

------------------------------------------------------------------------------
(* call_eval. *)

(* The value eval_sym or eval_imm leaves in `last` for an argument.        *)
ArgSize(a) == IF a.kind = "imm" THEN 4 ELSE Var(Run.env, a.x).size
ArgEval(a) == IF a.kind = "imm" THEN a.x ELSE get(stack, stack_map[a.x], ArgSize(a))
ArgMeant(a) == IF a.kind = "imm" THEN a.x ELSE Var(Run.env, a.x).val

(* Prologue: bp and stack_map are saved. *)
CallStart(args, dest) ==
  /\ pc = "run" /\ Len(frames) < MaxDepth /\ Len(args) <= MaxSyms
  /\ \A n \in DOMAIN args : args[n].kind = "sym" => args[n].x \in Usable
  /\ pc' = "args"
  /\ callee' = [args |-> args, bp |-> sp, map |-> stack_map, env |-> <<>>, dest |-> dest]
  /\ UNCHANGED <<stack, stack_map, sp, frames>>

push_call_arg ==
  /\ pc = "args" /\ callee.args # <<>>
  /\ LET a   == Head(callee.args)
         sym == Len(callee.env)
     IN  /\ sp + ArgSize(a) <= MaxSp
         /\ stack_map' = push(stack_map, sym)
         /\ sp' = sp + ArgSize(a)
         /\ stack' = Write(stack, stack_map'[sym], ArgSize(a), ArgEval(a))
         /\ callee' = [callee EXCEPT !.args = Tail(@),
                         !.env = Append(@, Entry(ArgMeant(a), ArgSize(a), sp))]
  /\ UNCHANGED <<frames, pc>>

(* All arguments are pushed: the body of the callee starts.                *)
fun_eval ==
  /\ pc = "args" /\ callee.args = <<>>
  /\ frames' = Append(frames, [bp |-> callee.bp, map |-> callee.map,
                               env |-> callee.env, dest |-> callee.dest])
  /\ pc' = "run" /\ callee' = NoCallee
  /\ UNCHANGED <<stack, stack_map, sp>>

(* eval_ret, the epilogue of call_eval and, where the call is the body of   *)
(* a store, the set() of eval_store_call.                                  *)
Caller == Front(frames)

(* Mutant: the caller's stack_map is not restored. *)
eval_ret_KeepMap(v) ==
  /\ pc = "run" /\ Len(frames) > 1
  /\ sp' = Run.bp
  /\ UNCHANGED stack_map
  /\ IF Run.dest = NoDest THEN frames' = Caller /\ UNCHANGED stack
     ELSE set(Run.dest, v, Run.map, Caller)
  /\ UNCHANGED <<pc, callee>>

eval_ret(v) ==
  /\ pc = "run" /\ Len(frames) > 1
  /\ sp' = Run.bp
  /\ stack_map' = Run.map
  /\ IF Run.dest = NoDest THEN frames' = Caller /\ UNCHANGED stack
     ELSE set(Run.dest, v, Run.map, Caller)
  /\ UNCHANGED <<pc, callee>>

(* The return of main ends eval(). *)
MainRet ==
  /\ pc = "run" /\ Len(frames) = 1
  /\ pc' = "done"
  /\ UNCHANGED <<stack, stack_map, sp, frames, callee>>

Next ==
  \/ \E size \in Sizes : eval_alloca(size)
  \/ \E s \in Vars(Run.env), v \in Vals : eval_store_imm(s, v)
  \/ \E to \in Vars(Run.env), from \in Usable : eval_store_sym(to, from)
  \/ \E args \in ArgLists, dest \in Vars(Run.env) \union {NoDest} : CallStart(args, dest)
  \/ push_call_arg \/ fun_eval
  \/ \E v \in Vals : eval_ret(v)
  \/ MainRet

Spec == Init /\ [][Next]_vars

------------------------------------------------------------------------------

(* The stack_map under which the f-th active function reads its variables. *)
MapOf(f) == IF f < Len(frames) THEN frames[f + 1].map
            ELSE IF pc = "args" THEN callee.map ELSE stack_map

(* What every active function, the suspended callers included, would read   *)
(* from a variable is what it last assigned to it: a callee's variables,   *)
(* which reuse the numbers and, after a return, the bytes of others, never *)
(* overwrite them, and an argument arrives as the caller's value.          *)
ReadsLastWrite ==
  \A f \in DOMAIN frames : \A s \in Vars(frames[f].env) :
    LET e == Var(frames[f].env, s)
    IN  e.val # Undef => get(stack, MapOf(f)[s], e.size) = e.val

(* Variables of all active functions lie side by side below sp.            *)
PlacesDisjoint ==
  \A f, g \in DOMAIN frames : \A s \in Vars(frames[f].env), t \in Vars(frames[g].env) :
    LET d == Var(frames[f].env, s)
        e == Var(frames[g].env, t)
    IN  /\ d.at + d.size <= sp
        /\ <<f, s>> # <<g, t>> => d.at + d.size <= e.at \/ e.at + e.size <= d.at
====
