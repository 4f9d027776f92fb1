---- MODULE Anal ----
(***************************************************************************)
(* front_end/anal: the three analyses the driver runs on a program, in     *)
(* this order: ana_var_usage, ana_fn, ana_type.  Each is a walk over the   *)
(* whole tree; the model lets the three walks go side by side over the     *)
(* same sequence of declarations and statements.  They share no state, so  *)
(* this is the same as long as the program can still be completed to one   *)
(* that the earlier walks accept; Doomed says when it cannot.              *)
(*                                                                         *)
(* Types are scalars; indirection levels, arrays and structures are left   *)
(* out.  The history env is what the language means: a stack of scopes,    *)
(* with the declared type of every name in them and whether it was read.   *)
(***************************************************************************)
EXTENDS AstStorage, SequencesExt

CONSTANTS Names,     \* names of variables and parameters
          FnNames,   \* names of functions
          Builtins,  \* names of builtin functions (builtins.h)
          DataTypes, \* types of variables
          RetTypes,  \* types of functions
          ParamLists,\* parameter lists: sequences of [name, dt]
          ArgLists,  \* argument lists: sequences of names
          Stmts,     \* the statements in use
          MaxStmts,  \* bound on statements and declarations
          MaxNest    \* bound on nested blocks in a function

ASSUME BoundsAssumption == MaxStmts \in Nat /\ MaxNest \in Nat
ASSUME NamesAssumption == Names \intersect (FnNames \union Builtins) = {}
ASSUME TypesAssumption == DataTypes \intersect {"void", "none"} = {}
ASSUME ArgsAssumption  == ArgLists \subseteq Seq(Names)
ASSUME ParamsAssumption == \A p \in ParamLists :
  /\ p \in Seq({p[k] : k \in DOMAIN p})
  /\ \A k, l \in DOMAIN p : p[k].name = p[l].name => k = l

VARIABLES
  var,      \* ana_var_usage: its storage
  last_ret, \* ana_fn: last_ret.occurred
  fns,      \* ana_fn: fn_storage; the parameters and types of functions
  ty,       \* ana_type: [st, dt, ret]: storage, last_dt, last_return_dt
  open,     \* what is being visited: the function and its open blocks
  phase,    \* "run", "done", or how the analyses stopped
  n,        \* statements so far
  env,      \* history: the scopes of the language
  ill,      \* history: what is wrongly typed: {}, "type", "return"
  report    \* history: what the last closed scope was warned of

vars == <<var, last_ret, fns, ty, open, phase, n, env, ill, report>>

------------------------------------------------------------------------------
(* The language's own view of scopes. *)

Scopes(m)  == {d \in DOMAIN env : m \in DOMAIN env[d]}
Visible(m) == Scopes(m) # {}
Meaning(m) == env[Max(Scopes(m))][m]
Bind(e, m, kind, dt) ==
  [e EXCEPT ![Len(e)] = Put(e[Len(e)], m, [kind |-> kind, dt |-> dt, read |-> FALSE])]
Read(e, m) == LET d == Max({k \in DOMAIN e : m \in DOMAIN e[k]})
              IN  [e EXCEPT ![d][m].read = TRUE]
Judge(what, wrong) == IF wrong THEN ill \union {what} ELSE ill

------------------------------------------------------------------------------
(* ana_type on expressions.  A walk that failed keeps its result res.      *)

Ok(t) == t.res = "ok"
fail(t, res) == IF Ok(t) THEN [t EXCEPT !.res = res] ELSE t

(* The record is used without a test for NULL. *)
type_symbol(t, m) ==
  IF declared(t.st, m) THEN [t EXCEPT !.dt = lookup(t.st, m).dt] ELSE fail(t, "crash")

type_require(t, holds) == IF holds THEN t ELSE fail(t, "type_error")

type_push(t, m, kind, dt) == [t EXCEPT !.st = push(@, m, kind, dt), !.dt = dt]

require_last_dt_convertible_to_bool(t) == type_require(t, t.dt = "int")

(* Mutant: the types of the two sides are not compared. *)
type_assign_Any(t, l, r) == type_symbol(type_symbol(t, l), r)

(* lhs = rhs for two variables. *)
type_assign(t, l, r) ==
  LET tl == type_symbol(t, l)
      tr == type_symbol(tl, r)
  IN  type_require(tr, tl.dt = tr.dt)

(* One argument: the callee's parameter is visited as a declaration, in    *)
(* the storage and the scope of the caller.                                *)
type_arg(t, param, arg) ==
  LET p == type_push(t, param.name, "var", param.dt)
      a == type_symbol(p, arg)
  IN  type_require(a, a.dt = param.dt)

type_args(t, params, args) ==
  LET u[k \in 0..Len(args)] == IF k = 0 THEN t ELSE type_arg(u[k - 1], params[k], args[k])
  IN  u[Len(args)]

type_fn_call(t, f, args) ==
  IF ~declared(t.st, f) THEN fail(t, "crash")
  ELSE IF lookup(t.st, f).kind # "fn" THEN fail(t, "type_error")
  ELSE IF Len(fns[f].params) # Len(args) THEN fail(t, "abort")
  ELSE [type_args(t, fns[f].params, args) EXCEPT !.dt = fns[f].rt]

------------------------------------------------------------------------------

(* The root of the tree is a compound: its scope holds the functions.      *)
Init ==
  /\ var = start_scope(ast_storage_init)
  /\ last_ret = FALSE /\ fns = <<>>
  /\ ty = [st |-> start_scope(ast_storage_init), dt |-> "unknown", ret |-> "unknown", res |-> "ok"]
  /\ open = <<>> /\ phase = "run" /\ n = 0
  /\ env = <<<<>>>> /\ ill = {} /\ report = {}

Room == phase = "run" /\ n < MaxStmts /\ n' = n + 1

(* A statement of a function body.  To ana_fn only a return with a value   *)
(* matters.                                                                *)
Stmt(s) == Room /\ open # <<>> /\ s \in Stmts /\ last_ret' = (last_ret \/ s = "return")

CurrentRt == fns[Head(open).fn].rt

(* ana_fn, which runs before ana_type, will reject the current function.   *)
Doomed == open # <<>> /\ CurrentRt = "void" /\ last_ret'

(* The walk of ana_type makes this step, and the analyses go on unless it  *)
(* failed.                                                                 *)
TypeStep(t) ==
  /\ ty' = t
  /\ phase' = IF Ok(t) THEN "run" ELSE IF Doomed THEN "fn_error" ELSE t.res

(* weak_compile_error in ana_var_usage ends the analyses: a name that is   *)
(* used must be declared, one that is declared must not be.                *)
assert_is_declared(m) ==
  /\ Stmt("use") /\ ~declared(var, m)
  /\ phase' = "var_error"
  /\ UNCHANGED <<var, fns, ty, open, env, ill, report>>

assert_is_not_declared(m) ==
  /\ Stmt("decl") /\ declared(var, m)
  /\ phase' = "var_error"
  /\ UNCHANGED <<var, fns, ty, open, env, ill, report>>

visit_var_decl(m, dt) ==
  /\ Stmt("decl") /\ ~declared(var, m)
  /\ var' = push(var, m, "var", dt)
  /\ TypeStep(type_push(ty, m, "var", dt))
  /\ env' = Bind(env, m, "var", dt)
  /\ UNCHANGED <<fns, open, ill, report>>

(* l = r *)
visit_binary(l, r) ==
  /\ Stmt("assign") /\ declared(var, l) /\ declared(var, r)
  /\ var' = add_read_use(add_write_use(var, l), r)
  /\ TypeStep(type_assign(ty, l, r))
  /\ env' = Read(env, r)
  /\ ill' = Judge("type", Meaning(l).dt # Meaning(r).dt)
  /\ UNCHANGED <<fns, open, report>>

(* Mutant: the type of the returned value is not recorded. *)
visit_return_NoType(m) ==
  /\ Stmt("return") /\ declared(var, m)
  /\ var' = add_read_use(var, m)
  /\ TypeStep(type_symbol(ty, m))
  /\ env' = Read(env, m)
  /\ open' = [open EXCEPT ![1].ret = Meaning(m).dt]
  /\ ill' = Judge("return", Meaning(m).dt # CurrentRt)
  /\ UNCHANGED <<fns, report>>

visit_return(m) ==
  /\ Stmt("return") /\ declared(var, m)
  /\ var' = add_read_use(var, m)
  /\ LET t == type_symbol(ty, m) IN TypeStep([t EXCEPT !.ret = t.dt])
  /\ env' = Read(env, m)
  /\ open' = [open EXCEPT ![1].ret = Meaning(m).dt]
  /\ ill' = Judge("return", Meaning(m).dt # CurrentRt)
  /\ UNCHANGED <<fns, report>>

visit_return_void ==
  /\ Stmt("return_void")
  /\ TypeStep([ty EXCEPT !.ret = ty.dt])
  /\ open' = [open EXCEPT ![1].ret = "void"]
  /\ ill' = Judge("return", CurrentRt # "void")
  /\ UNCHANGED <<var, fns, env, report>>

------------------------------------------------------------------------------
(* Calls. *)

(* Each argument is one more use of its name. *)
Uses(args, m) == Cardinality({k \in DOMAIN args : args[k] = m})
ReadArgs(s, args) ==
  [s EXCEPT !.decls =
     [m \in DOMAIN s.decls |-> [s.decls[m] EXCEPT !.reads = @ + Uses(args, m)]]]

WrongArgs(f, args) ==
  f \notin Builtins /\
    (\/ f \notin DOMAIN fns
     \/ Len(args) # Len(fns[f].params)
     \/ \E k \in DOMAIN args : Meaning(args[k]).dt # fns[f].params[k].dt)

(* ana_var_usage's part of a call. *)
var_fn_call(s, f, args) ==
  IF f \in Builtins THEN s ELSE ReadArgs(add_read_use(s, f), args)

MarkRead(e, f, args) ==
  LET used == Range(args) \union ({f} \ Builtins)
      last(m) == Max({d \in DOMAIN e : m \in DOMAIN e[d]})
  IN  [d \in DOMAIN e |-> [m \in DOMAIN e[d] |->
         IF m \in used /\ d = last(m) THEN [e[d][m] EXCEPT !.read = TRUE] ELSE e[d][m]]]

Callable(f, args) ==
  /\ f \in Builtins \/ declared(var, f)
  /\ \A k \in DOMAIN args : declared(var, args[k])

(* ana_fn looks at calls that are statements.  It knows functions and      *)
(* builtins; the record of any other name is NULL, and is used.  A         *)
(* builtin in use takes no argument.                                       *)
fn_check(f, args) ==
  IF f \in Builtins THEN IF args = <<>> THEN "run" ELSE "fn_error"
  ELSE IF f \notin DOMAIN fns THEN "fn_crash"
  ELSE IF Len(args) # Len(fns[f].params) THEN "fn_error" ELSE "run"

visit_fn_call(f, args) ==
  /\ Stmt("call") /\ Callable(f, args)
  /\ LET t == type_fn_call(ty, f, args) IN
       IF fn_check(f, args) = "run" THEN TypeStep(t)
       ELSE phase' = fn_check(f, args) /\ UNCHANGED ty
  /\ var' = var_fn_call(var, f, args)
  /\ env' = MarkRead(env, f, args)
  /\ ill' = Judge("type", WrongArgs(f, args))
  /\ UNCHANGED <<fns, open, report>>

(* dt m = f(args): ana_var_usage declares m first, ana_type last; ana_fn    *)
(* does not look inside declarations.                                      *)
visit_var_decl_call(m, dt, f, args) ==
  /\ Stmt("decl_call") /\ ~declared(var, m) /\ f \in FnNames /\ Callable(f, args)
  /\ var' = var_fn_call(push(var, m, "var", dt), f, args)
  /\ LET t == type_fn_call(ty, f, args)
     IN  TypeStep(type_push(type_require(t, t.dt = dt), m, "var", dt))
  /\ env' = MarkRead(Bind(env, m, "var", dt), f, args)
  /\ ill' = Judge("type", WrongArgs(f, args) \/ fns[f].rt # dt)
  /\ UNCHANGED <<fns, open, report>>

------------------------------------------------------------------------------
(* Blocks.  Every body is a compound statement.                            *)

CanOpen(s) == Stmt(s) /\ Len(open) <= MaxNest
Block(kind, cond) == [kind |-> kind, cond |-> cond, fn |-> "none", ret |-> "none"]

type_enter(t) == [t EXCEPT !.st = start_scope(@)]
type_leave(t) == [t EXCEPT !.st = end_scope(@)]

(* An if's condition is visited; its symbols are collected, not counted.   *)
visit_if(m) ==
  /\ CanOpen("if") /\ declared(var, m)
  /\ var' = start_scope(var)
  /\ TypeStep(type_enter(require_last_dt_convertible_to_bool(type_symbol(ty, m))))
  /\ open' = Append(open, Block("if", m))
  /\ env' = Append(env, <<>>)
  /\ ill' = Judge("type", Meaning(m).dt # "int")
  /\ UNCHANGED <<fns, report>>

(* Mutant: the condition of a while counts as little as that of an if. *)
visit_while_Unread(m) ==
  /\ CanOpen("while") /\ declared(var, m)
  /\ var' = start_scope(var)
  /\ TypeStep(type_enter(require_last_dt_convertible_to_bool(type_symbol(ty, m))))
  /\ open' = Append(open, Block("while", m))
  /\ env' = Append(Read(env, m), <<>>)
  /\ ill' = Judge("type", Meaning(m).dt # "int")
  /\ UNCHANGED <<fns, report>>

(* A loop's condition has a usage scope of its own, marked as read.        *)
visit_while(m) ==
  /\ CanOpen("while") /\ declared(var, m)
  /\ var' = start_scope(add_read_use(var, m))
  /\ TypeStep(type_enter(require_last_dt_convertible_to_bool(type_symbol(ty, m))))
  /\ open' = Append(open, Block("while", m))
  /\ env' = Append(Read(env, m), <<>>)
  /\ ill' = Judge("type", Meaning(m).dt # "int")
  /\ UNCHANGED <<fns, report>>

(* ana_var_usage visits the condition of a do-while before its body,       *)
(* ana_type after it.                                                      *)
visit_do_while(m) ==
  /\ CanOpen("do") /\ declared(var, m)
  /\ var' = start_scope(add_read_use(var, m))
  /\ TypeStep(type_enter(ty))
  /\ open' = Append(open, Block("do", m))
  /\ env' = Append(Read(env, m), <<>>)
  /\ ill' = Judge("type", Meaning(m).dt # "int")
  /\ UNCHANGED <<fns, report>>

(* for (int m; m; ++m): ana_var_usage gives the loop a scope around the    *)
(* body's, ana_type does not.                                              *)
visit_for(m) ==
  /\ CanOpen("for") /\ ~declared(var, m)
  /\ var' = start_scope(add_write_use(add_read_use(push(start_scope(var), m, "var", "int"), m), m))
  /\ TypeStep(type_enter(type_symbol(type_push(ty, m, "var", "int"), m)))
  /\ open' = Append(open, Block("for", m))
  /\ env' = Append(Read(Bind(Append(env, <<>>), m, "var", "int"), m), <<>>)
  /\ UNCHANGED <<fns, ill, report>>

(* What ana_var_usage says of the scope of storage s, and what it should   *)
(* say of the scope e.  funs: functions are warned of, too.                *)
unused(s, funs) == {m \in current_scope(s) : 
  lookup(s, m).reads = 0 /\ m # "main" /\ (funs \/ lookup(s, m).kind = "var")}

Report(s, e, funs) ==
  {[name |-> m, warned |-> m \in unused(s, funs), read |-> e[m].read] :
     m \in {k \in DOMAIN e : k # "main" /\ (funs \/ e[k].kind = "var")}}

(* Mutant: ana_type leaves two scopes at the end of a for.                 *)
BlockEnd_TwoScopes ==
  /\ phase = "run" /\ Len(open) > 1 /\ UNCHANGED last_ret
  /\ LET b == Last(open)
         t == type_leave(ty)
         s == end_scope(var)
     IN  /\ report' = Report(var, Last(env), TRUE)
         /\ var' = IF b.kind = "for" THEN end_scope(s) ELSE s
         /\ TypeStep(IF b.kind = "for" THEN type_leave(t) ELSE t)
         /\ env' = IF b.kind = "for" THEN Front(Front(env)) ELSE Front(env)
  /\ open' = Front(open)
  /\ UNCHANGED <<fns, n, ill>>

BlockEnd ==
  /\ phase = "run" /\ Len(open) > 1 /\ UNCHANGED last_ret
  /\ LET b == Last(open)
         t == type_leave(ty)
         s == end_scope(var)
     IN  /\ report' = Report(var, Last(env), TRUE)
         /\ var' = IF b.kind = "for" THEN end_scope(s) ELSE s
         /\ TypeStep(IF b.kind = "do"
                     THEN require_last_dt_convertible_to_bool(type_symbol(t, b.cond)) ELSE t)
         /\ env' = IF b.kind = "for" THEN Front(Front(env)) ELSE Front(env)
  /\ open' = Front(open)
  /\ UNCHANGED <<fns, n, ill>>

------------------------------------------------------------------------------
(* Functions. *)

(* All parameters are declared in the innermost scope; their names differ. *)
ParamNames(params)  == {params[k].name : k \in DOMAIN params}
ParamType(params, m) == params[CHOOSE k \in DOMAIN params : params[k].name = m].dt

PushParams(s, params) ==
  [s EXCEPT !.decls = [m \in DOMAIN s.decls \union ParamNames(params) |->
     IF m \in ParamNames(params) THEN record(s, "var", ParamType(params, m)) ELSE s.decls[m]]]
TypeParams(t, params) ==
  [t EXCEPT !.st = PushParams(@, params),
            !.dt = IF params = <<>> THEN @ ELSE params[Len(params)].dt]
BindParams(e, params) ==
  [e EXCEPT ![Len(e)] = [m \in DOMAIN e[Len(e)] \union ParamNames(params) |->
     IF m \in ParamNames(params)
     THEN [kind |-> "var", dt |-> ParamType(params, m), read |-> FALSE] ELSE e[Len(e)][m]]]

FnStart(f, rt, params) ==
  /\ Room /\ open = <<>> /\ UNCHANGED last_ret
  /\ ~declared(var, f)
  /\ \A k \in DOMAIN params : ~declared(var, params[k].name)
  /\ var' = start_scope(PushParams(push(start_scope(var), f, "fn", "unknown"), params))
  /\ fns' = Put(fns, f, [params |-> params, rt |-> rt])
  /\ LET t == [ty EXCEPT !.st = push(start_scope(@), f, "fn", "func")]
     IN  TypeStep(type_enter(TypeParams(t, params)))
  /\ open' = <<[Block("fn", "none") EXCEPT !.fn = f]>>
  /\ env' = Append(BindParams(Bind(Append(env, <<>>), f, "fn", rt), params), <<>>)
  /\ UNCHANGED <<ill, report>>

FnRedeclared(f) ==
  /\ Room /\ open = <<>>
  /\ declared(var, f)
  /\ phase' = "var_error"
  /\ UNCHANGED <<var, last_ret, fns, ty, open, env, ill, report>>

(* ana_fn at the end of a function. *)
ret_check(rt) == (rt = "void") # last_ret

FnEnd ==
  /\ phase = "run" /\ Len(open) = 1 /\ UNCHANGED last_ret
  /\ LET f  == Head(open).fn
         rt == fns[f].rt
         s  == end_scope(var)
         t  == type_leave(ty)
         u  == type_leave(type_require(t, rt = "void" \/ rt = t.ret))
         v  == [u EXCEPT !.st = push(@, f, "fn", "func")]
         e  == Front(env)
     IN  /\ var' = push(end_scope(s), f, "fn", "unknown")
         /\ IF ret_check(rt) THEN TypeStep(v) ELSE phase' = "fn_error" /\ UNCHANGED ty
         /\ env' = Bind(Front(e), f, "fn", rt)
         /\ report' = Report(var, Last(env), TRUE) \union Report(s, Last(e), FALSE)
  /\ open' = <<>>
  /\ ill' = IF CurrentRt = "void" THEN ill
            ELSE IF Head(open).ret \in DataTypes THEN Judge("type", Head(open).ret # CurrentRt)
            ELSE Judge("return", TRUE)
  /\ UNCHANGED <<fns, n>>

ProgramEnd ==
  /\ phase = "run" /\ open = <<>> /\ DOMAIN fns # {}
  /\ phase' = "done"
  /\ report' = Report(var, Last(env), TRUE)
  /\ var' = end_scope(var) /\ ty' = type_leave(ty) /\ env' = Front(env)
  /\ UNCHANGED <<last_ret, fns, open, n, ill>>

Next ==
  \/ \E m \in Names : \/ assert_is_declared(m) \/ assert_is_not_declared(m)
                      \/ visit_return(m) \/ visit_if(m) \/ visit_while(m)
                      \/ visit_do_while(m) \/ visit_for(m)
                      \/ \E dt \in DataTypes : visit_var_decl(m, dt)
                      \/ \E r \in Names : visit_binary(m, r)
                      \/ \E dt \in DataTypes, f \in FnNames, args \in ArgLists :
                           visit_var_decl_call(m, dt, f, args)
  \/ \E f \in FnNames \union Builtins \union Names, args \in ArgLists : visit_fn_call(f, args)
  \/ visit_return_void \/ BlockEnd
  \/ \E f \in FnNames, rt \in RetTypes, params \in ParamLists : FnStart(f, rt, params)
  \/ \E f \in FnNames : FnRedeclared(f)
  \/ FnEnd \/ ProgramEnd

Spec == Init /\ [][Next]_vars

------------------------------------------------------------------------------

Known == Names \union FnNames

(* One flat map is enough: after any nesting of blocks, loops and          *)
(* functions ana_var_usage finds exactly the names in scope, each with the *)
(* record of the scope that declared it, so assert_is_declared and         *)
(* assert_is_not_declared report real errors only, and all.  ana_type,     *)
(* which has no scope around a for loop, still sees every variable in      *)
(* scope with its declared type: what a for leaves behind is hidden or     *)
(* replaced before it is looked up.                                        *)
LookupSeesScopes ==
  phase = "run" => \A m \in Known :
    /\ declared(var, m) <=> Visible(m)
    /\ Visible(m) => /\ lookup(var, m).depth = Max(Scopes(m))
                     /\ lookup(var, m).kind = Meaning(m).kind
    /\ m \in Names /\ Visible(m) =>
         declared(ty.st, m) /\ lookup(ty.st, m).dt = Meaning(m).dt

(* ana_type rejects only programs with a wrongly typed statement or a      *)
(* missing return, and a program accepted by all analyses has no operand,  *)
(* condition, argument, initialiser or function's last returned value of   *)
(* the wrong type.  (Of returns that another return follows, and of        *)
(* returns without a value, only last_return_dt is known at the end of the *)
(* function.)                                                              *)
TypeErrorsExact ==
  /\ phase = "type_error" => ill # {}
  /\ phase = "done" => "type" \notin ill

(* anal.h:48, ana_type "should be called after variable use analysis and   *)
(* functions analysis", which leave only declared names: no lookup of a    *)
(* name they accepted is answered by a NULL that the walk dereferences.    *)
LookupsSucceed == phase # "crash"

(* When a scope ends, a variable or function is warned of exactly if       *)
(* nothing read it; the condition of an if, whose reads are collected and  *)
(* never counted, is not a read here.                                      *)
WarnsIffUnread == \A r \in report : r.warned = ~r.read
====
