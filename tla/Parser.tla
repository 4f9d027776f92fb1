---- MODULE Parser ----
(***************************************************************************)
(* The recursive-descent parser of front_end/parse/parse.c.  One operator  *)
(* per C function gives, for the tokens it looks at, what that function    *)
(* does in order: tokens it requires or skips, functions it calls, nodes   *)
(* it makes, changes of loops_depth and of the cursor.  `todo` is the work *)
(* the active C functions still have before them, so it is the call stack. *)
(* A compile error is a longjmp: it drops the stack and keeps the globals, *)
(* among them loops_depth, and another parse() may follow it.              *)
(*                                                                         *)
(* Tokens are classes: "int" is any of int, char, float and bool, "lit" is *)
(* any literal but an integer, and an operator stands for its level.  The  *)
(* input is chosen token by token, when it is first looked at.             *)
(***************************************************************************)
EXTENDS Integers, Sequences, FiniteSets

CONSTANTS Tokens,      \* token classes an input may hold
          Prefixes,    \* how inputs may begin
          MaxMore,     \* bound: tokens of an input after its prefix
          MaxDepth     \* bound: loops_depth with which another parse starts

VARIABLES toks,         \* the tokens from `begin` on, as far as chosen
          ended,        \* no more will be chosen: tok_end is after the last
          room,         \* how many more may be chosen
          tok_begin,    \* the cursor, counted from 0
          loops_depth,
          todo,         \* what remains to be done, innermost call first
          last,         \* the node returned last: its kind and level
          dt,           \* the type read last: where it starts, its ptr_depth
          phase,        \* "parse", "done", "error", or "overrun": read past tok_end
          base          \* history: loops_depth when this parse began

vars == <<toks, ended, room, tok_begin, loops_depth, todo, last, dt, phase, base>>

ASSUME TokensAssumption == Tokens \subseteq STRING
ASSUME BoundsAssumption == MaxMore \in Nat /\ MaxDepth \in Nat
ASSUME PrefixesAssumption == Prefixes \subseteq Seq(Tokens)

------------------------------------------------------------------------------
(* Work items.                                                             *)

Item(op, arg, lo, hi) == [op |-> op, arg |-> arg, lo |-> lo, hi |-> hi]
Call(f)        == Item("call", f, 0, 0)
Require(t)     == Item("require", t, 0, 0)        \* require_token, require_char
Skip           == Item("skip", "none", 0, 0)      \* peek_next
Back           == Item("back", "none", 0, 0)      \* --tok_begin
Make(kind)     == Item("make", kind, 0, 0)        \* ast_<kind>_init
Binary(level)  == Item("binary", "none", level, 0) \* ast_binary_init
Climb(lo, hi)  == Item("climb", "none", lo, hi)   \* loops of levels hi down to lo
Paren          == Item("paren", "none", 0, 0)     \* the operand was in ( )
Deepen         == Item("deepen", "none", 0, 0)    \* ++loops_depth
Shallow        == Item("shallow", "none", 0, 0)   \* --loops_depth
Stars          == Item("stars", "none", 0, 0)     \* the loop over '*' in parse_type
ToType         == Item("to_type", "none", 0, 0)   \* cursor back to the saved token
Recount        == Item("recount", "none", 0, 0)   \* cursor back by 3 + ptr_depth
NeedInt        == Item("need_int", "none", 0, 0)  \* "Integer size declarator expected"
Fail           == <<Item("error", "none", 0, 0)>> \* weak_compile_error

------------------------------------------------------------------------------
(* Expressions.                                                            *)

Primary == 11      \* the level of what is not a binary operation

LogicalLevel(t) ==
  CASE t = "||" -> 1 [] t = "&&" -> 2 [] t = "|" -> 3 [] t = "^" -> 4
    [] t = "&"  -> 5 [] OTHER -> 0

ArithLevel(t) ==
  CASE t = "==" -> 6 [] t = "<" -> 7 [] t = "<<" -> 8 [] t = "+" -> 9
    [] t \in {"*", "/"} -> 10 [] OTHER -> 0

Level(t) == LogicalLevel(t) + ArithLevel(t)

(* Mutant: the right operand may hold operators of any level.              *)
climb_RightLow(lo, hi, c) ==
  IF Level(c) \in lo..hi
  THEN <<Skip, Call("prefix_unary"), Climb(1, 10),
         Binary(Level(c)), Climb(lo, Level(c))>>
  ELSE <<>>

(* parse_logical_or ... parse_multiplicative: an operand of the next level,*)
(* then, while an operator of this level follows, an operand of the same   *)
(* level.  The ten loops that follow one operand are one item.             *)
climb(lo, hi, c) ==
  IF Level(c) \in lo..hi
  THEN <<Skip, Call("prefix_unary"), Climb(Level(c), 10),
         Binary(Level(c)), Climb(lo, Level(c))>>
  ELSE <<>>

parse_logical_or == <<Call("prefix_unary"), Climb(1, 10)>>

parse_prefix_unary(c) ==
  IF c \in {"&", "*", "++"}
  THEN <<Skip, Call("prefix_unary"), Make("prefix_unary")>>
  ELSE <<Call("postfix_unary")>>

parse_postfix_unary == <<Call("primary"), Call("postfix_op")>>
postfix_op(c) == IF c = "++" THEN <<Skip, Make("postfix_unary")>> ELSE <<>>

parse_symbol(c) ==
  CASE c = "(" -> <<Back, Call("function_call")>>
    [] c = "[" -> <<Back, Call("array_access")>>
    [] c = "." -> <<Back, Call("struct_field_access")>>
    [] OTHER   -> <<Make("symbol")>>

parse_primary(c) ==
  CASE c = "sym" -> <<Skip, Call("symbol")>>
    [] c = "("   -> <<Skip, Call("logical_or"), Require(")"), Paren, Call("paren_member")>>
    [] OTHER     -> <<Call("constant")>>
paren_member(c) ==
  IF c = "." THEN <<Skip, Call("struct_field_access"), Make("member")>> ELSE <<>>

parse_struct_field_access == <<Require("sym"), Call("next_field")>>
next_field(c) ==
  IF c = "." THEN <<Skip, Call("struct_field_access"), Make("member")>>
             ELSE <<Make("symbol")>>

(* Mutant: the closing bracket of an index is not required.                *)
next_index_Unclosed(c) ==
  IF c = "[" THEN <<Require("["), Call("expr"), Call("next_index")>>
             ELSE <<Make("array_access")>>

parse_array_access(d) == IF d = "[" THEN <<Skip, Call("next_index")>> ELSE <<Skip>> \o Fail
next_index(c) ==
  IF c = "[" THEN <<Require("["), Call("expr"), Require("]"), Call("next_index")>>
             ELSE <<Make("array_access")>>

parse_expr(c) == IF c = "int" THEN <<Call("var_decl")>> ELSE <<Call("assignment")>>

parse_assignment == <<Call("logical_or"), Call("assign_op")>>
assign_op(c) ==
  IF c = "=" THEN <<Skip, Call("assignment"), Binary(0), Call("assign_op")>> ELSE <<>>

comma(c) == IF c = "," THEN <<Require(",")>> ELSE <<>>

parse_function_call == <<Skip, Require("("), Call("next_arg")>>
next_arg(c) ==
  IF c = ")" THEN <<Require(")"), Make("function_call")>>
             ELSE <<Call("logical_or"), Call("comma"), Call("next_arg")>>

(* Mutant: what is no literal is passed over, not reported.                *)
parse_constant_Ignore(c) ==
  CASE c = "num" -> <<Skip, Make("int")>>
    [] c = "lit" -> <<Skip, Make("constant")>>
    [] OTHER     -> <<>>

parse_constant(c) ==
  CASE c = "num" -> <<Skip, Make("int")>>
    [] c = "lit" -> <<Skip, Make("constant")>>
    [] OTHER     -> <<Skip>> \o Fail

------------------------------------------------------------------------------
(* Types and declarations.                                                 *)

parse_type(c) == IF c \in {"int", "sym"} THEN <<Skip, Stars>> ELSE <<Skip>> \o Fail
parse_return_type(c) == IF c = "void" THEN <<Skip>> ELSE <<Call("type")>>

parse_array_decl_without_initializer == <<Call("type"), Call("array_name")>>
array_name(c) == <<Skip>> \o (IF c = "sym" THEN <<Call("first_dim")>> ELSE Fail)
first_dim(c) == IF c = "[" THEN <<Call("next_dim"), Make("array_decl")>> ELSE Fail
next_dim(c) ==
  IF c = "[" THEN <<Require("["), Call("constant"), NeedInt, Require("]"), Call("next_dim")>>
             ELSE <<>>

parse_array_decl == <<Call("array_decl_without_initializer"), Call("array_body")>>
array_body(c) ==
  CASE dt.ptr_depth = 0 -> <<>>
    [] c = "="          -> <<Require("="), Call("logical_or"), Make("array_decl")>>
    [] OTHER            -> Fail

(* The type is read to see what follows it, then read again.               *)
parse_decl_without_initializer == <<Call("type"), Call("decl_kind")>>
decl_kind(d) ==
  IF d = "[" THEN <<ToType, Call("array_decl_without_initializer")>>
             ELSE <<ToType, Call("var_decl_without_initializer")>>

parse_var_decl_without_initializer == <<Call("type"), Require("sym"), Make("var_decl")>>

parse_var_decl == <<Call("type"), Call("var_name")>>
var_name(c) == IF c = "sym" THEN <<Skip, Call("var_rest")>> ELSE <<Skip>> \o Fail
var_rest(c) ==
  CASE c = "=" -> <<Skip, Call("logical_or"), Make("var_decl")>>
    [] c = "(" -> <<Skip, Recount, Call("function_decl")>>
    [] c = "[" -> <<Skip, Recount, Call("array_decl")>>
    [] OTHER   -> <<Skip>> \o Fail

parse_decl(c) ==
  CASE c = "struct"           -> <<Call("struct_decl")>>
    [] c = "sym"              -> <<Call("struct_var_decl")>>
    [] c \in {"void", "int"}  -> <<Call("decl_without_initializer")>>
    [] OTHER                  -> Fail

parse_struct_decl == <<Require("struct"), Require("sym"), Require("{"), Call("next_member")>>
next_member(c) ==
  IF c = "}" THEN <<Require("}"), Make("struct_decl")>>
             ELSE <<Call("decl"), Require(";"), Call("next_member")>>

parse_struct_var_decl == <<Call("type"), Require("sym"), Make("var_decl"), Call("struct_dims")>>
struct_dims(c) ==
  IF c = "[" THEN <<Call("next_dim"), Call("struct_array_body"), Make("array_decl")>> ELSE <<>>
struct_array_body ==
  IF dt.ptr_depth > 0 THEN <<Require("="), Call("logical_or")>> ELSE <<>>

parse_function_param_list(c) ==
  IF c = ")" THEN <<Make("compound")>>
             ELSE <<Call("decl_without_initializer"), Call("comma"), Call("function_param_list")>>

parse_function_decl ==
  <<Call("return_type"), Require("sym"), Require("("), Call("function_param_list"),
    Require(")"), Call("function_body")>>
function_body(c) ==
  IF c = "{" THEN <<Call("block"), Make("function_decl")>>
             ELSE <<Require(";"), Make("function_decl")>>

------------------------------------------------------------------------------
(* Statements.                                                             *)

parse_stmt(c) ==
  CASE c = "{"                       -> <<Call("block")>>
    [] c = "if"                      -> <<Call("selection_stmt")>>
    [] c \in {"for", "do", "while"}  -> <<Call("iteration_stmt")>>
    [] c = "return"                  -> <<Call("jump_stmt")>>
    [] c = "int"                     -> <<Call("var_decl")>>
    [] c = "sym"                     -> <<Call("symbol_stmt")>>
    [] c \in {"&", "*", "++"}        -> <<Call("assignment")>>
    [] c = "("                       -> <<Call("primary")>>
    [] OTHER                         -> Fail

symbol_stmt(d) ==
  IF d \in {"*", "sym"} THEN <<Call("struct_var_decl")>> ELSE <<Call("expr")>>

parse_loop_stmt(c) ==
  CASE c = "break"    -> <<Skip, Make("break")>>
    [] c = "continue" -> <<Skip, Make("continue")>>
    [] OTHER          -> <<Call("stmt")>>

Terminated == {"binary", "postfix_unary", "prefix_unary", "symbol", "return", "do_while",
               "var_decl", "array_decl", "array_access", "member", "function_call"}

parse_iteration_block == <<Require("{"), Call("next_loop_stmt")>>
next_loop_stmt(c) ==
  IF c = "}" THEN <<Require("}"), Make("compound")>>
             ELSE <<Call("loop_stmt"), Call("loop_semicolon"), Call("next_loop_stmt")>>
loop_semicolon ==
  IF last.kind \in Terminated \union {"break", "continue"} THEN <<Require(";")>> ELSE <<>>

parse_block ==
  IF loops_depth > 0 THEN <<Call("iteration_block")>>
                     ELSE <<Require("{"), Call("next_stmt")>>
next_stmt(c) ==
  IF c = "}" THEN <<Require("}"), Make("compound")>>
             ELSE <<Call("stmt"), Call("semicolon"), Call("next_stmt")>>
semicolon == IF last.kind \in Terminated THEN <<Require(";")>> ELSE <<>>

parse_selection_stmt ==
  <<Require("if"), Require("("), Call("logical_or"), Require(")"), Call("block"),
    Call("else_body"), Make("if")>>
else_body(c) == IF c = "else" THEN <<Skip, Call("block")>> ELSE <<>>

parse_iteration_stmt(c) ==
  CASE c = "for" -> <<Call("for")>> [] c = "do" -> <<Call("do_while")>>
    [] c = "while" -> <<Call("while")>>

parse_jump_stmt == <<Require("return"), Call("return_value"), Make("return")>>
return_value(c) == IF c = ";" THEN <<>> ELSE <<Call("logical_or")>>

Body == <<Deepen, Call("block"), Shallow>>

parse_for_range ==
  <<Call("decl_without_initializer"), Require(":"), Call("expr"), Require(")")>>
    \o Body \o <<Make("for_range")>>

parse_for == <<Require("for"), Require("("), Call("for_init")>>
for_init(c) == IF c = ";" THEN <<Skip, Call("for_cond")>> ELSE <<Call("type"), Call("for_kind")>>
for_kind(d) ==
  IF d = "=" THEN <<ToType, Call("expr"), Require(";"), Call("for_cond")>>
             ELSE <<ToType, Call("for_range")>>
for_cond(c) ==
  IF c = ";" THEN <<Skip, Call("for_inc")>> ELSE <<Call("expr"), Require(";"), Call("for_inc")>>
for_inc(c) ==
  (IF c = ")" THEN <<Skip>> ELSE <<Call("expr"), Require(")")>>) \o Body \o <<Make("for")>>

parse_do_while ==
  <<Require("do")>> \o Body \o
  <<Require("while"), Require("("), Call("logical_or"), Require(")"), Make("do_while")>>

(* Mutant: the depth is not restored after the body.                       *)
parse_while_NoDecrement ==
  <<Require("while"), Require("("), Call("logical_or"), Require(")"),
    Deepen, Call("block"), Make("while")>>
parse_while ==
  <<Require("while"), Require("("), Call("logical_or"), Require(")")>> \o Body \o <<Make("while")>>

(* Mutant: the next declaration is looked at before the end is tested.     *)
AtEnd_Late == ended /\ tok_begin > Len(toks)

(* parse(): declarations, until the end of the tokens.                     *)
AtEnd == ended /\ tok_begin >= Len(toks)
parse(c) ==
  CASE c = "struct"          -> <<Call("struct_decl"), Call("global")>>
    [] c \in {"void", "int"} -> <<Call("function_decl"), Call("global")>>
    [] OTHER                 -> Fail

------------------------------------------------------------------------------
(* The machine.                                                            *)

OneToken ==      \* functions that look at the current token, and what they do
  {"prefix_unary", "postfix_op", "symbol", "primary", "paren_member", "next_field",
   "next_index", "expr", "assign_op", "comma", "next_arg", "constant", "type",
   "return_type", "array_name", "first_dim", "next_dim", "array_body", "var_name", "var_rest", "decl",
   "next_member", "struct_dims", "function_param_list", "function_body", "stmt", "loop_stmt",
   "next_loop_stmt", "next_stmt", "else_body", "iteration_stmt", "return_value",
   "for_init", "for_cond", "for_inc", "global"}
TwoTokens == {"array_access", "decl_kind", "symbol_stmt", "for_kind"}

Calls1(f, c) ==
  CASE f = "prefix_unary" -> parse_prefix_unary(c) [] f = "postfix_op" -> postfix_op(c)
    [] f = "symbol" -> parse_symbol(c)             [] f = "primary" -> parse_primary(c)
    [] f = "paren_member" -> paren_member(c)       [] f = "next_field" -> next_field(c)
    [] f = "next_index" -> next_index(c)           [] f = "expr" -> parse_expr(c)
    [] f = "assign_op" -> assign_op(c)             [] f = "comma" -> comma(c)
    [] f = "next_arg" -> next_arg(c)               [] f = "constant" -> parse_constant(c)
    [] f = "type" -> parse_type(c)                 [] f = "return_type" -> parse_return_type(c)
    [] f = "array_name" -> array_name(c)           [] f = "first_dim" -> first_dim(c)
    [] f = "next_dim" -> next_dim(c)               [] f = "array_body" -> array_body(c)
    [] f = "var_name" -> var_name(c)               [] f = "var_rest" -> var_rest(c)
    [] f = "decl" -> parse_decl(c)                 [] f = "next_member" -> next_member(c)
    [] f = "struct_dims" -> struct_dims(c)         [] f = "function_body" -> function_body(c)
    [] f = "function_param_list" -> parse_function_param_list(c)
    [] f = "stmt" -> parse_stmt(c)
    [] f = "loop_stmt" -> parse_loop_stmt(c)       [] f = "next_loop_stmt" -> next_loop_stmt(c)
    [] f = "next_stmt" -> next_stmt(c)             [] f = "else_body" -> else_body(c)
    [] f = "iteration_stmt" -> parse_iteration_stmt(c)
    [] f = "return_value" -> return_value(c)       [] f = "for_init" -> for_init(c)
    [] f = "for_cond" -> for_cond(c)               [] f = "for_inc" -> for_inc(c)
    [] f = "global" -> parse(c)

Calls2(f, c, d) ==
  CASE f = "array_access" -> parse_array_access(d)
    [] f = "decl_kind" -> decl_kind(d)             [] f = "symbol_stmt" -> symbol_stmt(d)
    [] f = "for_kind" -> for_kind(d)

Calls0(f) ==
  CASE f = "logical_or" -> parse_logical_or        [] f = "postfix_unary" -> parse_postfix_unary
    [] f = "struct_field_access" -> parse_struct_field_access
    [] f = "assignment" -> parse_assignment        [] f = "function_call" -> parse_function_call
    [] f = "array_decl_without_initializer" -> parse_array_decl_without_initializer
    [] f = "array_decl" -> parse_array_decl
    [] f = "decl_without_initializer" -> parse_decl_without_initializer
    [] f = "var_decl_without_initializer" -> parse_var_decl_without_initializer
    [] f = "var_decl" -> parse_var_decl            [] f = "struct_decl" -> parse_struct_decl
    [] f = "struct_var_decl" -> parse_struct_var_decl
    [] f = "struct_array_body" -> struct_array_body
    [] f = "function_decl" -> parse_function_decl  [] f = "block" -> parse_block
    [] f = "iteration_block" -> parse_iteration_block
    [] f = "loop_semicolon" -> loop_semicolon      [] f = "semicolon" -> semicolon
    [] f = "selection_stmt" -> parse_selection_stmt
    [] f = "jump_stmt" -> parse_jump_stmt          [] f = "for_range" -> parse_for_range
    [] f = "for" -> parse_for                      [] f = "do_while" -> parse_do_while
    [] f = "while" -> parse_while

Top  == Head(todo)
Rest == Tail(todo)
Cur  == toks[tok_begin + 1]
Ahead == toks[tok_begin + 2]

Looks ==     \* how many tokens the next item looks at
  CASE Top.op = "call" -> (CASE Top.arg \in TwoTokens -> 2 [] Top.arg \in OneToken -> 1 [] OTHER -> 0)
    [] Top.op \in {"require", "climb", "stars"} -> 1
    [] OTHER -> 0
Known == tok_begin + Looks <= Len(toks)
Running == phase = "parse" /\ ~(Top = Call("global") /\ AtEnd)

Init ==
  /\ toks \in Prefixes /\ ended = FALSE /\ room = MaxMore
  /\ tok_begin = 0 /\ loops_depth = 0 /\ base = 0
  /\ todo = <<Call("global")>>
  /\ last = [kind |-> "compound", level |-> Primary]
  /\ dt = [at |-> 0, ptr_depth |-> 0]
  /\ phase = "parse"

(* The input: the next token is chosen, or there is none.                  *)
Lex(t) ==
  /\ Running /\ ~Known /\ ~ended
  /\ room > 0 /\ room' = room - 1
  /\ toks' = Append(toks, t)
  /\ UNCHANGED <<ended, tok_begin, loops_depth, todo, last, dt, phase, base>>

LexEnd ==
  /\ Running /\ ~Known /\ ~ended
  /\ ended' = TRUE
  /\ UNCHANGED <<toks, room, tok_begin, loops_depth, todo, last, dt, phase, base>>

Do(items, move) ==
  /\ todo' = items \o Rest
  /\ tok_begin' = tok_begin + move
  /\ UNCHANGED <<toks, ended, room, base>>

Step == Running /\ Known

Expand ==
  /\ Step /\ Top.op = "call"
  /\ Do(CASE Top.arg \in TwoTokens -> Calls2(Top.arg, Cur, Ahead)
          [] Top.arg \in OneToken  -> Calls1(Top.arg, Cur)
          [] OTHER                 -> Calls0(Top.arg), 0)
  /\ dt' = IF Top.arg = "type" THEN [at |-> tok_begin, ptr_depth |-> 0] ELSE dt
  /\ UNCHANGED <<loops_depth, last, phase>>

ExpandClimb ==
  /\ Step /\ Top.op = "climb"
  /\ Do(climb(Top.lo, Top.hi, Cur), 0)
  /\ UNCHANGED <<loops_depth, last, dt, phase>>

require_token ==
  /\ Step /\ Top.op = "require" /\ Cur = Top.arg
  /\ Do(<<>>, 1)
  /\ UNCHANGED <<loops_depth, last, dt, phase>>

peek_next ==
  /\ Step /\ Top.op \in {"skip", "back"}
  /\ Do(<<>>, IF Top.op = "skip" THEN 1 ELSE -1)
  /\ UNCHANGED <<loops_depth, last, dt, phase>>

CountStars ==
  /\ Step /\ Top.op = "stars"
  /\ IF Cur = "*"
     THEN Do(<<Stars>>, 1) /\ dt' = [dt EXCEPT !.ptr_depth = @ + 1]
     ELSE Do(<<>>, 0) /\ UNCHANGED dt
  /\ UNCHANGED <<loops_depth, last, phase>>

MakeNode ==
  /\ Step /\ Top.op \in {"make", "binary", "paren"}
  /\ last' = CASE Top.op = "make"   -> [kind |-> Top.arg, level |-> Primary]
               [] Top.op = "binary" -> [kind |-> "binary", level |-> Top.lo]
               [] Top.op = "paren"  -> [last EXCEPT !.level = Primary]
  /\ Do(<<>>, 0)
  /\ UNCHANGED <<loops_depth, dt, phase>>

CountLoops ==
  /\ Step /\ Top.op \in {"deepen", "shallow"}
  /\ loops_depth' = loops_depth + (IF Top.op = "deepen" THEN 1 ELSE -1)
  /\ Do(<<>>, 0)
  /\ UNCHANGED <<last, dt, phase>>

(* Mutant: the stars of the type are forgotten.                            *)
Recounted_NoStars == tok_begin - 3
Recounted == tok_begin - 3 - dt.ptr_depth

Rewind ==
  /\ Step /\ Top.op \in {"to_type", "recount"}
  /\ Do(<<>>, (IF Top.op = "to_type" THEN dt.at ELSE Recounted) - tok_begin)
  /\ UNCHANGED <<loops_depth, last, dt, phase>>

CheckInt ==
  /\ Step /\ Top.op = "need_int" /\ last.kind = "int"
  /\ Do(<<>>, 0)
  /\ UNCHANGED <<loops_depth, last, dt, phase>>

(* weak_compile_error: longjmp out of all active functions.                *)
weak_compile_error ==
  /\ Step
  /\ \/ Top.op = "error"
     \/ Top.op = "require" /\ Cur # Top.arg
     \/ Top.op = "need_int" /\ last.kind # "int"
  /\ phase' = "error"
  /\ UNCHANGED <<toks, ended, room, tok_begin, loops_depth, todo, last, dt, base>>

(* No function but parse() compares the cursor with tok_end.               *)
ReadPastEnd ==
  /\ Running /\ ~Known /\ ended
  /\ phase' = "overrun"
  /\ UNCHANGED <<toks, ended, room, tok_begin, loops_depth, todo, last, dt, base>>

Finish ==
  /\ phase = "parse" /\ Top = Call("global") /\ AtEnd
  /\ phase' = "done"
  /\ UNCHANGED <<toks, ended, room, tok_begin, loops_depth, todo, last, dt, base>>

(* The same process parses another input: only the cursor is set anew.     *)
Again ==
  /\ phase \in {"done", "error"} /\ loops_depth <= MaxDepth
  /\ phase' = "parse" /\ toks' \in Prefixes /\ ended' = FALSE /\ room' = MaxMore
  /\ tok_begin' = 0 /\ todo' = <<Call("global")>>
  /\ base' = loops_depth
  /\ last' = [kind |-> "compound", level |-> Primary]
  /\ dt' = [at |-> 0, ptr_depth |-> 0]
  /\ UNCHANGED loops_depth

Work == \/ Expand \/ ExpandClimb \/ require_token \/ peek_next \/ CountStars \/ MakeNode
        \/ CountLoops \/ Rewind \/ CheckInt \/ weak_compile_error \/ ReadPastEnd \/ Finish

Next == (\E t \in Tokens : Lex(t)) \/ LexEnd \/ Work \/ Again

(* A parse goes on until it returns or jumps out; an input is finite.      *)
Spec == Init /\ [][Next]_vars /\ WF_vars(Work) /\ WF_vars(LexEnd)

------------------------------------------------------------------------------
(* Properties.                                                             *)

Opens  == {"(", "[", "{"}
Closes == {")", "]", "}"}
Mate(t) == CASE t = ")" -> "(" [] t = "]" -> "[" [] t = "}" -> "{"

(* The brackets of a token sequence that are still open, or "bad" at the   *)
(* bottom if one is closed by another kind.                                *)
OpenBrackets(s) ==
  LET f[i \in 0..Len(s)] ==
        IF i = 0 THEN <<>>
        ELSE LET o == f[i - 1] IN
             CASE s[i] \in Opens -> Append(o, s[i])
               [] s[i] \in Closes ->
                    IF o # <<>> /\ o[Len(o)] = Mate(s[i]) THEN SubSeq(o, 1, Len(o) - 1)
                    ELSE Append(o, "bad")
               [] OTHER -> o
  IN f[Len(s)]

Count(op) == Cardinality({i \in DOMAIN todo : todo[i].op = op})
OpenLoops == Count("shallow") - Count("deepen")

(* loops_depth counts the loop bodies being parsed, on top of what an      *)
(* earlier parse left behind when an error took it out of a loop; and      *)
(* break or continue is accepted only when it counts one.                  *)
LoopDepthCounts ==
  phase = "parse" =>
    /\ loops_depth = base + OpenLoops
    /\ Top.op = "make" /\ Top.arg \in {"break", "continue"} => base + OpenLoops > 0

(* Every operator binds as its level says: what stands on its left was     *)
(* made of tighter operators, what stands on its right of operators at     *)
(* least as tight (all of them group to the right).                        *)
PrecedenceKept ==
  phase = "parse" =>
    /\ Top.op = "climb" /\ Known /\ Level(Cur) \in Top.lo..Top.hi => last.level > Level(Cur)
    /\ Top.op = "binary" => last.level >= Top.lo

(* An accepted input closes every bracket it opens with its mate.          *)
AcceptedBalanced == phase = "done" => OpenBrackets(toks) = <<>>

(* Counting back over name, type and stars ends where the type began.      *)
RewindsToType == phase = "parse" /\ Top.op = "recount" => Recounted = dt.at

(* The cursor reaches the end of the tokens inside a function of the       *)
(* parser only when the input stops in the middle of a declaration: with a *)
(* bracket open, or not after } or ;.  (The functions that look one token  *)
(* further can read past the end of any input.)                            *)
OverrunMeansTruncated ==
  phase = "overrun" /\ tok_begin = Len(toks) =>
    toks # <<>> /\ (OpenBrackets(toks) # <<>> \/ toks[Len(toks)] \notin {"}", ";"})

(* Every parse comes to an end: no loop of the parser stands still.        *)
ParseEnds == phase = "parse" ~> phase # "parse"

====
