---- MODULE ParserProofs ----
(***************************************************************************)
(* What holds at every call of the parser, for inputs of any length and    *)
(* nesting.  The call stack `todo` is annotated: Need names what an item   *)
(* relies on when it is reached, Gives says that one item leaves what the  *)
(* next one needs.  Every function of parse.c expands to a sequence whose  *)
(* neighbours fit in this sense, which keeps the annotation.               *)
(***************************************************************************)
EXTENDS Parser, SequenceTheorems, FiniteSetTheorems, WellFoundedInduction, TLAPS

NoToken ==
  {"logical_or", "postfix_unary", "struct_field_access", "assignment", "function_call",
   "array_decl_without_initializer", "array_decl", "decl_without_initializer",
   "var_decl_without_initializer", "var_decl", "struct_decl", "struct_var_decl",
   "struct_array_body", "function_decl", "block", "iteration_block", "loop_semicolon",
   "semicolon", "selection_stmt", "jump_stmt", "for_range", "for", "do_while", "while"}

ParseFns == OneToken \union TwoTokens \union NoToken

Ops == {"call", "require", "skip", "back", "make", "binary", "climb", "paren", "deepen",
        "shallow", "stars", "to_type", "recount", "need_int", "error"}

Required == {"(", ")", "[", "]", "{", "}", ",", ":", ";", "=", "do", "for", "if", "return",
             "struct", "sym", "while"}
Made == {"array_access", "array_decl", "break", "compound", "constant", "continue", "do_while",
         "for", "for_range", "function_call", "function_decl", "if", "int", "member",
         "postfix_unary", "prefix_unary", "return", "struct_decl", "symbol", "var_decl", "while"}
Args   == ParseFns \union Required \union Made \union {"none"}
Levels == 0 .. 10
Items  == [op : Ops, arg : Args, lo : Levels, hi : Levels]

Sound(x) ==
  /\ x \in Items
  /\ x.op = "call" => x.arg \in ParseFns
  /\ x.op = "climb" => x.lo \in 1 .. x.hi

(* What an item relies on: that the node returned last is an operand; that *)
(* the cursor is right after a type, its name, or the token after it; that *)
(* it has moved; that it is at the keyword of a loop; or, for the loops    *)
(* over operators, a bound on what is left and right of the cursor.        *)
CallNeed(f) ==
  CASE f \in {"postfix_op", "paren_member"} -> "operand"
    [] f = "var_name"       -> "type"
    [] f = "var_rest"       -> "name"
    [] f = "symbol"         -> "moved"
    [] f = "iteration_stmt" -> "loop"
    [] OTHER                -> "none"

Need(x) ==
  CASE x.op = "call"                -> CallNeed(x.arg)
    [] x.op = "climb"               -> "climb"
    [] x.op = "binary" /\ x.lo > 0  -> "low"
    [] x.op = "stars"               -> "type"
    [] x.op = "recount"             -> "open"
    [] x.op = "back"                -> "moved"
    [] OTHER                        -> "none"

Places == {"type", "name", "open"}

LoopTokens == {"for", "do", "while"}
Below(l) == tok_begin < Len(toks) /\ Level(Cur) < l
After(k) == tok_begin = dt.at + k + dt.ptr_depth

Ready(x) ==
  /\ Need(x) = "climb"   => \/ x.hi = 10 /\ last.level = Primary
                            \/ last.level = x.hi /\ Below(x.hi)
  /\ Need(x) = "low"     => last.level >= x.lo /\ Below(x.lo)
  /\ Need(x) = "operand" => last.level = Primary
  /\ Need(x) = "type"    => After(1)
  /\ Need(x) = "name"    => After(2)
  /\ Need(x) = "open"    => After(3)
  /\ Need(x) = "moved"   => tok_begin > 0
  /\ Need(x) = "loop"    => tok_begin < Len(toks) /\ Cur \in LoopTokens

(* peek_next before an item that needs a place. *)
SkipReady(y) ==
  /\ Need(y) = "type" => After(0)
  /\ Need(y) = "name" => After(1)
  /\ Need(y) = "open" => After(2)

(* Functions that return an operand, whatever else they do. *)
OperandFns ==
  {"prefix_unary", "postfix_unary", "postfix_op", "primary", "paren_member", "symbol",
   "constant", "function_call", "next_arg", "array_access", "next_index",
   "struct_field_access", "next_field"}

Operand(x) == x.op \in {"make", "paren"} \/ (x.op = "call" /\ x.arg \in OperandFns)

Gives(x, y) ==
  \/ x.op = "error"
  \/ /\ Need(y) = "climb"   => \/ Operand(x) /\ y.hi = 10
                               \/ x.op = "binary" /\ x.lo = y.hi
     /\ Need(y) = "low"     => x.op = "climb" /\ x.lo = y.lo
     /\ Need(y) = "operand" => Operand(x)
     /\ Need(y) = "type"    => x.op \in {"skip", "stars"} \/ (x.op = "call" /\ x.arg = "type")
     /\ Need(y) \in {"name", "open", "moved"} => x.op = "skip"
     /\ Need(y) # "loop"

Joined(s)    == \A i \in 1 .. Len(s) - 1 : Gives(s[i], s[i + 1])
Skips(s, k)  == \A i \in k .. Len(s) - 1 : s[i].op = "skip" => Need(s[i + 1]) \notin Places
Balanced(s)  ==
  \A i \in 1 .. Len(s) :
    /\ s[i].op = "deepen"  => i + 2 <= Len(s) /\ s[i + 1].op = "call" /\ s[i + 2].op = "shallow"
    /\ s[i].op = "shallow" => i > 2 /\ s[i - 1].op = "call" /\ s[i - 2].op = "deepen"

(* Items that are reached inside loops only. *)
Loopy(x) == \/ x.op = "call" /\ x.arg \in {"iteration_block", "next_loop_stmt", "loop_stmt"}
            \/ x.op = "make" /\ x.arg \in {"break", "continue"}

Bottom(x) == x.op = "error" \/ (x.op = "call" /\ x.arg = "global")

(* The sequence s, which replaces x on the stack: its first item needs no  *)
(* more than x did, its last one leaves what x leaves.                     *)
Starts(x, a) ==
  /\ Need(a) \in {"none", "moved", "loop"}
  /\ Need(a) = "moved" => Need(x) = "moved"
  /\ Need(a) = "loop"  => x.op = "call" /\ x.arg = "stmt" /\ Cur \in LoopTokens
SkipStarts(x, a, b) ==
  a.op = "skip" =>
    /\ Need(b) = "type" => x.op = "call" /\ x.arg = "type"
    /\ Need(b) = "name" => x.op = "call" /\ x.arg = "var_name"
    /\ Need(b) = "open" => x.op = "call" /\ x.arg = "var_rest"
Ends(x, z) ==
  /\ x.op \in {"call", "climb"}
  /\ x.op = "call" /\ x.arg \in OperandFns => Operand(z) \/ z.op = "error"
  /\ x.op = "call" /\ x.arg = "type" => z.op \in {"stars", "error"}
  /\ x.op = "call" /\ x.arg = "global" => Bottom(z)
  /\ x.op = "climb" => z.op = "climb" /\ z.lo = x.lo

Fits(x, s) ==
  /\ s \in Seq(Items) /\ \A i \in 1 .. Len(s) : Sound(s[i])
  /\ Joined(s) /\ Skips(s, 2) /\ Balanced(s)
  /\ \A i \in 1 .. Len(s) : Loopy(s[i]) => Loopy(x) \/ loops_depth > 0
  /\ Len(s) > 0 => Starts(x, s[1]) /\ Ends(x, s[Len(s)])
  /\ Len(s) > 1 => SkipStarts(x, s[1], s[2])

------------------------------------------------------------------------------
(* Most functions are sequences of items that need nothing. *)
Easy(x) == {a \in Items : /\ Sound(a) /\ Need(a) = "none"
                          /\ a.op # "deepen" /\ a.op # "shallow"
                          /\ Loopy(a) => Loopy(x) \/ loops_depth > 0}

(* Expansions that promise nothing about their last item. *)
Free(x) == x.op = "call" /\ x.arg \notin OperandFns \union {"type", "global"}

(* What a concatenation holds. *)
LEMMA Joint ==
  ASSUME NEW S, NEW s \in Seq(S), NEW t \in Seq(S), NEW d, d = s \o t
  PROVE  /\ d \in Seq(S) /\ Len(d) = Len(s) + Len(t)
         /\ Len(s) \in Nat /\ Len(t) \in Nat /\ Len(d) \in Nat
         /\ \A i \in 1 .. Len(d) : d[i] = IF i <= Len(s) THEN s[i] ELSE t[i - Len(s)]
<1>1. d \in Seq(S) /\ Len(d) = Len(s) + Len(t)
  BY ConcatProperties, Zenon
<1>2. \A i \in 1 .. Len(s) + Len(t) : d[i] = IF i <= Len(s) THEN s[i] ELSE t[i - Len(s)]
  BY ConcatProperties, Zenon
<1>3. Len(s) \in Nat /\ Len(t) \in Nat /\ Len(d) \in Nat
  BY <1>1
<1> QED BY <1>1, <1>2, <1>3, Zenon

(* The fields of an item. *)
LEMMA ItemIs ==
  ASSUME NEW op \in Ops, NEW arg \in Args, NEW lo \in Levels, NEW hi \in Levels
  PROVE  /\ Item(op, arg, lo, hi) \in Items
         /\ Item(op, arg, lo, hi).op = op /\ Item(op, arg, lo, hi).arg = arg
         /\ Item(op, arg, lo, hi).lo = lo /\ Item(op, arg, lo, hi).hi = hi
BY DEF Item, Items

(* Items that need nothing, and the functions by name. *)
LEMMA ItemFacts ==
  /\ \A f \in ParseFns : /\ Call(f) \in Items /\ Call(f).op = "call" /\ Call(f).arg = f
                         /\ Sound(Call(f)) /\ Need(Call(f)) = CallNeed(f)
                         /\ (Loopy(Call(f)) <=> f \in {"iteration_block", "next_loop_stmt", "loop_stmt"})
  /\ \A t \in Required : /\ Require(t) \in Items /\ Require(t).op = "require"
                         /\ Sound(Require(t)) /\ Need(Require(t)) = "none" /\ ~Loopy(Require(t))
  /\ \A t \in Made : /\ Make(t) \in Items /\ Make(t).op = "make" /\ Make(t).arg = t
                     /\ Sound(Make(t)) /\ Need(Make(t)) = "none"
                     /\ (Loopy(Make(t)) <=> t \in {"break", "continue"})
  /\ \A a \in {Skip, Back, Paren, Deepen, Shallow, Stars, ToType, Recount, NeedInt, Fail[1]} :
       a \in Items /\ Sound(a) /\ ~Loopy(a)
  /\ \A a \in {Skip, Paren, Deepen, Shallow, ToType, NeedInt, Fail[1]} : Need(a) = "none"
  /\ Need(Back) = "moved" /\ Need(Stars) = "type" /\ Need(Recount) = "open"
  /\ Skip.op = "skip" /\ Back.op = "back" /\ Paren.op = "paren" /\ Deepen.op = "deepen"
  /\ Shallow.op = "shallow" /\ Stars.op = "stars" /\ ToType.op = "to_type"
  /\ Recount.op = "recount" /\ NeedInt.op = "need_int" /\ Fail[1].op = "error" /\ Fail = <<Fail[1]>>
<1>1. /\ 0 \in Levels /\ "none" \in Args
      /\ ParseFns \subseteq Args /\ Required \subseteq Args /\ Made \subseteq Args
  BY DEF Levels, Args
<1>2. /\ "call" \in Ops /\ "require" \in Ops /\ "skip" \in Ops /\ "back" \in Ops /\ "make" \in Ops
      /\ "paren" \in Ops /\ "deepen" \in Ops /\ "shallow" \in Ops /\ "stars" \in Ops
      /\ "to_type" \in Ops /\ "recount" \in Ops /\ "need_int" \in Ops /\ "error" \in Ops
  BY DEF Ops
<1>3. ASSUME NEW f \in ParseFns
      PROVE  /\ Call(f) \in Items /\ Call(f).op = "call" /\ Call(f).arg = f
             /\ Sound(Call(f)) /\ Need(Call(f)) = CallNeed(f)
             /\ (Loopy(Call(f)) <=> f \in {"iteration_block", "next_loop_stmt", "loop_stmt"})
  <2>1. Call(f) \in Items /\ Call(f).op = "call" /\ Call(f).arg = f
    BY <1>1, <1>2, ItemIs DEF Call
  <2> HIDE DEF CallNeed
  <2> QED BY <2>1 DEF Sound, Need, Loopy
<1>4. ASSUME NEW t \in Required
      PROVE  /\ Require(t) \in Items /\ Require(t).op = "require"
             /\ Sound(Require(t)) /\ Need(Require(t)) = "none" /\ ~Loopy(Require(t))
  <2>1. Require(t) \in Items /\ Require(t).op = "require"
    BY <1>1, <1>2, ItemIs DEF Require
  <2> QED BY <2>1 DEF Sound, Need, Loopy
<1>5. ASSUME NEW t \in Made
      PROVE  /\ Make(t) \in Items /\ Make(t).op = "make" /\ Make(t).arg = t
             /\ Sound(Make(t)) /\ Need(Make(t)) = "none"
             /\ (Loopy(Make(t)) <=> t \in {"break", "continue"})
  <2>1. Make(t) \in Items /\ Make(t).op = "make" /\ Make(t).arg = t
    BY <1>1, <1>2, ItemIs DEF Make
  <2> QED BY <2>1 DEF Sound, Need, Loopy
<1>6. /\ Skip \in Items /\ Skip.op = "skip" /\ Back \in Items /\ Back.op = "back"
      /\ Paren \in Items /\ Paren.op = "paren" /\ Deepen \in Items /\ Deepen.op = "deepen"
      /\ Shallow \in Items /\ Shallow.op = "shallow" /\ Stars \in Items /\ Stars.op = "stars"
  BY <1>1, <1>2, ItemIs DEF Skip, Back, Paren, Deepen, Shallow, Stars
<1>7. /\ ToType \in Items /\ ToType.op = "to_type" /\ Recount \in Items /\ Recount.op = "recount"
      /\ NeedInt \in Items /\ NeedInt.op = "need_int"
      /\ Fail[1] \in Items /\ Fail[1].op = "error" /\ Fail = <<Fail[1]>>
  BY <1>1, <1>2, ItemIs DEF ToType, Recount, NeedInt, Fail
<1>8. \A a \in {Skip, Back, Paren, Deepen, Shallow, Stars, ToType, Recount, NeedInt, Fail[1]} :
        a \in Items /\ Sound(a) /\ ~Loopy(a)
  BY <1>6, <1>7 DEF Sound, Loopy
<1>9. \A a \in {Skip, Paren, Deepen, Shallow, ToType, NeedInt, Fail[1]} : Need(a) = "none"
  BY <1>6, <1>7 DEF Need
<1>10. Need(Back) = "moved" /\ Need(Stars) = "type" /\ Need(Recount) = "open"
  BY <1>6, <1>7 DEF Need
<1> QED BY <1>3, <1>4, <1>5, <1>6, <1>7, <1>8, <1>9, <1>10

(* A sequence of easy items fits. *)
LEMMA EasyFits ==
  ASSUME NEW x, NEW s \in Seq(Easy(x)), Len(s) > 0 => Ends(x, s[Len(s)])
  PROVE  Fits(x, s)
<1>1. Len(s) \in Nat /\ \A i \in 1 .. Len(s) : s[i] \in Easy(x)
  OBVIOUS
<1>2. \A i \in 1 .. Len(s) : /\ Sound(s[i]) /\ s[i] \in Items /\ Need(s[i]) = "none"
                             /\ s[i].op # "deepen" /\ s[i].op # "shallow"
                             /\ Loopy(s[i]) => Loopy(x) \/ loops_depth > 0
  BY <1>1 DEF Easy
<1>3. s \in Seq(Items)
  BY DEF Easy
<1>4. \A i \in 1 .. Len(s) - 1 : i + 1 \in 1 .. Len(s)
  BY <1>1
<1>5. Joined(s) /\ Skips(s, 2)
  BY <1>1, <1>2, <1>4 DEF Joined, Skips, Gives, Places
<1>6. Balanced(s)
  BY <1>2 DEF Balanced
<1>7. Len(s) > 0 => Starts(x, s[1])
  BY <1>1, <1>2 DEF Starts
<1>8. Len(s) > 1 => SkipStarts(x, s[1], s[2])
  BY <1>1, <1>2 DEF SkipStarts
<1> QED BY <1>2, <1>3, <1>5, <1>6, <1>7, <1>8 DEF Fits

(* Nothing is asked of the last item of a free one. *)
LEMMA FreeFits ==
  ASSUME NEW x, Free(x), NEW s \in Seq(Easy(x))
  PROVE  Fits(x, s)
<1>1. \A z : Ends(x, z)
  BY DEF Free, Ends
<1> QED BY <1>1, EasyFits

(* The body of a loop between easy items. *)
LEMMA BodyFits ==
  ASSUME NEW x, Free(x), NEW p \in Seq(Items), NEW q \in Seq(Items), Len(p) > 0,
         \A i \in 1 .. Len(p) : p[i] \in Easy(x), \A i \in 1 .. Len(q) : q[i] \in Easy(x)
  PROVE  Fits(x, p \o Body \o q)
<1>0. /\ Deepen \in Items /\ Shallow \in Items /\ Call("block") \in Items
      /\ Deepen.op = "deepen" /\ Shallow.op = "shallow" /\ Call("block").op = "call"
      /\ \A a \in {Deepen, Shallow, Call("block")} : Need(a) = "none" /\ Sound(a) /\ ~Loopy(a)
  <2>1. "block" \in ParseFns /\ CallNeed("block") = "none"
    BY DEF ParseFns, NoToken, CallNeed
  <2> QED BY <2>1, ItemFacts
<1>1. PICK b : b = Body /\ b \in Seq(Items)
  <2>1. Body \in Seq(Items)
    BY <1>0 DEF Body
  <2> QED BY <2>1
<1>2. /\ Len(b) = 3 /\ b[1].op = "deepen" /\ b[2].op = "call" /\ b[3].op = "shallow"
      /\ \A i \in 1 .. 3 : Need(b[i]) = "none" /\ Sound(b[i]) /\ ~Loopy(b[i])
  <2>1. Len(b) = 3 /\ b[1] = Deepen /\ b[2] = Call("block") /\ b[3] = Shallow
    BY <1>1 DEF Body
  <2>2. ASSUME NEW i \in 1 .. 3 PROVE b[i] \in {Deepen, Shallow, Call("block")}
    <3>1. i = 1 \/ i = 2 \/ i = 3
      OBVIOUS
    <3> QED BY <2>1, <3>1
  <2> QED BY <1>0, <2>1, <2>2
<1>3. Len(p) \in Nat /\ Len(q) \in Nat /\ p \in Seq(Items) /\ q \in Seq(Items)
  OBVIOUS
<1>4. PICK s : s = p \o b \o q
  OBVIOUS
<1>5. /\ s \in Seq(Items) /\ Len(s) = Len(p) + 3 + Len(q)
      /\ \A i \in 1 .. Len(p) : s[i] = p[i]
      /\ \A i \in 1 .. 3 : s[Len(p) + i] = b[i]
      /\ \A i \in 1 .. Len(q) : s[Len(p) + 3 + i] = q[i]
  <2>1. PICK d : d = p \o b
    OBVIOUS
  <2>a. /\ d \in Seq(Items) /\ Len(d) = Len(p) + Len(b)
        /\ \A i \in 1 .. Len(d) : d[i] = IF i <= Len(p) THEN p[i] ELSE b[i - Len(p)]
    BY ONLY <1>1, <1>3, <2>1, Joint, SMT
  <2>b. s = d \o q /\ d \in Seq(Items) /\ q \in Seq(Items)
    BY <1>4, <2>1, <2>a
  <2>2. /\ d \in Seq(Items) /\ Len(d) = Len(p) + 3
        /\ \A i \in 1 .. Len(d) : d[i] = IF i <= Len(p) THEN p[i] ELSE b[i - Len(p)]
    BY <1>2, <2>a
  <2>3. /\ s \in Seq(Items) /\ Len(s) = Len(d) + Len(q)
        /\ \A i \in 1 .. Len(s) : s[i] = IF i <= Len(d) THEN d[i] ELSE q[i - Len(d)]
    BY ONLY <2>b, Joint, SMT
  <2>4. ASSUME NEW i \in 1 .. Len(p) PROVE s[i] = p[i]
    <3>1. i \in 1 .. Len(d) /\ i \in 1 .. Len(s) /\ i <= Len(p) /\ i <= Len(d)
      BY <1>3, <2>2, <2>3
    <3> QED BY <2>2, <2>3, <3>1
  <2>5. ASSUME NEW i \in 1 .. 3 PROVE s[Len(p) + i] = b[i]
    <3>1. /\ Len(p) + i \in 1 .. Len(d) /\ Len(p) + i \in 1 .. Len(s) /\ ~(Len(p) + i <= Len(p))
          /\ Len(p) + i <= Len(d) /\ (Len(p) + i) - Len(p) = i
      BY <1>3, <2>2, <2>3
    <3> QED BY <2>2, <2>3, <3>1
  <2>6. ASSUME NEW i \in 1 .. Len(q) PROVE s[Len(p) + 3 + i] = q[i]
    <3>1. /\ Len(p) + 3 + i \in 1 .. Len(s) /\ ~(Len(p) + 3 + i <= Len(d))
          /\ (Len(p) + 3 + i) - Len(d) = i
      BY <1>3, <2>2, <2>3
    <3> QED BY <2>3, <3>1
  <2> QED BY <2>2, <2>3, <2>4, <2>5, <2>6
<1>6. /\ \A i \in 1 .. Len(p) : p[i] \in Easy(x)
      /\ \A i \in 1 .. Len(q) : q[i] \in Easy(x)
  OBVIOUS
<1>7. ASSUME NEW i \in 1 .. Len(s)
      PROVE  /\ Sound(s[i]) /\ Need(s[i]) = "none"
             /\ Loopy(s[i]) => Loopy(x) \/ loops_depth > 0
             /\ s[i].op \in {"deepen", "shallow"} => i - Len(p) \in 1 .. 3 /\ s[i] = b[i - Len(p)]
  <2>1. CASE i \in 1 .. Len(p)
    BY <1>5, <1>6, <2>1 DEF Easy
  <2>2. CASE i - Len(p) \in 1 .. 3
    <3>1. PICK k \in 1 .. 3 : k = i - Len(p) /\ i = Len(p) + k
      BY <1>3, <2>2
    <3> QED BY <1>2, <1>5, <2>2, <3>1
  <2>3. CASE i - (Len(p) + 3) \in 1 .. Len(q)
    <3>1. PICK k \in 1 .. Len(q) : k = i - (Len(p) + 3)
      BY <2>3
    <3>0. i = Len(p) + 3 + k
      BY <1>3, <3>1
    <3>2. s[i] = q[k]
      BY <1>5, <3>0
    <3> QED BY <1>6, <3>2 DEF Easy
  <2>c. i \in 1 .. Len(p) \/ i - Len(p) \in 1 .. 3 \/ i - (Len(p) + 3) \in 1 .. Len(q)
    BY SMTT(30), <1>3, <1>5
  <2> QED BY <2>1, <2>2, <2>3, <2>c
<1>8. \A i \in 1 .. Len(s) - 1 : i + 1 \in 1 .. Len(s)
  BY <1>3, <1>5
<1>9. Joined(s) /\ Skips(s, 2)
  BY <1>3, <1>5, <1>7, <1>8 DEF Joined, Skips, Gives, Places
<1>10. ASSUME NEW i \in 1 .. Len(s)
       PROVE  /\ s[i].op = "deepen"  => i + 2 <= Len(s) /\ s[i + 1].op = "call" /\ s[i + 2].op = "shallow"
              /\ s[i].op = "shallow" => i > 2 /\ s[i - 1].op = "call" /\ s[i - 2].op = "deepen"
  <2>0. /\ s[Len(p) + 1] = b[1] /\ s[Len(p) + 2] = b[2] /\ s[Len(p) + 3] = b[3]
    BY <1>5
  <2>1. CASE s[i].op = "deepen"
    <3>1. i - Len(p) \in 1 .. 3 /\ s[i] = b[i - Len(p)]
      BY <1>7, <2>1
    <3>2. i - Len(p) = 1 \/ i - Len(p) = 2 \/ i - Len(p) = 3
      BY <1>3, <3>1
    <3>3. i - Len(p) = 1
      BY <1>2, <2>1, <3>1, <3>2
    <3>4. i = Len(p) + 1 /\ i + 1 = Len(p) + 2 /\ i + 2 = Len(p) + 3 /\ i + 2 <= Len(s)
      BY <1>3, <1>5, <3>3
    <3> QED BY <1>2, <2>0, <2>1, <3>4
  <2>2. CASE s[i].op = "shallow"
    <3>1. i - Len(p) \in 1 .. 3 /\ s[i] = b[i - Len(p)]
      BY <1>7, <2>2
    <3>2. i - Len(p) = 1 \/ i - Len(p) = 2 \/ i - Len(p) = 3
      BY <1>3, <3>1
    <3>3. i - Len(p) = 3
      BY <1>2, <2>2, <3>1, <3>2
    <3>4. i = Len(p) + 3 /\ i - 1 = Len(p) + 2 /\ i - 2 = Len(p) + 1 /\ i > 2
      BY <1>3, <1>5, <3>3
    <3> QED BY <1>2, <2>0, <2>2, <3>4
  <2> QED BY <2>1, <2>2
<1>11. Balanced(s)
  BY <1>10 DEF Balanced
<1>12. \A z : Ends(x, z)
  BY DEF Free, Ends
<1>13. 1 \in 1 .. Len(s) /\ 2 \in 1 .. Len(s)
  BY <1>3, <1>5
<1>14. Starts(x, s[1]) /\ SkipStarts(x, s[1], s[2])
  BY <1>7, <1>13 DEF Starts, SkipStarts
<1>15. Fits(x, s)
  BY <1>5, <1>7, <1>9, <1>11, <1>12, <1>14 DEF Fits
<1> QED BY <1>1, <1>4, <1>15

(* The functions that need nothing and may be called anywhere. *)
EasyFns ==
  {"logical_or", "prefix_unary", "postfix_unary", "primary", "struct_field_access",
   "next_field", "next_index", "expr", "assignment", "assign_op", "comma", "function_call",
   "next_arg", "array_access", "constant", "type", "return_type",
   "array_decl_without_initializer", "array_name", "first_dim", "next_dim", "array_decl",
   "array_body", "decl_without_initializer", "decl_kind", "var_decl_without_initializer",
   "var_decl", "decl", "struct_decl", "next_member", "struct_var_decl", "struct_dims",
   "struct_array_body", "function_param_list", "function_decl", "function_body", "stmt",
   "symbol_stmt", "loop_semicolon", "block", "next_stmt", "semicolon", "selection_stmt",
   "else_body", "jump_stmt", "return_value", "for_range", "for", "for_init", "for_kind",
   "for_cond", "for_inc", "do_while", "while", "global"}
LoopFns == {"iteration_block", "next_loop_stmt", "loop_stmt"}

(* The items that are easy everywhere, one by one. *)
CallsIn(E) ==
  /\ Call("logical_or") \in E /\ Call("prefix_unary") \in E /\ Call("postfix_unary") \in E
  /\ Call("primary") \in E /\ Call("struct_field_access") \in E /\ Call("next_field") \in E
  /\ Call("next_index") \in E /\ Call("expr") \in E /\ Call("assignment") \in E
  /\ Call("assign_op") \in E /\ Call("comma") \in E /\ Call("function_call") \in E
  /\ Call("next_arg") \in E /\ Call("array_access") \in E /\ Call("constant") \in E
  /\ Call("type") \in E /\ Call("return_type") \in E
  /\ Call("array_decl_without_initializer") \in E /\ Call("array_name") \in E
  /\ Call("first_dim") \in E /\ Call("next_dim") \in E /\ Call("array_decl") \in E
  /\ Call("array_body") \in E /\ Call("decl_without_initializer") \in E /\ Call("decl_kind") \in E
  /\ Call("var_decl_without_initializer") \in E /\ Call("var_decl") \in E /\ Call("decl") \in E
  /\ Call("struct_decl") \in E /\ Call("next_member") \in E /\ Call("struct_var_decl") \in E
  /\ Call("struct_dims") \in E /\ Call("struct_array_body") \in E
  /\ Call("function_param_list") \in E /\ Call("function_decl") \in E
  /\ Call("function_body") \in E /\ Call("stmt") \in E /\ Call("symbol_stmt") \in E
  /\ Call("loop_semicolon") \in E /\ Call("block") \in E /\ Call("next_stmt") \in E
  /\ Call("semicolon") \in E /\ Call("selection_stmt") \in E /\ Call("else_body") \in E
  /\ Call("jump_stmt") \in E /\ Call("return_value") \in E /\ Call("for_range") \in E
  /\ Call("for") \in E /\ Call("for_init") \in E /\ Call("for_kind") \in E
  /\ Call("for_cond") \in E /\ Call("for_inc") \in E /\ Call("do_while") \in E
  /\ Call("while") \in E /\ Call("global") \in E
RequiresIn(E) ==
  /\ Require("(") \in E /\ Require(")") \in E /\ Require("[") \in E /\ Require("]") \in E
  /\ Require("{") \in E /\ Require("}") \in E /\ Require(",") \in E /\ Require(":") \in E
  /\ Require(";") \in E /\ Require("=") \in E /\ Require("do") \in E /\ Require("for") \in E
  /\ Require("if") \in E /\ Require("return") \in E /\ Require("struct") \in E
  /\ Require("sym") \in E /\ Require("while") \in E
MakesIn(E) ==
  /\ Make("array_access") \in E /\ Make("array_decl") \in E /\ Make("compound") \in E
  /\ Make("constant") \in E /\ Make("do_while") \in E /\ Make("for") \in E
  /\ Make("for_range") \in E /\ Make("function_call") \in E /\ Make("function_decl") \in E
  /\ Make("if") \in E /\ Make("int") \in E /\ Make("member") \in E /\ Make("postfix_unary") \in E
  /\ Make("prefix_unary") \in E /\ Make("return") \in E /\ Make("struct_decl") \in E
  /\ Make("symbol") \in E /\ Make("var_decl") \in E /\ Make("while") \in E
OthersIn(E) ==
  /\ Skip \in E /\ Paren \in E /\ ToType \in E /\ NeedInt \in E /\ Binary(0) \in E
  /\ Fail \in Seq(E) /\ <<Skip>> \o Fail \in Seq(E)
EasyIn(E) == CallsIn(E) /\ RequiresIn(E) /\ MakesIn(E) /\ OthersIn(E)
LoopsIn(E) ==
  /\ Call("iteration_block") \in E /\ Call("next_loop_stmt") \in E /\ Call("loop_stmt") \in E
  /\ Make("break") \in E /\ Make("continue") \in E

(* Sequences written out. *)
LEMMA Tuples ==
  ASSUME NEW E
  PROVE  /\ <<>> \in Seq(E)
         /\ \A a \in E : <<a>> \in Seq(E)
         /\ \A a, b \in E : <<a, b>> \in Seq(E)
         /\ \A a, b, c \in E : <<a, b, c>> \in Seq(E)
         /\ \A a, b, c, d \in E : <<a, b, c, d>> \in Seq(E)
OBVIOUS

(* Items that need nothing are easy; those of loops, inside loops. *)
LEMMA EasyItems ==
  ASSUME NEW x
  PROVE  EasyIn(Easy(x)) /\ (Loopy(x) \/ loops_depth > 0 => LoopsIn(Easy(x)))
<1>1. \A f \in LoopFns : f \in ParseFns /\ CallNeed(f) = "none"
  BY DEF ParseFns, OneToken, NoToken, CallNeed, LoopFns
<1>2. "break" \in Made /\ "continue" \in Made
  BY DEF Made
<1>3. Binary(0) \in Items /\ Binary(0).op = "binary" /\ Binary(0).lo = 0
  <2>1. "binary" \in Ops /\ "none" \in Args /\ 0 \in Levels
    BY DEF Ops, Args, Levels
  <2> QED BY <2>1, ItemIs DEF Binary
<1>4. Sound(Binary(0)) /\ Need(Binary(0)) = "none" /\ ~Loopy(Binary(0))
  BY <1>3 DEF Sound, Need, Loopy
<1>5. Binary(0) \in Easy(x)
  BY <1>3, <1>4 DEF Easy
<1>6. \A f \in EasyFns : f \in ParseFns /\ CallNeed(f) = "none" /\ f \notin LoopFns
  BY DEF EasyFns, ParseFns, OneToken, TwoTokens, NoToken, CallNeed, LoopFns
<1>7. /\ \A f \in EasyFns : Call(f) \in Easy(x)
      /\ \A t \in Required : Require(t) \in Easy(x)
      /\ \A t \in Made \ {"break", "continue"} : Make(t) \in Easy(x)
  BY <1>6, ItemFacts DEF Easy, LoopFns
<1>8. /\ Skip \in Easy(x) /\ Paren \in Easy(x) /\ ToType \in Easy(x) /\ NeedInt \in Easy(x)
      /\ Fail[1] \in Easy(x) /\ Fail = <<Fail[1]>>
  BY ItemFacts DEF Easy
<1>9. Fail \in Seq(Easy(x)) /\ <<Skip>> \o Fail \in Seq(Easy(x))
  <2>1. PICK e \in Easy(x) : e = Fail[1] /\ Fail = <<e>>
    BY <1>8
  <2> QED BY <1>8, <2>1
<1>10. Loopy(x) \/ loops_depth > 0 => LoopsIn(Easy(x))
  <2> SUFFICES ASSUME Loopy(x) \/ loops_depth > 0 PROVE LoopsIn(Easy(x))
    OBVIOUS
  <2>1. \A f \in LoopFns : Call(f) \in Easy(x)
    BY <1>1, ItemFacts DEF Easy
  <2>2. Make("break") \in Easy(x) /\ Make("continue") \in Easy(x)
    BY <1>2, ItemFacts DEF Easy
  <2> QED BY <2>1, <2>2, Zenon DEF LoopFns, LoopsIn
<1>11. EasyIn(Easy(x))
  <2> DEFINE E == Easy(x)
  <2> HIDE DEF E
  <2>1. /\ \A f \in EasyFns : Call(f) \in E
        /\ \A t \in Required : Require(t) \in E
        /\ \A t \in Made \ {"break", "continue"} : Make(t) \in E
    BY <1>7 DEF E
  <2>2. Skip \in E /\ Paren \in E /\ ToType \in E /\ NeedInt \in E /\ Binary(0) \in E
    BY <1>5, <1>8 DEF E
  <2>3. Fail \in Seq(E) /\ <<Skip>> \o Fail \in Seq(E)
    BY <1>9 DEF E
  <2>4. CallsIn(E)
    BY <2>1 DEF CallsIn, EasyFns
  <2>5. RequiresIn(E)
    BY <2>1, Zenon DEF RequiresIn, Required
  <2>6. MakesIn(E)
    BY <2>1 DEF MakesIn, Made
  <2>7. OthersIn(E)
    BY <2>2, <2>3, Zenon DEF OthersIn
  <2> QED BY <2>4, <2>5, <2>6, <2>7 DEF E, EasyIn
<1> QED BY <1>10, <1>11

(* Functions that look at one token and promise nothing. *)
LEMMA FreeOne ==
  ASSUME NEW f \in {"expr", "assign_op", "comma", "return_type", "array_name", "first_dim",
                 "next_dim", "array_body", "decl", "next_member", "struct_dims",
                 "function_param_list", "function_body", "loop_stmt", "next_loop_stmt",
                 "next_stmt", "else_body", "return_value", "for_init", "for_cond"},
         NEW c
  PROVE  Fits(Call(f), Calls1(f, c))
<1>1. Free(Call(f)) /\ (f \in LoopFns => Loopy(Call(f)))
  <2>1. f \in ParseFns /\ f \notin OperandFns \union {"type", "global"}
    BY DEF ParseFns, OneToken, TwoTokens, NoToken, OperandFns
  <2> QED BY <2>1, ItemFacts DEF Free, LoopFns
<1>2. PICK E : E = Easy(Call(f))
  OBVIOUS
<1>3. EasyIn(E) /\ (f \in LoopFns \/ loops_depth > 0 => LoopsIn(E))
  BY <1>1, <1>2, EasyItems
<1> SUFFICES Calls1(f, c) \in Seq(E)
  BY <1>1, <1>2, FreeFits
<1>4. CASE f = "expr"
  <2>1. Calls1(f, c) = parse_expr(c)
    BY <1>4 DEF Calls1
  <2>2. Call("var_decl") \in E /\ Call("assignment") \in E
    BY <1>3, Zenon DEF EasyIn, CallsIn, RequiresIn, MakesIn, OthersIn
  <2> QED BY ONLY <2>1, <2>2, SMT DEF parse_expr
<1>5. CASE f = "assign_op"
  <2>1. Calls1(f, c) = assign_op(c)
    BY <1>5 DEF Calls1
  <2>2. Skip \in E /\ Call("assignment") \in E /\ Binary(0) \in E /\ Call("assign_op") \in E
    BY <1>3, Zenon DEF EasyIn, CallsIn, RequiresIn, MakesIn, OthersIn
  <2> QED BY ONLY <2>1, <2>2, SMT DEF assign_op
<1>6. CASE f = "comma"
  <2>1. Calls1(f, c) = comma(c)
    BY <1>6 DEF Calls1
  <2>2. Require(",") \in E
    BY <1>3, Zenon DEF EasyIn, CallsIn, RequiresIn, MakesIn, OthersIn
  <2> QED BY ONLY <2>1, <2>2, Tuples, Zenon DEF comma
<1>7. CASE f = "return_type"
  <2>1. Calls1(f, c) = parse_return_type(c)
    BY <1>7 DEF Calls1
  <2>2. Skip \in E /\ Call("type") \in E
    BY <1>3, Zenon DEF EasyIn, CallsIn, RequiresIn, MakesIn, OthersIn
  <2> QED BY ONLY <2>1, <2>2, SMT DEF parse_return_type
<1>8. CASE f = "array_name"
  <2>1. Calls1(f, c) = array_name(c)
    BY <1>8 DEF Calls1
  <2>2. Skip \in E /\ Call("first_dim") \in E /\ Fail \in Seq(E)
    BY <1>3, Zenon DEF EasyIn, CallsIn, RequiresIn, MakesIn, OthersIn
  <2> QED BY ONLY <2>1, <2>2, SMT DEF array_name
<1>9. CASE f = "first_dim"
  <2>1. Calls1(f, c) = first_dim(c)
    BY <1>9 DEF Calls1
  <2>2. Call("next_dim") \in E /\ Make("array_decl") \in E /\ Fail \in Seq(E)
    BY <1>3, Zenon DEF EasyIn, CallsIn, RequiresIn, MakesIn, OthersIn
  <2> QED BY ONLY <2>1, <2>2, SMT DEF first_dim
<1>10. CASE f = "next_dim"
  <2>1. Calls1(f, c) = next_dim(c)
    BY <1>10 DEF Calls1
  <2>2. /\ Require("[") \in E /\ Call("constant") \in E /\ NeedInt \in E /\ Require("]") \in E
        /\ Call("next_dim") \in E
    BY <1>3, Zenon DEF EasyIn, CallsIn, RequiresIn, MakesIn, OthersIn
  <2> QED BY ONLY <2>1, <2>2, SMT DEF next_dim
<1>11. CASE f = "array_body"
  <2>1. Calls1(f, c) = array_body(c)
    BY <1>11 DEF Calls1
  <2>2. /\ Require("=") \in E /\ Call("logical_or") \in E /\ Make("array_decl") \in E
        /\ Fail \in Seq(E)
    BY <1>3, Zenon DEF EasyIn, CallsIn, RequiresIn, MakesIn, OthersIn
  <2> QED BY ONLY <2>1, <2>2, SMT DEF array_body
<1>12. CASE f = "decl"
  <2>1. Calls1(f, c) = parse_decl(c)
    BY <1>12 DEF Calls1
  <2>2. /\ Call("struct_decl") \in E /\ Call("struct_var_decl") \in E
        /\ Call("decl_without_initializer") \in E /\ Fail \in Seq(E)
    BY <1>3, Zenon DEF EasyIn, CallsIn, RequiresIn, MakesIn, OthersIn
  <2> QED BY ONLY <2>1, <2>2, SMT DEF parse_decl
<1>13. CASE f = "next_member"
  <2>1. Calls1(f, c) = next_member(c)
    BY <1>13 DEF Calls1
  <2>2. /\ Require("}") \in E /\ Make("struct_decl") \in E /\ Call("decl") \in E
        /\ Require(";") \in E /\ Call("next_member") \in E
    BY <1>3, Zenon DEF EasyIn, CallsIn, RequiresIn, MakesIn, OthersIn
  <2> QED BY ONLY <2>1, <2>2, Tuples, Zenon DEF next_member
<1>14. CASE f = "struct_dims"
  <2>1. Calls1(f, c) = struct_dims(c)
    BY <1>14 DEF Calls1
  <2>2. Call("next_dim") \in E /\ Call("struct_array_body") \in E /\ Make("array_decl") \in E
    BY <1>3, Zenon DEF EasyIn, CallsIn, RequiresIn, MakesIn, OthersIn
  <2> QED BY ONLY <2>1, <2>2, SMT DEF struct_dims
<1>15. CASE f = "function_param_list"
  <2>1. Calls1(f, c) = parse_function_param_list(c)
    BY <1>15 DEF Calls1
  <2>2. /\ Make("compound") \in E /\ Call("decl_without_initializer") \in E /\ Call("comma") \in E
        /\ Call("function_param_list") \in E
    BY <1>3, Zenon DEF EasyIn, CallsIn, RequiresIn, MakesIn, OthersIn
  <2> QED BY ONLY <2>1, <2>2, SMT DEF parse_function_param_list
<1>16. CASE f = "function_body"
  <2>1. Calls1(f, c) = function_body(c)
    BY <1>16 DEF Calls1
  <2>2. Call("block") \in E /\ Make("function_decl") \in E /\ Require(";") \in E
    BY <1>3, Zenon DEF EasyIn, CallsIn, RequiresIn, MakesIn, OthersIn
  <2> QED BY ONLY <2>1, <2>2, Tuples, Zenon DEF function_body
<1>17. CASE f = "loop_stmt"
  <2>1. Calls1(f, c) = parse_loop_stmt(c)
    BY <1>17 DEF Calls1
  <2>2. Skip \in E /\ Call("stmt") \in E
    BY <1>3, Zenon DEF EasyIn, CallsIn, RequiresIn, MakesIn, OthersIn
  <2>3. LoopsIn(E)
    BY <1>3, <1>17 DEF LoopFns
  <2>4. Make("break") \in E /\ Make("continue") \in E
    BY <2>3, Zenon DEF LoopsIn
  <2> QED BY ONLY <2>1, <2>2, <2>4, SMT DEF parse_loop_stmt
<1>18. CASE f = "next_loop_stmt"
  <2>1. Calls1(f, c) = next_loop_stmt(c)
    BY <1>18 DEF Calls1
  <2>2. Require("}") \in E /\ Make("compound") \in E /\ Call("loop_semicolon") \in E
    BY <1>3, Zenon DEF EasyIn, CallsIn, RequiresIn, MakesIn, OthersIn
  <2>3. LoopsIn(E)
    BY <1>3, <1>18 DEF LoopFns
  <2>4. Call("loop_stmt") \in E /\ Call("next_loop_stmt") \in E
    BY <2>3, Zenon DEF LoopsIn
  <2> QED BY ONLY <2>1, <2>2, <2>4, Tuples, Zenon DEF next_loop_stmt
<1>19. CASE f = "next_stmt"
  <2>1. Calls1(f, c) = next_stmt(c)
    BY <1>19 DEF Calls1
  <2>2. /\ Require("}") \in E /\ Make("compound") \in E /\ Call("stmt") \in E
        /\ Call("semicolon") \in E /\ Call("next_stmt") \in E
    BY <1>3, Zenon DEF EasyIn, CallsIn, RequiresIn, MakesIn, OthersIn
  <2> QED BY ONLY <2>1, <2>2, Tuples, Zenon DEF next_stmt
<1>20. CASE f = "else_body"
  <2>1. Calls1(f, c) = else_body(c)
    BY <1>20 DEF Calls1
  <2>2. Skip \in E /\ Call("block") \in E
    BY <1>3, Zenon DEF EasyIn, CallsIn, RequiresIn, MakesIn, OthersIn
  <2> QED BY ONLY <2>1, <2>2, SMT DEF else_body
<1>21. CASE f = "return_value"
  <2>1. Calls1(f, c) = return_value(c)
    BY <1>21 DEF Calls1
  <2>2. Call("logical_or") \in E
    BY <1>3, Zenon DEF EasyIn, CallsIn, RequiresIn, MakesIn, OthersIn
  <2> QED BY ONLY <2>1, <2>2, Tuples, Zenon DEF return_value
<1>22. CASE f = "for_init"
  <2>1. Calls1(f, c) = for_init(c)
    BY <1>22 DEF Calls1
  <2>2. Skip \in E /\ Call("for_cond") \in E /\ Call("type") \in E /\ Call("for_kind") \in E
    BY <1>3, Zenon DEF EasyIn, CallsIn, RequiresIn, MakesIn, OthersIn
  <2> QED BY ONLY <2>1, <2>2, Tuples, Zenon DEF for_init
<1>23. CASE f = "for_cond"
  <2>1. Calls1(f, c) = for_cond(c)
    BY <1>23 DEF Calls1
  <2>2. Skip \in E /\ Call("for_inc") \in E /\ Call("expr") \in E /\ Require(";") \in E
    BY <1>3, Zenon DEF EasyIn, CallsIn, RequiresIn, MakesIn, OthersIn
  <2> QED BY ONLY <2>1, <2>2, Tuples, Zenon DEF for_cond
<1> QED BY <1>4, <1>5, <1>6, <1>7, <1>8, <1>9, <1>10, <1>11, <1>12, <1>13, <1>14, <1>15, <1>16, <1>17, <1>18, <1>19, <1>20, <1>21, <1>22, <1>23

(* Functions that look at two tokens. *)
LEMMA FreeTwo ==
  ASSUME NEW f \in {"decl_kind", "symbol_stmt", "for_kind"}, NEW c, NEW d
  PROVE  Fits(Call(f), Calls2(f, c, d))
<1>1. Free(Call(f)) /\ (f \in LoopFns => Loopy(Call(f)))
  <2>1. f \in ParseFns /\ f \notin OperandFns \union {"type", "global"}
    BY DEF ParseFns, OneToken, TwoTokens, NoToken, OperandFns
  <2> QED BY <2>1, ItemFacts DEF Free, LoopFns
<1>2. PICK E : E = Easy(Call(f))
  OBVIOUS
<1>3. EasyIn(E) /\ (f \in LoopFns \/ loops_depth > 0 => LoopsIn(E))
  BY <1>1, <1>2, EasyItems
<1> SUFFICES Calls2(f, c, d) \in Seq(E)
  BY <1>1, <1>2, FreeFits
<1>4. CASE f = "decl_kind"
  <2>1. Calls2(f, c, d) = decl_kind(d)
    BY <1>4 DEF Calls2
  <2>2. /\ ToType \in E /\ Call("array_decl_without_initializer") \in E
        /\ Call("var_decl_without_initializer") \in E
    BY <1>3, Zenon DEF EasyIn, CallsIn, RequiresIn, MakesIn, OthersIn
  <2> QED BY ONLY <2>1, <2>2, SMT DEF decl_kind
<1>5. CASE f = "symbol_stmt"
  <2>1. Calls2(f, c, d) = symbol_stmt(d)
    BY <1>5 DEF Calls2
  <2>2. Call("struct_var_decl") \in E /\ Call("expr") \in E
    BY <1>3, Zenon DEF EasyIn, CallsIn, RequiresIn, MakesIn, OthersIn
  <2> QED BY ONLY <2>1, <2>2, SMT DEF symbol_stmt
<1>6. CASE f = "for_kind"
  <2>1. Calls2(f, c, d) = for_kind(d)
    BY <1>6 DEF Calls2
  <2>2. /\ ToType \in E /\ Call("expr") \in E /\ Require(";") \in E /\ Call("for_cond") \in E
        /\ Call("for_range") \in E
    BY <1>3, Zenon DEF EasyIn, CallsIn, RequiresIn, MakesIn, OthersIn
  <2> QED BY ONLY <2>1, <2>2, Tuples, Zenon DEF for_kind
<1> QED BY <1>4, <1>5, <1>6

(* Functions that look at none. *)
LEMMA FreeNone ==
  ASSUME NEW f \in {"assignment", "array_decl_without_initializer", "array_decl",
                 "decl_without_initializer", "var_decl_without_initializer", "struct_decl",
                 "struct_var_decl", "struct_array_body", "function_decl", "block",
                 "iteration_block", "loop_semicolon", "semicolon", "selection_stmt",
                 "jump_stmt", "for"}
  PROVE  Fits(Call(f), Calls0(f))
<1>1. Free(Call(f)) /\ (f \in LoopFns => Loopy(Call(f)))
  <2>1. f \in ParseFns /\ f \notin OperandFns \union {"type", "global"}
    BY DEF ParseFns, OneToken, TwoTokens, NoToken, OperandFns
  <2> QED BY <2>1, ItemFacts DEF Free, LoopFns
<1>2. PICK E : E = Easy(Call(f))
  OBVIOUS
<1>3. EasyIn(E) /\ (f \in LoopFns \/ loops_depth > 0 => LoopsIn(E))
  BY <1>1, <1>2, EasyItems
<1> SUFFICES Calls0(f) \in Seq(E)
  BY <1>1, <1>2, FreeFits
<1>4. CASE f = "assignment"
  <2>1. Calls0(f) = parse_assignment
    BY <1>4 DEF Calls0
  <2>2. Call("logical_or") \in E /\ Call("assign_op") \in E
    BY <1>3, Zenon DEF EasyIn, CallsIn, RequiresIn, MakesIn, OthersIn
  <2> QED BY ONLY <2>1, <2>2, SMT DEF parse_assignment
<1>5. CASE f = "array_decl_without_initializer"
  <2>1. Calls0(f) = parse_array_decl_without_initializer
    BY <1>5 DEF Calls0
  <2>2. Call("type") \in E /\ Call("array_name") \in E
    BY <1>3, Zenon DEF EasyIn, CallsIn, RequiresIn, MakesIn, OthersIn
  <2> QED BY ONLY <2>1, <2>2, SMT DEF parse_array_decl_without_initializer
<1>6. CASE f = "array_decl"
  <2>1. Calls0(f) = parse_array_decl
    BY <1>6 DEF Calls0
  <2>2. Call("array_decl_without_initializer") \in E /\ Call("array_body") \in E
    BY <1>3, Zenon DEF EasyIn, CallsIn, RequiresIn, MakesIn, OthersIn
  <2> QED BY ONLY <2>1, <2>2, SMT DEF parse_array_decl
<1>7. CASE f = "decl_without_initializer"
  <2>1. Calls0(f) = parse_decl_without_initializer
    BY <1>7 DEF Calls0
  <2>2. Call("type") \in E /\ Call("decl_kind") \in E
    BY <1>3, Zenon DEF EasyIn, CallsIn, RequiresIn, MakesIn, OthersIn
  <2> QED BY ONLY <2>1, <2>2, SMT DEF parse_decl_without_initializer
<1>8. CASE f = "var_decl_without_initializer"
  <2>1. Calls0(f) = parse_var_decl_without_initializer
    BY <1>8 DEF Calls0
  <2>2. Call("type") \in E /\ Require("sym") \in E /\ Make("var_decl") \in E
    BY <1>3, Zenon DEF EasyIn, CallsIn, RequiresIn, MakesIn, OthersIn
  <2> QED BY ONLY <2>1, <2>2, SMT DEF parse_var_decl_without_initializer
<1>9. CASE f = "struct_decl"
  <2>1. Calls0(f) = parse_struct_decl
    BY <1>9 DEF Calls0
  <2>2. /\ Require("struct") \in E /\ Require("sym") \in E /\ Require("{") \in E
        /\ Call("next_member") \in E
    BY <1>3, Zenon DEF EasyIn, CallsIn, RequiresIn, MakesIn, OthersIn
  <2> QED BY ONLY <2>1, <2>2, Tuples, Zenon DEF parse_struct_decl
<1>10. CASE f = "struct_var_decl"
  <2>1. Calls0(f) = parse_struct_var_decl
    BY <1>10 DEF Calls0
  <2>2. /\ Call("type") \in E /\ Require("sym") \in E /\ Make("var_decl") \in E
        /\ Call("struct_dims") \in E
    BY <1>3, Zenon DEF EasyIn, CallsIn, RequiresIn, MakesIn, OthersIn
  <2> QED BY ONLY <2>1, <2>2, SMT DEF parse_struct_var_decl
<1>11. CASE f = "struct_array_body"
  <2>1. Calls0(f) = struct_array_body
    BY <1>11 DEF Calls0
  <2>2. Require("=") \in E /\ Call("logical_or") \in E
    BY <1>3, Zenon DEF EasyIn, CallsIn, RequiresIn, MakesIn, OthersIn
  <2> QED BY ONLY <2>1, <2>2, SMT DEF struct_array_body
<1>12. CASE f = "function_decl"
  <2>1. Calls0(f) = parse_function_decl
    BY <1>12 DEF Calls0
  <2>2. /\ Call("return_type") \in E /\ Require("sym") \in E /\ Require("(") \in E
        /\ Call("function_param_list") \in E /\ Require(")") \in E /\ Call("function_body") \in E
    BY <1>3, Zenon DEF EasyIn, CallsIn, RequiresIn, MakesIn, OthersIn
  <2> QED BY ONLY <2>1, <2>2, SMT DEF parse_function_decl
<1>13. CASE f = "block"
  <2>1. Calls0(f) = parse_block
    BY <1>13 DEF Calls0
  <2>2. Require("{") \in E /\ Call("next_stmt") \in E
    BY <1>3, Zenon DEF EasyIn, CallsIn, RequiresIn, MakesIn, OthersIn
  <2>3. loops_depth > 0 => Call("iteration_block") \in E
    BY <1>3, Zenon DEF LoopsIn
  <2> QED BY ONLY <2>1, <2>2, <2>3, Tuples, Zenon DEF parse_block
<1>14. CASE f = "iteration_block"
  <2>1. Calls0(f) = parse_iteration_block
    BY <1>14 DEF Calls0
  <2>2. Require("{") \in E
    BY <1>3, Zenon DEF EasyIn, CallsIn, RequiresIn, MakesIn, OthersIn
  <2>3. LoopsIn(E)
    BY <1>3, <1>14 DEF LoopFns
  <2>4. Call("next_loop_stmt") \in E
    BY <2>3, Zenon DEF LoopsIn
  <2> QED BY ONLY <2>1, <2>2, <2>4, Tuples, Zenon DEF parse_iteration_block
<1>15. CASE f = "loop_semicolon"
  <2>1. Calls0(f) = loop_semicolon
    BY <1>15 DEF Calls0
  <2>2. Require(";") \in E
    BY <1>3, Zenon DEF EasyIn, CallsIn, RequiresIn, MakesIn, OthersIn
  <2> QED BY ONLY <2>1, <2>2, Tuples, Zenon DEF loop_semicolon
<1>16. CASE f = "semicolon"
  <2>1. Calls0(f) = semicolon
    BY <1>16 DEF Calls0
  <2>2. Require(";") \in E
    BY <1>3, Zenon DEF EasyIn, CallsIn, RequiresIn, MakesIn, OthersIn
  <2> QED BY ONLY <2>1, <2>2, Tuples, Zenon DEF semicolon
<1>17. CASE f = "selection_stmt"
  <2>1. Calls0(f) = parse_selection_stmt
    BY <1>17 DEF Calls0
  <2>2. /\ Require("if") \in E /\ Require("(") \in E /\ Call("logical_or") \in E
        /\ Require(")") \in E /\ Call("block") \in E /\ Call("else_body") \in E /\ Make("if") \in E
    BY <1>3, Zenon DEF EasyIn, CallsIn, RequiresIn, MakesIn, OthersIn
  <2> QED BY ONLY <2>1, <2>2, SMT DEF parse_selection_stmt
<1>18. CASE f = "jump_stmt"
  <2>1. Calls0(f) = parse_jump_stmt
    BY <1>18 DEF Calls0
  <2>2. Require("return") \in E /\ Call("return_value") \in E /\ Make("return") \in E
    BY <1>3, Zenon DEF EasyIn, CallsIn, RequiresIn, MakesIn, OthersIn
  <2> QED BY ONLY <2>1, <2>2, SMT DEF parse_jump_stmt
<1>19. CASE f = "for"
  <2>1. Calls0(f) = parse_for
    BY <1>19 DEF Calls0
  <2>2. Require("for") \in E /\ Require("(") \in E /\ Call("for_init") \in E
    BY <1>3, Zenon DEF EasyIn, CallsIn, RequiresIn, MakesIn, OthersIn
  <2> QED BY ONLY <2>1, <2>2, SMT DEF parse_for
<1> QED BY <1>4, <1>5, <1>6, <1>7, <1>8, <1>9, <1>10, <1>11, <1>12, <1>13, <1>14, <1>15, <1>16, <1>17, <1>18, <1>19

(* Short sequences, item by item. *)
Good(x, a) == /\ a \in Items /\ Sound(a) /\ a.op # "deepen" /\ a.op # "shallow"
              /\ Loopy(a) => Loopy(x) \/ loops_depth > 0
Follows(a, b) == Gives(a, b) /\ (a.op = "skip" => Need(b) \notin Places)

LEMMA FitsItems ==
  ASSUME NEW x, NEW s \in Seq(Items), Len(s) > 0,
         \A i \in 1 .. Len(s) : Good(x, s[i]),
         Starts(x, s[1]), Ends(x, s[Len(s)]),
         Len(s) > 1 => Gives(s[1], s[2]) /\ SkipStarts(x, s[1], s[2]),
         \A i \in 2 .. Len(s) - 1 : Follows(s[i], s[i + 1])
  PROVE  Fits(x, s)
<1>1. Len(s) \in Nat
  OBVIOUS
<1>2. \A i \in 1 .. Len(s) - 1 : i = 1 \/ i \in 2 .. Len(s) - 1
  BY <1>1
<1>3. Joined(s)
  <2> SUFFICES ASSUME NEW i \in 1 .. Len(s) - 1 PROVE Gives(s[i], s[i + 1])
    BY DEF Joined
  <2>1. CASE i = 1
    BY <1>1, <2>1
  <2>2. CASE i \in 2 .. Len(s) - 1
    BY <2>2 DEF Follows
  <2> QED BY <1>2, <2>1, <2>2
<1>4. Skips(s, 2)
  BY DEF Skips, Follows
<1>5. Balanced(s)
  BY DEF Balanced, Good
<1>6. \A i \in 1 .. Len(s) : Sound(s[i]) /\ (Loopy(s[i]) => Loopy(x) \/ loops_depth > 0)
  BY DEF Good
<1> QED BY <1>3, <1>4, <1>5, <1>6 DEF Fits

LEMMA FitsTwo ==
  ASSUME NEW x, NEW a, NEW b, Good(x, a), Good(x, b), Starts(x, a), Ends(x, b),
         Gives(a, b), SkipStarts(x, a, b)
  PROVE  Fits(x, <<a, b>>)
<1>1. PICK s : s = <<a, b>>
  OBVIOUS
<1>2. s \in Seq(Items) /\ Len(s) = 2 /\ s[1] = a /\ s[2] = b
  BY <1>1 DEF Good
<1>3. \A i \in 1 .. 2 : i = 1 \/ i = 2
  OBVIOUS
<1>4. \A i \in 1 .. Len(s) : Good(x, s[i])
  BY <1>2, <1>3
<1>5. \A i \in 2 .. Len(s) - 1 : Follows(s[i], s[i + 1])
  BY <1>2
<1>6. /\ Len(s) > 0 /\ Starts(x, s[1]) /\ Ends(x, s[Len(s)])
      /\ Gives(s[1], s[2]) /\ SkipStarts(x, s[1], s[2])
  BY <1>2
<1>7. Fits(x, s)
  BY ONLY <1>2, <1>4, <1>5, <1>6, FitsItems, Zenon
<1> QED BY <1>1, <1>7

LEMMA FitsThree ==
  ASSUME NEW x, NEW a, NEW b, NEW c, Good(x, a), Good(x, b), Good(x, c),
         Starts(x, a), Ends(x, c), Gives(a, b), SkipStarts(x, a, b), Follows(b, c)
  PROVE  Fits(x, <<a, b, c>>)
<1>1. PICK s : s = <<a, b, c>>
  OBVIOUS
<1>2. s \in Seq(Items) /\ Len(s) = 3 /\ s[1] = a /\ s[2] = b /\ s[3] = c
  BY <1>1 DEF Good
<1>3. \A i \in 1 .. 3 : i = 1 \/ i = 2 \/ i = 3
  OBVIOUS
<1>4. \A i \in 1 .. Len(s) : Good(x, s[i])
  BY <1>2, <1>3
<1>5. \A i \in 2 .. Len(s) - 1 : Follows(s[i], s[i + 1])
  BY <1>2
<1>6. /\ Len(s) > 0 /\ Starts(x, s[1]) /\ Ends(x, s[Len(s)])
      /\ Gives(s[1], s[2]) /\ SkipStarts(x, s[1], s[2])
  BY <1>2
<1>7. Fits(x, s)
  BY ONLY <1>2, <1>4, <1>5, <1>6, FitsItems, Zenon
<1> QED BY <1>1, <1>7

LEMMA FitsFive ==
  ASSUME NEW x, NEW a, NEW b, NEW c, NEW d, NEW e,
         Good(x, a), Good(x, b), Good(x, c), Good(x, d), Good(x, e),
         Starts(x, a), Ends(x, e), Gives(a, b), SkipStarts(x, a, b),
         Follows(b, c), Follows(c, d), Follows(d, e)
  PROVE  Fits(x, <<a, b, c, d, e>>)
<1>1. PICK s : s = <<a, b, c, d, e>>
  OBVIOUS
<1>2. /\ s \in Seq(Items) /\ Len(s) = 5
      /\ s[1] = a /\ s[2] = b /\ s[3] = c /\ s[4] = d /\ s[5] = e
  BY <1>1 DEF Good
<1>3. /\ \A i \in 1 .. 5 : i = 1 \/ i = 2 \/ i = 3 \/ i = 4 \/ i = 5
      /\ \A i \in 2 .. 4 : (i = 2 /\ i + 1 = 3) \/ (i = 3 /\ i + 1 = 4) \/ (i = 4 /\ i + 1 = 5)
  OBVIOUS
<1>4. \A i \in 1 .. Len(s) : Good(x, s[i])
  BY <1>2, <1>3
<1>5. \A i \in 2 .. Len(s) - 1 : Follows(s[i], s[i + 1])
  BY <1>2, <1>3
<1>6. /\ Len(s) > 0 /\ Starts(x, s[1]) /\ Ends(x, s[Len(s)])
      /\ Gives(s[1], s[2]) /\ SkipStarts(x, s[1], s[2])
  BY <1>2
<1>7. Fits(x, s)
  BY ONLY <1>2, <1>4, <1>5, <1>6, FitsItems, Zenon
<1> QED BY <1>1, <1>7

(* Easy items of which the last leaves what is asked for. *)
LEMMA EasyLast ==
  ASSUME NEW x, NEW E, E = Easy(x)
  PROVE  /\ Fits(x, <<>>)
         /\ \A a \in E : Ends(x, a) => Fits(x, <<a>>)
         /\ \A a, b \in E : Ends(x, b) => Fits(x, <<a, b>>)
         /\ \A a, b, c \in E : Ends(x, c) => Fits(x, <<a, b, c>>)
         /\ \A a, b, c, d \in E : Ends(x, d) => Fits(x, <<a, b, c, d>>)
<1>1. Fits(x, <<>>)
  <2>1. PICK s : s = <<>>
    OBVIOUS
  <2>2. s \in Seq(Easy(x)) /\ ~(Len(s) > 0)
    BY <2>1
  <2>3. Fits(x, s)
    BY ONLY <2>2, EasyFits, Zenon
  <2> QED BY <2>1, <2>3
<1>2. ASSUME NEW a \in E, Ends(x, a) PROVE Fits(x, <<a>>)
  <2>1. PICK s : s = <<a>>
    OBVIOUS
  <2>2. s \in Seq(Easy(x)) /\ s[Len(s)] = a
    BY <2>1
  <2>3. Fits(x, s)
    BY ONLY <1>2, <2>2, EasyFits, SMT
  <2> QED BY <2>1, <2>3
<1>3. ASSUME NEW a \in E, NEW b \in E, Ends(x, b) PROVE Fits(x, <<a, b>>)
  <2>1. PICK s : s = <<a, b>>
    OBVIOUS
  <2>2. s \in Seq(Easy(x)) /\ s[Len(s)] = b
    BY <2>1
  <2>3. Fits(x, s)
    BY ONLY <1>3, <2>2, EasyFits, SMT
  <2> QED BY <2>1, <2>3
<1>4. ASSUME NEW a \in E, NEW b \in E, NEW c \in E, Ends(x, c) PROVE Fits(x, <<a, b, c>>)
  <2>1. PICK s : s = <<a, b, c>>
    OBVIOUS
  <2>2. s \in Seq(Easy(x)) /\ s[Len(s)] = c
    BY <2>1
  <2>3. Fits(x, s)
    BY ONLY <1>4, <2>2, EasyFits, SMT
  <2> QED BY <2>1, <2>3
<1>5. ASSUME NEW a \in E, NEW b \in E, NEW c \in E, NEW d \in E, Ends(x, d)
      PROVE  Fits(x, <<a, b, c, d>>)
  <2>1. PICK s : s = <<a, b, c, d>>
    OBVIOUS
  <2>2. s \in Seq(Easy(x)) /\ s[Len(s)] = d
    BY <2>1
  <2>3. Fits(x, s)
    BY ONLY <1>5, <2>2, EasyFits, SMT
  <2> QED BY <2>1, <2>3
<1> QED BY <1>1, <1>2, <1>3, <1>4, <1>5, Zenon

(* What leaves an operand, and how an error ends an expansion. *)
LEMMA Promises ==
  ASSUME NEW f \in OperandFns
  PROVE  /\ \A t \in Made : Ends(Call(f), Make(t))
         /\ \A g \in OperandFns : Ends(Call(f), Call(g))
         /\ Ends(Call(f), Fail[1]) /\ Fail[1] \in Easy(Call(f))
         /\ <<Skip>> \o Fail = <<Skip, Fail[1]>>
<1>1. \A g \in OperandFns : g \in ParseFns /\ g \notin {"type", "global"}
  BY DEF OperandFns, ParseFns, OneToken, TwoTokens, NoToken
<1>2. \A z : Operand(z) \/ z.op = "error" => Ends(Call(f), z)
  BY <1>1, ItemFacts DEF Ends
<1>3. \A t \in Made : Operand(Make(t))
  BY ItemFacts DEF Operand
<1>4. \A g \in OperandFns : Operand(Call(g))
  BY <1>1, ItemFacts DEF Operand
<1>5. Fail[1].op = "error" /\ Fail = <<Fail[1]>> /\ Fail[1] \in Easy(Call(f))
  BY ItemFacts DEF Easy
<1>6. <<Skip>> \o Fail = <<Skip, Fail[1]>>
  <2>1. PICK e : e = Fail[1] /\ Fail = <<e>>
    BY <1>5
  <2>2. PICK k : k = Skip
    OBVIOUS
  <2>3. <<k>> \o <<e>> = <<k, e>>
    <3>1. PICK s, t, d : s = <<k>> /\ t = <<e>> /\ d = s \o t
      OBVIOUS
    <3>2. s \in Seq({k, e}) /\ t \in Seq({k, e}) /\ Len(s) = 1 /\ Len(t) = 1 /\ s[1] = k /\ t[1] = e
      BY <3>1
    <3>3. /\ d \in Seq({k, e}) /\ Len(d) = 2
          /\ \A i \in 1 .. 2 : d[i] = IF i <= 1 THEN s[i] ELSE t[i - 1]
      BY ONLY <3>1, <3>2, Joint, SMT
    <3>4. d[1] = k /\ d[2] = e
      BY <3>2, <3>3
    <3>5. <<k, e>> \in Seq({k, e}) /\ Len(<<k, e>>) = 2 /\ <<k, e>>[1] = k /\ <<k, e>>[2] = e
      OBVIOUS
    <3>6. \A i \in 1 .. 2 : i = 1 \/ i = 2
      OBVIOUS
    <3>7. d = <<k, e>>
      BY <3>3, <3>4, <3>5, <3>6, SeqEqual
    <3> QED BY <3>1, <3>7
  <2> QED BY <2>1, <2>2, <2>3
<1> QED BY <1>2, <1>3, <1>4, <1>5, <1>6

(* Functions that look at one token and return an operand. *)
LEMMA OperandOne ==
  ASSUME NEW f \in {"prefix_unary", "postfix_op", "paren_member", "next_field", "next_index",
                   "next_arg", "constant"},
         NEW c
  PROVE  Fits(Call(f), Calls1(f, c))
<1>1. PICK x : x = Call(f)
  OBVIOUS
<1>2. PICK E : E = Easy(x)
  OBVIOUS
<1>3. EasyIn(E)
  BY <1>2, EasyItems
<1>4. f \in OperandFns
  BY DEF OperandFns
<1>5. /\ \A t \in Made : Ends(x, Make(t))
      /\ \A g \in OperandFns : Ends(x, Call(g))
      /\ Ends(x, Fail[1]) /\ Fail[1] \in E
      /\ <<Skip>> \o Fail = <<Skip, Fail[1]>>
  BY <1>1, <1>2, <1>4, Promises
<1>6. /\ Fits(x, <<>>)
      /\ \A a \in E : Ends(x, a) => Fits(x, <<a>>)
      /\ \A a, b \in E : Ends(x, b) => Fits(x, <<a, b>>)
      /\ \A a, b, p \in E : Ends(x, p) => Fits(x, <<a, b, p>>)
      /\ \A a, b, p, q \in E : Ends(x, q) => Fits(x, <<a, b, p, q>>)
  BY <1>2, EasyLast, Zenon
<1> SUFFICES Fits(x, Calls1(f, c))
  BY <1>1
<1>7. CASE f = "prefix_unary"
  <2>1. Calls1(f, c) = parse_prefix_unary(c)
    BY <1>7 DEF Calls1
  <2>2. /\ Skip \in E /\ Call("prefix_unary") \in E /\ Make("prefix_unary") \in E
        /\ Call("postfix_unary") \in E
    BY <1>3, Zenon DEF EasyIn, CallsIn, RequiresIn, MakesIn, OthersIn
  <2>3. Ends(x, Make("prefix_unary")) /\ Ends(x, Call("postfix_unary"))
    BY <1>5 DEF Made, OperandFns
  <2> QED BY ONLY <1>5, <1>6, <2>1, <2>2, <2>3, Zenon DEF parse_prefix_unary
<1>8. CASE f = "postfix_op"
  <2>1. Calls1(f, c) = postfix_op(c)
    BY <1>8 DEF Calls1
  <2>2. Skip \in E /\ Make("postfix_unary") \in E
    BY <1>3, Zenon DEF EasyIn, CallsIn, RequiresIn, MakesIn, OthersIn
  <2>3. Ends(x, Make("postfix_unary"))
    BY <1>5 DEF Made
  <2> QED BY ONLY <1>5, <1>6, <2>1, <2>2, <2>3, Zenon DEF postfix_op
<1>9. CASE f = "paren_member"
  <2>1. Calls1(f, c) = paren_member(c)
    BY <1>9 DEF Calls1
  <2>2. Skip \in E /\ Call("struct_field_access") \in E /\ Make("member") \in E
    BY <1>3, Zenon DEF EasyIn, CallsIn, RequiresIn, MakesIn, OthersIn
  <2>3. Ends(x, Make("member"))
    BY <1>5 DEF Made
  <2> QED BY ONLY <1>5, <1>6, <2>1, <2>2, <2>3, Zenon DEF paren_member
<1>10. CASE f = "next_field"
  <2>1. Calls1(f, c) = next_field(c)
    BY <1>10 DEF Calls1
  <2>2. /\ Skip \in E /\ Call("struct_field_access") \in E /\ Make("member") \in E
        /\ Make("symbol") \in E
    BY <1>3, Zenon DEF EasyIn, CallsIn, RequiresIn, MakesIn, OthersIn
  <2>3. Ends(x, Make("member")) /\ Ends(x, Make("symbol"))
    BY <1>5 DEF Made
  <2> QED BY ONLY <1>5, <1>6, <2>1, <2>2, <2>3, Zenon DEF next_field
<1>11. CASE f = "next_index"
  <2>1. Calls1(f, c) = next_index(c)
    BY <1>11 DEF Calls1
  <2>2. /\ Require("[") \in E /\ Call("expr") \in E /\ Require("]") \in E
        /\ Call("next_index") \in E /\ Make("array_access") \in E
    BY <1>3, Zenon DEF EasyIn, CallsIn, RequiresIn, MakesIn, OthersIn
  <2>3. Ends(x, Call("next_index")) /\ Ends(x, Make("array_access"))
    BY <1>5 DEF Made, OperandFns
  <2> QED BY ONLY <1>5, <1>6, <2>1, <2>2, <2>3, Zenon DEF next_index
<1>12. CASE f = "next_arg"
  <2>1. Calls1(f, c) = next_arg(c)
    BY <1>12 DEF Calls1
  <2>2. /\ Require(")") \in E /\ Make("function_call") \in E /\ Call("logical_or") \in E
        /\ Call("comma") \in E /\ Call("next_arg") \in E
    BY <1>3, Zenon DEF EasyIn, CallsIn, RequiresIn, MakesIn, OthersIn
  <2>3. Ends(x, Make("function_call")) /\ Ends(x, Call("next_arg"))
    BY <1>5 DEF Made, OperandFns
  <2> QED BY ONLY <1>5, <1>6, <2>1, <2>2, <2>3, Zenon DEF next_arg
<1>13. CASE f = "constant"
  <2>1. Calls1(f, c) = parse_constant(c)
    BY <1>13 DEF Calls1
  <2>2. Skip \in E /\ Make("int") \in E /\ Make("constant") \in E
    BY <1>3, Zenon DEF EasyIn, CallsIn, RequiresIn, MakesIn, OthersIn
  <2>3. Ends(x, Make("int")) /\ Ends(x, Make("constant"))
    BY <1>5 DEF Made
  <2> QED BY ONLY <1>5, <1>6, <2>1, <2>2, <2>3, Zenon DEF parse_constant
<1> QED BY <1>7, <1>8, <1>9, <1>10, <1>11, <1>12, <1>13

(* A function that looks at two tokens and returns an operand. *)
LEMMA OperandTwo ==
  ASSUME NEW f \in {"array_access"}, NEW c, NEW d
  PROVE  Fits(Call(f), Calls2(f, c, d))
<1>1. PICK x : x = Call(f)
  OBVIOUS
<1>2. PICK E : E = Easy(x)
  OBVIOUS
<1>3. EasyIn(E)
  BY <1>2, EasyItems
<1>4. f \in OperandFns
  BY DEF OperandFns
<1>5. /\ \A t \in Made : Ends(x, Make(t))
      /\ \A g \in OperandFns : Ends(x, Call(g))
      /\ Ends(x, Fail[1]) /\ Fail[1] \in E
      /\ <<Skip>> \o Fail = <<Skip, Fail[1]>>
  BY <1>1, <1>2, <1>4, Promises
<1>6. /\ Fits(x, <<>>)
      /\ \A a \in E : Ends(x, a) => Fits(x, <<a>>)
      /\ \A a, b \in E : Ends(x, b) => Fits(x, <<a, b>>)
      /\ \A a, b, p \in E : Ends(x, p) => Fits(x, <<a, b, p>>)
      /\ \A a, b, p, q \in E : Ends(x, q) => Fits(x, <<a, b, p, q>>)
  BY <1>2, EasyLast, Zenon
<1> SUFFICES Fits(x, Calls2(f, c, d))
  BY <1>1
<1>7. CASE f = "array_access"
  <2>1. Calls2(f, c, d) = parse_array_access(d)
    BY <1>7 DEF Calls2
  <2>2. Skip \in E /\ Call("next_index") \in E
    BY <1>3, Zenon DEF EasyIn, CallsIn, RequiresIn, MakesIn, OthersIn
  <2>3. Ends(x, Call("next_index"))
    BY <1>5 DEF OperandFns
  <2> QED BY ONLY <1>5, <1>6, <2>1, <2>2, <2>3, Zenon DEF parse_array_access
<1> QED BY <1>7

(* Functions that look at none and return an operand. *)
LEMMA OperandNone ==
  ASSUME NEW f \in {"struct_field_access", "function_call"}
  PROVE  Fits(Call(f), Calls0(f))
<1>1. PICK x : x = Call(f)
  OBVIOUS
<1>2. PICK E : E = Easy(x)
  OBVIOUS
<1>3. EasyIn(E)
  BY <1>2, EasyItems
<1>4. f \in OperandFns
  BY DEF OperandFns
<1>5. /\ \A t \in Made : Ends(x, Make(t))
      /\ \A g \in OperandFns : Ends(x, Call(g))
      /\ Ends(x, Fail[1]) /\ Fail[1] \in E
      /\ <<Skip>> \o Fail = <<Skip, Fail[1]>>
  BY <1>1, <1>2, <1>4, Promises
<1>6. /\ Fits(x, <<>>)
      /\ \A a \in E : Ends(x, a) => Fits(x, <<a>>)
      /\ \A a, b \in E : Ends(x, b) => Fits(x, <<a, b>>)
      /\ \A a, b, p \in E : Ends(x, p) => Fits(x, <<a, b, p>>)
      /\ \A a, b, p, q \in E : Ends(x, q) => Fits(x, <<a, b, p, q>>)
  BY <1>2, EasyLast, Zenon
<1> SUFFICES Fits(x, Calls0(f))
  BY <1>1
<1>7. CASE f = "struct_field_access"
  <2>1. Calls0(f) = parse_struct_field_access
    BY <1>7 DEF Calls0
  <2>2. Require("sym") \in E /\ Call("next_field") \in E
    BY <1>3, Zenon DEF EasyIn, CallsIn, RequiresIn, MakesIn, OthersIn
  <2>3. Ends(x, Call("next_field"))
    BY <1>5 DEF OperandFns
  <2> QED BY ONLY <1>5, <1>6, <2>1, <2>2, <2>3, Zenon DEF parse_struct_field_access
<1>8. CASE f = "function_call"
  <2>1. Calls0(f) = parse_function_call
    BY <1>8 DEF Calls0
  <2>2. Skip \in E /\ Require("(") \in E /\ Call("next_arg") \in E
    BY <1>3, Zenon DEF EasyIn, CallsIn, RequiresIn, MakesIn, OthersIn
  <2>3. Ends(x, Call("next_arg"))
    BY <1>5 DEF OperandFns
  <2> QED BY ONLY <1>5, <1>6, <2>1, <2>2, <2>3, Zenon DEF parse_function_call
<1> QED BY <1>7, <1>8

(* The items that need something, and those they follow. *)
LEMMA GoodItems ==
  ASSUME NEW x
  PROVE  /\ \A f \in ParseFns \ LoopFns : Good(x, Call(f))
         /\ \A t \in Required : Good(x, Require(t))
         /\ \A t \in Made \ {"break", "continue"} : Good(x, Make(t))
         /\ \A a \in {Skip, Back, Paren, Stars, ToType, Recount, NeedInt, Fail[1]} : Good(x, a)
<1>1. \A f \in ParseFns \ LoopFns : Good(x, Call(f))
  BY ItemFacts DEF Good, LoopFns
<1>2. \A t \in Required : Good(x, Require(t))
  BY ItemFacts DEF Good
<1>3. \A t \in Made \ {"break", "continue"} : Good(x, Make(t))
  BY ItemFacts DEF Good
<1>4. \A a \in {Skip, Back, Paren, Stars, ToType, Recount, NeedInt, Fail[1]} : Good(x, a)
  BY ItemFacts DEF Good
<1> QED BY <1>1, <1>2, <1>3, <1>4

LEMMA CallIs ==
  ASSUME NEW x, NEW f \in ParseFns, f \notin LoopFns
  PROVE  /\ Call(f).op = "call" /\ Call(f).arg = f /\ Need(Call(f)) = CallNeed(f)
         /\ Good(x, Call(f)) /\ (Operand(Call(f)) <=> f \in OperandFns)
<1>1. Call(f).op = "call" /\ Call(f).arg = f /\ Need(Call(f)) = CallNeed(f)
  BY ItemFacts
<1>2. Good(x, Call(f))
  BY GoodItems
<1> QED BY <1>1, <1>2 DEF Operand

LEMMA FitsOne ==
  ASSUME NEW x, NEW a, Good(x, a), Starts(x, a), Ends(x, a)
  PROVE  Fits(x, <<a>>)
<1>1. PICK s : s = <<a>>
  OBVIOUS
<1>2. s \in Seq(Items) /\ Len(s) = 1 /\ s[1] = a
  BY <1>1 DEF Good
<1>3. \A i \in 1 .. Len(s) : Good(x, s[i])
  BY <1>2
<1>4. \A i \in 2 .. Len(s) - 1 : Follows(s[i], s[i + 1])
  BY <1>2
<1>5. /\ Len(s) > 0 /\ ~(Len(s) > 1) /\ Starts(x, s[1]) /\ Ends(x, s[Len(s)])
  BY <1>2
<1>6. Fits(x, s)
  BY ONLY <1>2, <1>3, <1>4, <1>5, FitsItems, Zenon
<1> QED BY <1>1, <1>6

(* parse_postfix_unary, parse_logical_or. *)
LEMMA UnaryFits == Fits(Call("postfix_unary"), Calls0("postfix_unary"))
<1>1. PICK x, a, b : x = Call("postfix_unary") /\ a = Call("primary") /\ b = Call("postfix_op")
  OBVIOUS
<1>2. /\ "postfix_unary" \in ParseFns /\ "primary" \in ParseFns /\ "postfix_op" \in ParseFns
      /\ "primary" \notin LoopFns /\ "postfix_op" \notin LoopFns
      /\ "postfix_unary" \in OperandFns /\ "primary" \in OperandFns /\ "postfix_op" \in OperandFns
      /\ CallNeed("primary") = "none" /\ CallNeed("postfix_op") = "operand"
  BY DEF ParseFns, OneToken, NoToken, LoopFns, OperandFns, CallNeed
<1>3. /\ a.op = "call" /\ a.arg = "primary" /\ Need(a) = "none" /\ Need(b) = "operand"
      /\ Good(x, a) /\ Good(x, b) /\ Ends(x, b)
  <2>1. a.op = "call" /\ a.arg = "primary" /\ Need(a) = "none" /\ Good(x, a)
    BY <1>1, <1>2, CallIs
  <2>2. Need(b) = "operand" /\ Good(x, b)
    BY <1>1, <1>2, CallIs
  <2>3. Ends(x, b)
    BY <1>1, <1>2, Promises
  <2> QED BY <2>1, <2>2, <2>3
<1>4. Starts(x, a) /\ SkipStarts(x, a, b) /\ Gives(a, b)
  BY <1>2, <1>3 DEF Starts, SkipStarts, Gives, Operand
<1>5. Fits(x, <<a, b>>)
  BY <1>3, <1>4, FitsTwo
<1> QED BY <1>1, <1>5 DEF Calls0, parse_postfix_unary

LEMMA ClimbIs ==
  ASSUME NEW lo \in Levels, NEW hi \in Levels
  PROVE  /\ Climb(lo, hi) \in Items /\ Climb(lo, hi).op = "climb"
         /\ Climb(lo, hi).lo = lo /\ Climb(lo, hi).hi = hi
         /\ Need(Climb(lo, hi)) = "climb" /\ (lo \in 1 .. hi => Sound(Climb(lo, hi)))
<1>1. "climb" \in Ops /\ "none" \in Args
  BY DEF Ops, Args
<1>2. /\ Climb(lo, hi) \in Items /\ Climb(lo, hi).op = "climb"
      /\ Climb(lo, hi).lo = lo /\ Climb(lo, hi).hi = hi
  BY <1>1, ItemIs DEF Climb
<1> QED BY <1>2 DEF Need, Sound

LEMMA LogicalFits == Fits(Call("logical_or"), Calls0("logical_or"))
<1>1. PICK x, a, b : x = Call("logical_or") /\ a = Call("prefix_unary") /\ b = Climb(1, 10)
  OBVIOUS
<1>2. /\ "logical_or" \in ParseFns /\ "prefix_unary" \in ParseFns /\ "prefix_unary" \notin LoopFns
      /\ "prefix_unary" \in OperandFns /\ CallNeed("prefix_unary") = "none"
      /\ "logical_or" \notin OperandFns
  BY DEF ParseFns, OneToken, NoToken, LoopFns, OperandFns, CallNeed
<1>3. /\ a.op = "call" /\ a.arg = "prefix_unary" /\ Need(a) = "none" /\ Good(x, a)
      /\ x.op = "call" /\ x.arg = "logical_or"
  <2>1. a.op = "call" /\ a.arg = "prefix_unary" /\ Need(a) = "none" /\ Good(x, a)
    BY <1>1, <1>2, CallIs
  <2>2. x.op = "call" /\ x.arg = "logical_or"
    BY <1>1, <1>2, ItemFacts
  <2> QED BY <2>1, <2>2
<1>4. b \in Items /\ b.op = "climb" /\ b.hi = 10 /\ Need(b) = "climb" /\ Sound(b)
  <2>1. 1 \in Levels /\ 10 \in Levels /\ 1 \in 1 .. 10
    BY DEF Levels
  <2> QED BY <1>1, <2>1, ClimbIs
<1>5. Good(x, b) /\ Ends(x, b)
  BY <1>2, <1>3, <1>4 DEF Good, Ends, Loopy
<1>6. Starts(x, a) /\ SkipStarts(x, a, b) /\ Gives(a, b)
  BY <1>2, <1>3, <1>4 DEF Starts, SkipStarts, Gives, Operand
<1>7. Fits(x, <<a, b>>)
  BY <1>3, <1>5, <1>6, FitsTwo
<1> QED BY <1>1, <1>7 DEF Calls0, parse_logical_or

(* The loops over operators. *)
LEMMA ClimbFits ==
  ASSUME NEW x, Sound(x), x.op = "climb", NEW c
  PROVE  Fits(x, climb(x.lo, x.hi, c))
<1>1. x \in Items /\ x.lo \in 1 .. x.hi /\ x.hi \in Levels /\ x.lo \in Levels
  BY DEF Sound, Items
<1>2. CASE Level(c) \notin x.lo .. x.hi
  <2>1. PICK E : E = Easy(x)
    OBVIOUS
  <2>2. Fits(x, <<>>)
    BY <2>1, EasyLast, Zenon
  <2> QED BY <1>2, <2>2 DEF climb
<1>3. CASE Level(c) \in x.lo .. x.hi
  <2>1. PICK L : L = Level(c) /\ L \in x.lo .. x.hi
    BY <1>3
  <2>2. /\ L \in Levels /\ 10 \in Levels /\ L \in 1 .. 10 /\ x.lo \in 1 .. L /\ L > 0
    BY <1>1, <2>1 DEF Levels
  <2>3. PICK p, q, r : p = Climb(L, 10) /\ q = Binary(L) /\ r = Climb(x.lo, L)
    OBVIOUS
  <2>4. PICK u : u = Call("prefix_unary")
    OBVIOUS
  <2>5. u.op = "call" /\ u.arg \in OperandFns /\ Need(u) = "none" /\ Good(x, u)
    <3>1. /\ "prefix_unary" \in ParseFns /\ "prefix_unary" \notin LoopFns
          /\ "prefix_unary" \in OperandFns /\ CallNeed("prefix_unary") = "none"
      BY DEF ParseFns, OneToken, LoopFns, OperandFns, CallNeed
    <3> QED BY <2>4, <3>1, CallIs
  <2>6. p \in Items /\ p.op = "climb" /\ p.lo = L /\ p.hi = 10 /\ Need(p) = "climb" /\ Sound(p)
    BY <2>2, <2>3, ClimbIs
  <2>7. r \in Items /\ r.op = "climb" /\ r.lo = x.lo /\ r.hi = L /\ Need(r) = "climb" /\ Sound(r)
    BY <1>1, <2>2, <2>3, ClimbIs
  <2>8. q \in Items /\ q.op = "binary" /\ q.lo = L /\ Need(q) = "low" /\ Sound(q)
    <3>1. "binary" \in Ops /\ "none" \in Args /\ 0 \in Levels
      BY DEF Ops, Args, Levels
    <3>2. q \in Items /\ q.op = "binary" /\ q.lo = L
      BY <2>2, <2>3, <3>1, ItemIs DEF Binary
    <3> QED BY <2>2, <3>2 DEF Need, Sound
  <2>9. Good(x, p) /\ Good(x, q) /\ Good(x, r)
    BY <2>6, <2>7, <2>8 DEF Good, Loopy
  <2>10. PICK k : k = Skip
    OBVIOUS
  <2>11. k.op = "skip" /\ Need(k) = "none" /\ Good(x, k)
    BY <2>10, ItemFacts, GoodItems
  <2>12. Starts(x, k) /\ SkipStarts(x, k, u) /\ Gives(k, u)
    BY <2>5, <2>11 DEF Starts, SkipStarts, Gives
  <2>13. Ends(x, r)
    BY <2>7 DEF Ends
  <2>14. Follows(u, p) /\ Follows(p, q) /\ Follows(q, r)
    BY <2>5, <2>6, <2>7, <2>8 DEF Follows, Gives, Operand
  <2>15. Fits(x, <<k, u, p, q, r>>)
    BY ONLY <2>5, <2>9, <2>11, <2>12, <2>13, <2>14, FitsFive, Zenon
  <2> QED BY <1>3, <2>1, <2>3, <2>4, <2>10, <2>15 DEF climb
<1> QED BY <1>2, <1>3

(* parse_symbol: the call goes back to the name. *)
LEMMA SymbolFits ==
  ASSUME NEW c
  PROVE  Fits(Call("symbol"), Calls1("symbol", c))
<1>1. PICK x, b, m : x = Call("symbol") /\ b = Back /\ m = Make("symbol")
  OBVIOUS
<1>2. /\ "symbol" \in ParseFns /\ "symbol" \notin LoopFns /\ "symbol" \in OperandFns
      /\ CallNeed("symbol") = "moved" /\ "symbol" \in Made \ {"break", "continue"}
  BY DEF ParseFns, OneToken, LoopFns, OperandFns, CallNeed, Made
<1>3. Need(x) = "moved"
  BY <1>1, <1>2, ItemFacts
<1>4. b.op = "back" /\ Need(b) = "moved" /\ Good(x, b)
  BY <1>1, ItemFacts, GoodItems
<1>5. ASSUME NEW g \in {"function_call", "array_access", "struct_field_access"}
      PROVE  Fits(x, <<b, Call(g)>>)
  <2>1. PICK a : a = Call(g)
    OBVIOUS
  <2>2. g \in ParseFns /\ g \notin LoopFns /\ g \in OperandFns /\ CallNeed(g) = "none"
    BY DEF ParseFns, TwoTokens, NoToken, LoopFns, OperandFns, CallNeed
  <2>3. a.op = "call" /\ Need(a) = "none" /\ Good(x, a)
    BY <2>1, <2>2, CallIs
  <2>4. Ends(x, a)
    BY <1>1, <1>2, <2>1, <2>2, Promises
  <2>5. Starts(x, b) /\ SkipStarts(x, b, a) /\ Gives(b, a)
    BY <1>3, <1>4, <2>3 DEF Starts, SkipStarts, Gives
  <2>6. Fits(x, <<b, a>>)
    BY <1>4, <2>3, <2>4, <2>5, FitsTwo
  <2> QED BY <2>1, <2>6
<1>6. Fits(x, <<m>>)
  <2>1. Good(x, m) /\ Need(m) = "none"
    BY <1>1, <1>2, ItemFacts, GoodItems
  <2>2. Ends(x, m)
    BY <1>1, <1>2, Promises
  <2>3. Starts(x, m)
    BY <2>1 DEF Starts
  <2> QED BY <2>1, <2>2, <2>3, FitsOne
<1>7. Calls1("symbol", c) = parse_symbol(c)
  BY DEF Calls1
<1> QED BY ONLY <1>1, <1>5, <1>6, <1>7, Zenon DEF parse_symbol

(* parse_primary: a name, a parenthesis, or a constant. *)
LEMMA PrimaryFits ==
  ASSUME NEW c
  PROVE  Fits(Call("primary"), Calls1("primary", c))
<1>1. PICK x, k : x = Call("primary") /\ k = Skip
  OBVIOUS
<1>2. /\ "primary" \in OperandFns /\ "symbol" \in OperandFns /\ "paren_member" \in OperandFns
      /\ "constant" \in OperandFns
      /\ {"symbol", "logical_or", "paren_member", "constant"} \subseteq ParseFns \ LoopFns
      /\ CallNeed("symbol") = "moved" /\ CallNeed("logical_or") = "none"
      /\ CallNeed("paren_member") = "operand" /\ CallNeed("constant") = "none"
  BY DEF ParseFns, OneToken, NoToken, LoopFns, OperandFns, CallNeed
<1>3. k.op = "skip" /\ Need(k) = "none" /\ Good(x, k) /\ Starts(x, k)
  <2>1. k.op = "skip" /\ Need(k) = "none" /\ Good(x, k)
    BY <1>1, ItemFacts, GoodItems
  <2> QED BY <2>1 DEF Starts
<1>4. Fits(x, <<k, Call("symbol")>>)
  <2>1. PICK a : a = Call("symbol")
    OBVIOUS
  <2>2. a.op = "call" /\ Need(a) = "moved" /\ Good(x, a)
    BY <1>2, <2>1, CallIs
  <2>3. Ends(x, a)
    BY <1>1, <1>2, <2>1, Promises
  <2>4. SkipStarts(x, k, a) /\ Gives(k, a)
    BY <1>3, <2>2 DEF SkipStarts, Gives
  <2>5. Fits(x, <<k, a>>)
    BY <1>3, <2>2, <2>3, <2>4, FitsTwo
  <2> QED BY <2>1, <2>5
<1>5. Fits(x, <<Call("constant")>>)
  <2>1. PICK a : a = Call("constant")
    OBVIOUS
  <2>2. Need(a) = "none" /\ Good(x, a)
    BY <1>2, <2>1, CallIs
  <2>3. Ends(x, a)
    BY <1>1, <1>2, <2>1, Promises
  <2>4. Starts(x, a)
    BY <2>2 DEF Starts
  <2>5. Fits(x, <<a>>)
    BY <2>2, <2>3, <2>4, FitsOne
  <2> QED BY <2>1, <2>5
<1>6. Fits(x, <<k, Call("logical_or"), Require(")"), Paren, Call("paren_member")>>)
  <2>1. PICK a, p, q, r : /\ a = Call("logical_or") /\ p = Require(")")
                          /\ q = Paren /\ r = Call("paren_member")
    OBVIOUS
  <2>2. a.op = "call" /\ Need(a) = "none" /\ Good(x, a)
    BY <1>2, <2>1, CallIs
  <2>3. p.op = "require" /\ Need(p) = "none" /\ Good(x, p)
    <3>1. ")" \in Required
      BY Zenon DEF Required
    <3> QED BY <2>1, <3>1, ItemFacts, GoodItems
  <2>4. q.op = "paren" /\ Need(q) = "none" /\ Good(x, q)
    BY <2>1, ItemFacts, GoodItems
  <2>5. Need(r) = "operand" /\ Good(x, r)
    BY <1>2, <2>1, CallIs
  <2>6. Ends(x, r)
    BY <1>1, <1>2, <2>1, Promises
  <2>7. SkipStarts(x, k, a) /\ Gives(k, a) /\ Follows(a, p) /\ Follows(p, q) /\ Follows(q, r)
    BY <1>3, <2>2, <2>3, <2>4, <2>5 DEF SkipStarts, Gives, Follows, Operand
  <2>8. Fits(x, <<k, a, p, q, r>>)
    BY ONLY <1>3, <2>2, <2>3, <2>4, <2>5, <2>6, <2>7, FitsFive, Zenon
  <2> QED BY <2>1, <2>8
<1>7. Calls1("primary", c) = parse_primary(c)
  BY DEF Calls1
<1> QED BY ONLY <1>1, <1>4, <1>5, <1>6, <1>7, Zenon DEF parse_primary

(* An error after a token. *)
LEMMA FailFits ==
  ASSUME NEW x, Ends(x, Fail[1])
  PROVE  Fits(x, <<Skip>> \o Fail) /\ Fits(x, Fail)
<1>1. PICK E : E = Easy(x)
  OBVIOUS
<1>2. Skip \in E /\ Fail[1] \in E /\ Fail = <<Fail[1]>>
  BY <1>1, ItemFacts DEF Easy
<1>3. <<Skip>> \o Fail = <<Skip, Fail[1]>>
  <2>1. "primary" \in OperandFns
    BY DEF OperandFns
  <2> QED BY <2>1, Promises
<1>4. Fits(x, <<Fail[1]>>) /\ Fits(x, <<Skip, Fail[1]>>)
  BY ONLY <1>1, <1>2, Ends(x, Fail[1]), EasyLast, Zenon
<1> QED BY <1>2, <1>3, <1>4

(* parse_type, and the declarations that read a type first. *)
LEMMA TypeFits ==
  ASSUME NEW c
  PROVE  Fits(Call("type"), Calls1("type", c))
<1>1. PICK x, k, t : x = Call("type") /\ k = Skip /\ t = Stars
  OBVIOUS
<1>2. "type" \in ParseFns /\ "type" \notin OperandFns
  BY DEF ParseFns, OneToken, OperandFns
<1>3. x.op = "call" /\ x.arg = "type"
  BY <1>1, <1>2, ItemFacts
<1>4. k.op = "skip" /\ Need(k) = "none" /\ Good(x, k)
  BY <1>1, ItemFacts, GoodItems
<1>5. t.op = "stars" /\ Need(t) = "type" /\ Good(x, t)
  BY <1>1, ItemFacts, GoodItems
<1>6. /\ Starts(x, k) /\ SkipStarts(x, k, t) /\ Gives(k, t) /\ Ends(x, t)
  BY <1>2, <1>3, <1>4, <1>5 DEF Starts, SkipStarts, Gives, Ends
<1>7. Fits(x, <<k, t>>)
  BY <1>4, <1>5, <1>6, FitsTwo
<1>8. Fits(x, <<Skip>> \o Fail)
  <2>1. Ends(x, Fail[1])
    BY <1>2, <1>3, ItemFacts DEF Ends
  <2> QED BY <2>1, FailFits
<1>9. Calls1("type", c) = parse_type(c)
  BY DEF Calls1
<1> QED BY ONLY <1>1, <1>7, <1>8, <1>9, Zenon DEF parse_type

LEMMA VarFits ==
  /\ Fits(Call("var_decl"), Calls0("var_decl"))
  /\ \A c : Fits(Call("var_name"), Calls1("var_name", c))
  /\ \A c : Fits(Call("var_rest"), Calls1("var_rest", c))
<1>1. PICK k : k = Skip
  OBVIOUS
<1>2. /\ {"type", "var_name", "var_rest", "var_decl", "function_decl", "array_decl"}
           \subseteq ParseFns \ LoopFns
      /\ CallNeed("type") = "none" /\ CallNeed("var_name") = "type" /\ CallNeed("var_rest") = "name"
      /\ CallNeed("function_decl") = "none" /\ CallNeed("array_decl") = "none"
  BY DEF ParseFns, OneToken, NoToken, LoopFns, CallNeed
<1>3. \A f \in {"var_decl", "var_name", "var_rest"} : \A z : Ends(Call(f), z)
  <2>1. \A f \in {"var_decl", "var_name", "var_rest"} :
          f \in ParseFns /\ f \notin OperandFns \union {"type", "global"}
    BY <1>2 DEF OperandFns
  <2> QED BY <2>1, ItemFacts DEF Ends
<1>4. \A x : k.op = "skip" /\ Need(k) = "none" /\ Good(x, k) /\ Starts(x, k)
  <2> SUFFICES ASSUME NEW x PROVE k.op = "skip" /\ Need(k) = "none" /\ Good(x, k) /\ Starts(x, k)
    OBVIOUS
  <2>1. k.op = "skip" /\ Need(k) = "none" /\ Good(x, k)
    BY <1>1, ItemFacts, GoodItems
  <2> QED BY <2>1 DEF Starts
<1>5. Fits(Call("var_decl"), Calls0("var_decl"))
  <2>1. PICK x, a, b : x = Call("var_decl") /\ a = Call("type") /\ b = Call("var_name")
    OBVIOUS
  <2>2. a.op = "call" /\ a.arg = "type" /\ Need(a) = "none" /\ Good(x, a)
    BY <1>2, <2>1, CallIs
  <2>3. Need(b) = "type" /\ Good(x, b)
    BY <1>2, <2>1, CallIs
  <2>4. Starts(x, a) /\ SkipStarts(x, a, b) /\ Gives(a, b) /\ Ends(x, b)
    BY <1>3, <2>1, <2>2, <2>3 DEF Starts, SkipStarts, Gives
  <2>5. Fits(x, <<a, b>>)
    BY <2>2, <2>3, <2>4, FitsTwo
  <2> QED BY <2>1, <2>5 DEF Calls0, parse_var_decl
<1>6. ASSUME NEW c PROVE Fits(Call("var_name"), Calls1("var_name", c))
  <2>1. PICK x, b : x = Call("var_name") /\ b = Call("var_rest")
    OBVIOUS
  <2>2. x.op = "call" /\ x.arg = "var_name"
    BY <1>2, <2>1, CallIs
  <2>3. Need(b) = "name" /\ Good(x, b)
    BY <1>2, <2>1, CallIs
  <2>4. SkipStarts(x, k, b) /\ Gives(k, b) /\ Ends(x, b) /\ Ends(x, Fail[1])
    BY <1>3, <1>4, <2>1, <2>2, <2>3 DEF SkipStarts, Gives
  <2>5. Fits(x, <<k, b>>)
    BY <1>4, <2>3, <2>4, FitsTwo
  <2>6. Fits(x, <<Skip>> \o Fail)
    BY <2>4, FailFits
  <2>7. Calls1("var_name", c) = var_name(c)
    BY DEF Calls1
  <2> QED BY ONLY <1>1, <2>1, <2>5, <2>6, <2>7, Zenon DEF var_name
<1>7. ASSUME NEW c PROVE Fits(Call("var_rest"), Calls1("var_rest", c))
  <2>1. PICK x, b : x = Call("var_rest") /\ b = Recount
    OBVIOUS
  <2>2. x.op = "call" /\ x.arg = "var_rest"
    BY <1>2, <2>1, CallIs
  <2>3. b.op = "recount" /\ Need(b) = "open" /\ Good(x, b)
    BY <2>1, ItemFacts, GoodItems
  <2>4. SkipStarts(x, k, b) /\ Gives(k, b) /\ Ends(x, Fail[1])
    BY <1>3, <1>4, <2>1, <2>2, <2>3 DEF SkipStarts, Gives
  <2>5. ASSUME NEW g \in {"function_decl", "array_decl"} PROVE Fits(x, <<k, b, Call(g)>>)
    <3>1. PICK a : a = Call(g)
      OBVIOUS
    <3>0. g \in ParseFns /\ g \notin LoopFns /\ CallNeed(g) = "none"
      BY <1>2
    <3>2. Need(a) = "none" /\ Good(x, a)
      BY <3>0, <3>1, CallIs
    <3>3. Follows(b, a) /\ Ends(x, a)
      BY <1>3, <2>1, <2>3, <3>2 DEF Follows, Gives
    <3>4. Fits(x, <<k, b, a>>)
      BY ONLY <1>4, <2>3, <2>4, <3>2, <3>3, FitsThree, Zenon
    <3> QED BY <3>1, <3>4
  <2>6. Fits(x, <<Skip>> \o Fail)
    BY <2>4, FailFits
  <2>7. Fits(x, <<Skip, Call("logical_or"), Make("var_decl")>>)
    <3>1. PICK E : E = Easy(x)
      OBVIOUS
    <3>2. EasyIn(E)
      BY <3>1, EasyItems
    <3>3. Skip \in E /\ Call("logical_or") \in E /\ Make("var_decl") \in E
      BY <3>2, Zenon DEF EasyIn, CallsIn, MakesIn, OthersIn
    <3>4. Ends(x, Make("var_decl"))
      BY <1>3, <2>1
    <3> QED BY ONLY <3>1, <3>3, <3>4, EasyLast, Zenon
  <2>8. Calls1("var_rest", c) = var_rest(c)
    BY DEF Calls1
  <2> QED BY ONLY <1>1, <2>1, <2>5, <2>6, <2>7, <2>8, Zenon DEF var_rest
<1> QED BY <1>5, <1>6, <1>7

(* parse_stmt calls parse_iteration_stmt at the keyword of a loop only. *)
LEMMA StmtFits == Fits(Call("stmt"), Calls1("stmt", Cur))
<1>1. PICK x, c : x = Call("stmt") /\ c = Cur
  OBVIOUS
<1>2. "stmt" \in ParseFns /\ "stmt" \notin OperandFns \union {"type", "global"}
  BY DEF ParseFns, OneToken, OperandFns
<1>3. x.op = "call" /\ x.arg = "stmt" /\ Free(x) /\ \A z : Ends(x, z)
  BY <1>1, <1>2, ItemFacts DEF Free, Ends
<1>4. CASE c \in LoopTokens
  <2>1. PICK a : a = Call("iteration_stmt")
    OBVIOUS
  <2>2. /\ "iteration_stmt" \in ParseFns /\ "iteration_stmt" \notin LoopFns
        /\ CallNeed("iteration_stmt") = "loop"
    BY DEF ParseFns, OneToken, LoopFns, CallNeed
  <2>3. Need(a) = "loop" /\ Good(x, a)
    BY <2>1, <2>2, CallIs
  <2>4. Starts(x, a) /\ Ends(x, a)
    BY <1>1, <1>3, <1>4, <2>3 DEF Starts
  <2>5. Fits(x, <<a>>)
    BY <2>3, <2>4, FitsOne
  <2>6. parse_stmt(c) = <<a>>
    <3>1. c \in {"for", "do", "while"} /\ c # "{" /\ c # "if"
      BY <1>4, Zenon DEF LoopTokens
    <3>2. /\ c # "return" /\ c # "int" /\ c # "sym" /\ c \notin {"&", "*", "++"} /\ c # "("
      BY <1>4 DEF LoopTokens
    <3> QED BY <2>1, <3>1, <3>2, Zenon DEF parse_stmt
  <2>7. Calls1("stmt", c) = parse_stmt(c)
    BY DEF Calls1
  <2> QED BY <1>1, <2>5, <2>6, <2>7, Zenon
<1>5. CASE c \notin LoopTokens
  <2>1. PICK E : E = Easy(x)
    OBVIOUS
  <2>2. EasyIn(E)
    BY <2>1, EasyItems
  <2>3. /\ Call("block") \in E /\ Call("selection_stmt") \in E /\ Call("jump_stmt") \in E
        /\ Call("var_decl") \in E /\ Call("symbol_stmt") \in E /\ Call("assignment") \in E
        /\ Call("primary") \in E /\ Fail \in Seq(E)
    BY <2>2, Zenon DEF EasyIn, CallsIn, OthersIn
  <2>4. c \notin {"for", "do", "while"}
    BY <1>5 DEF LoopTokens
  <2>5. parse_stmt(c) \in Seq(E)
    BY ONLY <2>3, <2>4, Tuples, Zenon DEF parse_stmt
  <2>6. Calls1("stmt", c) = parse_stmt(c)
    BY DEF Calls1
  <2>7. Fits(x, parse_stmt(c))
    BY ONLY <1>3, <2>1, <2>5, FreeFits, Zenon
  <2> QED BY <1>1, <2>6, <2>7, Zenon
<1> QED BY <1>4, <1>5

LEMMA IterationFits ==
  ASSUME NEW c \in LoopTokens
  PROVE  Fits(Call("iteration_stmt"), Calls1("iteration_stmt", c))
<1>1. PICK x : x = Call("iteration_stmt")
  OBVIOUS
<1>2. "iteration_stmt" \in ParseFns /\ "iteration_stmt" \notin OperandFns \union {"type", "global"}
  BY DEF ParseFns, OneToken, OperandFns
<1>3. Free(x)
  BY <1>1, <1>2, ItemFacts DEF Free
<1>4. PICK E : E = Easy(x)
  OBVIOUS
<1>5. EasyIn(E)
  BY <1>4, EasyItems
<1>6. Call("for") \in E /\ Call("do_while") \in E /\ Call("while") \in E
  BY <1>5, Zenon DEF EasyIn, CallsIn
<1>7. c = "for" \/ c = "do" \/ c = "while"
  BY DEF LoopTokens
<1>8. parse_iteration_stmt(c) \in Seq(E)
  BY ONLY <1>6, <1>7, SMT DEF parse_iteration_stmt
<1>9. Calls1("iteration_stmt", c) = parse_iteration_stmt(c)
  BY DEF Calls1
<1>10. Fits(x, parse_iteration_stmt(c))
  BY ONLY <1>3, <1>4, <1>8, FreeFits, Zenon
<1> QED BY <1>1, <1>9, <1>10, Zenon

(* parse(): declarations, one after the other. *)
LEMMA GlobalFits ==
  ASSUME NEW c
  PROVE  Fits(Call("global"), Calls1("global", c))
<1>1. PICK x : x = Call("global")
  OBVIOUS
<1>2. "global" \in ParseFns /\ "global" \notin OperandFns
  BY DEF ParseFns, OneToken, OperandFns
<1>3. x.op = "call" /\ x.arg = "global" /\ Ends(x, x) /\ Ends(x, Fail[1])
  <2>1. x.op = "call" /\ x.arg = "global"
    BY <1>1, <1>2, ItemFacts
  <2> QED BY <1>2, <2>1, ItemFacts DEF Ends, Bottom
<1>4. PICK E : E = Easy(x)
  OBVIOUS
<1>5. EasyIn(E)
  BY <1>4, EasyItems
<1>6. Call("struct_decl") \in E /\ Call("function_decl") \in E /\ x \in E
  BY <1>1, <1>5, Zenon DEF EasyIn, CallsIn
<1>7. Fits(x, <<Call("struct_decl"), x>>) /\ Fits(x, <<Call("function_decl"), x>>)
  BY ONLY <1>3, <1>4, <1>6, EasyLast, Zenon
<1>8. Fits(x, Fail)
  BY <1>3, FailFits
<1>9. Calls1("global", c) = parse(c)
  BY DEF Calls1
<1> QED BY ONLY <1>1, <1>7, <1>8, <1>9, Zenon DEF parse

(* Loops: what their body stands between. *)
LEMMA EasySeq ==
  ASSUME NEW x, NEW s \in Seq(Easy(x))
  PROVE  s \in Seq(Items) /\ \A i \in 1 .. Len(s) : s[i] \in Easy(x)
<1>1. \A i \in 1 .. Len(s) : s[i] \in Easy(x)
  OBVIOUS
<1>2. s \in Seq(Items)
  BY DEF Easy
<1> QED BY <1>1, <1>2

LEMMA LoopFits ==
  /\ \A f \in {"for_range", "do_while", "while"} : Fits(Call(f), Calls0(f))
  /\ \A c : Fits(Call("for_inc"), Calls1("for_inc", c))
<1>1. ASSUME NEW f \in {"for_range", "do_while", "while", "for_inc"},
             NEW p \in Seq(Easy(Call(f))), NEW q \in Seq(Easy(Call(f))), Len(p) > 0
      PROVE  Fits(Call(f), p \o Body \o q)
  <2>1. f \in ParseFns /\ f \notin OperandFns \union {"type", "global"}
    BY DEF ParseFns, OneToken, NoToken, OperandFns
  <2>2. Free(Call(f))
    BY <2>1, ItemFacts DEF Free
  <2>3. p \in Seq(Items) /\ \A i \in 1 .. Len(p) : p[i] \in Easy(Call(f))
    BY EasySeq, Zenon
  <2>4. q \in Seq(Items) /\ \A i \in 1 .. Len(q) : q[i] \in Easy(Call(f))
    BY EasySeq, Zenon
  <2> QED BY ONLY <1>1, <2>2, <2>3, <2>4, BodyFits, Zenon
<1>2. Fits(Call("for_range"), Calls0("for_range"))
  <2>1. PICK E : E = Easy(Call("for_range"))
    OBVIOUS
  <2>2. EasyIn(E)
    BY <2>1, EasyItems
  <2>3. /\ Call("decl_without_initializer") \in E /\ Require(":") \in E /\ Call("expr") \in E
        /\ Require(")") \in E /\ Make("for_range") \in E
    BY <2>2, Zenon DEF EasyIn, CallsIn, RequiresIn, MakesIn
  <2>4. PICK p, q : /\ p = <<Call("decl_without_initializer"), Require(":"), Call("expr"), Require(")")>>
                    /\ q = <<Make("for_range")>>
    OBVIOUS
  <2>5. p \in Seq(E) /\ q \in Seq(E) /\ Len(p) > 0
    BY <2>3, <2>4
  <2>6. Fits(Call("for_range"), p \o Body \o q)
    BY <1>1, <2>1, <2>5, Zenon
  <2>7. Calls0("for_range") = parse_for_range
    BY DEF Calls0
  <2> QED BY ONLY <2>4, <2>6, <2>7, Zenon DEF parse_for_range
<1>3. Fits(Call("do_while"), Calls0("do_while"))
  <2>1. PICK E : E = Easy(Call("do_while"))
    OBVIOUS
  <2>2. EasyIn(E)
    BY <2>1, EasyItems
  <2>3. /\ Require("do") \in E /\ Require("while") \in E /\ Require("(") \in E
        /\ Call("logical_or") \in E /\ Require(")") \in E /\ Make("do_while") \in E
    BY <2>2, Zenon DEF EasyIn, CallsIn, RequiresIn, MakesIn
  <2>4. PICK p, q : /\ p = <<Require("do")>>
                    /\ q = <<Require("while"), Require("("), Call("logical_or"), Require(")"), Make("do_while")>>
    OBVIOUS
  <2>5. p \in Seq(E) /\ q \in Seq(E) /\ Len(p) > 0
    BY <2>3, <2>4
  <2>6. Fits(Call("do_while"), p \o Body \o q)
    BY <1>1, <2>1, <2>5, Zenon
  <2>7. Calls0("do_while") = parse_do_while
    BY DEF Calls0
  <2> QED BY ONLY <2>4, <2>6, <2>7, Zenon DEF parse_do_while
<1>4. Fits(Call("while"), Calls0("while"))
  <2>1. PICK E : E = Easy(Call("while"))
    OBVIOUS
  <2>2. EasyIn(E)
    BY <2>1, EasyItems
  <2>3. /\ Require("while") \in E /\ Require("(") \in E
        /\ Call("logical_or") \in E /\ Require(")") \in E /\ Make("while") \in E
    BY <2>2, Zenon DEF EasyIn, CallsIn, RequiresIn, MakesIn
  <2>4. PICK p, q : /\ p = <<Require("while"), Require("("), Call("logical_or"), Require(")")>>
                    /\ q = <<Make("while")>>
    OBVIOUS
  <2>5. p \in Seq(E) /\ q \in Seq(E) /\ Len(p) > 0
    BY <2>3, <2>4
  <2>6. Fits(Call("while"), p \o Body \o q)
    BY <1>1, <2>1, <2>5, Zenon
  <2>7. Calls0("while") = parse_while
    BY DEF Calls0
  <2> QED BY ONLY <2>4, <2>6, <2>7, Zenon DEF parse_while
<1>5. ASSUME NEW c PROVE Fits(Call("for_inc"), Calls1("for_inc", c))
  <2>1. PICK E : E = Easy(Call("for_inc"))
    OBVIOUS
  <2>2. EasyIn(E)
    BY <2>1, EasyItems
  <2>3. Skip \in E /\ Call("expr") \in E /\ Require(")") \in E /\ Make("for") \in E
    BY <2>2, Zenon DEF EasyIn, CallsIn, RequiresIn, MakesIn, OthersIn
  <2>4. PICK p, q : /\ p = (IF c = ")" THEN <<Skip>> ELSE <<Call("expr"), Require(")")>>)
                    /\ q = <<Make("for")>>
    OBVIOUS
  <2>5. p \in Seq(E) /\ q \in Seq(E) /\ Len(p) > 0
    BY <2>3, <2>4
  <2>6. Fits(Call("for_inc"), p \o Body \o q)
    BY <1>1, <2>1, <2>5, Zenon
  <2>7. Calls1("for_inc", c) = for_inc(c)
    BY DEF Calls1
  <2> QED BY ONLY <2>4, <2>6, <2>7, Zenon DEF for_inc
<1> QED BY <1>2, <1>3, <1>4, <1>5

(* Every function of the parser expands to a sequence that fits. *)
Expansion(f) == CASE f \in TwoTokens -> Calls2(f, Cur, Ahead)
                  [] f \in OneToken  -> Calls1(f, Cur)
                  [] OTHER           -> Calls0(f)

LEMMA ExpansionFits ==
  ASSUME NEW f \in ParseFns, f = "iteration_stmt" => Cur \in LoopTokens
  PROVE  Fits(Call(f), Expansion(f))
<1>1. PICK c, d : c = Cur /\ d = Ahead
  OBVIOUS
<1>2. CASE f \in TwoTokens
  <2>0. f \notin OneToken
    BY <1>2 DEF OneToken, TwoTokens
  <2>1. Expansion(f) = Calls2(f, c, d)
    BY <1>1, <1>2, <2>0, Zenon DEF Expansion
  <2>2. f \in {"decl_kind", "symbol_stmt", "for_kind"} \/ f \in {"array_access"}
    BY <1>2 DEF TwoTokens
  <2> QED BY <2>1, <2>2, FreeTwo, OperandTwo, Zenon
<1>3. CASE f \in OneToken
  <2>0. f \notin TwoTokens
    BY <1>3 DEF OneToken, TwoTokens
  <2>1. Expansion(f) = Calls1(f, c)
    BY <1>1, <1>3, <2>0, Zenon DEF Expansion
  <2>2. \/ f \in {"expr", "assign_op", "comma", "return_type", "array_name", "first_dim",
                  "next_dim", "array_body", "decl", "next_member", "struct_dims",
                  "function_param_list", "function_body", "loop_stmt", "next_loop_stmt",
                  "next_stmt", "else_body", "return_value", "for_init", "for_cond"}
        \/ f \in {"prefix_unary", "postfix_op", "paren_member", "next_field", "next_index",
                  "next_arg", "constant"}
        \/ f = "symbol" \/ f = "primary" \/ f = "type" \/ f = "var_name" \/ f = "var_rest"
        \/ f = "stmt" \/ f = "iteration_stmt" \/ f = "for_inc" \/ f = "global"
    BY <1>3 DEF OneToken
  <2>3. CASE f = "iteration_stmt"
    <3>1. c \in LoopTokens
      BY <1>1, <2>3
    <3> QED BY <2>1, <2>3, <3>1, IterationFits, Zenon
  <2>4. CASE f = "stmt"
    BY <1>1, <2>1, <2>4, StmtFits, Zenon
  <2>5. CASE f = "symbol" \/ f = "primary" \/ f = "type"
    BY <2>1, <2>5, SymbolFits, PrimaryFits, TypeFits, Zenon
  <2>6. CASE f = "var_name" \/ f = "var_rest"
    BY <2>1, <2>6, VarFits, Zenon
  <2>7. CASE f = "for_inc" \/ f = "global"
    BY <2>1, <2>7, LoopFits, GlobalFits, Zenon
  <2>8. CASE f \in {"expr", "assign_op", "comma", "return_type", "array_name", "first_dim",
                    "next_dim", "array_body", "decl", "next_member", "struct_dims",
                    "function_param_list", "function_body", "loop_stmt", "next_loop_stmt",
                    "next_stmt", "else_body", "return_value", "for_init", "for_cond"}
    BY ONLY <2>1, <2>8, FreeOne, Zenon
  <2>9. CASE f \in {"prefix_unary", "postfix_op", "paren_member", "next_field", "next_index",
                    "next_arg", "constant"}
    BY ONLY <2>1, <2>9, OperandOne, Zenon
  <2> QED BY <2>2, <2>3, <2>4, <2>5, <2>6, <2>7, <2>8, <2>9, Zenon
<1>4. CASE f \in NoToken
  <2>1. f \notin TwoTokens /\ f \notin OneToken
    BY <1>4 DEF OneToken, TwoTokens, NoToken
  <2>2. Expansion(f) = Calls0(f)
    BY <2>1, Zenon DEF Expansion
  <2>3. \/ f \in {"assignment", "array_decl_without_initializer", "array_decl",
                  "decl_without_initializer", "var_decl_without_initializer", "struct_decl",
                  "struct_var_decl", "struct_array_body", "function_decl", "block",
                  "iteration_block", "loop_semicolon", "semicolon", "selection_stmt",
                  "jump_stmt", "for"}
        \/ f \in {"struct_field_access", "function_call"}
        \/ f \in {"for_range", "do_while", "while"}
        \/ f = "logical_or" \/ f = "postfix_unary" \/ f = "var_decl"
    BY <1>4 DEF NoToken
  <2>4. CASE f = "logical_or" \/ f = "postfix_unary" \/ f = "var_decl"
    BY <2>2, <2>4, LogicalFits, UnaryFits, VarFits, Zenon
  <2>5. CASE f \in {"for_range", "do_while", "while"}
    BY <2>2, <2>5, LoopFits, Zenon
  <2>6. CASE f \in {"struct_field_access", "function_call"}
    BY ONLY <2>2, <2>6, OperandNone, Zenon
  <2>7. CASE f \in {"assignment", "array_decl_without_initializer", "array_decl",
                    "decl_without_initializer", "var_decl_without_initializer", "struct_decl",
                    "struct_var_decl", "struct_array_body", "function_decl", "block",
                    "iteration_block", "loop_semicolon", "semicolon", "selection_stmt",
                    "jump_stmt", "for"}
    BY ONLY <2>2, <2>7, FreeNone, Zenon
  <2> QED BY <2>3, <2>4, <2>5, <2>6, <2>7, Zenon
<1> QED BY <1>2, <1>3, <1>4 DEF ParseFns

------------------------------------------------------------------------------
(* The stack. *)

(* Neighbours fit, and below everything is parse() or an error. *)
Stack(t) ==
  /\ t \in Seq(Items) /\ Len(t) > 0 /\ \A i \in 1 .. Len(t) : Sound(t[i])
  /\ Joined(t) /\ Skips(t, 2) /\ Bottom(t[Len(t)])

Typed ==
  /\ toks \in Seq(Tokens) /\ tok_begin \in Nat /\ loops_depth \in Int /\ base \in Int
  /\ last \in [kind : Args \union {"binary"}, level : 0 .. Primary]
  /\ dt \in [at : Nat, ptr_depth : Nat]

Heads(a, t) == Ready(a) /\ (a.op = "skip" /\ Len(t) > 1 => SkipReady(t[2]))

StackInv == Typed /\ Stack(todo) /\ Heads(todo[1], todo)

(* An item is taken off the stack. *)
LEMMA Pop ==
  ASSUME NEW t, Stack(t), Len(t) > 1, NEW u, u = Tail(t)
  PROVE  /\ Stack(u) /\ u[1] = t[2] /\ Gives(t[1], t[2]) /\ Sound(t[2])
         /\ Len(u) > 1 => u[2] = t[3] /\ (u[1].op = "skip" => Need(u[2]) \notin Places)
<1>1. t \in Seq(Items) /\ Len(t) \in Nat
  BY DEF Stack
<1>2. u \in Seq(Items) /\ Len(u) = Len(t) - 1 /\ \A i \in 1 .. Len(u) : u[i] = t[i + 1]
  BY <1>1
<1>3. Len(u) > 0 /\ u[1] = t[2] /\ u[Len(u)] = t[Len(t)] /\ (Len(u) > 1 => u[2] = t[3])
  BY <1>1, <1>2
<1>4. \A i \in 1 .. Len(u) : i + 1 \in 1 .. Len(t) /\ (i < Len(u) => (i + 1) + 1 \in 1 .. Len(t))
  BY <1>1, <1>2
<1>5. \A i \in 1 .. Len(u) : Sound(u[i])
  BY <1>2, <1>4 DEF Stack
<1>6. ASSUME NEW i \in 1 .. Len(u) - 1
      PROVE  /\ Gives(u[i], u[i + 1])
             /\ (u[i].op = "skip" => Need(u[i + 1]) \notin Places)
  <2>1. /\ i + 1 \in 1 .. Len(t) - 1 /\ i + 1 \in 2 .. Len(t) - 1
        /\ u[i] = t[i + 1] /\ u[i + 1] = t[(i + 1) + 1]
    BY <1>1, <1>2
  <2> QED BY <2>1 DEF Stack, Joined, Skips
<1>7. Joined(u) /\ Skips(u, 2)
  BY <1>2, <1>6 DEF Joined, Skips
<1>8. Gives(t[1], t[2]) /\ Sound(t[2])
  BY <1>1 DEF Stack, Joined
<1>9. Len(u) > 1 => (u[1].op = "skip" => Need(u[2]) \notin Places)
  BY <1>1, <1>2, <1>6
<1>10. Stack(u)
  BY <1>2, <1>3, <1>5, <1>7 DEF Stack
<1> QED BY <1>3, <1>8, <1>9, <1>10

(* An item is replaced. *)
LEMMA Replace ==
  ASSUME NEW t, Stack(t), NEW s \in Seq(Items), NEW u, u = s \o Tail(t), Len(s) > 0,
         \A i \in 1 .. Len(s) : Sound(s[i]), Joined(s), Skips(s, 2),
         Len(t) > 1 => /\ Gives(s[Len(s)], t[2])
                       /\ Len(s) > 1 /\ s[Len(s)].op = "skip" => Need(t[2]) \notin Places,
         Len(t) = 1 => Bottom(s[Len(s)])
  PROVE  /\ Stack(u) /\ u[1] = s[1]
         /\ Len(u) > 1 => u[2] = (IF Len(s) > 1 THEN s[2] ELSE t[2]) /\ (Len(s) > 1 \/ Len(t) > 1)
<1>1. t \in Seq(Items) /\ Len(t) \in Nat /\ Len(t) > 0 /\ Len(s) \in Nat
  BY DEF Stack
<1>2. PICK v : v = Tail(t)
  OBVIOUS
<1>3. v \in Seq(Items) /\ Len(v) = Len(t) - 1 /\ \A i \in 1 .. Len(v) : v[i] = t[i + 1]
  BY <1>1, <1>2
<1>4. /\ u \in Seq(Items) /\ Len(u) = Len(s) + Len(v)
      /\ \A i \in 1 .. Len(u) : u[i] = IF i <= Len(s) THEN s[i] ELSE v[i - Len(s)]
  <2>1. u = s \o v /\ s \in Seq(Items) /\ v \in Seq(Items)
    BY <1>2, <1>3
  <2> QED BY ONLY <2>1, Joint, SMT
<1>5. \A i \in 1 .. Len(s) : u[i] = s[i]
  BY <1>1, <1>3, <1>4
<1>6. ASSUME NEW i \in 1 .. Len(u), i > Len(s)
      PROVE  i - Len(s) + 1 \in 2 .. Len(t) /\ u[i] = t[i - Len(s) + 1]
  <2>1. i - Len(s) \in 1 .. Len(v) /\ ~(i <= Len(s)) /\ i - Len(s) + 1 \in 2 .. Len(t)
    BY <1>1, <1>3, <1>4, <1>6
  <2>2. u[i] = v[i - Len(s)]
    BY <1>4, <2>1
  <2>3. v[i - Len(s)] = t[i - Len(s) + 1]
    BY <1>3, <2>1
  <2> QED BY <2>1, <2>2, <2>3
<1>7. ASSUME NEW i \in 1 .. Len(u) PROVE Sound(u[i])
  <2>1. CASE i <= Len(s)
    BY <1>1, <1>5, <2>1
  <2>2. CASE i > Len(s)
    <3>1. i - Len(s) + 1 \in 1 .. Len(t) /\ u[i] = t[i - Len(s) + 1]
      BY <1>1, <1>6, <2>2
    <3> QED BY <3>1 DEF Stack
  <2> QED BY <1>1, <2>1, <2>2
<1>8. ASSUME NEW i \in 1 .. Len(u) - 1
      PROVE  /\ Gives(u[i], u[i + 1])
             /\ i > 1 /\ u[i].op = "skip" => Need(u[i + 1]) \notin Places
  <2>0. i \in 1 .. Len(u) /\ i + 1 \in 1 .. Len(u)
    BY <1>1, <1>3, <1>4
  <2>1. CASE i < Len(s)
    <3>1. /\ i \in 1 .. Len(s) - 1 /\ i \in 1 .. Len(s) /\ i + 1 \in 1 .. Len(s)
          /\ (i > 1 => i \in 2 .. Len(s) - 1)
      BY <1>1, <2>1
    <3>2. u[i] = s[i] /\ u[i + 1] = s[i + 1]
      BY <1>5, <3>1
    <3> QED BY <3>1, <3>2 DEF Joined, Skips
  <2>2. CASE i = Len(s)
    <3>1. i \in 1 .. Len(s) /\ i + 1 > Len(s) /\ (i + 1) - Len(s) + 1 = 2
      BY <1>1, <2>2
    <3>2. u[i] = s[Len(s)]
      BY <1>5, <2>2, <3>1
    <3>3. u[i + 1] = t[2] /\ Len(t) > 1
      BY <1>1, <1>6, <2>0, <3>1
    <3> QED BY <2>2, <3>2, <3>3
  <2>3. CASE i > Len(s)
    <3>1. i - Len(s) + 1 \in 2 .. Len(t) /\ u[i] = t[i - Len(s) + 1]
      BY <1>6, <2>0, <2>3
    <3>2. i + 1 > Len(s)
      BY <1>1, <2>3
    <3>3. (i + 1) - Len(s) + 1 \in 2 .. Len(t) /\ u[i + 1] = t[(i + 1) - Len(s) + 1]
      BY <1>6, <2>0, <3>2
    <3>4. PICK k : k = i - Len(s) + 1
      OBVIOUS
    <3>5. /\ k \in 1 .. Len(t) - 1 /\ k \in 2 .. Len(t) - 1 /\ u[i] = t[k] /\ u[i + 1] = t[k + 1]
      BY <1>1, <3>1, <3>3, <3>4
    <3> QED BY <3>5 DEF Stack, Joined, Skips
  <2> QED BY <1>1, <2>1, <2>2, <2>3
<1>9. Joined(u) /\ Skips(u, 2)
  <2>1. \A i \in 2 .. Len(u) - 1 : i \in 1 .. Len(u) - 1 /\ i > 1
    BY <1>1, <1>3, <1>4
  <2>2. Joined(u)
    BY <1>8, Zenon DEF Joined
  <2>3. Skips(u, 2)
    BY <1>8, <2>1, Zenon DEF Skips
  <2> QED BY <2>2, <2>3
<1>10. Bottom(u[Len(u)])
  <2>1. CASE Len(t) = 1
    BY <1>1, <1>3, <1>4, <1>5, <2>1
  <2>2. CASE Len(t) > 1
    <3>1. Len(u) \in 1 .. Len(u) /\ Len(u) > Len(s) /\ Len(u) - Len(s) + 1 = Len(t)
      BY <1>1, <1>3, <1>4, <2>2
    <3>2. u[Len(u)] = t[Len(t)]
      BY <1>6, <3>1
    <3> QED BY <3>2, Zenon DEF Stack
  <2>3. Len(t) = 1 \/ Len(t) > 1
    <3>1. PICK n \in Nat : n = Len(t) /\ n > 0
      BY <1>1
    <3>2. n = 1 \/ n > 1
      BY <3>1
    <3> QED BY <3>1, <3>2
  <2> QED BY <2>1, <2>2, <2>3
<1>11. u[1] = s[1]
  BY <1>1, <1>5
<1>12. Len(u) > 1 => u[2] = (IF Len(s) > 1 THEN s[2] ELSE t[2]) /\ (Len(s) > 1 \/ Len(t) > 1)
  <2>1. CASE Len(s) > 1
    BY <1>1, <1>5, <2>1
  <2>2. CASE Len(s) = 1 /\ Len(u) > 1
    <3>1. 2 \in 1 .. Len(u) /\ 2 > Len(s) /\ 2 - Len(s) + 1 = 2
      BY <1>1, <2>2
    <3> QED BY <1>1, <1>3, <1>4, <1>6, <2>2, <3>1
  <2> QED BY <1>1, <2>1, <2>2
<1>13. Len(u) > 0
  BY <1>1, <1>3, <1>4
<1> QED BY <1>4, <1>7, <1>9, <1>10, <1>11, <1>12, <1>13 DEF Stack

(* What an expansion leaves is what the call left. *)
LEMMA Through ==
  ASSUME NEW x, NEW y, NEW z, Ends(x, z), Gives(x, y)
  PROVE  Gives(z, y) /\ (z.op = "skip" => Need(y) \notin Places)
<1>1. x.op = "call" \/ x.op = "climb"
  BY DEF Ends
<1>2. Gives(z, y)
  <2>1. CASE x.op = "climb"
    BY <2>1 DEF Ends, Gives, Operand
  <2>2. CASE x.op = "call"
    BY <2>2 DEF Ends, Gives, Operand
  <2> QED BY <1>1, <2>1, <2>2
<1>3. z.op = "skip" => Need(y) \notin Places
  BY <1>1 DEF Ends, Gives, Places
<1> QED BY <1>2, <1>3

(* A function that returns an operand does something, but for the two that *)
(* may leave the one they were given; so do parse_type and parse().        *)
LEMMA Nonempty ==
  ASSUME NEW f \in (OperandFns \ {"postfix_op", "paren_member"}) \union {"type", "global"}
  PROVE  Expansion(f) # <<>>
<1>1. /\ \A a : <<a>> # <<>>
      /\ \A a, b : <<a, b>> # <<>>
      /\ \A a, b, p : <<a, b, p>> # <<>>
      /\ \A a, b, p, q : <<a, b, p, q>> # <<>>
      /\ \A a, b, p, q, r : <<a, b, p, q, r>> # <<>>
  OBVIOUS
<1>2. /\ Fail = <<Fail[1]>> /\ <<Skip>> \o Fail = <<Skip, Fail[1]>>
  <2>1. "primary" \in OperandFns
    BY DEF OperandFns
  <2> QED BY <2>1, Promises, ItemFacts
<1>3. PICK c, d : c = Cur /\ d = Ahead
  OBVIOUS
<1>4. \/ f = "array_access"
      \/ f \in {"prefix_unary", "primary", "symbol", "constant", "next_arg", "next_index",
              "next_field", "type", "global"}
      \/ f \in {"postfix_unary", "function_call", "struct_field_access"}
  BY DEF OperandFns
<1>5. CASE f = "array_access"
  <2>1. f \in TwoTokens /\ f \notin OneToken
    BY <1>5 DEF TwoTokens, OneToken
  <2>2. Expansion(f) = Calls2(f, c, d)
    BY <1>3, <2>1, Zenon DEF Expansion
  <2>3. Calls2(f, c, d) = parse_array_access(d)
    BY <1>5 DEF Calls2
  <2> QED BY ONLY <1>1, <1>2, <2>2, <2>3, Zenon DEF parse_array_access
<1>6. CASE f \in {"prefix_unary", "primary", "symbol", "constant", "next_arg", "next_index",
              "next_field", "type", "global"}
  <2>1. f \notin TwoTokens /\ f \in OneToken
    BY <1>6 DEF TwoTokens, OneToken
  <2>2. Expansion(f) = Calls1(f, c)
    BY <1>3, <2>1, Zenon DEF Expansion
  <2>3. CASE f = "prefix_unary"
    <3>1. Calls1(f, c) = parse_prefix_unary(c)
      BY <2>3 DEF Calls1
    <3> QED BY ONLY <1>1, <1>2, <2>2, <3>1, Zenon DEF parse_prefix_unary
  <2>4. CASE f = "primary"
    <3>1. Calls1(f, c) = parse_primary(c)
      BY <2>4 DEF Calls1
    <3> QED BY ONLY <1>1, <1>2, <2>2, <3>1, Zenon DEF parse_primary
  <2>5. CASE f = "symbol"
    <3>1. Calls1(f, c) = parse_symbol(c)
      BY <2>5 DEF Calls1
    <3> QED BY ONLY <1>1, <1>2, <2>2, <3>1, Zenon DEF parse_symbol
  <2>6. CASE f = "constant"
    <3>1. Calls1(f, c) = parse_constant(c)
      BY <2>6 DEF Calls1
    <3> QED BY ONLY <1>1, <1>2, <2>2, <3>1, Zenon DEF parse_constant
  <2>7. CASE f = "next_arg"
    <3>1. Calls1(f, c) = next_arg(c)
      BY <2>7 DEF Calls1
    <3> QED BY ONLY <1>1, <1>2, <2>2, <3>1, Zenon DEF next_arg
  <2>8. CASE f = "next_index"
    <3>1. Calls1(f, c) = next_index(c)
      BY <2>8 DEF Calls1
    <3> QED BY ONLY <1>1, <1>2, <2>2, <3>1, Zenon DEF next_index
  <2>9. CASE f = "next_field"
    <3>1. Calls1(f, c) = next_field(c)
      BY <2>9 DEF Calls1
    <3> QED BY ONLY <1>1, <1>2, <2>2, <3>1, Zenon DEF next_field
  <2>10. CASE f = "type"
    <3>1. Calls1(f, c) = parse_type(c)
      BY <2>10 DEF Calls1
    <3> QED BY ONLY <1>1, <1>2, <2>2, <3>1, Zenon DEF parse_type
  <2>11. CASE f = "global"
    <3>1. Calls1(f, c) = parse(c)
      BY <2>11 DEF Calls1
    <3> QED BY ONLY <1>1, <1>2, <2>2, <3>1, Zenon DEF parse
  <2> QED BY <1>6, <2>3, <2>4, <2>5, <2>6, <2>7, <2>8, <2>9, <2>10, <2>11, Zenon
<1>7. CASE f \in {"postfix_unary", "function_call", "struct_field_access"}
  <2>1. f \notin TwoTokens /\ f \notin OneToken
    BY <1>7 DEF TwoTokens, OneToken
  <2>2. Expansion(f) = Calls0(f)
    BY <2>1, Zenon DEF Expansion
  <2>3. CASE f = "postfix_unary"
    <3>1. Calls0(f) = parse_postfix_unary
      BY <2>3 DEF Calls0
    <3> QED BY ONLY <1>1, <2>2, <3>1, Zenon DEF parse_postfix_unary
  <2>4. CASE f = "function_call"
    <3>1. Calls0(f) = parse_function_call
      BY <2>4 DEF Calls0
    <3> QED BY ONLY <1>1, <2>2, <3>1, Zenon DEF parse_function_call
  <2>5. CASE f = "struct_field_access"
    <3>1. Calls0(f) = parse_struct_field_access
      BY <2>5 DEF Calls0
    <3> QED BY ONLY <1>1, <2>2, <3>1, Zenon DEF parse_struct_field_access
  <2> QED BY <1>7, <2>3, <2>4, <2>5, Zenon
<1> QED BY <1>4, <1>5, <1>6, <1>7

(* Levels of operators. *)
LEMMA LevelIs == ASSUME NEW t PROVE Level(t) \in 0 .. 10
<1>1. LogicalLevel(t) \in {0, 1, 2, 3, 4, 5}
  BY Zenon DEF LogicalLevel
<1>2. ArithLevel(t) \in {0, 6, 7, 8, 9, 10}
  BY Zenon DEF ArithLevel
<1>3. LogicalLevel(t) = 0 \/ ArithLevel(t) = 0
  BY DEF LogicalLevel, ArithLevel
<1> QED BY <1>1, <1>2, <1>3 DEF Level

(* The item on top is done: what was below it is reached. *)
LEMMA Popped ==
  ASSUME StackInv, Len(todo) > 1, todo' = Tail(todo), Typed', NEW y, y = todo[2], Ready(y)'
  PROVE  StackInv'
<1>1. PICK t : t = todo
  OBVIOUS
<1>2. PICK u : u = todo' /\ u = Tail(t)
  BY <1>1
<1>3. Stack(t) /\ Len(t) > 1 /\ y = t[2]
  BY <1>1 DEF StackInv
<1>4. /\ Stack(u) /\ u[1] = y
      /\ Len(u) > 1 => (u[1].op = "skip" => Need(u[2]) \notin Places)
  BY ONLY <1>2, <1>3, Pop, Zenon
<1>5. ASSUME NEW z, Need(z) \notin Places PROVE SkipReady(z)'
  BY <1>5 DEF SkipReady, Places
<1>6. u[1].op = "skip" /\ Len(u) > 1 => SkipReady(u[2])'
  BY <1>4, <1>5
<1>7. Heads(todo[1], todo)'
  BY <1>2, <1>4, <1>6 DEF Heads
<1>8. Stack(todo)'
  BY <1>2, <1>4
<1> QED BY <1>7, <1>8 DEF StackInv

(* A call is replaced by what the function does. *)
LEMMA Expanded ==
  ASSUME StackInv, NEW x, x = todo[1], NEW s, Fits(x, s), s # <<>>, todo' = s \o Tail(todo), Typed',
         toks' = toks, tok_begin' = tok_begin, last' = last,
         x.op = "call" /\ x.arg = "type" => dt' = [at |-> tok_begin, ptr_depth |-> 0],
         ~(x.op = "call" /\ x.arg = "type") => dt' = dt,
         x.op = "call" /\ x.arg = "stmt" => tok_begin < Len(toks)
  PROVE  StackInv'
<1>1. PICK t : t = todo
  OBVIOUS
<1>2. PICK u : u = todo' /\ u = s \o Tail(t)
  BY <1>1
<1>3. /\ Stack(t) /\ x = t[1] /\ Ready(x) /\ t \in Seq(Items) /\ Len(t) \in Nat /\ Len(t) > 0
      /\ dt.at \in Nat /\ dt.ptr_depth \in Nat /\ tok_begin \in Nat
  BY <1>1 DEF StackInv, Stack, Heads, Typed
<1>4. /\ s \in Seq(Items) /\ Len(s) \in Nat /\ Len(s) > 0
      /\ Starts(x, s[1]) /\ Ends(x, s[Len(s)]) /\ (Len(s) > 1 => SkipStarts(x, s[1], s[2]))
      /\ (\A i \in 1 .. Len(s) : Sound(s[i])) /\ Joined(s) /\ Skips(s, 2)
  <2>1. s \in Seq(Items)
    BY DEF Fits
  <2>2. Len(s) \in Nat /\ Len(s) > 0
    BY <2>1
  <2> QED BY <2>1, <2>2 DEF Fits
<1>5. Len(t) > 1 => /\ Gives(s[Len(s)], t[2])
                    /\ (s[Len(s)].op = "skip" => Need(t[2]) \notin Places)
  <2>1. Len(t) > 1 => Gives(x, t[2])
    BY <1>3 DEF Stack, Joined
  <2> QED BY <1>4, <2>1, Through
<1>6. Len(t) = 1 => Bottom(s[Len(s)])
  <2> SUFFICES ASSUME Len(t) = 1 PROVE Bottom(s[Len(s)])
    OBVIOUS
  <2>1. Bottom(x)
    BY <1>3 DEF Stack
  <2>2. x.op = "call" /\ x.arg = "global"
    BY <1>4, <2>1 DEF Bottom, Ends
  <2> QED BY <1>4, <2>2 DEF Ends
<1>7. /\ Stack(u) /\ u[1] = s[1]
      /\ Len(u) > 1 => u[2] = (IF Len(s) > 1 THEN s[2] ELSE t[2]) /\ (Len(s) > 1 \/ Len(t) > 1)
  <2>1. Len(t) > 1 => /\ Gives(s[Len(s)], t[2])
                      /\ Len(s) > 1 /\ s[Len(s)].op = "skip" => Need(t[2]) \notin Places
    BY <1>5
  <2> QED BY ONLY <1>2, <1>3, <1>4, <1>6, <2>1, Replace
<1>8. Ready(s[1])'
  <2>1. PICK a : a = s[1] /\ Starts(x, a)
    BY <1>4
  <2>2. /\ Need(a) \in {"none", "moved", "loop"}
        /\ Need(a) = "moved" => tok_begin > 0
        /\ Need(a) = "loop" => tok_begin < Len(toks) /\ Cur \in LoopTokens
    BY <1>3, <2>1 DEF Starts, Ready
  <2>3. Ready(a)'
    BY <2>2 DEF Ready, Cur
  <2> QED BY <2>1, <2>3
<1>9. ASSUME s[1].op = "skip", Len(u) > 1 PROVE SkipReady(u[2])'
  <2>1. PICK b : b = u[2]
    OBVIOUS
  <2>2. CASE Len(s) > 1
    <3>1. b = s[2] /\ SkipStarts(x, s[1], b)
      BY <1>4, <1>7, <1>9, <2>1, <2>2
    <3>2. Need(b) = "type" => tok_begin' = dt'.at + 0 + dt'.ptr_depth
      BY <1>3, <1>9, <3>1 DEF SkipStarts
    <3>3. Need(b) = "name" => x.op = "call" /\ x.arg = "var_name"
      BY <1>9, <3>1 DEF SkipStarts
    <3>4. Need(b) = "open" => x.op = "call" /\ x.arg = "var_rest"
      BY <1>9, <3>1 DEF SkipStarts
    <3>5. Need(b) = "name" => Need(x) = "type" /\ dt' = dt
      BY <3>3 DEF Need, CallNeed
    <3>6. Need(b) = "open" => Need(x) = "name" /\ dt' = dt
      BY <3>4 DEF Need, CallNeed
    <3>7. SkipReady(b)'
      BY <1>3, <3>2, <3>5, <3>6 DEF SkipReady, Ready, After
    <3> QED BY <2>1, <3>7
  <2>3. CASE Len(s) = 1
    <3>1. b = t[2] /\ Need(b) \notin Places
      BY <1>5, <1>7, <1>9, <2>1, <2>3
    <3>2. SkipReady(b)'
      BY <3>1 DEF SkipReady, Places
    <3> QED BY <2>1, <3>2
  <2>4. Len(s) > 1 \/ Len(s) = 1
    <3>1. PICK n \in Nat : n = Len(s) /\ n > 0
      BY <1>4
    <3>2. n > 1 \/ n = 1
      BY <3>1
    <3> QED BY <3>1, <3>2
  <2> QED BY <2>2, <2>3, <2>4
<1>10. Heads(todo[1], todo)'
  BY <1>2, <1>7, <1>8, <1>9 DEF Heads
<1>11. Stack(todo)'
  BY <1>2, <1>7
<1> QED BY <1>10, <1>11 DEF StackInv

(* A loop over the operators of levels lo to hi ends at one of a level     *)
(* below.                                                                  *)
LEMMA Outside ==
  ASSUME NEW hi \in 0 .. 10, NEW lo \in 1 .. hi, NEW v \in 0 .. 10, NEW a, v \notin lo .. hi,
         (hi = 10 /\ a = 11) \/ (a = hi /\ v < hi)
  PROVE  a >= lo /\ v < lo
OBVIOUS

(* A call that does nothing leaves what it was given. *)
LEMMA Vanished ==
  ASSUME StackInv, NEW x, x = todo[1], todo' = Tail(todo), Typed',
         toks' = toks, tok_begin' = tok_begin, last' = last, dt' = dt,
         \/ /\ x.op = "call"
            /\ x.arg \notin (OperandFns \ {"postfix_op", "paren_member"}) \union {"type", "global"}
         \/ /\ x.op = "climb" /\ tok_begin < Len(toks) /\ Level(Cur) \notin x.lo .. x.hi
  PROVE  StackInv'
<1>1. PICK t : t = todo
  OBVIOUS
<1>2. Stack(t) /\ x = t[1] /\ Ready(x) /\ t \in Seq(Items) /\ Len(t) \in Nat /\ Len(t) > 0
  BY <1>1 DEF StackInv, Stack, Heads
<1>3. Len(t) > 1
  <2>1. PICK n \in Nat : n = Len(t) /\ n > 0
    BY <1>2
  <2>2. n = 1 => Bottom(x)
    BY <1>2, <2>1 DEF Stack
  <2>3. n # 1
    BY <2>2 DEF Bottom
  <2>4. n > 1
    BY <2>1, <2>3
  <2> QED BY <2>1, <2>4
<1>4. PICK y : y = t[2] /\ Gives(x, y) /\ Sound(x)
  BY <1>2, <1>3 DEF Stack, Joined
<1>5. Ready(y)'
  <2>1. CASE x.op = "call"
    <3>1. x.arg \notin (OperandFns \ {"postfix_op", "paren_member"}) \union {"type", "global"}
      BY <2>1
    <3>2. Operand(x) => Need(x) = "operand"
      BY <2>1, <3>1 DEF Operand, Need, CallNeed
    <3>3. Operand(x) => last.level = Primary
      BY <1>2, <3>2 DEF Ready
    <3>4. /\ Need(y) = "climb"   => Operand(x) /\ y.hi = 10
          /\ Need(y) = "operand" => Operand(x)
          /\ Need(y) \notin {"low", "type", "name", "open", "moved", "loop"}
      BY <1>4, <2>1, <3>1 DEF Gives
    <3> QED BY <3>3, <3>4 DEF Ready
  <2>2. CASE x.op = "climb"
    <3>1. tok_begin < Len(toks) /\ Level(Cur) \notin x.lo .. x.hi
      BY <2>2
    <3>2. x.lo \in 1 .. x.hi /\ x.hi \in 0 .. 10 /\ x.lo \in 0 .. 10 /\ Need(x) = "climb"
      BY <1>4, <2>2 DEF Sound, Items, Levels, Need
    <3>3. \/ x.hi = 10 /\ last.level = 11
          \/ last.level = x.hi /\ Level(Cur) < x.hi
      BY <1>2, <3>2 DEF Ready, Below, Primary
    <3>4. Level(Cur) \in 0 .. 10
      BY LevelIs
    <3>5. last.level >= x.lo /\ Level(Cur) < x.lo
      BY <3>1, <3>2, <3>3, <3>4, Outside, Zenon
    <3>6. /\ Need(y) = "low" => x.lo = y.lo
          /\ Need(y) \notin {"climb", "operand", "type", "name", "open", "moved", "loop"}
      BY <1>4, <2>2 DEF Gives, Operand
    <3>7. Need(y) = "low" => last.level >= y.lo /\ Level(Cur) < y.lo
      BY <3>5, <3>6
    <3>8. Need(y) = "low" => last'.level >= y.lo /\ Below(y.lo)'
      BY <3>1, <3>7 DEF Below, Cur
    <3> QED BY <3>6, <3>8 DEF Ready
  <2> QED BY <2>1, <2>2
<1>6. Len(todo) > 1 /\ y = todo[2]
  BY <1>1, <1>3, <1>4
<1> QED BY ONLY <1>5, <1>6, StackInv, todo' = Tail(todo), Typed', Popped, Zenon

(* The top of the stack, and that an action which looks at a token has it. *)
LEMMA TopIs ==
  ASSUME StackInv
  PROVE  /\ Top = todo[1] /\ Rest = Tail(todo) /\ Rest \in Seq(Items) /\ <<>> \o Rest = Rest
         /\ Len(todo) \in Nat /\ Len(todo) > 0 /\ Sound(todo[1]) /\ todo[1] \in Items /\ Ready(todo[1])
         /\ ~Bottom(todo[1]) => Len(todo) > 1 /\ Gives(todo[1], todo[2]) /\ Sound(todo[2])
<1>1. PICK t : t = todo
  OBVIOUS
<1>2. t \in Seq(Items) /\ Len(t) \in Nat /\ Len(t) > 0 /\ Stack(t) /\ Ready(t[1])
  BY <1>1 DEF StackInv, Stack, Heads
<1>3. Head(t) = t[1] /\ Tail(t) \in Seq(Items) /\ t # <<>>
  BY <1>2
<1>4. PICK v : v = Tail(t) /\ v \in Seq(Items)
  BY <1>3
<1>5. <<>> \o v = v
  BY <1>4
<1>6. Sound(t[1]) /\ t[1] \in Items
  BY <1>2 DEF Stack, Sound
<1>7. ~Bottom(t[1]) => Len(t) > 1
  <2>1. PICK n \in Nat : n = Len(t) /\ n > 0
    BY <1>2
  <2>2. n = 1 => Bottom(t[1])
    BY <1>2, <2>1 DEF Stack
  <2>3. n # 1 => n > 1
    BY <2>1
  <2> QED BY <2>1, <2>2, <2>3
<1>8. Len(t) > 1 => Gives(t[1], t[2]) /\ Sound(t[2])
  BY <1>2 DEF Stack, Joined
<1> QED BY <1>1, <1>2, <1>3, <1>4, <1>5, <1>6, <1>7, <1>8 DEF Top, Rest

LEMMA Reads ==
  ASSUME StackInv, Known,
         \/ Top.op \in {"require", "climb", "stars"}
         \/ Top.op = "call" /\ Top.arg \in OneToken
  PROVE  tok_begin < Len(toks)
<1>1. tok_begin \in Nat /\ Len(toks) \in Nat
  BY DEF StackInv, Typed
<1>2. Looks = 1
  <2>1. CASE Top.op \in {"require", "climb", "stars"}
    <3>1. Top.op # "call"
      BY <2>1
    <3> QED BY <2>1, <3>1 DEF Looks
  <2>2. CASE Top.op = "call" /\ Top.arg \in OneToken
    <3>1. Top.arg \notin TwoTokens /\ Top.op \notin {"require", "climb", "stars"}
      BY <2>2 DEF OneToken, TwoTokens
    <3> QED BY <2>2, <3>1, Zenon DEF Looks
  <2> QED BY <2>1, <2>2
<1> QED BY <1>1, <1>2 DEF Known

(* Expand: a function of the parser. *)
LEMMA ExpandIs ==
  ASSUME StackInv, Expand
  PROVE  LET x == todo[1] s == Expansion(x.arg) IN
         /\ x.op = "call" /\ x.arg \in ParseFns /\ Known /\ Fits(x, s)
         /\ todo' = s \o Tail(todo) /\ <<>> \o Tail(todo) = Tail(todo)
         /\ tok_begin' = tok_begin + 0 /\ toks' = toks /\ base' = base
         /\ loops_depth' = loops_depth /\ last' = last
         /\ dt' = IF x.arg = "type" THEN [at |-> tok_begin, ptr_depth |-> 0] ELSE dt
<1>1. PICK x : x = Top
  OBVIOUS
<1>2. /\ x = todo[1] /\ x \in Items /\ Sound(x) /\ Ready(x) /\ x.op = "call" /\ Known
      /\ Rest = Tail(todo) /\ <<>> \o Rest = Rest
  BY <1>1, TopIs DEF Expand, Step
<1>3. PICK f : f = x.arg /\ f \in ParseFns
  BY <1>2 DEF Sound
<1>4. PICK s : s = Expansion(f)
  OBVIOUS
<1>5. /\ todo' = s \o Tail(todo) /\ tok_begin' = tok_begin + 0
      /\ toks' = toks /\ base' = base /\ loops_depth' = loops_depth /\ last' = last
      /\ dt' = IF f = "type" THEN [at |-> tok_begin, ptr_depth |-> 0] ELSE dt
  BY <1>1, <1>2, <1>3, <1>4 DEF Expand, Do, Expansion
<1>6. Need(x) = CallNeed(f)
  BY <1>2, <1>3 DEF Need
<1>7. f = "iteration_stmt" => Cur \in LoopTokens
  BY <1>2, <1>6 DEF CallNeed, Ready
<1>8. Fits(Call(f), s)
  BY <1>3, <1>4, <1>7, ExpansionFits
<1>9. Fits(x, s)
  <2>1. PICK y : y = Call(f)
    OBVIOUS
  <2>2. y.op = "call" /\ y.arg = f
    BY <1>3, <2>1, ItemFacts
  <2>3. CallNeed(f) = Need(y)
    BY <2>2 DEF Need
  <2>4. x.op = y.op /\ x.arg = y.arg /\ Need(x) = Need(y) /\ x.op = "call"
    BY <1>2, <1>3, <1>6, <2>2, <2>3
  <2>5. Fits(y, s)
    BY <1>8, <2>1
  <2>6. Loopy(x) <=> Loopy(y)
    BY <2>4 DEF Loopy
  <2>7. Len(s) > 0 => Starts(x, s[1]) /\ Ends(x, s[Len(s)])
    <3>1. Len(s) > 0 => Starts(y, s[1]) /\ Ends(y, s[Len(s)])
      BY <2>5 DEF Fits
    <3> QED BY <2>4, <3>1 DEF Starts, Ends
  <2>8. Len(s) > 1 => SkipStarts(x, s[1], s[2])
    <3>1. Len(s) > 1 => SkipStarts(y, s[1], s[2])
      BY <2>5 DEF Fits
    <3> QED BY <2>4, <3>1 DEF SkipStarts
  <2> QED BY <2>5, <2>6, <2>7, <2>8 DEF Fits
<1> QED BY <1>2, <1>3, <1>4, <1>5, <1>9

LEMMA ExpandStep ==
  ASSUME StackInv, Expand
  PROVE  StackInv'
<1>1. PICK x, f, s : x = todo[1] /\ f = x.arg /\ s = Expansion(f)
  OBVIOUS
<1>2. x = Top
  BY <1>1, TopIs
<1>3. /\ x.op = "call" /\ f \in ParseFns /\ Known /\ Fits(x, s)
      /\ todo' = s \o Tail(todo) /\ <<>> \o Tail(todo) = Tail(todo)
      /\ tok_begin' = tok_begin + 0 /\ toks' = toks /\ base' = base
      /\ loops_depth' = loops_depth /\ last' = last
      /\ dt' = IF f = "type" THEN [at |-> tok_begin, ptr_depth |-> 0] ELSE dt
  BY <1>1, ExpandIs
<1>4. tok_begin' = tok_begin /\ tok_begin \in Nat
  BY <1>3 DEF StackInv, Typed
<1>5. Typed'
  BY <1>3, <1>4 DEF StackInv, Typed
<1>6. CASE s # <<>>
  <2>1. f = "stmt" => tok_begin < Len(toks)
    <3>1. f = "stmt" => f \in OneToken
      BY DEF OneToken
    <3> QED BY <1>1, <1>2, <1>3, <3>1, Reads
  <2>2. /\ x.op = "call" /\ x.arg = "type" => dt' = [at |-> tok_begin, ptr_depth |-> 0]
        /\ ~(x.op = "call" /\ x.arg = "type") => dt' = dt
        /\ x.op = "call" /\ x.arg = "stmt" => tok_begin < Len(toks)
    BY <1>1, <1>3, <2>1
  <2> QED BY ONLY StackInv, <1>1, <1>3, <1>4, <1>5, <1>6, <2>2, Expanded, Zenon
<1>7. CASE s = <<>>
  <2>1. f \notin (OperandFns \ {"postfix_op", "paren_member"}) \union {"type", "global"}
    BY <1>1, <1>7, Nonempty
  <2>2. dt' = dt /\ todo' = Tail(todo)
    BY <1>3, <1>7, <2>1
  <2> QED BY ONLY StackInv, <1>1, <1>3, <1>4, <1>5, <2>1, <2>2, Vanished, Zenon
<1> QED BY <1>6, <1>7

(* ExpandClimb: an operator follows, or the loops end. *)
LEMMA ClimbStep ==
  ASSUME StackInv, ExpandClimb
  PROVE  StackInv'
<1>1. PICK x, c : x = Top /\ c = Cur
  OBVIOUS
<1>2. /\ x = todo[1] /\ x \in Items /\ Sound(x) /\ x.op = "climb" /\ Known
      /\ Rest = Tail(todo) /\ <<>> \o Rest = Rest
  BY <1>1, TopIs DEF ExpandClimb, Step
<1>3. PICK s : s = climb(x.lo, x.hi, c)
  OBVIOUS
<1>4. /\ todo' = s \o Tail(todo) /\ tok_begin' = tok_begin + 0
      /\ toks' = toks /\ base' = base /\ loops_depth' = loops_depth /\ last' = last /\ dt' = dt
  BY <1>1, <1>2, <1>3 DEF ExpandClimb, Do
<1>5. tok_begin' = tok_begin /\ tok_begin \in Nat
  BY <1>4 DEF StackInv, Typed
<1>6. Typed'
  BY <1>4, <1>5 DEF StackInv, Typed
<1>7. Fits(x, s)
  BY <1>2, <1>3, ClimbFits
<1>8. tok_begin < Len(toks)
  BY <1>1, <1>2, Reads
<1>9. CASE Level(c) \in x.lo .. x.hi
  <2>1. s # <<>>
    BY <1>3, <1>9 DEF climb
  <2>2. /\ ~(x.op = "call" /\ x.arg = "type") /\ ~(x.op = "call" /\ x.arg = "stmt")
    BY <1>2
  <2> QED BY ONLY StackInv, <1>2, <1>4, <1>5, <1>6, <1>7, <2>1, <2>2, Expanded, Zenon
<1>10. CASE Level(c) \notin x.lo .. x.hi
  <2>1. s = <<>>
    BY <1>3, <1>10 DEF climb
  <2>2. todo' = Tail(todo)
    BY <1>2, <1>4, <2>1
  <2>3. Level(Cur) \notin x.lo .. x.hi
    BY <1>1, <1>10
  <2> QED BY ONLY StackInv, <1>2, <1>4, <1>5, <1>6, <1>8, <2>2, <2>3, Vanished, Zenon
<1> QED BY <1>9, <1>10

(* The items that are done in one step. *)
LEMMA ItemStep ==
  ASSUME StackInv,
         require_token \/ peek_next \/ CountStars \/ MakeNode \/ CountLoops \/ Rewind \/ CheckInt
  PROVE  StackInv'
<1>1. PICK x : x = Top
  OBVIOUS
<1>2. /\ x = todo[1] /\ x \in Items /\ Sound(x) /\ Ready(x)
      /\ Rest = Tail(todo) /\ <<>> \o Rest = Rest
      /\ ~Bottom(x) => Len(todo) > 1 /\ Gives(x, todo[2]) /\ Sound(todo[2])
  BY <1>1, TopIs
<1>3. /\ toks \in Seq(Tokens) /\ tok_begin \in Nat /\ loops_depth \in Int /\ base \in Int
      /\ last \in [kind : Args \union {"binary"}, level : 0 .. Primary]
      /\ dt \in [at : Nat, ptr_depth : Nat] /\ dt.at \in Nat /\ dt.ptr_depth \in Nat
  BY DEF StackInv, Typed
<1>4. x.arg \in Args /\ x.lo \in 0 .. 10 /\ x.op \in Ops
  BY <1>2 DEF Items, Levels
<1>5. ASSUME x.op \notin {"error", "call"}, todo' = <<>> \o Rest, Typed', NEW y, y = todo[2], Ready(y)'
      PROVE  StackInv'
  <2>1. Len(todo) > 1 /\ todo' = Tail(todo)
    BY <1>2, <1>5 DEF Bottom
  <2> QED BY ONLY StackInv, <1>5, <2>1, Popped, Zenon
<1>6. PICK y : y = todo[2]
  OBVIOUS
<1>7. x.op \notin {"error", "call"} => Gives(x, y) /\ Sound(y) /\ Len(todo) > 1
  BY <1>2, <1>6 DEF Bottom
<1>8. x.op \in {"require", "back", "deepen", "shallow", "to_type", "recount", "need_int"}
        => Need(y) \notin {"climb", "low", "operand", "type", "name", "open", "moved", "loop"}
  BY <1>7 DEF Gives, Operand
<1>9. ASSUME Need(y) \notin {"climb", "low", "operand", "type", "name", "open", "moved", "loop"}
      PROVE  Ready(y)'
  BY <1>9 DEF Ready
<1>10. CASE require_token
  <2>1. /\ x.op = "require" /\ todo' = <<>> \o Rest /\ tok_begin' = tok_begin + 1
        /\ toks' = toks /\ base' = base /\ loops_depth' = loops_depth /\ last' = last /\ dt' = dt
    BY <1>1, <1>10 DEF require_token, Do
  <2>2. Typed'
    BY <1>3, <2>1 DEF Typed
  <2> QED BY <1>5, <1>6, <1>8, <1>9, <2>1, <2>2
<1>11. CASE peek_next
  <2>1. /\ x.op \in {"skip", "back"} /\ todo' = <<>> \o Rest
        /\ tok_begin' = tok_begin + (IF x.op = "skip" THEN 1 ELSE -1)
        /\ toks' = toks /\ base' = base /\ loops_depth' = loops_depth /\ last' = last /\ dt' = dt
    BY <1>1, <1>11 DEF peek_next, Do
  <2>2. CASE x.op = "back"
    <3>1. tok_begin > 0
      BY <1>2, <2>2 DEF Ready, Need
    <3>2. tok_begin' \in Nat
      BY <1>3, <2>1, <2>2, <3>1
    <3>3. Typed'
      BY <1>3, <2>1, <3>2 DEF Typed
    <3> QED BY <1>5, <1>6, <1>8, <1>9, <2>1, <2>2, <3>3
  <2>3. CASE x.op = "skip"
    <3>1. tok_begin' = tok_begin + 1 /\ tok_begin' \in Nat /\ tok_begin' > 0
      BY <1>3, <2>1, <2>3
    <3>2. Typed'
      BY <1>3, <2>1, <3>1 DEF Typed
    <3>3. SkipReady(y)
      BY <1>2, <1>6, <1>7, <2>3 DEF StackInv, Heads
    <3>4. Need(y) \notin {"climb", "low", "operand", "loop"}
      BY <1>7, <2>3 DEF Gives, Operand
    <3>5. Ready(y)'
      BY SMTT(30), <1>3, <2>1, <3>1, <3>3, <3>4 DEF Ready, SkipReady, After
    <3> QED BY <1>5, <1>6, <2>1, <2>3, <3>2, <3>5
  <2> QED BY <2>1, <2>2, <2>3
<1>12. CASE CountStars
  <2>1. /\ x.op = "stars" /\ toks' = toks /\ base' = base /\ loops_depth' = loops_depth /\ last' = last
        /\ Need(x) = "type" /\ tok_begin = dt.at + 1 + dt.ptr_depth
    BY <1>1, <1>2, <1>12 DEF CountStars, Do, Need, Ready, After
  <2>2. CASE Cur = "*"
    <3>1. PICK d : d = dt
      OBVIOUS
    <3>2. /\ todo' = <<Stars>> \o Rest /\ tok_begin' = tok_begin + 1
          /\ dt' = [d EXCEPT !.ptr_depth = @ + 1]
      BY <1>12, <2>2, <3>1 DEF CountStars, Do
    <3>3. d \in [at : Nat, ptr_depth : Nat] /\ d.at \in Nat /\ d.ptr_depth \in Nat
      BY <1>3, <3>1
    <3>4. /\ dt' \in [at : Nat, ptr_depth : Nat] /\ dt'.at = d.at /\ dt'.ptr_depth = d.ptr_depth + 1
      BY <3>2, <3>3
    <3>5. Typed'
      BY <1>3, <2>1, <3>2, <3>4 DEF Typed
    <3>6. PICK a, s : a = Stars /\ s = <<a>>
      OBVIOUS
    <3>7. a \in Items /\ Sound(a) /\ a.op = "stars" /\ Need(a) = "type"
      BY <3>6, ItemFacts
    <3>8. s \in Seq(Items) /\ Len(s) = 1 /\ s[1] = a
      BY <3>6, <3>7
    <3>9. PICK t : t = todo
      OBVIOUS
    <3>10. PICK u : u = todo' /\ u = s \o Tail(t)
      BY <1>2, <3>2, <3>6, <3>9
    <3>11. /\ Stack(t) /\ Len(t) > 1
      BY <1>7, <2>1, <3>9 DEF StackInv
    <3>12. Gives(a, t[2]) /\ ~(Len(t) = 1) /\ ~(Len(s) > 1) /\ Len(s) > 0 /\ s[Len(s)] = a
      BY <1>6, <1>7, <2>1, <3>7, <3>8, <3>9, <3>11 DEF Gives, Operand
    <3>13. (\A i \in 1 .. Len(s) : Sound(s[i])) /\ Joined(s) /\ Skips(s, 2)
      BY <3>7, <3>8 DEF Joined, Skips
    <3>a. Len(t) > 1 => /\ Gives(s[Len(s)], t[2])
                        /\ Len(s) > 1 /\ s[Len(s)].op = "skip" => Need(t[2]) \notin Places
      BY <3>12
    <3>b. Len(t) = 1 => Bottom(s[Len(s)])
      BY <3>12
    <3>c. /\ Stack(t) /\ s \in Seq(Items) /\ Len(s) > 0 /\ Len(s) \in Nat
      BY <3>8, <3>11
    <3>14. /\ Stack(u) /\ u[1] = s[1]
           /\ Len(u) > 1 => u[2] = (IF Len(s) > 1 THEN s[2] ELSE t[2]) /\ (Len(s) > 1 \/ Len(t) > 1)
      BY ONLY <3>10, <3>13, <3>a, <3>b, <3>c, Replace
    <3>15. Ready(a)'
      BY <1>3, <2>1, <3>1, <3>2, <3>4, <3>7 DEF Ready, After
    <3>16. Heads(todo[1], todo)'
      BY <3>7, <3>8, <3>10, <3>14, <3>15 DEF Heads
    <3>17. Stack(todo)'
      BY <3>10, <3>14
    <3> QED BY <3>5, <3>16, <3>17 DEF StackInv
  <2>3. CASE Cur # "*"
    <3>1. todo' = <<>> \o Rest /\ tok_begin' = tok_begin + 0 /\ dt' = dt
      BY <1>12, <2>3 DEF CountStars, Do
    <3>2. tok_begin' = tok_begin
      BY <1>3, <3>1
    <3>3. Typed'
      BY <1>3, <2>1, <3>1, <3>2 DEF Typed
    <3>4. Need(y) \notin {"climb", "low", "operand", "name", "open", "moved", "loop"}
      BY <1>7, <2>1 DEF Gives, Operand
    <3>5. Ready(y)'
      BY <2>1, <3>1, <3>2, <3>4 DEF Ready, After
    <3> QED BY <1>5, <1>6, <2>1, <3>1, <3>3, <3>5
  <2> QED BY <2>2, <2>3
<1>13. CASE MakeNode
  <2>1. /\ x.op \in {"make", "binary", "paren"} /\ todo' = <<>> \o Rest /\ tok_begin' = tok_begin + 0
        /\ toks' = toks /\ base' = base /\ loops_depth' = loops_depth /\ dt' = dt
        /\ last' = CASE x.op = "make"   -> [kind |-> x.arg, level |-> Primary]
                     [] x.op = "binary" -> [kind |-> "binary", level |-> x.lo]
                     [] x.op = "paren"  -> [last EXCEPT !.level = Primary]
    BY <1>1, <1>13 DEF MakeNode, Do
  <2>2. tok_begin' = tok_begin
    BY <1>3, <2>1
  <2>3. Primary = 11
    BY DEF Primary
  <2>4. /\ last' \in [kind : Args \union {"binary"}, level : 0 .. Primary]
        /\ x.op \in {"make", "paren"} => last'.level = Primary
        /\ x.op = "binary" => last'.level = x.lo
    <3>1. PICK l : l = last /\ l \in [kind : Args \union {"binary"}, level : 0 .. Primary]
      BY <1>3
    <3>2. CASE x.op = "make"
      <4>1. last' = [kind |-> x.arg, level |-> Primary]
        BY <2>1, <3>2
      <4> QED BY <1>4, <2>3, <3>2, <4>1
    <3>3. CASE x.op = "binary"
      <4>1. last' = [kind |-> "binary", level |-> x.lo]
        BY <2>1, <3>3
      <4> QED BY <1>4, <2>3, <3>3, <4>1
    <3>4. CASE x.op = "paren"
      <4>1. last' = [l EXCEPT !.level = Primary]
        BY <2>1, <3>1, <3>4
      <4> QED BY <2>3, <3>1, <3>4, <4>1
    <3> QED BY <2>1, <3>2, <3>3, <3>4
  <2>5. Typed'
    BY <1>3, <2>1, <2>2, <2>4 DEF Typed
  <2>6. Ready(y)'
    <3>1. Need(y) \notin {"low", "type", "name", "open", "moved", "loop"}
      BY <1>7, <2>1 DEF Gives
    <3>2. Need(y) = "operand" => last'.level = Primary
      BY <1>7, <2>1, <2>4 DEF Gives, Operand
    <3>3. CASE x.op = "binary"
      <4>1. Need(y) = "climb" => y.hi = x.lo /\ y.op = "climb" /\ y.lo \in 1 .. y.hi
        <5>1. Need(y) = "climb" => y.op = "climb"
          BY <1>7, <3>3 DEF Need, CallNeed
        <5> QED BY <1>7, <3>3, <5>1 DEF Gives, Operand, Sound
      <4>2. Need(y) = "climb" => x.lo > 0
        BY <1>4, <4>1
      <4>3. Need(y) = "climb" => Need(x) = "low"
        BY <3>3, <4>2 DEF Need
      <4>4. Need(y) = "climb" => Below(x.lo)
        BY <1>2, <4>3 DEF Ready
      <4>5. Need(y) = "climb" => last'.level = y.hi /\ Below(y.hi)'
        BY <2>1, <2>2, <2>4, <3>3, <4>1, <4>4 DEF Below, Cur
      <4> QED BY <3>1, <3>2, <4>5 DEF Ready
    <3>4. CASE x.op # "binary"
      <4>1. Need(y) = "climb" => y.hi = 10 /\ last'.level = Primary
        BY <1>7, <2>1, <2>4, <3>4 DEF Gives
      <4> QED BY <3>1, <3>2, <4>1 DEF Ready
    <3> QED BY <3>3, <3>4
  <2>7. x.op \notin {"error", "call"}
    BY <2>1
  <2> QED BY <1>5, <1>6, <2>1, <2>5, <2>6, <2>7
<1>14. CASE CountLoops
  <2>1. /\ x.op \in {"deepen", "shallow"} /\ todo' = <<>> \o Rest /\ tok_begin' = tok_begin + 0
        /\ toks' = toks /\ base' = base /\ last' = last /\ dt' = dt
        /\ loops_depth' = loops_depth + (IF x.op = "deepen" THEN 1 ELSE -1)
    BY <1>1, <1>14 DEF CountLoops, Do
  <2>2. Typed'
    BY <1>3, <2>1 DEF Typed
  <2>3. Ready(y)'
    BY <1>8, <1>9, <2>1
  <2> QED BY <1>5, <1>6, <2>1, <2>2, <2>3
<1>15. CASE Rewind
  <2>1. /\ x.op \in {"to_type", "recount"} /\ todo' = <<>> \o Rest
        /\ tok_begin' = tok_begin + ((IF x.op = "to_type" THEN dt.at ELSE Recounted) - tok_begin)
        /\ toks' = toks /\ base' = base /\ loops_depth' = loops_depth /\ last' = last /\ dt' = dt
    BY <1>1, <1>15 DEF Rewind, Do
  <2>2. x.op = "recount" => Recounted = dt.at
    <3>1. x.op = "recount" => tok_begin = dt.at + 3 + dt.ptr_depth
      BY <1>2 DEF Ready, Need, After
    <3> QED BY <1>3, <3>1 DEF Recounted
  <2>3. tok_begin' = dt.at
    BY <1>3, <2>1, <2>2
  <2>4. Typed'
    BY <1>3, <2>1, <2>3 DEF Typed
  <2>5. Ready(y)'
    BY <1>8, <1>9, <2>1
  <2> QED BY <1>5, <1>6, <2>1, <2>4, <2>5
<1>16. CASE CheckInt
  <2>1. /\ x.op = "need_int" /\ todo' = <<>> \o Rest /\ tok_begin' = tok_begin + 0
        /\ toks' = toks /\ base' = base /\ loops_depth' = loops_depth /\ last' = last /\ dt' = dt
    BY <1>1, <1>16 DEF CheckInt, Do
  <2>2. Typed'
    BY <1>3, <2>1 DEF Typed
  <2> QED BY <1>5, <1>6, <1>8, <1>9, <2>1, <2>2
<1> QED BY <1>10, <1>11, <1>12, <1>13, <1>14, <1>15, <1>16

(* The first call of a parse. *)
LEMMA FirstCall ==
  LET t == <<Call("global")>> IN
    /\ Stack(t) /\ t \in Seq(Items) /\ Len(t) = 1 /\ t[1] = Call("global")
    /\ Need(t[1]) = "none" /\ t[1].op = "call" /\ t[1].arg = "global"
<1>1. "global" \in ParseFns /\ CallNeed("global") = "none"
  BY DEF ParseFns, OneToken, CallNeed
<1>2. PICK g : g = Call("global")
  OBVIOUS
<1>3. g \in Items /\ Sound(g) /\ Need(g) = "none" /\ g.op = "call" /\ g.arg = "global"
  BY <1>1, <1>2, ItemFacts
<1>4. PICK t : t = <<g>>
  OBVIOUS
<1>5. t \in Seq(Items) /\ Len(t) = 1 /\ t[1] = g
  BY <1>3, <1>4
<1>6. Stack(t)
  BY <1>3, <1>5 DEF Stack, Joined, Skips, Bottom
<1> QED BY <1>2, <1>3, <1>4, <1>5, <1>6

LEMMA StackInit ==
  ASSUME Init
  PROVE  StackInv
<1>1. "compound" \in Args /\ Primary = 11
  BY DEF Args, Made, Primary
<1>2. Typed
  BY <1>1, PrefixesAssumption DEF Init, Typed
<1>3. PICK t : t = <<Call("global")>>
  OBVIOUS
<1>4. todo = t
  BY <1>3 DEF Init
<1>5. Stack(t) /\ Len(t) = 1 /\ Need(t[1]) = "none" /\ t[1].op = "call"
  BY <1>3, FirstCall
<1>6. Heads(t[1], t)
  BY <1>5 DEF Heads, Ready
<1> QED BY <1>2, <1>4, <1>5, <1>6 DEF StackInv

LEMMA StackAgain ==
  ASSUME Typed, Again
  PROVE  StackInv'
<1>1. "compound" \in Args /\ Primary = 11
  BY DEF Args, Made, Primary
<1>2. Typed'
  BY <1>1, PrefixesAssumption DEF Again, Typed
<1>3. PICK t : t = <<Call("global")>>
  OBVIOUS
<1>4. todo' = t
  BY <1>3 DEF Again
<1>5. Stack(t) /\ Len(t) = 1 /\ Need(t[1]) = "none" /\ t[1].op = "call"
  BY <1>3, FirstCall
<1>6. Heads(t[1], t)'
  BY <1>5 DEF Heads, Ready
<1>7. Heads(todo[1], todo)' /\ Stack(todo)'
  BY <1>4, <1>5, <1>6
<1> QED BY <1>2, <1>7 DEF StackInv

(* Nothing but the phase, or what has been read of the input, changes. *)
LEMMA StackKept ==
  ASSUME StackInv, toks' = toks \/ \E c \in Tokens : toks' = Append(toks, c),
         UNCHANGED <<tok_begin, loops_depth, todo, last, dt, base>>
  PROVE  StackInv'
<1>1. /\ toks' \in Seq(Tokens) /\ Len(toks) \in Nat /\ Len(toks') >= Len(toks)
      /\ \A i \in 1 .. Len(toks) : toks'[i] = toks[i]
  <2>0. toks \in Seq(Tokens) /\ Len(toks) \in Nat
    BY DEF StackInv, Typed
  <2>1. CASE toks' = toks
    BY <2>0, <2>1
  <2>2. CASE \E c \in Tokens : toks' = Append(toks, c)
    <3>1. PICK c \in Tokens : toks' = Append(toks, c)
      BY <2>2
    <3>2. PICK s : s = toks
      OBVIOUS
    <3>3. s \in Seq(Tokens) /\ Len(s) \in Nat
      BY <2>0, <3>2
    <3>4. /\ Append(s, c) \in Seq(Tokens) /\ Len(Append(s, c)) = Len(s) + 1
          /\ \A i \in 1 .. Len(s) : Append(s, c)[i] = s[i]
      BY <3>3
    <3> QED BY <2>0, <3>1, <3>2, <3>3, <3>4
  <2> QED BY <2>1, <2>2
<1>2. Typed'
  BY <1>1 DEF StackInv, Typed
<1>3. tok_begin \in Nat /\ (tok_begin < Len(toks) => tok_begin < Len(toks') /\ Cur' = Cur)
  BY <1>1 DEF StackInv, Typed, Cur
<1>4. ASSUME NEW l PROVE Below(l) => Below(l)'
  BY <1>3 DEF Below
<1>5. ASSUME NEW x, Ready(x) PROVE Ready(x)'
  BY <1>3, <1>4, <1>5 DEF Ready, After
<1>6. ASSUME NEW x, SkipReady(x) PROVE SkipReady(x)'
  BY <1>6 DEF SkipReady, After
<1>7. PICK t : t = todo
  OBVIOUS
<1>8. Stack(t) /\ Heads(t[1], t) /\ todo' = t
  BY <1>7 DEF StackInv
<1>9. Heads(t[1], t)'
  BY <1>5, <1>6, <1>8 DEF Heads
<1>10. Heads(todo[1], todo)' /\ Stack(todo)'
  BY <1>8, <1>9
<1> QED BY <1>2, <1>10 DEF StackInv

LEMMA StackStep ==
  ASSUME StackInv, [Next]_vars
  PROVE  StackInv'
<1>1. CASE Expand
  BY <1>1, ExpandStep
<1>2. CASE ExpandClimb
  BY <1>2, ClimbStep
<1>3. CASE require_token \/ peek_next \/ CountStars \/ MakeNode \/ CountLoops \/ Rewind \/ CheckInt
  BY <1>3, ItemStep
<1>4. CASE weak_compile_error \/ ReadPastEnd \/ Finish \/ LexEnd \/ UNCHANGED vars
  <2>1. UNCHANGED <<toks, tok_begin, loops_depth, todo, last, dt, base>>
    BY <1>4 DEF weak_compile_error, ReadPastEnd, Finish, LexEnd, vars
  <2> QED BY <2>1, StackKept
<1>5. ASSUME NEW c \in Tokens, Lex(c) PROVE StackInv'
  <2>1. toks' = Append(toks, c) /\ UNCHANGED <<tok_begin, loops_depth, todo, last, dt, base>>
    BY <1>5 DEF Lex
  <2> QED BY <2>1, StackKept
<1>6. CASE Again
  BY <1>6, StackAgain DEF StackInv
<1> QED BY <1>1, <1>2, <1>3, <1>4, <1>5, <1>6 DEF Next, Work

(* The call stack is well formed whatever is parsed: every item finds the  *)
(* cursor and the node returned last as it needs them.                     *)
THEOREM StackInvariance == Spec => []StackInv
<1>1. Init => StackInv
  BY StackInit
<1>2. StackInv /\ [Next]_vars => StackInv'
  BY StackStep
<1> QED BY <1>1, <1>2, PTL DEF Spec

(* Every binary operation is built as the levels of the operators say, for *)
(* expressions of any length and nesting.                                  *)
THEOREM Precedence == Spec => []PrecedenceKept
<1>1. ASSUME StackInv PROVE PrecedenceKept
  <2>1. PICK x : x = Top /\ x = todo[1] /\ Sound(x) /\ x \in Items /\ Ready(x)
    BY <1>1, TopIs
  <2>2. last.level \in 0 .. 11 /\ Primary = 11 /\ x.lo \in 0 .. 10 /\ x.hi \in 0 .. 10
    BY <1>1, <2>1 DEF StackInv, Typed, Primary, Items, Levels
  <2>3. Level(Cur) \in 0 .. 10
    BY LevelIs
  <2>4. x.op = "climb" /\ Level(Cur) \in x.lo .. x.hi => last.level > Level(Cur)
    <3> SUFFICES ASSUME x.op = "climb", Level(Cur) \in x.lo .. x.hi PROVE last.level > Level(Cur)
      OBVIOUS
    <3>1. Need(x) = "climb"
      BY DEF Need
    <3>2. \/ last.level = 11
          \/ last.level = x.hi /\ Level(Cur) < x.hi
      BY <2>1, <2>2, <3>1 DEF Ready, Below
    <3> QED BY <2>2, <2>3, <3>2
  <2>5. x.op = "binary" => last.level >= x.lo
    <3>1. x.op = "binary" /\ x.lo > 0 => last.level >= x.lo
      BY <2>1 DEF Ready, Need
    <3> QED BY <2>2, <3>1
  <2> QED BY <2>1, <2>4, <2>5 DEF PrecedenceKept
<1> QED BY <1>1, StackInvariance, PTL

(* The two ways of counting back to the type agree, however many stars the *)
(* type has.                                                               *)
THEOREM Rewinding == Spec => []RewindsToType
<1>1. ASSUME StackInv PROVE RewindsToType
  <2>1. Top = todo[1] /\ Ready(todo[1])
    BY <1>1, TopIs
  <2>2. Top.op = "recount" => tok_begin = dt.at + 3 + dt.ptr_depth
    BY <2>1 DEF Ready, Need, After
  <2>3. tok_begin \in Nat /\ dt.at \in Nat /\ dt.ptr_depth \in Nat
    BY <1>1 DEF StackInv, Typed
  <2> QED BY <2>2, <2>3 DEF RewindsToType, Recounted
<1> QED BY <1>1, StackInvariance, PTL

------------------------------------------------------------------------------
(* The depth of loops. *)

Weight(x) == IF x.op = "shallow" THEN 1 ELSE IF x.op = "deepen" THEN -1 ELSE 0

(* h[i] is the number of loop bodies that are open when item i is reached. *)
Depths(t, h, b) ==
  /\ h \in [1 .. Len(t) + 1 -> Int] /\ h[Len(t) + 1] = 0
  /\ \A i \in 1 .. Len(t) : h[i] = h[i + 1] + Weight(t[i]) /\ (Loopy(t[i]) => b + h[i] > 0)

DepthInv == \E h : Depths(todo, h, base) /\ loops_depth = base + h[1]

(* Inside the sequence of one function: 1 between ++ and --. *)
Inner(s, i) == IF s[i].op = "shallow" \/ (i > 1 /\ s[i - 1].op = "deepen") THEN 1 ELSE 0

LEMMA InnerIs ==
  ASSUME NEW s \in Seq(Items), Balanced(s), NEW i \in 1 .. Len(s)
  PROVE  /\ Inner(s, i) = (IF i = Len(s) THEN 0 ELSE Inner(s, i + 1)) + Weight(s[i])
         /\ Inner(s, i) \in {0, 1} /\ (i = 1 => Inner(s, i) = 0)
<1>1. Len(s) \in Nat /\ i \in Nat
  OBVIOUS
<1>2. \A j \in 1 .. Len(s) :
        /\ s[j].op = "deepen"  => j + 2 <= Len(s) /\ s[j + 1].op = "call" /\ s[j + 2].op = "shallow"
        /\ s[j].op = "shallow" => j > 2 /\ s[j - 1].op = "call" /\ s[j - 2].op = "deepen"
  BY DEF Balanced
<1>3. CASE s[i].op = "deepen"
  <2>1. i + 2 <= Len(s) /\ i # Len(s) /\ (i + 1) - 1 = i /\ i + 1 > 1
    BY <1>1, <1>2, <1>3
  <2>2. ~(i > 1 /\ s[i - 1].op = "deepen")
    <3> SUFFICES ASSUME i > 1, s[i - 1].op = "deepen" PROVE FALSE
      OBVIOUS
    <3>1. i - 1 \in 1 .. Len(s) /\ (i - 1) + 1 = i
      BY <1>1
    <3>2. s[i].op = "call"
      BY <1>2, <3>1
    <3> QED BY <1>3, <3>2
  <2>3. Inner(s, i) = 0 /\ Inner(s, i + 1) = 1 /\ Weight(s[i]) = -1
    BY <1>3, <2>1, <2>2 DEF Inner, Weight
  <2> QED BY <2>1, <2>3
<1>4. CASE s[i].op = "shallow"
  <2>1. i > 2 /\ s[i - 1].op = "call"
    BY <1>2, <1>4
  <2>2. i # Len(s) => Inner(s, i + 1) = 0
    <3> SUFFICES ASSUME i # Len(s) PROVE Inner(s, i + 1) = 0
      OBVIOUS
    <3>1. i + 1 \in 1 .. Len(s) /\ (i + 1) - 1 = i
      BY <1>1
    <3>2. s[i + 1].op # "shallow"
      BY <1>2, <1>4, <3>1
    <3> QED BY <1>4, <3>1, <3>2 DEF Inner
  <2>3. Inner(s, i) = 1 /\ Weight(s[i]) = 1
    BY <1>4 DEF Inner, Weight
  <2> QED BY <1>1, <2>1, <2>2, <2>3
<1>5. CASE s[i].op # "deepen" /\ s[i].op # "shallow"
  <2>0. Weight(s[i]) = 0
    BY <1>5 DEF Weight
  <2>1. CASE i > 1 /\ s[i - 1].op = "deepen"
    <3>1. i - 1 \in 1 .. Len(s) /\ (i - 1) + 2 = i + 1
      BY <1>1, <2>1
    <3>2. i + 1 <= Len(s) /\ s[i + 1].op = "shallow"
      BY <1>2, <2>1, <3>1
    <3>3. Inner(s, i) = 1 /\ Inner(s, i + 1) = 1 /\ i # Len(s)
      BY <1>1, <2>1, <3>2 DEF Inner
    <3> QED BY <2>0, <2>1, <3>3
  <2>2. CASE ~(i > 1 /\ s[i - 1].op = "deepen")
    <3>1. Inner(s, i) = 0
      BY <1>5, <2>2 DEF Inner
    <3>2. i # Len(s) => Inner(s, i + 1) = 0
      <4> SUFFICES ASSUME i # Len(s) PROVE Inner(s, i + 1) = 0
        OBVIOUS
      <4>1. i + 1 \in 1 .. Len(s) /\ (i + 1) - 1 = i /\ (i + 1) - 2 = i - 1
        BY <1>1
      <4>2. s[i + 1].op = "shallow" => i + 1 > 2 /\ s[i - 1].op = "deepen"
        BY <1>2, <4>1
      <4>3. s[i + 1].op # "shallow"
        BY <1>1, <2>2, <4>2
      <4> QED BY <1>5, <4>1, <4>3 DEF Inner
    <3> QED BY <2>0, <3>1, <3>2
  <2> QED BY <2>1, <2>2
<1> QED BY <1>3, <1>4, <1>5

(* What replaces the item on top is reached at the depth below it. *)
OpenAt(s, n) == \A i \in 1 .. Len(s) : Loopy(s[i]) => n > 0

LEMMA DepthReplaced ==
  ASSUME NEW t \in Seq(Items), Len(t) > 0, NEW h, NEW b \in Int, Depths(t, h, b),
         NEW s \in Seq(Items), Balanced(s), OpenAt(s, b + h[2])
  PROVE  \E g : Depths(s \o Tail(t), g, b) /\ g[1] = h[2]
<1>0. PICK u : u = s \o Tail(t)
  OBVIOUS
<1>a. \A i \in 1 .. Len(s) : Loopy(s[i]) => b + h[2] > 0
  BY DEF OpenAt
<1>1. Len(t) \in Nat /\ Len(s) \in Nat
  OBVIOUS
<1>2. PICK v : v = Tail(t)
  OBVIOUS
<1>3. v \in Seq(Items) /\ Len(v) = Len(t) - 1 /\ \A i \in 1 .. Len(v) : v[i] = t[i + 1]
  BY <1>1, <1>2
<1>4. /\ u \in Seq(Items) /\ Len(u) = Len(s) + Len(v)
      /\ \A i \in 1 .. Len(u) : u[i] = IF i <= Len(s) THEN s[i] ELSE v[i - Len(s)]
  <2>1. u = s \o v /\ s \in Seq(Items) /\ v \in Seq(Items)
    BY <1>0, <1>2, <1>3
  <2> QED BY ONLY <2>1, Joint, SMT
<1>5. Len(u) \in Nat /\ Len(u) = Len(s) + Len(t) - 1
  BY <1>1, <1>3, <1>4
<1>6. /\ h \in [1 .. Len(t) + 1 -> Int] /\ h[Len(t) + 1] = 0 /\ h[2] \in Int
      /\ \A i \in 1 .. Len(t) : h[i] = h[i + 1] + Weight(t[i]) /\ (Loopy(t[i]) => b + h[i] > 0)
  <2>1. /\ h \in [1 .. Len(t) + 1 -> Int] /\ h[Len(t) + 1] = 0
        /\ \A i \in 1 .. Len(t) : h[i] = h[i + 1] + Weight(t[i]) /\ (Loopy(t[i]) => b + h[i] > 0)
    BY Zenon DEF Depths
  <2>2. 2 \in 1 .. Len(t) + 1
    BY <1>1
  <2>3. h[2] \in Int
    BY <2>1, <2>2
  <2> QED BY <2>1, <2>3
<1>7. \A i \in 1 .. Len(s) : Inner(s, i) \in {0, 1}
  BY InnerIs
<1>8. PICK g : g = [i \in 1 .. Len(u) + 1 |-> IF i <= Len(s) THEN h[2] + Inner(s, i)
                                              ELSE h[i - Len(s) + 1]]
  OBVIOUS
<1>9. /\ \A i \in 1 .. Len(s) : g[i] = h[2] + Inner(s, i) /\ i \in 1 .. Len(u) + 1
      /\ \A i \in 1 .. Len(t) : g[Len(s) + i] = h[i + 1] /\ Len(s) + i \in 1 .. Len(u) + 1
  <2>1. ASSUME NEW i \in 1 .. Len(s) PROVE g[i] = h[2] + Inner(s, i) /\ i \in 1 .. Len(u) + 1
    <3>1. i \in 1 .. Len(u) + 1 /\ i <= Len(s)
      BY <1>1, <1>5
    <3> QED BY <1>8, <3>1
  <2>2. ASSUME NEW i \in 1 .. Len(t) PROVE g[Len(s) + i] = h[i + 1] /\ Len(s) + i \in 1 .. Len(u) + 1
    <3>1. /\ Len(s) + i \in 1 .. Len(u) + 1 /\ ~(Len(s) + i <= Len(s))
          /\ (Len(s) + i) - Len(s) + 1 = i + 1
      BY <1>1, <1>5
    <3>2. g[Len(s) + i] = h[(Len(s) + i) - Len(s) + 1]
      BY <1>8, <3>1
    <3> QED BY <3>1, <3>2
  <2> QED BY <2>1, <2>2
<1>10. ASSUME NEW i \in 1 .. Len(u) + 1
       PROVE  i \in 1 .. Len(s) \/ \E k \in 1 .. Len(t) : i = Len(s) + k
  <2>1. i <= Len(s) \/ i - Len(s) \in 1 .. Len(t)
    BY <1>1, <1>5
  <2>2. CASE i <= Len(s)
    BY <1>1, <2>2
  <2>3. CASE i - Len(s) \in 1 .. Len(t)
    <3>1. PICK k : k = i - Len(s) /\ k \in 1 .. Len(t)
      BY <2>3
    <3>2. i = Len(s) + k
      BY <1>1, <3>1
    <3> QED BY <3>1, <3>2
  <2> QED BY <2>1, <2>2, <2>3
<1>11. g \in [1 .. Len(u) + 1 -> Int]
  <2>1. ASSUME NEW i \in 1 .. Len(u) + 1 PROVE g[i] \in Int
    <3>1. CASE i \in 1 .. Len(s)
      <4>1. PICK n : n = Inner(s, i) /\ n \in {0, 1} /\ g[i] = h[2] + n
        BY <1>7, <1>9, <3>1
      <4> QED BY <1>6, <4>1
    <3>2. CASE \E k \in 1 .. Len(t) : i = Len(s) + k
      <4>1. PICK k \in 1 .. Len(t) : i = Len(s) + k
        BY <3>2
      <4>2. k + 1 \in 1 .. Len(t) + 1 /\ g[i] = h[k + 1]
        BY <1>1, <1>9, <4>1
      <4> QED BY <1>6, <4>2
    <3> QED BY <1>10, <3>1, <3>2
  <2> QED BY <1>8, <2>1
<1>12. g[Len(u) + 1] = 0
  <2>1. Len(t) \in 1 .. Len(t) /\ Len(s) + Len(t) = Len(u) + 1
    BY <1>1, <1>5
  <2>2. g[Len(s) + Len(t)] = h[Len(t) + 1]
    BY <1>9, <2>1
  <2> QED BY <1>6, <2>1, <2>2
<1>13. g[1] = h[2]
  <2>1. CASE Len(s) > 0
    <3>1. 1 \in 1 .. Len(s)
      BY <1>1, <2>1
    <3>2. Inner(s, 1) = 0
      BY <3>1, InnerIs
    <3> QED BY <1>6, <1>9, <3>1, <3>2
  <2>2. CASE Len(s) = 0
    <3>1. 1 \in 1 .. Len(t) /\ Len(s) + 1 = 1
      BY <1>1, <2>2
    <3>2. g[Len(s) + 1] = h[1 + 1]
      BY <1>9, <3>1
    <3> QED BY <3>1, <3>2
  <2>3. Len(s) > 0 \/ Len(s) = 0
    BY <1>1
  <2> QED BY <2>1, <2>2, <2>3
<1>14. ASSUME NEW i \in 1 .. Len(u)
       PROVE  g[i] = g[i + 1] + Weight(u[i]) /\ (Loopy(u[i]) => b + g[i] > 0)
  <2>0. i \in 1 .. Len(u) + 1
    BY <1>5
  <2>1. CASE i \in 1 .. Len(s)
    <3>1. u[i] = s[i] /\ g[i] = h[2] + Inner(s, i) /\ Inner(s, i) \in {0, 1}
      BY <1>1, <1>4, <1>7, <1>9, <2>1
    <3>2. Inner(s, i) = (IF i = Len(s) THEN 0 ELSE Inner(s, i + 1)) + Weight(s[i])
      BY <2>1, InnerIs
    <3>3. g[i + 1] = h[2] + (IF i = Len(s) THEN 0 ELSE Inner(s, i + 1))
      <4>1. CASE i = Len(s)
        <5>1. 1 \in 1 .. Len(t)
          BY <1>1
        <5>2. g[Len(s) + 1] = h[1 + 1]
          BY <1>9, <5>1
        <5> QED BY <1>6, <4>1, <5>2
      <4>2. CASE i # Len(s)
        <5>1. i + 1 \in 1 .. Len(s)
          BY <1>1, <2>1, <4>2
        <5> QED BY <1>9, <4>2, <5>1
      <4> QED BY <4>1, <4>2
    <3>4. PICK e : e = (IF i = Len(s) THEN 0 ELSE Inner(s, i + 1)) /\ e \in {0, 1}
      <4>1. i # Len(s) => i + 1 \in 1 .. Len(s)
        BY <1>1, <2>1
      <4> QED BY <1>7, <4>1
    <3>5. PICK w : w = Weight(s[i]) /\ w \in {0, 1, -1}
      BY DEF Weight
    <3>6. g[i] = g[i + 1] + w
      BY <1>6, <3>1, <3>2, <3>3, <3>4, <3>5
    <3>7. Loopy(s[i]) => b + g[i] > 0
      <4>1. Loopy(s[i]) => b + h[2] > 0
        BY <1>a, <2>1
      <4>2. b + g[i] >= b + h[2]
        BY <1>6, <3>1
      <4>3. g[i] \in Int
        BY <1>11, <2>0
      <4> QED BY <1>6, <4>1, <4>2, <4>3
    <3> QED BY <3>1, <3>5, <3>6, <3>7
  <2>2. CASE \E k \in 1 .. Len(t) : i = Len(s) + k
    <3>1. PICK k \in 1 .. Len(t) : i = Len(s) + k
      BY <2>2
    <3>2. k + 1 \in 1 .. Len(t) /\ i + 1 = Len(s) + (k + 1) /\ k \in 1 .. Len(v) /\ ~(i <= Len(s))
          /\ i - Len(s) = k
      BY <1>1, <1>3, <1>5, <3>1
    <3>3. u[i] = v[k] /\ v[k] = t[k + 1]
      BY <1>3, <1>4, <3>2
    <3>4. g[i] = h[k + 1] /\ g[i + 1] = h[(k + 1) + 1]
      BY <1>9, <3>1, <3>2
    <3>5. h[k + 1] = h[(k + 1) + 1] + Weight(t[k + 1]) /\ (Loopy(t[k + 1]) => b + h[k + 1] > 0)
      BY <1>6, <3>2
    <3> QED BY <3>3, <3>4, <3>5
  <2> QED BY <1>10, <2>0, <2>1, <2>2
<1>15. Depths(u, g, b)
  BY <1>11, <1>12, <1>14 DEF Depths
<1> QED BY <1>0, <1>13, <1>15

(* The item on top is done, or replaced by what it stands for. *)
LEMMA DepthDone ==
  ASSUME StackInv, DepthInv, NEW x, x = todo[1], NEW s \in Seq(Items), Balanced(s),
         \A i \in 1 .. Len(s) : Loopy(s[i]) => Loopy(x) \/ loops_depth > 0,
         s = <<>> \/ Weight(x) = 0,
         todo' = s \o Tail(todo), base' = base, loops_depth' = loops_depth - Weight(x)
  PROVE  DepthInv'
<1>1. PICK t : t = todo
  OBVIOUS
<1>2. PICK h : Depths(t, h, base) /\ loops_depth = base + h[1]
  BY <1>1 DEF DepthInv
<1>3. t \in Seq(Items) /\ Len(t) \in Nat /\ Len(t) > 0 /\ base \in Int /\ x = t[1]
  BY <1>1 DEF StackInv, Stack, Typed
<1>4. PICK w : w = Weight(x) /\ w \in {0, 1, -1}
  BY DEF Weight
<1>5. /\ h[1] \in Int /\ h[2] \in Int /\ h[1] = h[2] + w /\ (Loopy(x) => base + h[1] > 0)
  <2>1. 1 \in 1 .. Len(t) + 1 /\ 2 \in 1 .. Len(t) + 1 /\ 1 \in 1 .. Len(t) /\ 1 + 1 = 2
    BY <1>3
  <2>2. /\ h \in [1 .. Len(t) + 1 -> Int]
        /\ \A i \in 1 .. Len(t) : h[i] = h[i + 1] + Weight(t[i]) /\ (Loopy(t[i]) => base + h[i] > 0)
    BY <1>2, Zenon DEF Depths
  <2> QED BY <1>3, <1>4, <2>1, <2>2
<1>6. ASSUME NEW i \in 1 .. Len(s), Loopy(s[i]) PROVE base + h[2] > 0
  <2>1. w = 0
    <3>1. s # <<>>
      BY <1>6
    <3> QED BY <1>4, <3>1
  <2>2. Loopy(x) \/ loops_depth > 0
    BY <1>6
  <2> QED BY <1>2, <1>3, <1>5, <2>1, <2>2
<1>7. PICK u, b : u = todo' /\ u = s \o Tail(t) /\ b = base
  BY <1>1
<1>8. PICK g : Depths(u, g, b) /\ g[1] = h[2]
  <2>1. t \in Seq(Items) /\ Len(t) > 0 /\ b \in Int
    BY <1>3, <1>7
  <2>2. Depths(t, h, b)
    BY <1>2, <1>7
  <2>3. s \in Seq(Items) /\ Balanced(s)
    OBVIOUS
  <2>4. OpenAt(s, b + h[2])
    BY <1>6, <1>7 DEF OpenAt
  <2>5. \E g : Depths(s \o Tail(t), g, b) /\ g[1] = h[2]
    BY ONLY <2>1, <2>2, <2>3, <2>4, DepthReplaced, Zenon
  <2> QED BY <1>7, <2>5
<1>9. loops_depth' = b + g[1]
  <2>1. PICK d, k1, k2 : d = loops_depth /\ k1 = h[1] /\ k2 = h[2]
    OBVIOUS
  <2>2. /\ b \in Int /\ k1 \in Int /\ k2 \in Int /\ w \in Int
        /\ d = b + k1 /\ k1 = k2 + w
    <3>1. d = b + k1
      BY <1>2, <1>7, <2>1, Zenon
    <3>2. k1 \in Int /\ k2 \in Int /\ k1 = k2 + w
      BY <1>5, <2>1, Zenon
    <3>3. b \in Int
      BY <1>3, <1>7, Zenon
    <3>4. w \in Int
      BY <1>4
    <3> QED BY <3>1, <3>2, <3>3, <3>4, Zenon
  <2>3. loops_depth' = d - w /\ g[1] = k2
    BY <1>4, <1>8, <2>1
  <2> QED BY <2>2, <2>3
<1>10. u = todo' /\ b = base'
  BY <1>7
<1> QED BY <1>8, <1>9, <1>10 DEF DepthInv

LEMMA DepthStep ==
  ASSUME StackInv, DepthInv, [Next]_vars
  PROVE  DepthInv'
<1>1. PICK x : x = todo[1]
  OBVIOUS
<1>2. /\ x = Top /\ Rest = Tail(todo) /\ Rest \in Seq(Items) /\ x \in Items /\ Sound(x)
  BY <1>1, TopIs
<1>3. loops_depth \in Int /\ tok_begin \in Nat
  BY DEF StackInv, Typed
<1>4. CASE Expand
  <2>1. PICK s : s = Expansion(x.arg)
    OBVIOUS
  <2>2. /\ x.op = "call" /\ Fits(x, s) /\ todo' = s \o Tail(todo)
        /\ base' = base /\ loops_depth' = loops_depth
    BY <1>1, <1>4, <2>1, ExpandIs
  <2>3. Weight(x) = 0 /\ loops_depth' = loops_depth - Weight(x)
    BY <1>3, <2>2 DEF Weight
  <2>4. /\ s \in Seq(Items) /\ Balanced(s)
        /\ \A i \in 1 .. Len(s) : Loopy(s[i]) => Loopy(x) \/ loops_depth > 0
    BY <2>2 DEF Fits
  <2> QED BY ONLY StackInv, DepthInv, <1>1, <2>2, <2>3, <2>4, DepthDone
<1>5. CASE ExpandClimb
  <2>1. PICK s : s = climb(x.lo, x.hi, Cur)
    OBVIOUS
  <2>2. /\ x.op = "climb" /\ todo' = s \o Tail(todo)
        /\ base' = base /\ loops_depth' = loops_depth
    BY <1>2, <1>5, <2>1 DEF ExpandClimb, Do
  <2>3. Fits(x, s)
    BY <1>2, <2>1, <2>2, ClimbFits
  <2>4. Weight(x) = 0 /\ loops_depth' = loops_depth - Weight(x)
    BY <1>3, <2>2 DEF Weight
  <2>5. /\ s \in Seq(Items) /\ Balanced(s)
        /\ \A i \in 1 .. Len(s) : Loopy(s[i]) => Loopy(x) \/ loops_depth > 0
    BY <2>3 DEF Fits
  <2> QED BY ONLY StackInv, DepthInv, <1>1, <2>2, <2>4, <2>5, DepthDone
<1>6. ASSUME todo' = <<>> \o Rest, base' = base, loops_depth' = loops_depth - Weight(x)
      PROVE  DepthInv'
  <2>1. PICK s : s = <<>>
    OBVIOUS
  <2>2. /\ s \in Seq(Items) /\ Balanced(s) /\ todo' = s \o Tail(todo)
        /\ \A i \in 1 .. Len(s) : Loopy(s[i]) => Loopy(x) \/ loops_depth > 0
    <3>1. s \in Seq(Items) /\ \A i \in 1 .. Len(s) : FALSE
      BY <2>1
    <3> QED BY <1>2, <1>6, <2>1, <3>1 DEF Balanced
  <2> QED BY ONLY StackInv, DepthInv, <1>1, <1>6, <2>1, <2>2, DepthDone
<1>7. CASE require_token \/ peek_next \/ MakeNode \/ Rewind \/ CheckInt
  <2>1. /\ x.op \notin {"deepen", "shallow"} /\ todo' = <<>> \o Rest /\ base' = base
        /\ loops_depth' = loops_depth
    BY <1>2, <1>7 DEF require_token, peek_next, MakeNode, Rewind, CheckInt, Do
  <2>2. loops_depth' = loops_depth - Weight(x)
    BY <1>3, <2>1 DEF Weight
  <2> QED BY <1>6, <2>1, <2>2
<1>8. CASE CountLoops
  <2>1. /\ x.op \in {"deepen", "shallow"} /\ todo' = <<>> \o Rest /\ base' = base
        /\ loops_depth' = loops_depth + (IF x.op = "deepen" THEN 1 ELSE -1)
    BY <1>2, <1>8 DEF CountLoops, Do
  <2>2. loops_depth' = loops_depth - Weight(x)
    BY <1>3, <2>1 DEF Weight
  <2> QED BY <1>6, <2>1, <2>2
<1>9. CASE CountStars
  <2>1. x.op = "stars" /\ base' = base /\ loops_depth' = loops_depth
    BY <1>2, <1>9 DEF CountStars, Do
  <2>2. Weight(x) = 0 /\ loops_depth' = loops_depth - Weight(x)
    BY <1>3, <2>1 DEF Weight
  <2>3. CASE Cur # "*"
    <3>1. todo' = <<>> \o Rest
      BY <1>9, <2>3 DEF CountStars, Do
    <3> QED BY <1>6, <2>1, <2>2, <3>1
  <2>4. CASE Cur = "*"
    <3>1. PICK a, s : a = Stars /\ s = <<a>>
      OBVIOUS
    <3>2. a \in Items /\ ~Loopy(a) /\ a.op = "stars"
      BY <3>1, ItemFacts
    <3>3. s \in Seq(Items) /\ Len(s) = 1 /\ s[1] = a
      BY <3>1, <3>2
    <3>4. todo' = s \o Tail(todo)
      BY <1>2, <1>9, <2>4, <3>1 DEF CountStars, Do
    <3>5. /\ Balanced(s)
          /\ \A i \in 1 .. Len(s) : Loopy(s[i]) => Loopy(x) \/ loops_depth > 0
      BY <3>2, <3>3 DEF Balanced
    <3> QED BY ONLY StackInv, DepthInv, <1>1, <2>1, <2>2, <3>3, <3>4, <3>5, DepthDone
  <2> QED BY <2>3, <2>4
<1>10. CASE \/ weak_compile_error \/ ReadPastEnd \/ Finish \/ LexEnd \/ UNCHANGED vars
            \/ \E c \in Tokens : Lex(c)
  <2>1. todo' = todo /\ base' = base /\ loops_depth' = loops_depth
    BY <1>10 DEF weak_compile_error, ReadPastEnd, Finish, LexEnd, Lex, vars
  <2> QED BY <2>1 DEF DepthInv
<1>11. CASE Again
  <2>1. PICK t : t = <<Call("global")>>
    OBVIOUS
  <2>2. todo' = t /\ base' = loops_depth /\ loops_depth' = loops_depth
    BY <1>11, <2>1 DEF Again
  <2>3. Len(t) = 1 /\ t[1].op = "call" /\ t[1].arg = "global"
    BY <2>1, FirstCall
  <2>4. Weight(t[1]) = 0 /\ ~Loopy(t[1])
    BY <2>3 DEF Weight, Loopy
  <2>5. PICK h : h = [i \in 1 .. 2 |-> 0]
    OBVIOUS
  <2>6. h \in [1 .. 2 -> Int] /\ h[1] = 0 /\ h[2] = 0
    BY <2>5
  <2>7. Depths(t, h, loops_depth)
    BY <2>3, <2>4, <2>6 DEF Depths
  <2>8. loops_depth' = base' + h[1]
    BY <1>3, <2>2, <2>6
  <2> QED BY <2>2, <2>7, <2>8 DEF DepthInv
<1> QED BY <1>4, <1>5, <1>7, <1>8, <1>9, <1>10, <1>11 DEF Next, Work

LEMMA DepthInit ==
  ASSUME Init
  PROVE  DepthInv
<1>1. PICK t : t = <<Call("global")>>
  OBVIOUS
<1>2. todo = t /\ base = 0 /\ loops_depth = 0
  BY <1>1 DEF Init
<1>3. Len(t) = 1 /\ t[1].op = "call" /\ t[1].arg = "global"
  BY <1>1, FirstCall
<1>4. Weight(t[1]) = 0 /\ ~Loopy(t[1])
  BY <1>3 DEF Weight, Loopy
<1>5. PICK h : h = [i \in 1 .. 2 |-> 0]
  OBVIOUS
<1>6. h \in [1 .. 2 -> Int] /\ h[1] = 0 /\ h[2] = 0
  BY <1>5
<1>7. Depths(t, h, 0)
  BY <1>3, <1>4, <1>6 DEF Depths
<1> QED BY <1>2, <1>6, <1>7 DEF DepthInv

(* The open bodies counted from item i on. *)
From(t, op, i) == {j \in i .. Len(t) : t[j].op = op}

LEMMA FromIs ==
  ASSUME NEW t \in Seq(Items), NEW op, NEW i \in 1 .. Len(t)
  PROVE  /\ IsFiniteSet(From(t, op, i)) /\ Cardinality(From(t, op, i)) \in Nat
         /\ IsFiniteSet(From(t, op, i + 1)) /\ Cardinality(From(t, op, i + 1)) \in Nat
         /\ Cardinality(From(t, op, i)) =
              Cardinality(From(t, op, i + 1)) + (IF t[i].op = op THEN 1 ELSE 0)
<1>1. Len(t) \in Nat /\ i \in Int /\ i + 1 \in Int
  OBVIOUS
<1>2. ASSUME NEW k \in Int
      PROVE  IsFiniteSet(From(t, op, k)) /\ Cardinality(From(t, op, k)) \in Nat
  <2>1. Len(t) \in Int
    BY <1>1
  <2>2. IsFiniteSet(k .. Len(t))
    BY <2>1, FS_Interval
  <2>3. From(t, op, k) \subseteq k .. Len(t)
    BY DEF From
  <2>4. IsFiniteSet(From(t, op, k))
    BY <2>2, <2>3, FS_Subset
  <2> QED BY <2>4, FS_CardinalityType
<1>3. i \notin From(t, op, i + 1)
  BY <1>1 DEF From
<1>4. CASE t[i].op = op
  <2>1. From(t, op, i) = From(t, op, i + 1) \union {i}
    BY <1>1, <1>4 DEF From
  <2>2. Cardinality(From(t, op, i + 1) \union {i}) = Cardinality(From(t, op, i + 1)) + 1
    BY <1>1, <1>2, <1>3, FS_AddElement
  <2> QED BY <1>1, <1>2, <1>4, <2>1, <2>2
<1>5. CASE t[i].op # op
  <2>1. From(t, op, i) = From(t, op, i + 1)
    BY <1>1, <1>5 DEF From
  <2> QED BY <1>1, <1>2, <1>5, <2>1
<1> QED BY <1>4, <1>5

(* A set of numbers has a least one. *)
LEMMA Least ==
  ASSUME NEW T, T \subseteq Nat, T # {}
  PROVE  \E x \in T : \A y \in T : x <= y
<1>1. IsWellFoundedOn(OpToRel(<, Nat), Nat)
  BY NatLessThanWellFounded
<1>2. PICK x \in T : \A y \in T : ~(<<y, x>> \in OpToRel(<, Nat))
  BY <1>1, WFMin, Zenon
<1>3. \A y \in T : ~(y < x)
  BY <1>2 DEF OpToRel
<1> QED BY <1>3

(* By induction from the bottom of the stack: if some item had another     *)
(* depth than the count, so had the lowest of them, but not the one below. *)
LEMMA DepthIsCount ==
  ASSUME NEW t \in Seq(Items), NEW h, NEW b, Depths(t, h, b)
  PROVE  h[1] = Cardinality(From(t, "shallow", 1)) - Cardinality(From(t, "deepen", 1))
<1>1. Len(t) \in Nat /\ Len(t) + 1 \in Nat
  OBVIOUS
<1>2. /\ h \in [1 .. Len(t) + 1 -> Int] /\ h[Len(t) + 1] = 0
      /\ \A i \in 1 .. Len(t) : h[i] = h[i + 1] + Weight(t[i])
  BY Zenon DEF Depths
<1> DEFINE N == Len(t) + 1
           Sh(i) == Cardinality(From(t, "shallow", i))
           De(i) == Cardinality(From(t, "deepen", i))
           T == {k \in 0 .. Len(t) : h[N - k] # Sh(N - k) - De(N - k)}
<1>3. T = {}
  <2> SUFFICES ASSUME T # {} PROVE FALSE
    OBVIOUS
  <2>1. T \subseteq Nat
    BY <1>1
  <2>2. PICK k \in T : \A y \in T : k <= y
    BY <2>1, Least
  <2>3. k \in 0 .. Len(t) /\ h[N - k] # Sh(N - k) - De(N - k)
    BY <2>2
  <2>4. k # 0
    <3>1. From(t, "shallow", N) = {} /\ From(t, "deepen", N) = {}
      BY <1>1 DEF From
    <3>2. Sh(N) = 0 /\ De(N) = 0
      BY <3>1, FS_EmptySet
    <3>3. N - 0 = N
      BY <1>1
    <3> QED BY <1>2, <2>3, <3>2, <3>3
  <2>5. PICK i : i = N - k
    OBVIOUS
  <2>6. i \in 1 .. Len(t) /\ k - 1 \in 0 .. Len(t) /\ N - (k - 1) = i + 1 /\ ~(k <= k - 1)
    BY <1>1, <2>3, <2>4, <2>5
  <2>7. k - 1 \notin T
    BY <2>2, <2>6
  <2>8. h[i + 1] = Sh(i + 1) - De(i + 1)
    BY <2>6, <2>7
  <2>9. /\ Sh(i) = Sh(i + 1) + (IF t[i].op = "shallow" THEN 1 ELSE 0)
        /\ Sh(i) \in Nat /\ Sh(i + 1) \in Nat
    BY <2>6, FromIs
  <2>10. /\ De(i) = De(i + 1) + (IF t[i].op = "deepen" THEN 1 ELSE 0)
         /\ De(i) \in Nat /\ De(i + 1) \in Nat
    BY <2>6, FromIs
  <2> HIDE DEF Sh, De
  <2>11. h[i] = h[i + 1] + Weight(t[i])
    BY <1>2, <2>6
  <2>12. h[i] = Sh(i) - De(i)
    BY SMTT(30), <2>8, <2>9, <2>10, <2>11 DEF Weight
  <2> QED BY <2>3, <2>5, <2>12
<1>4. Len(t) \notin T /\ Len(t) \in 0 .. Len(t) /\ N - Len(t) = 1
  BY <1>1, <1>3
<1> QED BY <1>4

(* loops_depth is the number of loop bodies being parsed, on top of what   *)
(* an earlier parse left, and break and continue stand in such a body: for *)
(* inputs of any length and nesting, and after any sequence of errors.     *)
THEOREM LoopDepth == Spec => []LoopDepthCounts
<1>1. Init => StackInv /\ DepthInv
  BY StackInit, DepthInit
<1>2. StackInv /\ DepthInv /\ [Next]_vars => StackInv' /\ DepthInv'
  BY StackStep, DepthStep
<1>3. ASSUME StackInv, DepthInv PROVE LoopDepthCounts
  <2>1. PICK t : t = todo
    OBVIOUS
  <2>2. PICK h : Depths(t, h, base) /\ loops_depth = base + h[1]
    BY <1>3, <2>1 DEF DepthInv
  <2>3. t \in Seq(Items) /\ Len(t) \in Nat /\ Len(t) > 0 /\ base \in Int /\ Top = t[1]
    BY <1>3, <2>1, TopIs DEF StackInv, Stack, Typed
  <2>4. h[1] = Cardinality(From(t, "shallow", 1)) - Cardinality(From(t, "deepen", 1))
    BY <2>2, <2>3, DepthIsCount
  <2>5. DOMAIN t = 1 .. Len(t)
    BY <2>3
  <2>6. Count("shallow") = Cardinality(From(t, "shallow", 1))
    BY <2>1, <2>5 DEF Count, From
  <2>7. Count("deepen") = Cardinality(From(t, "deepen", 1))
    BY <2>1, <2>5 DEF Count, From
  <2>8. OpenLoops = h[1]
    BY <2>4, <2>6, <2>7 DEF OpenLoops
  <2>9. Loopy(t[1]) => base + h[1] > 0
    <3>1. 1 \in 1 .. Len(t)
      BY <2>3
    <3> QED BY <2>2, <3>1 DEF Depths
  <2>10. Top.op = "make" /\ Top.arg \in {"break", "continue"} => Loopy(t[1])
    BY <2>3 DEF Loopy
  <2> QED BY <2>2, <2>8, <2>9, <2>10 DEF LoopDepthCounts
<1> QED BY <1>1, <1>2, <1>3, PTL DEF Spec

------------------------------------------------------------------------------
(* Brackets.  Each item on the call stack changes the open brackets in one *)
(* way, Eff, whatever it is expanded to: a function closes what it opens,  *)
(* but for those that close for their caller (ClosesParen, ClosesBrace)    *)
(* and for the detours of var_decl, which count back over a bracket.  So   *)
(* the stack spells a path from what the tokens before the cursor leave    *)
(* open to what is open at the end: a path on which enough is open for     *)
(* every item (Enough), the cursor is where the item looks for it (Spot),  *)
(* and parse() alone finds nothing open.  An expansion keeps the path if   *)
(* it spells the same change (Spelled), which is shown for each function.  *)
(* `at` is where the type read last begins, for the items that go back     *)
(* there.                                                                  *)

Brackets == Opens \union {"bad"}

(* The step of OpenBrackets: what is open after one more token. *)
Bump(p, t) ==
  CASE t \in Opens  -> Append(p, t)
    [] t \in Closes -> IF p # <<>> /\ p[Len(p)] = Mate(t) THEN SubSeq(p, 1, Len(p) - 1)
                       ELSE Append(p, "bad")
    [] OTHER        -> p

(* o[i] is what the first i tokens leave open. *)
OpenedTo(s, n, o) ==
  /\ o \in [0 .. n -> Seq(Brackets)] /\ o[0] = <<>>
  /\ \A i \in 1 .. n : o[i] = Bump(o[i - 1], s[i])

(* What an item does to the open brackets once it is done, where c is the  *)
(* token under the cursor: most leave them as they are; some close what    *)
(* their caller opened; to count back over "(" or "[" takes it back.       *)
ClosesParen == {"next_arg", "for_init", "for_cond", "for_inc", "for_kind", "for_range"}
ClosesBrace == {"next_stmt", "next_loop_stmt", "next_member"}

Net(x, c) ==
  CASE x.op = "skip"                          -> c
    [] x.op = "require"                       -> x.arg
    [] x.op = "call" /\ x.arg \in ClosesParen -> ")"
    [] x.op = "call" /\ x.arg \in ClosesBrace -> "}"
    [] OTHER                                  -> "none"

Eff(x, p, c) == IF x.op = "recount" THEN SubSeq(p, 1, Len(p) - 1) ELSE Bump(p, Net(x, c))

(* How many brackets are open at least when an item is reached. *)
OuterTokens == {"struct", "sym", "{", "(", ";"}
Outer(x) ==
  \/ x.op \in {"skip", "stars", "error"}
  \/ x.op = "call" /\ x.arg \in {"global", "struct_decl", "function_decl", "return_type", "type",
                                 "function_body", "block", "iteration_block"}
  \/ x.op = "require" /\ x.arg \in OuterTokens
  \/ x.op = "make" /\ x.arg \in {"compound", "struct_decl", "function_decl"}
Inmost(x) == x.op = "recount" \/ (x.op = "call" /\ x.arg \in ClosesParen)
Enough(x, p) == (~Outer(x) => Len(p) >= 1) /\ (Inmost(x) => Len(p) >= 2)

Marked(x, p, r, c) ==
  /\ x.op # "error" => r = Eff(x, p, c)
  /\ Enough(x, p)
  /\ x.op = "call" /\ x.arg = "global" => p = <<>>

(* Where an item must find the cursor. *)
Spot(x) ==
  CASE x.op = "stars"                                                   -> "same"
    [] x.op = "call" /\ x.arg \in {"var_name", "decl_kind", "for_kind"} -> "same"
    [] x.op = "call" /\ x.arg = "var_rest"                              -> "name"
    [] x.op = "to_type"                                                 -> "again"
    [] x.op = "recount"                                                 -> "open"
    [] x.op = "back" \/ (x.op = "call" /\ x.arg = "symbol")             -> "after"
    [] x.op = "call" /\ x.arg \in {"function_call", "array_access"}     -> "at"
    [] OTHER                                                            -> "none"

Leaves(x, y) ==
  \/ x.op = "error" \/ Spot(y) = "none"
  \/ Spot(y) = "same" /\ (x.op \in {"skip", "stars"} \/ (x.op = "call" /\ x.arg = "type"))
  \/ Spot(y) \in {"name", "open", "after"} /\ x.op = "skip"
  \/ Spot(y) = "at" /\ x.op = "back"

(* What ends with } or ; and what may follow outside all brackets. *)
Ending == {"}", ";"}
Closer(x) ==
  \/ x.op = "make"
  \/ x.op = "require" /\ x.arg \in Ending
  \/ x.op = "call" /\ x.arg \in {"struct_decl", "function_decl", "function_body", "block",
                                 "iteration_block"} \union ClosesBrace
Quiet(x) == x.op \in {"make", "error"} \/ x = Call("global")

Joins(x, r, y) ==
  /\ Leaves(x, y) /\ y.op # "skip"
  /\ Closer(x) /\ r = <<>> => Quiet(y)

(* The items of s take the open brackets from p to r. *)
Path(s, p, r, c) ==
  \E q \in [1 .. Len(s) + 1 -> Seq(Brackets)] :
    /\ q[1] = p /\ q[Len(s) + 1] = r
    /\ \A i \in 1 .. Len(s) : Marked(s[i], q[i], q[i + 1], c)
    /\ \A i \in 1 .. Len(s) - 1 : Joins(s[i], q[i + 1], s[i + 1])

Front(p) == SubSeq(p, 1, Len(p) - 1)

(* A bracket is opened, closed or let be. *)
LEMMA BumpIs ==
  ASSUME NEW p \in Seq(Brackets), NEW t
  PROVE  /\ Bump(p, t) \in Seq(Brackets) /\ Len(p) \in Nat /\ Len(Bump(p, t)) \in Nat
         /\ Len(Bump(p, t)) >= Len(p) - 1
         /\ t \notin Opens \union Closes => Bump(p, t) = p
         /\ t \notin Closes => Len(Bump(p, t)) >= Len(p)
         /\ t \in Opens => Len(Bump(p, t)) = Len(p) + 1 /\ Front(Bump(p, t)) = p
<1>1. Len(p) \in Nat
  OBVIOUS
<1>2. CASE t \in Opens
  <2>1. t \in Brackets /\ t \notin Closes
    BY <1>2 DEF Brackets, Opens, Closes
  <2>2. Bump(p, t) = Append(p, t)
    BY <1>2, <2>1 DEF Bump
  <2>3. /\ Append(p, t) \in Seq(Brackets) /\ Len(Append(p, t)) = Len(p) + 1
        /\ \A i \in 1 .. Len(p) : Append(p, t)[i] = p[i]
    BY <2>1
  <2>4. Front(Append(p, t)) = p
    <3>1. PICK u : u = Append(p, t)
      OBVIOUS
    <3>2. u \in Seq(Brackets) /\ Len(u) = Len(p) + 1 /\ \A i \in 1 .. Len(p) : u[i] = p[i]
      BY <2>3, <3>1
    <3>3. SubSeq(u, 1, Len(p)) = p
      <4>1. /\ SubSeq(u, 1, Len(p)) \in Seq(Brackets) /\ Len(SubSeq(u, 1, Len(p))) = Len(p)
            /\ \A i \in 1 .. Len(p) : SubSeq(u, 1, Len(p))[i] = u[i]
        BY <1>1, <3>2
      <4> QED BY <3>2, <4>1
    <3> QED BY <1>1, <3>1, <3>2, <3>3 DEF Front
  <2> QED BY <1>1, <1>2, <2>1, <2>2, <2>3, <2>4
<1>3. CASE t \in Closes
  <2>1. t \notin Opens
    BY <1>3 DEF Opens, Closes
  <2>2. Bump(p, t) = IF p # <<>> /\ p[Len(p)] = Mate(t) THEN SubSeq(p, 1, Len(p) - 1)
                     ELSE Append(p, "bad")
    BY <1>3, <2>1 DEF Bump
  <2>3. "bad" \in Brackets
    BY DEF Brackets
  <2>4. /\ Append(p, "bad") \in Seq(Brackets) /\ Len(Append(p, "bad")) = Len(p) + 1
    BY <2>3
  <2>5. p # <<>> => /\ SubSeq(p, 1, Len(p) - 1) \in Seq(Brackets)
                    /\ Len(SubSeq(p, 1, Len(p) - 1)) = Len(p) - 1
    <3> SUFFICES ASSUME p # <<>>
                 PROVE  /\ SubSeq(p, 1, Len(p) - 1) \in Seq(Brackets)
                        /\ Len(SubSeq(p, 1, Len(p) - 1)) = Len(p) - 1
      OBVIOUS
    <3>1. Len(p) > 0
      BY <1>1
    <3>2. PICK m : m = Len(p) - 1 /\ m \in Nat /\ m <= Len(p)
      BY <1>1, <3>1
    <3>3. SubSeq(p, 1, m) \in Seq(Brackets) /\ Len(SubSeq(p, 1, m)) = m
      BY <1>1, <3>2
    <3> QED BY <3>2, <3>3
  <2>6. \/ p # <<>> /\ Bump(p, t) = SubSeq(p, 1, Len(p) - 1)
        \/ Bump(p, t) = Append(p, "bad")
    BY <2>2
  <2>7. PICK b : b = Bump(p, t)
    OBVIOUS
  <2>8. b \in Seq(Brackets) /\ (Len(b) = Len(p) - 1 \/ Len(b) = Len(p) + 1)
    BY <2>4, <2>5, <2>6, <2>7
  <2>9. Len(b) \in Nat
    BY <2>8
  <2> QED BY <1>1, <1>3, <2>1, <2>7, <2>8, <2>9
<1>4. CASE t \notin Opens \union Closes
  <2>1. Bump(p, t) = p
    BY <1>4 DEF Bump
  <2> QED BY <1>1, <1>4, <2>1
<1> QED BY <1>2, <1>3, <1>4

(* A bracket and its mate. *)
Pair(t, m) == t \in Opens /\ m \in Closes /\ Mate(m) = t

LEMMA PairIs ==
  /\ Pair("(", ")") /\ Pair("[", "]") /\ Pair("{", "}")
  /\ \A t, m : Pair(t, m) => /\ t \in Opens /\ t \notin Closes /\ m \in Closes /\ m \notin Opens
                             /\ Mate(m) = t /\ t \in Brackets
BY DEF Pair, Opens, Closes, Mate, Brackets

LEMMA BumpPair ==
  ASSUME NEW p \in Seq(Brackets), NEW t, NEW m, Pair(t, m)
  PROVE  Bump(Bump(p, t), m) = p
<1>1. /\ t \in Opens /\ t \notin Closes /\ m \in Closes /\ m \notin Opens
      /\ Mate(m) = t /\ t \in Brackets
  BY PairIs
<1>2. PICK u : u = Bump(p, t)
  OBVIOUS
<1>3. u = Append(p, t)
  BY <1>1, <1>2 DEF Bump
<1>4. u \in Seq(Brackets) /\ Len(p) \in Nat /\ Len(u) = Len(p) + 1 /\ u[Len(u)] = t
  <2>1. /\ Append(p, t) \in Seq(Brackets) /\ Len(Append(p, t)) = Len(p) + 1
        /\ Append(p, t)[Len(p) + 1] = t
    BY <1>1, AppendProperties, ZenonT(60)
  <2> QED BY <1>3, <2>1
<1>5. u # <<>>
  <2> SUFFICES ASSUME u = <<>> PROVE FALSE
    OBVIOUS
  <2>1. PICK n \in Nat : n = Len(p) /\ Len(u) = n + 1
    BY <1>4
  <2>2. n + 1 # 0
    OBVIOUS
  <2>3. Len(u) = 0
    BY Zenon, EmptySeq
  <2> QED BY <2>1, <2>2, <2>3
<1>6. Bump(u, m) = SubSeq(u, 1, Len(u) - 1)
  <2>1. Bump(u, m) = IF u # <<>> /\ u[Len(u)] = Mate(m) THEN SubSeq(u, 1, Len(u) - 1)
                     ELSE Append(u, "bad")
    BY <1>1 DEF Bump
  <2> QED BY <1>1, <1>4, <1>5, <2>1
<1>7. Front(u) = p
  BY <1>1, <1>2, BumpIs
<1> QED BY <1>2, <1>6, <1>7 DEF Front

(* The token an item stands for. *)
LEMMA NetIs ==
  ASSUME NEW x, NEW c
  PROVE  /\ x.op = "skip" => Net(x, c) = c
         /\ x.op = "require" => Net(x, c) = x.arg
         /\ x.op = "call" /\ x.arg \in ClosesParen => Net(x, c) = ")"
         /\ x.op = "call" /\ x.arg \in ClosesBrace => Net(x, c) = "}"
         /\ /\ x.op \notin {"skip", "require"}
            /\ x.op = "call" => x.arg \notin ClosesParen \union ClosesBrace
            => Net(x, c) = "none"
         /\ x.op # "skip" => \A d : Net(x, c) = Net(x, d)
<1>1. ClosesParen \intersect ClosesBrace = {}
  BY DEF ClosesParen, ClosesBrace
<1>2. CASE x.op = "skip"
  <2>1. Net(x, c) = c
    BY <1>2 DEF Net
  <2> QED BY <1>2, <2>1
<1>3. CASE x.op = "require"
  <2>1. \A d : Net(x, d) = x.arg
    BY <1>3 DEF Net
  <2> QED BY <1>3, <2>1
<1>4. CASE x.op = "call" /\ x.arg \in ClosesParen
  <2>1. \A d : Net(x, d) = ")"
    BY <1>1, <1>4 DEF Net
  <2> QED BY <1>1, <1>4, <2>1
<1>5. CASE x.op = "call" /\ x.arg \in ClosesBrace
  <2>1. \A d : Net(x, d) = "}"
    BY <1>1, <1>5 DEF Net
  <2> QED BY <1>1, <1>5, <2>1
<1>6. CASE /\ x.op \notin {"skip", "require"}
           /\ x.op = "call" => x.arg \notin ClosesParen \union ClosesBrace
  <2>1. \A d : Net(x, d) = "none"
    BY <1>6 DEF Net
  <2> QED BY <1>6, <2>1
<1> QED BY <1>2, <1>3, <1>4, <1>5, <1>6

(* Only peek_next takes the token under the cursor, whatever it is. *)
LEMMA NetAny ==
  ASSUME NEW x, x.op # "skip", NEW c, NEW d
  PROVE  Net(x, c) = Net(x, d)
<1>1. \A e : Net(x, c) = Net(x, e)
  BY NetIs, ZenonT(40)
<1> QED BY <1>1

(* Paths in a row, one item, and what is left after the first item. *)
LEMMA PathConcat ==
  ASSUME NEW s \in Seq(Items), NEW t \in Seq(Items), NEW u, u = s \o t,
         NEW p, NEW m, NEW r, NEW c, Path(s, p, m, c), Path(t, m, r, c),
         Len(s) > 0 /\ Len(t) > 0 => Joins(s[Len(s)], m, t[1])
  PROVE  Path(u, p, r, c)
<1>1. /\ u \in Seq(Items) /\ Len(u) = Len(s) + Len(t)
      /\ Len(s) \in Nat /\ Len(t) \in Nat /\ Len(u) \in Nat
      /\ \A i \in 1 .. Len(u) : u[i] = IF i <= Len(s) THEN s[i] ELSE t[i - Len(s)]
  <2>1. s \in Seq(Items) /\ t \in Seq(Items) /\ u = s \o t
    OBVIOUS
  <2> QED BY ONLY <2>1, Joint, SMT
<1>2. PICK a \in [1 .. Len(s) + 1 -> Seq(Brackets)] :
         /\ a[1] = p /\ a[Len(s) + 1] = m
         /\ \A i \in 1 .. Len(s) : Marked(s[i], a[i], a[i + 1], c)
         /\ \A i \in 1 .. Len(s) - 1 : Joins(s[i], a[i + 1], s[i + 1])
  BY DEF Path
<1>3. PICK b \in [1 .. Len(t) + 1 -> Seq(Brackets)] :
         /\ b[1] = m /\ b[Len(t) + 1] = r
         /\ \A i \in 1 .. Len(t) : Marked(t[i], b[i], b[i + 1], c)
         /\ \A i \in 1 .. Len(t) - 1 : Joins(t[i], b[i + 1], t[i + 1])
  BY DEF Path
<1>4. PICK q : q = [i \in 1 .. Len(u) + 1 |-> IF i <= Len(s) THEN a[i] ELSE b[i - Len(s)]]
  OBVIOUS
<1>5. ASSUME NEW i \in 1 .. Len(u) + 1
      PROVE  /\ q[i] = IF i <= Len(s) THEN a[i] ELSE b[i - Len(s)]
             /\ q[i] \in Seq(Brackets)
  <2>1. q[i] = IF i <= Len(s) THEN a[i] ELSE b[i - Len(s)]
    BY <1>4
  <2>2. i <= Len(s) => i \in 1 .. Len(s) + 1
    BY <1>1
  <2>3. ~(i <= Len(s)) => i - Len(s) \in 1 .. Len(t) + 1
    BY <1>1
  <2> QED BY <1>2, <1>3, <2>1, <2>2, <2>3
<1>6. q \in [1 .. Len(u) + 1 -> Seq(Brackets)]
  BY <1>4, <1>5
<1>7. \A i \in 1 .. Len(s) + 1 : q[i] = a[i] /\ i \in 1 .. Len(u) + 1
  <2> SUFFICES ASSUME NEW i \in 1 .. Len(s) + 1 PROVE q[i] = a[i] /\ i \in 1 .. Len(u) + 1
    OBVIOUS
  <2>1. i \in 1 .. Len(u) + 1
    BY <1>1
  <2>2. CASE i <= Len(s)
    BY <1>5, <2>1, <2>2
  <2>3. CASE i = Len(s) + 1
    <3>1. ~(i <= Len(s)) /\ i - Len(s) = 1
      BY <1>1, <2>3
    <3> QED BY <1>2, <1>3, <1>5, <2>1, <2>3, <3>1
  <2>4. i <= Len(s) \/ i = Len(s) + 1
    BY <1>1
  <2> QED BY <2>1, <2>2, <2>3, <2>4
<1>8. \A k \in 1 .. Len(t) + 1 : q[Len(s) + k] = b[k] /\ Len(s) + k \in 1 .. Len(u) + 1
  <2> SUFFICES ASSUME NEW k \in 1 .. Len(t) + 1
               PROVE  q[Len(s) + k] = b[k] /\ Len(s) + k \in 1 .. Len(u) + 1
    OBVIOUS
  <2>1. Len(s) + k \in 1 .. Len(u) + 1 /\ ~(Len(s) + k <= Len(s)) /\ (Len(s) + k) - Len(s) = k
    BY <1>1
  <2> QED BY <1>5, <2>1
<1>9. ASSUME NEW i \in 1 .. Len(u)
      PROVE  i \in 1 .. Len(s) \/ \E k \in 1 .. Len(t) : i = Len(s) + k
  <2>1. i <= Len(s) \/ i - Len(s) \in 1 .. Len(t)
    BY <1>1
  <2>2. CASE i <= Len(s)
    BY <1>1, <2>2
  <2>3. CASE i - Len(s) \in 1 .. Len(t)
    <3>1. PICK k : k = i - Len(s) /\ k \in 1 .. Len(t)
      BY <2>3
    <3>2. i = Len(s) + k
      BY <1>1, <3>1
    <3> QED BY <3>1, <3>2
  <2> QED BY <2>1, <2>2, <2>3
<1>10. /\ \A i \in 1 .. Len(s) : u[i] = s[i]
       /\ \A k \in 1 .. Len(t) : u[Len(s) + k] = t[k]
  <2>1. ASSUME NEW i \in 1 .. Len(s) PROVE u[i] = s[i]
    BY <1>1
  <2>2. ASSUME NEW k \in 1 .. Len(t) PROVE u[Len(s) + k] = t[k]
    <3>1. Len(s) + k \in 1 .. Len(u) /\ ~(Len(s) + k <= Len(s)) /\ (Len(s) + k) - Len(s) = k
      BY <1>1
    <3> QED BY <1>1, <3>1
  <2> QED BY <2>1, <2>2
<1>11. ASSUME NEW i \in 1 .. Len(u) PROVE Marked(u[i], q[i], q[i + 1], c)
  <2>1. CASE i \in 1 .. Len(s)
    <3>1. i \in 1 .. Len(s) + 1 /\ i + 1 \in 1 .. Len(s) + 1
      BY <1>1, <2>1
    <3>2. u[i] = s[i] /\ q[i] = a[i] /\ q[i + 1] = a[i + 1]
      BY <1>7, <1>10, <2>1, <3>1
    <3> QED BY <1>2, <2>1, <3>2
  <2>2. CASE \E k \in 1 .. Len(t) : i = Len(s) + k
    <3>1. PICK k \in 1 .. Len(t) : i = Len(s) + k
      BY <2>2
    <3>2. k \in 1 .. Len(t) + 1 /\ k + 1 \in 1 .. Len(t) + 1 /\ i + 1 = Len(s) + (k + 1)
      BY <1>1, <3>1
    <3>3. u[i] = t[k] /\ q[i] = b[k] /\ q[i + 1] = b[k + 1]
      BY <1>8, <1>10, <3>1, <3>2
    <3> QED BY <1>3, <3>1, <3>3
  <2> QED BY <1>9, <2>1, <2>2
<1>12. ASSUME NEW i \in 1 .. Len(u) - 1 PROVE Joins(u[i], q[i + 1], u[i + 1])
  <2>0. i \in 1 .. Len(u)
    BY <1>1
  <2>1. CASE i \in 1 .. Len(s) - 1
    <3>1. i \in 1 .. Len(s) /\ i + 1 \in 1 .. Len(s) /\ i + 1 \in 1 .. Len(s) + 1
      BY <1>1, <2>1
    <3>2. u[i] = s[i] /\ q[i + 1] = a[i + 1] /\ u[i + 1] = s[i + 1]
      BY <1>7, <1>10, <3>1
    <3> QED BY <1>2, <2>1, <3>2
  <2>2. CASE i = Len(s)
    <3>1. i \in 1 .. Len(s) /\ 1 \in 1 .. Len(t) /\ i + 1 \in 1 .. Len(s) + 1 /\ Len(s) > 0 /\ Len(t) > 0
      BY <1>1, <2>2
    <3>2. u[i] = s[Len(s)] /\ q[i + 1] = m /\ u[i + 1] = t[1]
      BY <1>2, <1>7, <1>10, <2>2, <3>1
    <3> QED BY <3>1, <3>2
  <2>3. CASE \E k \in 1 .. Len(t) : i = Len(s) + k
    <3>1. PICK k \in 1 .. Len(t) : i = Len(s) + k
      BY <2>3
    <3>2. /\ k \in 1 .. Len(t) - 1 /\ k + 1 \in 1 .. Len(t) /\ k + 1 \in 1 .. Len(t) + 1
          /\ i + 1 = Len(s) + (k + 1)
      BY <1>1, <3>1
    <3>3. u[i] = t[k] /\ q[i + 1] = b[k + 1] /\ u[i + 1] = t[k + 1]
      BY <1>8, <1>10, <3>1, <3>2
    <3> QED BY <1>3, <3>2, <3>3
  <2>4. i \in 1 .. Len(s) => i = Len(s) \/ i \in 1 .. Len(s) - 1
    BY <1>1
  <2> QED BY <1>9, <2>0, <2>1, <2>2, <2>3, <2>4
<1>13. q[1] = p /\ q[Len(u) + 1] = r
  <2>1. 1 \in 1 .. Len(s) + 1 /\ Len(t) + 1 \in 1 .. Len(t) + 1 /\ Len(s) + (Len(t) + 1) = Len(u) + 1
    BY <1>1
  <2>2. q[1] = a[1] /\ q[Len(s) + (Len(t) + 1)] = b[Len(t) + 1]
    BY <1>7, <1>8, <2>1
  <2> QED BY <1>2, <1>3, <2>1, <2>2
<1> QED BY <1>6, <1>11, <1>12, <1>13 DEF Path

LEMMA PathOne ==
  ASSUME NEW a, NEW p \in Seq(Brackets), NEW r \in Seq(Brackets), NEW c, Marked(a, p, r, c)
  PROVE  Path(<<a>>, p, r, c)
<1>1. PICK q : q = <<p, r>>
  OBVIOUS
<1>2. q \in [1 .. 2 -> Seq(Brackets)] /\ q[1] = p /\ q[2] = r
  BY <1>1
<1>3. PICK s : s = <<a>>
  OBVIOUS
<1>4. Len(s) = 1 /\ s[1] = a
  BY <1>3
<1>5. \A i \in 1 .. Len(s) : Marked(s[i], q[i], q[i + 1], c)
  BY <1>2, <1>4
<1>6. \A i \in 1 .. Len(s) - 1 : FALSE
  BY <1>4
<1>7. Path(s, p, r, c)
  BY <1>2, <1>4, <1>5, <1>6 DEF Path
<1> QED BY <1>3, <1>7

LEMMA PathNone ==
  ASSUME NEW p \in Seq(Brackets), NEW c
  PROVE  Path(<<>>, p, p, c)
<1>1. PICK q : q = <<p>>
  OBVIOUS
<1>2. q \in [1 .. 1 -> Seq(Brackets)] /\ q[1] = p
  BY <1>1
<1>3. PICK s : s = <<>>
  OBVIOUS
<1>4. Len(s) = 0
  BY <1>3
<1>5. Path(s, p, p, c)
  BY <1>2, <1>4 DEF Path
<1> QED BY <1>3, <1>5

LEMMA PathTail ==
  ASSUME NEW t \in Seq(Items), Len(t) > 0, NEW u, u = Tail(t),
         NEW p, NEW r, NEW c, Path(t, p, r, c)
  PROVE  /\ p \in Seq(Brackets)
         /\ \E m \in Seq(Brackets) :
              /\ Marked(t[1], p, m, c) /\ (Len(t) > 1 => Joins(t[1], m, t[2]))
              /\ \A d : Path(u, m, r, d)
<1>1. Len(t) \in Nat
  OBVIOUS
<1>2. u \in Seq(Items) /\ Len(u) = Len(t) - 1 /\ \A i \in 1 .. Len(u) : u[i] = t[i + 1]
  BY <1>1
<1>3. PICK a \in [1 .. Len(t) + 1 -> Seq(Brackets)] :
         /\ a[1] = p /\ a[Len(t) + 1] = r
         /\ \A i \in 1 .. Len(t) : Marked(t[i], a[i], a[i + 1], c)
         /\ \A i \in 1 .. Len(t) - 1 : Joins(t[i], a[i + 1], t[i + 1])
  BY DEF Path
<1>4. PICK q : q = [i \in 1 .. Len(u) + 1 |-> a[i + 1]]
  OBVIOUS
<1>5. /\ q \in [1 .. Len(u) + 1 -> Seq(Brackets)]
      /\ \A i \in 1 .. Len(u) + 1 : q[i] = a[i + 1] /\ i + 1 \in 1 .. Len(t) + 1
  BY <1>1, <1>2, <1>4
<1>6. ASSUME NEW d, NEW i \in 1 .. Len(u) PROVE Marked(u[i], q[i], q[i + 1], d)
  <2>1. /\ i \in 1 .. Len(t) - 1 /\ i + 1 \in 1 .. Len(t) /\ i \in 1 .. Len(u) + 1
        /\ i + 1 \in 1 .. Len(u) + 1
    BY <1>1, <1>2
  <2>2. u[i] = t[i + 1] /\ q[i] = a[i + 1] /\ q[i + 1] = a[(i + 1) + 1]
    BY <1>2, <1>5, <2>1
  <2>3. Marked(u[i], q[i], q[i + 1], c) /\ u[i].op # "skip"
    BY <1>3, <2>1, <2>2 DEF Joins
  <2>4. Net(u[i], c) = Net(u[i], d)
    <3>1. PICK y : y = u[i] /\ y.op # "skip"
      BY <2>3
    <3> QED BY <3>1, NetAny
  <2>5. Eff(u[i], q[i], c) = Eff(u[i], q[i], d)
    BY <2>4 DEF Eff
  <2> QED BY <2>3, <2>5 DEF Marked
<1>7. ASSUME NEW i \in 1 .. Len(u) - 1 PROVE Joins(u[i], q[i + 1], u[i + 1])
  <2>1. /\ i + 1 \in 1 .. Len(t) - 1 /\ i \in 1 .. Len(u) /\ i + 1 \in 1 .. Len(u)
        /\ i + 1 \in 1 .. Len(u) + 1
    BY <1>1, <1>2
  <2>2. u[i] = t[i + 1] /\ q[i + 1] = a[(i + 1) + 1] /\ u[i + 1] = t[(i + 1) + 1]
    BY <1>2, <1>5, <2>1
  <2> QED BY <1>3, <2>1, <2>2
<1>8. q[1] = a[2] /\ q[Len(u) + 1] = r /\ a[2] \in Seq(Brackets) /\ p \in Seq(Brackets)
  <2>1. /\ 1 \in 1 .. Len(u) + 1 /\ Len(u) + 1 \in 1 .. Len(u) + 1 /\ (Len(u) + 1) + 1 = Len(t) + 1
        /\ 1 + 1 = 2 /\ 2 \in 1 .. Len(t) + 1 /\ 1 \in 1 .. Len(t) + 1
    BY <1>1, <1>2
  <2> QED BY <1>3, <1>5, <2>1
<1>9. \A d : Path(u, a[2], r, d)
  BY <1>5, <1>6, <1>7, <1>8 DEF Path
<1>10. Marked(t[1], p, a[2], c) /\ (Len(t) > 1 => Joins(t[1], a[2], t[2]))
  <2>1. 1 \in 1 .. Len(t) /\ 1 + 1 = 2 /\ (Len(t) > 1 => 1 \in 1 .. Len(t) - 1)
    BY <1>1
  <2> QED BY <1>3, <2>1
<1> QED BY <1>8, <1>9, <1>10

(* Items that leave the brackets as they are and may stand anywhere inside *)
(* one.                                                                    *)
PlainItems ==
  {a \in Items : /\ Spot(a) = "none" /\ a.op \notin {"skip", "recount"}
                 /\ a.op = "require" => a.arg \notin Opens \union Closes
                 /\ a.op = "call" => a.arg \notin ClosesParen \union ClosesBrace \union {"global"}}

LEMMA PlainIs ==
  ASSUME NEW a \in PlainItems, NEW p \in Seq(Brackets), Len(p) > 0, NEW c
  PROVE  /\ a \in Items /\ Spot(a) = "none" /\ a.op # "skip" /\ a.op # "recount"
         /\ Marked(a, p, p, c) /\ Eff(a, p, c) = p
         /\ \A z : (z.op \in Ops => Joins(z, p, a))
<1>1. /\ a \in Items /\ Spot(a) = "none" /\ a.op \notin {"skip", "recount"}
      /\ a.op = "require" => a.arg \notin Opens \union Closes
      /\ a.op = "call" => a.arg \notin ClosesParen \union ClosesBrace \union {"global"}
  BY DEF PlainItems
<1>2. Net(a, c) \notin Opens \union Closes
  <2>1. "none" \notin Opens \union Closes
    BY DEF Opens, Closes
  <2>2. CASE a.op = "require"
    BY <1>1, <2>2, NetIs
  <2>3. CASE a.op # "require"
    <3>1. Net(a, c) = "none"
      BY <1>1, <2>3, NetIs
    <3> QED BY <2>1, <3>1
  <2> QED BY <2>2, <2>3
<1>3. Bump(p, Net(a, c)) = p
  BY <1>2, BumpIs
<1>4. Eff(a, p, c) = p
  BY <1>1, <1>3 DEF Eff
<1>5. Enough(a, p)
  <2>1. ~Inmost(a)
    BY <1>1 DEF Inmost
  <2>2. Len(p) \in Nat /\ Len(p) >= 1
    OBVIOUS
  <2> QED BY <2>1, <2>2 DEF Enough
<1>6. Marked(a, p, p, c)
  BY <1>1, <1>4, <1>5 DEF Marked
<1>7. p # <<>>
  <2>1. Len(<<>>) = 0 /\ ~(0 > 0)
    OBVIOUS
  <2> QED BY <2>1
<1>8. ASSUME NEW z PROVE Joins(z, p, a)
  BY <1>1, <1>7 DEF Joins, Leaves
<1> QED BY <1>1, <1>4, <1>6, <1>8

LEMMA PlainPath ==
  ASSUME NEW s \in Seq(PlainItems), NEW p \in Seq(Brackets), Len(p) > 0, NEW c
  PROVE  s \in Seq(Items) /\ Path(s, p, p, c)
<1>1. Len(s) \in Nat /\ \A i \in 1 .. Len(s) : s[i] \in PlainItems
  OBVIOUS
<1>2. s \in Seq(Items)
  BY DEF PlainItems
<1>3. PICK q : q = [i \in 1 .. Len(s) + 1 |-> p]
  OBVIOUS
<1>4. q \in [1 .. Len(s) + 1 -> Seq(Brackets)] /\ \A i \in 1 .. Len(s) + 1 : q[i] = p
  BY <1>3
<1>5. ASSUME NEW i \in 1 .. Len(s) PROVE Marked(s[i], q[i], q[i + 1], c)
  <2>1. i \in 1 .. Len(s) + 1 /\ i + 1 \in 1 .. Len(s) + 1
    BY <1>1
  <2>2. q[i] = p /\ q[i + 1] = p /\ s[i] \in PlainItems
    BY <1>1, <1>4, <2>1
  <2> QED BY <2>2, PlainIs
<1>6. ASSUME NEW i \in 1 .. Len(s) - 1 PROVE Joins(s[i], q[i + 1], s[i + 1])
  <2>1. i \in 1 .. Len(s) /\ i + 1 \in 1 .. Len(s) /\ i + 1 \in 1 .. Len(s) + 1
    BY <1>1
  <2>2. q[i + 1] = p /\ s[i + 1] \in PlainItems /\ s[i] \in PlainItems
    BY <1>1, <1>4, <2>1
  <2>3. s[i].op \in Ops
    BY <2>2 DEF PlainItems, Items
  <2> QED BY <2>2, <2>3, PlainIs
<1>7. q[1] = p /\ q[Len(s) + 1] = p
  <2>1. 1 \in 1 .. Len(s) + 1 /\ Len(s) + 1 \in 1 .. Len(s) + 1
    BY <1>1
  <2> QED BY <1>4, <2>1
<1>8. Path(s, p, p, c)
  BY <1>4, <1>5, <1>6, <1>7 DEF Path
<1> QED BY <1>2, <1>8

(* An item before a sequence. *)
LEMMA PathCons ==
  ASSUME NEW a \in Items, NEW s \in Seq(Items), NEW u, u = <<a>> \o s,
         NEW p \in Seq(Brackets), NEW m \in Seq(Brackets), NEW r, NEW c,
         Marked(a, p, m, c), Path(s, m, r, c), Len(s) > 0 => Joins(a, m, s[1])
  PROVE  Path(u, p, r, c) /\ u \in Seq(Items) /\ Len(u) = Len(s) + 1
<1>1. PICK t : t = <<a>>
  OBVIOUS
<1>2. t \in Seq(Items) /\ Len(t) = 1 /\ t[1] = a
  BY <1>1
<1>3. Path(t, p, m, c)
  BY <1>1, PathOne
<1>4. u = t \o s
  BY <1>1
<1>5. Len(t) > 0 /\ Len(s) > 0 => Joins(t[Len(t)], m, s[1])
  BY <1>2
<1>6. Path(u, p, r, c)
  BY ONLY s \in Seq(Items), <1>2, <1>3, <1>4, <1>5, Path(s, m, r, c), PathConcat
<1>7. u \in Seq(Items) /\ Len(u) = Len(s) + 1
  BY <1>2, <1>4
<1> QED BY <1>6, <1>7

(* The expansion s of x, when p is open and c under the cursor. *)
SkipBegins(x, y, p, c) ==
  /\ Spot(y) = "same"  => x.arg = "type" /\ c \notin Opens \union Closes
  /\ Spot(y) = "name"  => x.arg = "var_name" /\ c \notin Opens \union Closes
  /\ Spot(y) = "open"  => x.arg = "var_rest" /\ c \in Opens
  /\ Spot(y) = "after" => c = "sym"
  /\ Spot(y) \notin {"again", "at"}
  /\ Bump(p, c) = <<>> => c \notin Ending \/ Quiet(y)

Begins(x, a) ==
  \/ Spot(a) = "none"
  \/ a.op = "to_type" /\ x.arg \in {"decl_kind", "for_kind"}
  \/ a.op = "back" /\ x.arg = "symbol"

Spelled(x, s, p, c) ==
  /\ s \in Seq(Items) /\ Path(s, p, Eff(x, p, c), c)
  /\ Len(s) > 0 => /\ Begins(x, s[1])
                   /\ Closer(s[Len(s)]) /\ Eff(x, p, c) = <<>> => Closer(x)
  /\ Len(s) > 1 /\ s[1].op = "skip" => SkipBegins(x, s[2], p, c)
  /\ Len(s) = 1 /\ s[1].op = "skip" => c \notin Ending

(* Most functions. *)
LEMMA PlainSpelled ==
  ASSUME NEW x, NEW s \in Seq(PlainItems), NEW p \in Seq(Brackets), Len(p) > 0, NEW c,
         Eff(x, p, c) = p
  PROVE  Spelled(x, s, p, c)
<1>1. s \in Seq(Items) /\ Path(s, p, p, c)
  BY PlainPath
<1>2. Len(s) > 0 => s[1] \in PlainItems
  OBVIOUS
<1>3. Len(s) > 0 => Spot(s[1]) = "none" /\ s[1].op # "skip"
  BY <1>2 DEF PlainItems
<1>4. p # <<>>
  <2>1. Len(<<>>) = 0 /\ ~(0 > 0)
    OBVIOUS
  <2> QED BY <2>1
<1>5. Len(s) > 1 => Len(s) > 0
  <2>1. Len(s) \in Nat
    OBVIOUS
  <2> QED BY <2>1
<1>6. Len(s) = 1 => Len(s) > 0
  OBVIOUS
<1> QED BY <1>1, <1>3, <1>4, <1>5, <1>6 DEF Spelled, Begins

(* A token that is no bracket is read before. *)
LEMMA SkipSpelled ==
  ASSUME NEW x, NEW s \in Seq(PlainItems), NEW p \in Seq(Brackets), Len(p) > 0, NEW c,
         Eff(x, p, c) = p, c \notin Opens \union Closes, NEW u, u = <<Skip>> \o s, Len(s) > 0
  PROVE  Spelled(x, u, p, c)
<1>1. s \in Seq(Items) /\ Path(s, p, p, c)
  BY PlainPath
<1>2. s[1] \in PlainItems /\ s[Len(s)] \in PlainItems /\ Len(s) \in Nat
  <2>1. Len(s) \in Nat /\ 1 \in 1 .. Len(s) /\ Len(s) \in 1 .. Len(s)
    OBVIOUS
  <2> QED BY <2>1
<1>3. Skip \in Items /\ Skip.op = "skip"
  BY ItemFacts
<1>4. Bump(p, c) = p
  BY BumpIs
<1>5. Net(Skip, c) = c
  BY <1>3, NetIs
<1>6. Eff(Skip, p, c) = p
  BY <1>3, <1>4, <1>5 DEF Eff
<1>7. Marked(Skip, p, p, c)
  BY <1>3, <1>6 DEF Marked, Enough, Outer, Inmost
<1>8. Joins(Skip, p, s[1])
  <2>1. Skip.op \in Ops
    BY <1>3 DEF Ops
  <2> QED BY <1>2, <2>1, PlainIs
<1>9. Path(u, p, p, c) /\ u \in Seq(Items) /\ Len(u) = Len(s) + 1
  BY <1>1, <1>3, <1>7, <1>8, PathCons
<1>10. u[1] = Skip /\ u[2] = s[1]
  <2>1. PICK t : t = <<Skip>>
    OBVIOUS
  <2>2. t \in Seq(Items) /\ Len(t) = 1 /\ t[1] = Skip /\ u = t \o s
    BY <1>3, <2>1
  <2>3. \A i \in 1 .. Len(u) : u[i] = IF i <= 1 THEN t[i] ELSE s[i - 1]
    <3>1. \A i \in 1 .. Len(u) : u[i] = IF i <= Len(t) THEN t[i] ELSE s[i - Len(t)]
      <4>1. t \in Seq(Items) /\ s \in Seq(Items) /\ u = t \o s
        BY <1>1, <2>2
      <4> QED BY ONLY <4>1, Joint, SMT
    <3> QED BY <2>2, <3>1
  <2>4. 1 \in 1 .. Len(u) /\ 2 \in 1 .. Len(u) /\ ~(2 <= 1) /\ 2 - 1 = 1 /\ 1 <= 1
    BY <1>2, <1>9
  <2> QED BY <2>2, <2>3, <2>4
<1>11. Spot(Skip) = "none"
  BY <1>3 DEF Spot
<1>12. Begins(x, u[1])
  BY <1>10, <1>11 DEF Begins
<1>13. p # <<>>
  <2>1. Len(<<>>) = 0 /\ ~(0 > 0)
    OBVIOUS
  <2> QED BY <2>1
<1>14. Spot(s[1]) = "none"
  BY <1>2 DEF PlainItems
<1>15. SkipBegins(x, u[2], p, c)
  BY <1>4, <1>10, <1>13, <1>14 DEF SkipBegins
<1>16. Len(u) # 1
  BY <1>2, <1>9
<1> QED BY <1>9, <1>12, <1>13, <1>15, <1>16 DEF Spelled

(* The plain ones, one by one. *)
PlainFns ==
  {"logical_or", "prefix_unary", "postfix_unary", "postfix_op", "primary",
   "paren_member", "struct_field_access", "next_field", "next_index", "expr",
   "assignment", "assign_op", "comma", "constant", "type", "return_type",
   "array_decl_without_initializer", "array_name", "first_dim", "next_dim",
   "array_decl", "array_body", "decl_without_initializer",
   "var_decl_without_initializer", "var_decl", "decl", "struct_decl",
   "struct_var_decl", "struct_dims", "struct_array_body",
   "function_param_list", "function_decl", "function_body", "stmt",
   "symbol_stmt", "loop_semicolon", "block", "semicolon", "selection_stmt",
   "else_body", "iteration_stmt", "jump_stmt", "return_value", "for",
   "do_while", "while", "iteration_block", "loop_stmt"}
PlainRequired == {",", ":", ";", "=", "do", "for", "if", "return", "struct", "sym", "while"}

PlainCallsIn(E) ==
  /\ Call("logical_or") \in E /\ Call("prefix_unary") \in E
  /\ Call("postfix_unary") \in E /\ Call("postfix_op") \in E /\ Call("primary") \in E
  /\ Call("paren_member") \in E /\ Call("struct_field_access") \in E
  /\ Call("next_field") \in E /\ Call("next_index") \in E /\ Call("expr") \in E
  /\ Call("assignment") \in E /\ Call("assign_op") \in E /\ Call("comma") \in E
  /\ Call("constant") \in E /\ Call("type") \in E /\ Call("return_type") \in E
  /\ Call("array_decl_without_initializer") \in E /\ Call("array_name") \in E
  /\ Call("first_dim") \in E /\ Call("next_dim") \in E /\ Call("array_decl") \in E
  /\ Call("array_body") \in E /\ Call("decl_without_initializer") \in E
  /\ Call("var_decl_without_initializer") \in E /\ Call("var_decl") \in E
  /\ Call("decl") \in E /\ Call("struct_decl") \in E /\ Call("struct_var_decl") \in E
  /\ Call("struct_dims") \in E /\ Call("struct_array_body") \in E
  /\ Call("function_param_list") \in E /\ Call("function_decl") \in E
  /\ Call("function_body") \in E /\ Call("stmt") \in E /\ Call("symbol_stmt") \in E
  /\ Call("loop_semicolon") \in E /\ Call("block") \in E /\ Call("semicolon") \in E
  /\ Call("selection_stmt") \in E /\ Call("else_body") \in E
  /\ Call("iteration_stmt") \in E /\ Call("jump_stmt") \in E
  /\ Call("return_value") \in E /\ Call("for") \in E /\ Call("do_while") \in E
  /\ Call("while") \in E /\ Call("iteration_block") \in E /\ Call("loop_stmt") \in E
PlainRequiresIn(E) ==
  /\ Require(",") \in E /\ Require(":") \in E /\ Require(";") \in E /\ Require("=") \in E
  /\ Require("do") \in E /\ Require("for") \in E /\ Require("if") \in E
  /\ Require("return") \in E /\ Require("struct") \in E /\ Require("sym") \in E
  /\ Require("while") \in E
PlainMakesIn(E) ==
  /\ Make("array_access") \in E /\ Make("array_decl") \in E /\ Make("break") \in E
  /\ Make("compound") \in E /\ Make("constant") \in E /\ Make("continue") \in E
  /\ Make("do_while") \in E /\ Make("for") \in E /\ Make("for_range") \in E
  /\ Make("function_call") \in E /\ Make("function_decl") \in E /\ Make("if") \in E
  /\ Make("int") \in E /\ Make("member") \in E /\ Make("postfix_unary") \in E
  /\ Make("prefix_unary") \in E /\ Make("return") \in E /\ Make("struct_decl") \in E
  /\ Make("symbol") \in E /\ Make("var_decl") \in E /\ Make("while") \in E
PlainOthersIn(E) ==
  /\ Paren \in E /\ NeedInt \in E /\ Deepen \in E /\ Shallow \in E /\ Binary(0) \in E
  /\ Fail \in Seq(E)
PlainIn(E) == PlainCallsIn(E) /\ PlainRequiresIn(E) /\ PlainMakesIn(E) /\ PlainOthersIn(E)

LEMMA PlainInIs == PlainIn(PlainItems)
<1> DEFINE E == PlainItems
<1>1. /\ PlainFns \subseteq ParseFns
      /\ \A f \in PlainFns : f \notin ClosesParen \union ClosesBrace \union {"global"}
      /\ \A f \in PlainFns : f \notin {"var_name", "decl_kind", "for_kind", "var_rest", "symbol",
                                   "function_call", "array_access"}
  BY DEF PlainFns, ParseFns, OneToken, TwoTokens, NoToken, ClosesParen, ClosesBrace
<1>2. ASSUME NEW f \in PlainFns PROVE Call(f) \in E
  <2>1. PICK a : a = Call(f)
    OBVIOUS
  <2>2. a \in Items /\ a.op = "call" /\ a.arg = f
    BY <1>1, <2>1, ItemFacts
  <2>3. Spot(a) = "none"
    BY <1>1, <2>2 DEF Spot
  <2>4. a \in E
    BY <1>1, <2>2, <2>3 DEF PlainItems
  <2> QED BY <2>1, <2>4
<1>3. ASSUME NEW t \in PlainRequired PROVE Require(t) \in E
  <2>1. t \in Required /\ t \notin Opens \union Closes
    BY DEF PlainRequired, Required, Opens, Closes
  <2>2. PICK a : a = Require(t)
    OBVIOUS
  <2>3. a \in Items /\ a.op = "require" /\ a.arg = t
    <3>1. a \in Items /\ a.op = "require"
      BY <2>1, <2>2, ItemFacts
    <3>2. a.arg = t
      BY <2>2 DEF Require, Item
    <3> QED BY <3>1, <3>2
  <2>4. Spot(a) = "none"
    BY <2>3 DEF Spot
  <2>5. a \in E
    BY <2>1, <2>3, <2>4 DEF PlainItems
  <2> QED BY <2>2, <2>5
<1>4. ASSUME NEW a \in Items, a.op \in {"make", "paren", "need_int", "deepen", "shallow", "binary",
                                     "climb", "error"}
      PROVE  a \in E
  <2>1. Spot(a) = "none"
    BY <1>4 DEF Spot
  <2> QED BY <1>4, <2>1 DEF PlainItems
<1>5. /\ \A t \in Made : Make(t) \in E
      /\ Paren \in E /\ NeedInt \in E /\ Deepen \in E /\ Shallow \in E /\ Fail[1] \in E
  BY <1>4, ItemFacts
<1>6. Binary(0) \in E
  <2>1. "binary" \in Ops /\ "none" \in Args /\ 0 \in Levels
    BY DEF Ops, Args, Levels
  <2>2. Binary(0) \in Items /\ Binary(0).op = "binary"
    BY <2>1, ItemIs DEF Binary
  <2> QED BY <1>4, <2>2
<1>7. Fail \in Seq(E)
  <2>1. PICK e \in E : e = Fail[1] /\ Fail = <<e>>
    BY <1>5, ItemFacts
  <2> QED BY <2>1
<1> HIDE DEF E
<1>8. PlainCallsIn(E)
  BY <1>2 DEF PlainCallsIn, PlainFns
<1>9. PlainRequiresIn(E)
  BY <1>3, Zenon DEF PlainRequiresIn, PlainRequired
<1>10. PlainMakesIn(E)
  BY <1>5 DEF PlainMakesIn, Made
<1>11. PlainOthersIn(E)
  BY <1>5, <1>6, <1>7, Zenon DEF PlainOthersIn
<1> QED BY <1>8, <1>9, <1>10, <1>11 DEF E, PlainIn

(* Sequences written out, in parts. *)
LEMMA Parts ==
  /\ \A a, b : <<a, b>> = <<a>> \o <<b>> /\ <<a, b>>[1] = a /\ <<a, b>>[2] = b
  /\ \A a, b, d : <<a, b, d>> = <<a>> \o <<b, d>>
  /\ \A a, b, d, e : <<a, b, d, e>> = <<a>> \o <<b, d, e>>
<1>1. ASSUME NEW a, NEW b PROVE <<a, b>> = <<a>> \o <<b>> /\ <<a, b>>[1] = a /\ <<a, b>>[2] = b
  <2>1. <<a, b>>[1] = a /\ <<a, b>>[2] = b
    OBVIOUS
  <2>2. <<a, b>> = <<a>> \o <<b>>
    <3>1. PICK s, t, d : s = <<a>> /\ t = <<b>> /\ d = s \o t
      OBVIOUS
    <3>2. /\ s \in Seq({a, b}) /\ Len(s) = 1 /\ s[1] = a
          /\ t \in Seq({a, b}) /\ Len(t) = 1 /\ t[1] = b
      BY <3>1
    <3>3. /\ d \in Seq({a, b}) /\ Len(d) = Len(s) + Len(t)
          /\ \A i \in 1 .. Len(d) : d[i] = IF i <= Len(s) THEN s[i] ELSE t[i - Len(s)]
      BY <3>1, <3>2, Joint
    <3>4. Len(d) = 2 /\ d[1] = a /\ d[2] = b
      BY <3>2, <3>3
    <3>5. PICK u : u = <<a, b>>
      OBVIOUS
    <3>6. u \in Seq({a, b}) /\ Len(u) = 2 /\ u[1] = a /\ u[2] = b
      BY <3>5
    <3>7. d = u
      BY <3>3, <3>4, <3>6, SeqEqual
    <3> QED BY <3>1, <3>5, <3>7
  <2> QED BY <2>1, <2>2
<1>2. ASSUME NEW a, NEW b, NEW d PROVE <<a, b, d>> = <<a>> \o <<b, d>>
  OBVIOUS
<1>3. ASSUME NEW a, NEW b, NEW d, NEW e PROVE <<a, b, d, e>> = <<a>> \o <<b, d, e>>
  OBVIOUS
<1> QED BY <1>1, <1>2, <1>3, Zenon

(* A call changes the brackets by its token. *)
LEMMA CallEff ==
  ASSUME NEW f \in ParseFns, NEW p \in Seq(Brackets), NEW c
  PROVE  /\ Call(f) \in Items /\ Call(f).op = "call" /\ Call(f).arg = f
         /\ Eff(Call(f), p, c) \in Seq(Brackets)
         /\ f \in ClosesParen => Eff(Call(f), p, c) = Bump(p, ")")
         /\ f \in ClosesBrace => Eff(Call(f), p, c) = Bump(p, "}")
         /\ f \notin ClosesParen \union ClosesBrace => Eff(Call(f), p, c) = p
<1>1. PICK x : x = Call(f)
  OBVIOUS
<1>2. x \in Items /\ x.op = "call" /\ x.arg = f
  BY <1>1, ItemFacts
<1>3. Eff(x, p, c) = Bump(p, Net(x, c))
  BY <1>2 DEF Eff
<1>4. Bump(p, "none") = p
  <2>1. "none" \notin Opens \union Closes
    BY DEF Opens, Closes
  <2> QED BY <2>1, BumpIs
<1>5. /\ f \in ClosesParen => Net(x, c) = ")"
      /\ f \in ClosesBrace => Net(x, c) = "}"
      /\ f \notin ClosesParen \union ClosesBrace => Net(x, c) = "none"
  BY <1>2, NetIs
<1>6. Bump(p, Net(x, c)) \in Seq(Brackets)
  BY BumpIs
<1> QED BY <1>1, <1>2, <1>3, <1>4, <1>5, <1>6

(* The parser gives up. *)
LEMMA FailSpelled ==
  ASSUME NEW f \in ParseFns, NEW p \in Seq(Brackets), NEW c
  PROVE  Spelled(Call(f), Fail, p, c) /\ Spelled(Call(f), <<Skip>> \o Fail, p, c)
<1>1. PICK x, r : x = Call(f) /\ r = Eff(x, p, c) /\ r \in Seq(Brackets)
  BY CallEff
<1>2. PICK e : e = Fail[1] /\ Fail = <<e>> /\ e \in Items /\ e.op = "error"
  BY ItemFacts
<1>3. Skip \in Items /\ Skip.op = "skip"
  BY ItemFacts
<1>4. ASSUME NEW q \in Seq(Brackets) PROVE Marked(e, q, r, c)
  BY <1>2 DEF Marked, Enough, Outer, Inmost
<1>0. PICK s : s = <<e>>
  OBVIOUS
<1>5. s = <<e>> /\ s \in Seq(Items) /\ Len(s) = 1 /\ s[1] = e
  BY <1>0, <1>2
<1>6. ASSUME NEW q \in Seq(Brackets) PROVE Path(s, q, r, c)
  BY <1>1, <1>4, <1>5, PathOne
<1>7. Spot(e) = "none" /\ ~Closer(e) /\ Spot(Skip) = "none" /\ Quiet(e)
  BY <1>2, <1>3 DEF Spot, Closer, Quiet
<1>8. Spelled(x, s, p, c)
  BY <1>1, <1>2, <1>5, <1>6, <1>7 DEF Spelled, Begins
<1>9. PICK q : q = Bump(p, c) /\ q \in Seq(Brackets)
  BY BumpIs
<1>10. Marked(Skip, p, q, c)
  <2>1. Eff(Skip, p, c) = q
    <3>1. Net(Skip, c) = c
      BY <1>3, NetIs
    <3> QED BY <1>3, <1>9, <3>1 DEF Eff
  <2> QED BY <1>3, <2>1 DEF Marked, Enough, Outer, Inmost
<1>11. Joins(Skip, q, e)
  BY <1>2, <1>3, <1>7 DEF Joins, Leaves
<1>12. PICK u : u = <<Skip>> \o s
  OBVIOUS
<1>13. Path(u, p, r, c) /\ u \in Seq(Items) /\ Len(u) = 2
  <2>1. Path(s, q, r, c) /\ (Len(s) > 0 => Joins(Skip, q, s[1]))
    BY <1>5, <1>6, <1>9, <1>11
  <2>2. Path(u, p, r, c) /\ u \in Seq(Items) /\ Len(u) = Len(s) + 1
    BY <1>3, <1>5, <1>9, <1>10, <1>12, <2>1, PathCons
  <2> QED BY <1>5, <2>2
<1>14. u[1] = Skip /\ u[2] = e
  <2>1. u = <<Skip>> \o <<e>>
    BY <1>0, <1>12
  <2>2. u = <<Skip, e>>
    BY <2>1, Parts, Zenon
  <2> QED BY <2>2, Parts, Zenon
<1>15. Spelled(x, u, p, c)
  BY <1>1, <1>2, <1>7, <1>13, <1>14 DEF Spelled, Begins, SkipBegins
<1> QED BY <1>1, <1>2, <1>5, <1>8, <1>12, <1>15

(* The forms of a plain function. *)
Shape(u, E, c) ==
  \/ u \in Seq(E)
  \/ c \notin Opens \union Closes /\ \E s \in Seq(E) : Len(s) > 0 /\ u = <<Skip>> \o s
  \/ u = <<Skip>> \o Fail

LEMMA ShapeSpelled ==
  ASSUME NEW f \in ParseFns \ (ClosesParen \union ClosesBrace),
         NEW p \in Seq(Brackets), Len(p) > 0, NEW c, NEW u, Shape(u, PlainItems, c)
  PROVE  Spelled(Call(f), u, p, c)
<1>1. f \in ParseFns /\ Eff(Call(f), p, c) = p
  BY CallEff
<1>2. CASE u \in Seq(PlainItems)
  BY <1>1, <1>2, PlainSpelled
<1>3. CASE c \notin Opens \union Closes /\ \E s \in Seq(PlainItems) : Len(s) > 0 /\ u = <<Skip>> \o s
  BY <1>1, <1>3, SkipSpelled
<1>4. CASE u = <<Skip>> \o Fail
  BY <1>1, <1>4, FailSpelled
<1> QED BY <1>2, <1>3, <1>4 DEF Shape

(* A path inside some bracket that begins with an item which may stand     *)
(* anywhere.                                                               *)
Anywhere(a) == Spot(a) = "none" /\ a.op # "skip"
Route(u, p, r, c) ==
  u \in Seq(Items) /\ Path(u, p, r, c) /\ (Len(u) > 0 => Anywhere(u[1]))

LEMMA AnywhereJoins ==
  ASSUME NEW p \in Seq(Brackets), Len(p) > 0, NEW y, Anywhere(y)
  PROVE  \A z : Joins(z, p, y)
<1>1. p # <<>>
  <2>1. Len(<<>>) = 0 /\ ~(0 > 0)
    OBVIOUS
  <2> QED BY <2>1
<1> QED BY <1>1 DEF Joins, Leaves, Anywhere

LEMMA RoutePlain ==
  ASSUME NEW s \in Seq(PlainItems), NEW p \in Seq(Brackets), Len(p) > 0, NEW c
  PROVE  Route(s, p, p, c)
<1>1. s \in Seq(Items) /\ Path(s, p, p, c)
  BY PlainPath
<1>2. Len(s) > 0 => s[1] \in PlainItems
  OBVIOUS
<1>3. Len(s) > 0 => Anywhere(s[1])
  BY <1>2 DEF PlainItems, Anywhere
<1> QED BY <1>1, <1>3 DEF Route

LEMMA RouteCons ==
  ASSUME NEW a \in Items, Anywhere(a), NEW p \in Seq(Brackets), NEW m \in Seq(Brackets),
         NEW r, NEW c, Marked(a, p, m, c), NEW s, Route(s, m, r, c), NEW u, u = <<a>> \o s,
         Len(m) > 0 \/ ~Closer(a) \/ (Len(s) > 0 => Quiet(s[1]))
  PROVE  Route(u, p, r, c)
<1>1. s \in Seq(Items) /\ Path(s, m, r, c) /\ (Len(s) > 0 => Joins(a, m, s[1]))
  <2>1. m # <<>> \/ ~Closer(a) \/ (Len(s) > 0 => Quiet(s[1]))
    <3>1. Len(<<>>) = 0 /\ ~(0 > 0)
      OBVIOUS
    <3> QED BY <3>1
  <2> QED BY <2>1 DEF Route, Joins, Leaves, Anywhere
<1>2. Path(u, p, r, c) /\ u \in Seq(Items)
  BY <1>1, PathCons
<1>3. u[1] = a
  <2>1. PICK t : t = <<a>>
    OBVIOUS
  <2>2. t \in Seq(Items) /\ Len(t) = 1 /\ t[1] = a /\ s \in Seq(Items) /\ u = t \o s
    BY <1>1, <2>1
  <2>3. /\ Len(u) = Len(t) + Len(s) /\ Len(s) \in Nat
        /\ \A i \in 1 .. Len(u) : u[i] = IF i <= Len(t) THEN t[i] ELSE s[i - Len(t)]
    <3>1. t \in Seq(Items) /\ s \in Seq(Items) /\ u = t \o s
      BY <2>2
    <3> QED BY ONLY <3>1, Joint, SMT
  <2>4. 1 \in 1 .. Len(u) /\ 1 <= Len(t)
    BY <2>2, <2>3
  <2> QED BY <2>2, <2>3, <2>4
<1> QED BY <1>2, <1>3 DEF Route

LEMMA RouteConcat ==
  ASSUME NEW p, NEW m \in Seq(Brackets), Len(m) > 0, NEW r, NEW c,
         NEW s, Route(s, p, m, c), NEW t, Route(t, m, r, c), NEW u, u = s \o t
  PROVE  Route(u, p, r, c)
<1>1. /\ s \in Seq(Items) /\ t \in Seq(Items) /\ Path(s, p, m, c) /\ Path(t, m, r, c)
      /\ Len(s) > 0 => Anywhere(s[1])
      /\ Len(t) > 0 => Anywhere(t[1])
  BY DEF Route
<1>2. Len(s) > 0 /\ Len(t) > 0 => Joins(s[Len(s)], m, t[1])
  BY <1>1, AnywhereJoins
<1>3. Path(u, p, r, c)
  BY ONLY <1>1, <1>2, u = s \o t, PathConcat
<1>4. /\ u \in Seq(Items) /\ Len(u) = Len(s) + Len(t) /\ Len(s) \in Nat /\ Len(t) \in Nat
      /\ \A i \in 1 .. Len(u) : u[i] = IF i <= Len(s) THEN s[i] ELSE t[i - Len(s)]
  <2>1. s \in Seq(Items) /\ t \in Seq(Items) /\ u = s \o t
    BY <1>1
  <2> QED BY ONLY <2>1, Joint, SMT
<1>5. Len(u) > 0 => Anywhere(u[1])
  <2> SUFFICES ASSUME Len(u) > 0 PROVE Anywhere(u[1])
    OBVIOUS
  <2>1. 1 \in 1 .. Len(u)
    BY <1>4
  <2>2. CASE Len(s) > 0
    <3>1. 1 <= Len(s)
      BY <1>4, <2>2
    <3> QED BY <1>1, <1>4, <2>1, <2>2, <3>1
  <2>3. CASE Len(s) = 0
    <3>1. ~(1 <= Len(s)) /\ 1 - Len(s) = 1 /\ Len(t) > 0
      BY <1>4, <2>3
    <3> QED BY <1>1, <1>4, <2>1, <3>1
  <2> QED BY <1>4, <2>2, <2>3
<1> QED BY <1>3, <1>4, <1>5 DEF Route

(* A token is required. *)
LEMMA RequireIs ==
  ASSUME NEW t \in Required, NEW p \in Seq(Brackets), NEW c,
         Len(p) > 0 \/ t \in OuterTokens
  PROVE  /\ Require(t) \in Items /\ Anywhere(Require(t)) /\ Require(t).op = "require"
         /\ Require(t).arg = t /\ Marked(Require(t), p, Bump(p, t), c)
         /\ Closer(Require(t)) => t \in Ending
<1>1. PICK a : a = Require(t)
  OBVIOUS
<1>2. a \in Items /\ a.op = "require" /\ a.arg = t
  <2>1. a \in Items /\ a.op = "require"
    BY <1>1, ItemFacts
  <2>2. a.arg = t
    BY <1>1 DEF Require, Item
  <2> QED BY <2>1, <2>2
<1>3. Anywhere(a) /\ (Closer(a) => t \in Ending)
  BY <1>2 DEF Anywhere, Spot, Closer
<1>4. Eff(a, p, c) = Bump(p, t)
  <2>1. Net(a, c) = t
    BY <1>2, NetIs
  <2> QED BY <1>2, <2>1 DEF Eff
<1>5. Len(p) \in Nat
  OBVIOUS
<1>6. Enough(a, p)
  <2>1. ~Inmost(a) /\ (t \in OuterTokens => Outer(a))
    BY <1>2 DEF Inmost, Outer
  <2>2. Len(p) > 0 => Len(p) >= 1
    BY <1>5
  <2> QED BY <2>1, <2>2, Zenon DEF Enough
<1>7. Marked(a, p, Bump(p, t), c)
  BY <1>2, <1>4, <1>6 DEF Marked
<1> QED BY <1>1, <1>2, <1>3, <1>7

LEMMA RequireRoute ==
  ASSUME NEW t \in Required, NEW p \in Seq(Brackets), NEW c, NEW m, m = Bump(p, t),
         Len(p) > 0 \/ t \in OuterTokens,
         NEW r, NEW s, Route(s, m, r, c), NEW u, u = <<Require(t)>> \o s,
         Len(m) > 0 \/ t \notin Ending \/ (Len(s) > 0 => Quiet(s[1]))
  PROVE  Route(u, p, r, c)
<1>1. PICK a : /\ a = Require(t) /\ a \in Items /\ Anywhere(a) /\ Marked(a, p, m, c)
               /\ Closer(a) => t \in Ending
  BY RequireIs
<1>2. m \in Seq(Brackets)
  BY BumpIs
<1> QED BY <1>1, <1>2, RouteCons

(* A bracket is opened and closed. *)
LEMMA BracketRoute ==
  ASSUME NEW s1 \in Seq(PlainItems), NEW s2 \in Seq(PlainItems), NEW s3 \in Seq(PlainItems),
         NEW t \in Required, NEW m \in Required, Pair(t, m),
         NEW p \in Seq(Brackets), Len(p) > 0, NEW c,
         NEW u, u = s1 \o (<<Require(t)>> \o (s2 \o (<<Require(m)>> \o s3)))
  PROVE  Route(u, p, p, c)
<1>1. PICK q : q = Bump(p, t) /\ q \in Seq(Brackets) /\ Len(q) > 0
  <2>1. t \in Opens
    BY PairIs
  <2>2. Bump(p, t) \in Seq(Brackets) /\ Len(Bump(p, t)) = Len(p) + 1 /\ Len(p) \in Nat
    BY <2>1, BumpIs
  <2> QED BY <2>2
<1>2. Bump(q, m) = p
  BY <1>1, BumpPair
<1>3. PICK v : v = <<Require(m)>> \o s3
  OBVIOUS
<1>4. Route(v, q, p, c)
  BY <1>1, <1>2, <1>3, RoutePlain, RequireRoute
<1>5. PICK w : w = s2 \o v
  OBVIOUS
<1>6. Route(w, q, p, c)
  BY <1>1, <1>4, <1>5, RoutePlain, RouteConcat
<1>7. PICK z : z = <<Require(t)>> \o w
  OBVIOUS
<1>8. Route(z, p, p, c)
  BY <1>1, <1>6, <1>7, RequireRoute
<1>9. Route(s1, p, p, c)
  BY RoutePlain
<1>10. u = s1 \o z
  BY <1>3, <1>5, <1>7
<1> QED BY <1>8, <1>9, <1>10, RouteConcat

(* What the caller opened is closed. *)
LEMMA ClosingRoute ==
  ASSUME NEW s1 \in Seq(PlainItems), NEW s2 \in Seq(PlainItems), NEW m \in Required,
         NEW p \in Seq(Brackets), Len(p) > 1, NEW c,
         NEW u, u = s1 \o (<<Require(m)>> \o s2)
  PROVE  Route(u, p, Bump(p, m), c) /\ Len(Bump(p, m)) > 0
<1>1. PICK q : q = Bump(p, m) /\ q \in Seq(Brackets) /\ Len(q) > 0 /\ Len(p) > 0
  <2>1. Bump(p, m) \in Seq(Brackets) /\ Len(Bump(p, m)) >= Len(p) - 1 /\ Len(p) \in Nat
        /\ Len(Bump(p, m)) \in Nat
    BY BumpIs
  <2> QED BY <2>1
<1>2. PICK v : v = <<Require(m)>> \o s2
  OBVIOUS
<1>3. Route(v, p, q, c)
  BY <1>1, <1>2, RoutePlain, RequireRoute
<1>4. Route(s1, p, p, c)
  BY <1>1, RoutePlain
<1>5. u = s1 \o v
  BY <1>2
<1>6. Route(u, p, q, c)
  BY <1>1, <1>3, <1>4, <1>5, RouteConcat
<1> QED BY <1>1, <1>6

LEMMA RouteSpelled ==
  ASSUME NEW x, NEW p, NEW c, NEW r \in Seq(Brackets), r = Eff(x, p, c),
         NEW u, Route(u, p, r, c), Len(r) > 0 \/ Closer(x) \/ (Len(u) > 0 => ~Closer(u[Len(u)]))
  PROVE  Spelled(x, u, p, c)
<1>1. r # <<>> \/ Closer(x) \/ (Len(u) > 0 => ~Closer(u[Len(u)]))
  <2>1. Len(<<>>) = 0 /\ ~(0 > 0)
    OBVIOUS
  <2> QED BY <2>1
<1>2. Len(u) \in Nat
  BY DEF Route
<1>3. Len(u) > 1 => Len(u) > 0
  BY <1>2
<1>4. Len(u) = 1 => Len(u) > 0
  BY <1>2
<1> QED BY <1>1, <1>3, <1>4 DEF Spelled, Route, Begins, Anywhere

(* The forms, written out. *)
LEMMA Shapes ==
  ASSUME NEW E, Fail \in Seq(E), NEW c
  PROVE  /\ Shape(<<>>, E, c) /\ Shape(Fail, E, c) /\ Shape(<<Skip>> \o Fail, E, c)
         /\ \A a \in E : Shape(<<a>>, E, c)
         /\ \A a, b \in E : Shape(<<a, b>>, E, c)
         /\ \A a, b, d \in E : Shape(<<a, b, d>>, E, c)
         /\ \A a, b, d, e \in E : Shape(<<a, b, d, e>>, E, c)
         /\ c \notin Opens \union Closes =>
              /\ \A a \in E : Shape(<<Skip, a>>, E, c) /\ Shape(<<Skip>> \o <<a>>, E, c)
              /\ \A a, b \in E : Shape(<<Skip, a, b>>, E, c)
              /\ \A a, b, d \in E : Shape(<<Skip, a, b, d>>, E, c)
              /\ \A a, b, d, e \in E : Shape(<<Skip, a, b, d, e>>, E, c)
<1>1. /\ Shape(<<>>, E, c) /\ Shape(Fail, E, c) /\ Shape(<<Skip>> \o Fail, E, c)
      /\ \A a \in E : Shape(<<a>>, E, c)
      /\ \A a, b \in E : Shape(<<a, b>>, E, c)
      /\ \A a, b, d \in E : Shape(<<a, b, d>>, E, c)
      /\ \A a, b, d, e \in E : Shape(<<a, b, d, e>>, E, c)
  BY Tuples, Zenon DEF Shape
<1>2. ASSUME c \notin Opens \union Closes
      PROVE  /\ \A a \in E : Shape(<<Skip, a>>, E, c) /\ Shape(<<Skip>> \o <<a>>, E, c)
             /\ \A a, b \in E : Shape(<<Skip, a, b>>, E, c)
             /\ \A a, b, d \in E : Shape(<<Skip, a, b, d>>, E, c)
             /\ \A a, b, d, e \in E : Shape(<<Skip, a, b, d, e>>, E, c)
  <2>0. ASSUME NEW s \in Seq(E), Len(s) > 0, NEW u, u = <<Skip>> \o s PROVE Shape(u, E, c)
    BY <1>2, <2>0, Zenon DEF Shape
  <2>1. /\ \A a \in E : <<a>> \in Seq(E) /\ Len(<<a>>) > 0
        /\ \A a, b \in E : <<a, b>> \in Seq(E) /\ Len(<<a, b>>) > 0
        /\ \A a, b, d \in E : <<a, b, d>> \in Seq(E) /\ Len(<<a, b, d>>) > 0
        /\ \A a, b, d, e \in E : <<a, b, d, e>> \in Seq(E) /\ Len(<<a, b, d, e>>) > 0
    OBVIOUS
  <2>2. /\ \A a : <<Skip, a>> = <<Skip>> \o <<a>>
        /\ \A a, b : <<Skip, a, b>> = <<Skip>> \o <<a, b>>
        /\ \A a, b, d : <<Skip, a, b, d>> = <<Skip>> \o <<a, b, d>>
    BY Parts, Zenon
  <2>3. \A a, b, d, e : <<Skip, a, b, d, e>> = <<Skip>> \o <<a, b, d, e>>
    OBVIOUS
  <2>4. /\ \A a \in E : Shape(<<Skip, a>>, E, c) /\ Shape(<<Skip>> \o <<a>>, E, c)
        /\ \A a, b \in E : Shape(<<Skip, a, b>>, E, c)
    BY <2>0, <2>1, <2>2, Zenon
  <2>5. ASSUME NEW a \in E, NEW b \in E, NEW d \in E PROVE Shape(<<Skip, a, b, d>>, E, c)
    <3>1. <<a, b, d>> \in Seq(E) /\ Len(<<a, b, d>>) > 0 /\ <<Skip, a, b, d>> = <<Skip>> \o <<a, b, d>>
      BY <2>1, <2>2, Zenon
    <3> QED BY <2>0, <3>1, Zenon
  <2>6. ASSUME NEW a \in E, NEW b \in E, NEW d \in E, NEW e \in E PROVE Shape(<<Skip, a, b, d, e>>, E, c)
    <3>1. <<a, b, d, e>> \in Seq(E) /\ Len(<<a, b, d, e>>) > 0 /\ <<Skip, a, b, d, e>> = <<Skip>> \o <<a, b, d, e>>
      BY <2>1, <2>3, Zenon
    <3> QED BY <2>0, <3>1, Zenon
  <2> QED BY <2>4, <2>5, <2>6
<1> QED BY <1>1, <1>2

LEMMA Words ==
  LET B == Opens \union Closes IN
  /\ "&" \notin B /\ "*" \notin B /\ "++" \notin B /\ "." \notin B /\ "=" \notin B
  /\ "sym" \notin B /\ "num" \notin B /\ "lit" \notin B /\ "int" \notin B /\ "void" \notin B
  /\ "break" \notin B /\ "continue" \notin B /\ "else" \notin B /\ ";" \notin B
BY DEF Opens, Closes


(* Functions that look at one token and leave the brackets alone. *)
LEMMA PlainOne ==
  ASSUME NEW f \in {"prefix_unary", "postfix_op", "paren_member", "next_field", "expr",
                 "assign_op", "comma", "constant", "array_name", "first_dim", "array_body",
                 "decl", "struct_dims", "function_param_list", "stmt", "loop_stmt",
                 "else_body", "return_value"},
         NEW p \in Seq(Brackets), Len(p) > 0, NEW c
  PROVE  Spelled(Call(f), Calls1(f, c), p, c)
<1>1. f \in ParseFns \ (ClosesParen \union ClosesBrace)
  BY DEF ParseFns, OneToken, TwoTokens, NoToken, ClosesParen, ClosesBrace
<1>2. PICK E : E = PlainItems
  OBVIOUS
<1>3. PlainIn(E) /\ Fail \in Seq(E)
  BY <1>2, PlainInIs DEF PlainIn, PlainOthersIn
<1> SUFFICES Shape(Calls1(f, c), E, c)
  BY <1>1, <1>2, ShapeSpelled
<1>4. CASE f = "prefix_unary"
  <2>1. Calls1(f, c) = parse_prefix_unary(c)
    BY <1>4 DEF Calls1
  <2>2. /\ Call("prefix_unary") \in E /\ Make("prefix_unary") \in E
        /\ Call("postfix_unary") \in E
    BY <1>3, Zenon DEF PlainIn, PlainCallsIn, PlainRequiresIn, PlainMakesIn, PlainOthersIn
  <2>3. c \in {"&", "*", "++"} => c \notin Opens \union Closes
    BY Words, Zenon
  <2>4. \/ parse_prefix_unary(c) = <<Call("postfix_unary")>>
        \/ /\ c \notin Opens \union Closes
           /\ parse_prefix_unary(c) = <<Skip, Call("prefix_unary"), Make("prefix_unary")>>
    BY ONLY <2>3, Zenon DEF parse_prefix_unary
  <2> QED BY ONLY <1>3, <2>1, <2>2, <2>4, Shapes, Zenon
<1>5. CASE f = "postfix_op"
  <2>1. Calls1(f, c) = postfix_op(c)
    BY <1>5 DEF Calls1
  <2>2. Make("postfix_unary") \in E
    BY <1>3, Zenon DEF PlainIn, PlainCallsIn, PlainRequiresIn, PlainMakesIn, PlainOthersIn
  <2> QED BY ONLY <1>3, <2>1, <2>2, Shapes, Words, Zenon DEF postfix_op
<1>6. CASE f = "paren_member"
  <2>1. Calls1(f, c) = paren_member(c)
    BY <1>6 DEF Calls1
  <2>2. Call("struct_field_access") \in E /\ Make("member") \in E
    BY <1>3, Zenon DEF PlainIn, PlainCallsIn, PlainRequiresIn, PlainMakesIn, PlainOthersIn
  <2> QED BY ONLY <1>3, <2>1, <2>2, Shapes, Words, Zenon DEF paren_member
<1>7. CASE f = "next_field"
  <2>1. Calls1(f, c) = next_field(c)
    BY <1>7 DEF Calls1
  <2>2. Call("struct_field_access") \in E /\ Make("member") \in E /\ Make("symbol") \in E
    BY <1>3, Zenon DEF PlainIn, PlainCallsIn, PlainRequiresIn, PlainMakesIn, PlainOthersIn
  <2> QED BY ONLY <1>3, <2>1, <2>2, Shapes, Words, Zenon DEF next_field
<1>8. CASE f = "expr"
  <2>1. Calls1(f, c) = parse_expr(c)
    BY <1>8 DEF Calls1
  <2>2. Call("var_decl") \in E /\ Call("assignment") \in E
    BY <1>3, Zenon DEF PlainIn, PlainCallsIn, PlainRequiresIn, PlainMakesIn, PlainOthersIn
  <2> QED BY ONLY <1>3, <2>1, <2>2, Shapes, Zenon DEF parse_expr
<1>9. CASE f = "assign_op"
  <2>1. Calls1(f, c) = assign_op(c)
    BY <1>9 DEF Calls1
  <2>2. Call("assignment") \in E /\ Binary(0) \in E /\ Call("assign_op") \in E
    BY <1>3, Zenon DEF PlainIn, PlainCallsIn, PlainRequiresIn, PlainMakesIn, PlainOthersIn
  <2> QED BY ONLY <1>3, <2>1, <2>2, Shapes, Words, Zenon DEF assign_op
<1>10. CASE f = "comma"
  <2>1. Calls1(f, c) = comma(c)
    BY <1>10 DEF Calls1
  <2>2. Require(",") \in E
    BY <1>3, Zenon DEF PlainIn, PlainCallsIn, PlainRequiresIn, PlainMakesIn, PlainOthersIn
  <2> QED BY ONLY <1>3, <2>1, <2>2, Shapes, Zenon DEF comma
<1>11. CASE f = "constant"
  <2>1. Calls1(f, c) = parse_constant(c)
    BY <1>11 DEF Calls1
  <2>2. Make("int") \in E /\ Make("constant") \in E
    BY <1>3, Zenon DEF PlainIn, PlainCallsIn, PlainRequiresIn, PlainMakesIn, PlainOthersIn
  <2> QED BY ONLY <1>3, <2>1, <2>2, Shapes, Words, Zenon DEF parse_constant
<1>12. CASE f = "array_name"
  <2>1. Calls1(f, c) = array_name(c)
    BY <1>12 DEF Calls1
  <2>2. Call("first_dim") \in E
    BY <1>3, Zenon DEF PlainIn, PlainCallsIn, PlainRequiresIn, PlainMakesIn, PlainOthersIn
  <2> QED BY ONLY <1>3, <2>1, <2>2, Shapes, Words, Zenon DEF array_name
<1>13. CASE f = "first_dim"
  <2>1. Calls1(f, c) = first_dim(c)
    BY <1>13 DEF Calls1
  <2>2. Call("next_dim") \in E /\ Make("array_decl") \in E
    BY <1>3, Zenon DEF PlainIn, PlainCallsIn, PlainRequiresIn, PlainMakesIn, PlainOthersIn
  <2> QED BY ONLY <1>3, <2>1, <2>2, Shapes, Zenon DEF first_dim
<1>14. CASE f = "array_body"
  <2>1. Calls1(f, c) = array_body(c)
    BY <1>14 DEF Calls1
  <2>2. Require("=") \in E /\ Call("logical_or") \in E /\ Make("array_decl") \in E
    BY <1>3, Zenon DEF PlainIn, PlainCallsIn, PlainRequiresIn, PlainMakesIn, PlainOthersIn
  <2> QED BY ONLY <1>3, <2>1, <2>2, Shapes, Zenon DEF array_body
<1>15. CASE f = "decl"
  <2>1. Calls1(f, c) = parse_decl(c)
    BY <1>15 DEF Calls1
  <2>2. /\ Call("struct_decl") \in E /\ Call("struct_var_decl") \in E
        /\ Call("decl_without_initializer") \in E
    BY <1>3, Zenon DEF PlainIn, PlainCallsIn, PlainRequiresIn, PlainMakesIn, PlainOthersIn
  <2> QED BY ONLY <1>3, <2>1, <2>2, Shapes, Zenon DEF parse_decl
<1>16. CASE f = "struct_dims"
  <2>1. Calls1(f, c) = struct_dims(c)
    BY <1>16 DEF Calls1
  <2>2. /\ Call("next_dim") \in E /\ Call("struct_array_body") \in E
        /\ Make("array_decl") \in E
    BY <1>3, Zenon DEF PlainIn, PlainCallsIn, PlainRequiresIn, PlainMakesIn, PlainOthersIn
  <2> QED BY ONLY <1>3, <2>1, <2>2, Shapes, Zenon DEF struct_dims
<1>17. CASE f = "function_param_list"
  <2>1. Calls1(f, c) = parse_function_param_list(c)
    BY <1>17 DEF Calls1
  <2>2. /\ Make("compound") \in E /\ Call("decl_without_initializer") \in E
        /\ Call("comma") \in E /\ Call("function_param_list") \in E
    BY <1>3, Zenon DEF PlainIn, PlainCallsIn, PlainRequiresIn, PlainMakesIn, PlainOthersIn
  <2> QED BY ONLY <1>3, <2>1, <2>2, Shapes, Zenon DEF parse_function_param_list
<1>18. CASE f = "stmt"
  <2>1. Calls1(f, c) = parse_stmt(c)
    BY <1>18 DEF Calls1
  <2>2. /\ Call("block") \in E /\ Call("selection_stmt") \in E /\ Call("iteration_stmt") \in E
        /\ Call("jump_stmt") \in E /\ Call("var_decl") \in E /\ Call("symbol_stmt") \in E
        /\ Call("assignment") \in E /\ Call("primary") \in E
    BY <1>3, Zenon DEF PlainIn, PlainCallsIn, PlainRequiresIn, PlainMakesIn, PlainOthersIn
  <2> QED BY ONLY <1>3, <2>1, <2>2, Shapes, ZenonT(40) DEF parse_stmt
<1>19. CASE f = "loop_stmt"
  <2>1. Calls1(f, c) = parse_loop_stmt(c)
    BY <1>19 DEF Calls1
  <2>2. Make("break") \in E /\ Make("continue") \in E /\ Call("stmt") \in E
    BY <1>3, Zenon DEF PlainIn, PlainCallsIn, PlainRequiresIn, PlainMakesIn, PlainOthersIn
  <2> QED BY ONLY <1>3, <2>1, <2>2, Shapes, Words, Zenon DEF parse_loop_stmt
<1>20. CASE f = "else_body"
  <2>1. Calls1(f, c) = else_body(c)
    BY <1>20 DEF Calls1
  <2>2. Call("block") \in E
    BY <1>3, Zenon DEF PlainIn, PlainCallsIn, PlainRequiresIn, PlainMakesIn, PlainOthersIn
  <2> QED BY ONLY <1>3, <2>1, <2>2, Shapes, Words, Zenon DEF else_body
<1>21. CASE f = "return_value"
  <2>1. Calls1(f, c) = return_value(c)
    BY <1>21 DEF Calls1
  <2>2. Call("logical_or") \in E
    BY <1>3, Zenon DEF PlainIn, PlainCallsIn, PlainRequiresIn, PlainMakesIn, PlainOthersIn
  <2> QED BY ONLY <1>3, <2>1, <2>2, Shapes, Zenon DEF return_value
<1> QED BY <1>4, <1>5, <1>6, <1>7, <1>8, <1>9, <1>10, <1>11, <1>12, <1>13, <1>14, <1>15, <1>16, <1>17, <1>18, <1>19, <1>20, <1>21, Zenon


(* Functions that look at none. *)
LEMMA PlainNone ==
  ASSUME NEW f \in {"postfix_unary", "struct_field_access", "assignment",
                 "array_decl_without_initializer", "array_decl",
                 "var_decl_without_initializer", "struct_var_decl", "struct_array_body",
                 "loop_semicolon", "semicolon", "jump_stmt"},
         NEW p \in Seq(Brackets), Len(p) > 0, NEW c
  PROVE  Spelled(Call(f), Calls0(f), p, c)
<1>1. f \in ParseFns \ (ClosesParen \union ClosesBrace)
  BY DEF ParseFns, OneToken, TwoTokens, NoToken, ClosesParen, ClosesBrace
<1>2. PICK E : E = PlainItems
  OBVIOUS
<1>3. PlainIn(E) /\ Fail \in Seq(E)
  BY <1>2, PlainInIs DEF PlainIn, PlainOthersIn
<1> SUFFICES Shape(Calls0(f), E, c)
  BY <1>1, <1>2, ShapeSpelled
<1>4. CASE f = "postfix_unary"
  <2>1. Calls0(f) = parse_postfix_unary
    BY <1>4 DEF Calls0
  <2>2. Call("primary") \in E /\ Call("postfix_op") \in E
    BY <1>3, Zenon DEF PlainIn, PlainCallsIn, PlainRequiresIn, PlainMakesIn, PlainOthersIn
  <2> QED BY ONLY <1>3, <2>1, <2>2, Shapes, Zenon DEF parse_postfix_unary
<1>5. CASE f = "struct_field_access"
  <2>1. Calls0(f) = parse_struct_field_access
    BY <1>5 DEF Calls0
  <2>2. Require("sym") \in E /\ Call("next_field") \in E
    BY <1>3, Zenon DEF PlainIn, PlainCallsIn, PlainRequiresIn, PlainMakesIn, PlainOthersIn
  <2> QED BY ONLY <1>3, <2>1, <2>2, Shapes, Zenon DEF parse_struct_field_access
<1>6. CASE f = "assignment"
  <2>1. Calls0(f) = parse_assignment
    BY <1>6 DEF Calls0
  <2>2. Call("logical_or") \in E /\ Call("assign_op") \in E
    BY <1>3, Zenon DEF PlainIn, PlainCallsIn, PlainRequiresIn, PlainMakesIn, PlainOthersIn
  <2> QED BY ONLY <1>3, <2>1, <2>2, Shapes, Zenon DEF parse_assignment
<1>7. CASE f = "array_decl_without_initializer"
  <2>1. Calls0(f) = parse_array_decl_without_initializer
    BY <1>7 DEF Calls0
  <2>2. Call("type") \in E /\ Call("array_name") \in E
    BY <1>3, Zenon DEF PlainIn, PlainCallsIn, PlainRequiresIn, PlainMakesIn, PlainOthersIn
  <2> QED BY ONLY <1>3, <2>1, <2>2, Shapes, Zenon DEF parse_array_decl_without_initializer
<1>8. CASE f = "array_decl"
  <2>1. Calls0(f) = parse_array_decl
    BY <1>8 DEF Calls0
  <2>2. Call("array_decl_without_initializer") \in E /\ Call("array_body") \in E
    BY <1>3, Zenon DEF PlainIn, PlainCallsIn, PlainRequiresIn, PlainMakesIn, PlainOthersIn
  <2> QED BY ONLY <1>3, <2>1, <2>2, Shapes, Zenon DEF parse_array_decl
<1>9. CASE f = "var_decl_without_initializer"
  <2>1. Calls0(f) = parse_var_decl_without_initializer
    BY <1>9 DEF Calls0
  <2>2. Call("type") \in E /\ Require("sym") \in E /\ Make("var_decl") \in E
    BY <1>3, Zenon DEF PlainIn, PlainCallsIn, PlainRequiresIn, PlainMakesIn, PlainOthersIn
  <2> QED BY ONLY <1>3, <2>1, <2>2, Shapes, Zenon DEF parse_var_decl_without_initializer
<1>10. CASE f = "struct_var_decl"
  <2>1. Calls0(f) = parse_struct_var_decl
    BY <1>10 DEF Calls0
  <2>2. /\ Call("type") \in E /\ Require("sym") \in E /\ Make("var_decl") \in E
        /\ Call("struct_dims") \in E
    BY <1>3, Zenon DEF PlainIn, PlainCallsIn, PlainRequiresIn, PlainMakesIn, PlainOthersIn
  <2> QED BY ONLY <1>3, <2>1, <2>2, Shapes, Zenon DEF parse_struct_var_decl
<1>11. CASE f = "struct_array_body"
  <2>1. Calls0(f) = struct_array_body
    BY <1>11 DEF Calls0
  <2>2. Require("=") \in E /\ Call("logical_or") \in E
    BY <1>3, Zenon DEF PlainIn, PlainCallsIn, PlainRequiresIn, PlainMakesIn, PlainOthersIn
  <2> QED BY ONLY <1>3, <2>1, <2>2, Shapes, Zenon DEF struct_array_body
<1>12. CASE f = "loop_semicolon"
  <2>1. Calls0(f) = loop_semicolon
    BY <1>12 DEF Calls0
  <2>2. Require(";") \in E
    BY <1>3, Zenon DEF PlainIn, PlainCallsIn, PlainRequiresIn, PlainMakesIn, PlainOthersIn
  <2> QED BY ONLY <1>3, <2>1, <2>2, Shapes, Zenon DEF loop_semicolon
<1>13. CASE f = "semicolon"
  <2>1. Calls0(f) = semicolon
    BY <1>13 DEF Calls0
  <2>2. Require(";") \in E
    BY <1>3, Zenon DEF PlainIn, PlainCallsIn, PlainRequiresIn, PlainMakesIn, PlainOthersIn
  <2> QED BY ONLY <1>3, <2>1, <2>2, Shapes, Zenon DEF semicolon
<1>14. CASE f = "jump_stmt"
  <2>1. Calls0(f) = parse_jump_stmt
    BY <1>14 DEF Calls0
  <2>2. Require("return") \in E /\ Call("return_value") \in E /\ Make("return") \in E
    BY <1>3, Zenon DEF PlainIn, PlainCallsIn, PlainRequiresIn, PlainMakesIn, PlainOthersIn
  <2> QED BY ONLY <1>3, <2>1, <2>2, Shapes, Zenon DEF parse_jump_stmt
<1> QED BY <1>4, <1>5, <1>6, <1>7, <1>8, <1>9, <1>10, <1>11, <1>12, <1>13, <1>14, Zenon

LEMMA PlainTwo ==
  ASSUME NEW p \in Seq(Brackets), Len(p) > 0, NEW c, NEW d
  PROVE  Spelled(Call("symbol_stmt"), Calls2("symbol_stmt", c, d), p, c)
<1>1. "symbol_stmt" \in ParseFns \ (ClosesParen \union ClosesBrace)
  BY DEF ParseFns, TwoTokens, ClosesParen, ClosesBrace
<1>2. PICK E : E = PlainItems
  OBVIOUS
<1>3. PlainIn(E) /\ Fail \in Seq(E)
  BY <1>2, PlainInIs DEF PlainIn, PlainOthersIn
<1> SUFFICES Shape(Calls2("symbol_stmt", c, d), E, c)
  BY <1>1, <1>2, ShapeSpelled
<1>4. Calls2("symbol_stmt", c, d) = symbol_stmt(d)
  BY DEF Calls2
<1>5. Call("struct_var_decl") \in E /\ Call("expr") \in E
  BY <1>3, Zenon DEF PlainIn, PlainCallsIn
<1> QED BY ONLY <1>3, <1>4, <1>5, Shapes, Zenon DEF symbol_stmt

LEMMA PlainLoop ==
  ASSUME NEW p \in Seq(Brackets), Len(p) > 0, NEW c \in LoopTokens
  PROVE  Spelled(Call("iteration_stmt"), Calls1("iteration_stmt", c), p, c)
<1>1. "iteration_stmt" \in ParseFns \ (ClosesParen \union ClosesBrace)
  BY DEF ParseFns, OneToken, ClosesParen, ClosesBrace
<1>2. PICK E : E = PlainItems
  OBVIOUS
<1>3. PlainIn(E) /\ Fail \in Seq(E)
  BY <1>2, PlainInIs DEF PlainIn, PlainOthersIn
<1> SUFFICES Shape(Calls1("iteration_stmt", c), E, c)
  BY <1>1, <1>2, ShapeSpelled
<1>4. Calls1("iteration_stmt", c) = parse_iteration_stmt(c)
  BY DEF Calls1
<1>5. Call("for") \in E /\ Call("do_while") \in E /\ Call("while") \in E
  BY <1>3, Zenon DEF PlainIn, PlainCallsIn
<1>6. c = "for" \/ c = "do" \/ c = "while"
  BY DEF LoopTokens
<1>7. \/ parse_iteration_stmt(c) = <<Call("for")>> \/ parse_iteration_stmt(c) = <<Call("do_while")>>
      \/ parse_iteration_stmt(c) = <<Call("while")>>
  BY ONLY <1>6, Zenon DEF parse_iteration_stmt
<1>8. /\ Shape(<<Call("for")>>, E, c) /\ Shape(<<Call("do_while")>>, E, c)
      /\ Shape(<<Call("while")>>, E, c)
  BY ONLY <1>3, <1>5, Shapes, Zenon
<1> QED BY <1>4, <1>7, <1>8, Zenon

(* The loops over operators. *)
LEMMA LogicalSpelled ==
  ASSUME NEW p \in Seq(Brackets), Len(p) > 0, NEW c
  PROVE  Spelled(Call("logical_or"), Calls0("logical_or"), p, c)
<1>1. "logical_or" \in ParseFns \ (ClosesParen \union ClosesBrace)
  BY DEF ParseFns, NoToken, ClosesParen, ClosesBrace
<1>2. PICK E : E = PlainItems
  OBVIOUS
<1>3. PlainIn(E) /\ Fail \in Seq(E)
  BY <1>2, PlainInIs DEF PlainIn, PlainOthersIn
<1> SUFFICES Shape(Calls0("logical_or"), E, c)
  BY <1>1, <1>2, ShapeSpelled
<1>4. Calls0("logical_or") = parse_logical_or
  BY DEF Calls0
<1>5. Call("prefix_unary") \in E
  BY <1>3, Zenon DEF PlainIn, PlainCallsIn
<1>6. Climb(1, 10) \in E
  <2>1. PICK a : a = Climb(1, 10)
    OBVIOUS
  <2>2. a \in Items /\ a.op = "climb"
    BY <2>1, ClimbIs DEF Levels
  <2>3. a \in PlainItems
    BY <2>2 DEF PlainItems, Spot
  <2> QED BY <1>2, <2>1, <2>3
<1> QED BY ONLY <1>3, <1>4, <1>5, <1>6, Shapes, Zenon DEF parse_logical_or

LEMMA ClimbSpelled ==
  ASSUME NEW x \in Items, Sound(x), x.op = "climb", NEW p \in Seq(Brackets), Len(p) > 0, NEW c
  PROVE  Spelled(x, climb(x.lo, x.hi, c), p, c)
<1>1. x.lo \in 1 .. x.hi /\ x.hi \in Levels /\ x.lo \in Levels
  BY DEF Sound, Items
<1>2. \A a \in Items : a.op \in {"climb", "binary"} => a \in PlainItems
  BY DEF PlainItems, Spot
<1>3. Eff(x, p, c) = p
  <2>1. x \in PlainItems
    BY <1>2
  <2> QED BY <2>1, PlainIs
<1>4. PICK E : E = PlainItems
  OBVIOUS
<1>5. CASE Level(c) \notin x.lo .. x.hi
  <2>1. climb(x.lo, x.hi, c) = <<>>
    BY <1>5 DEF climb
  <2>2. <<>> \in Seq(PlainItems)
    OBVIOUS
  <2>3. Spelled(x, <<>>, p, c)
    BY ONLY p \in Seq(Brackets), Len(p) > 0, <1>3, <2>2, PlainSpelled, Zenon
  <2> QED BY <2>1, <2>3
<1>6. CASE Level(c) \in x.lo .. x.hi
  <2>1. PICK L : L = Level(c) /\ L \in x.lo .. x.hi
    BY <1>6
  <2>2. L \in Levels /\ 10 \in Levels /\ L > 0
    BY <1>1, <2>1 DEF Levels
  <2>3. PICK a, b, d, e : /\ a = Call("prefix_unary") /\ b = Climb(L, 10) /\ d = Binary(L)
                          /\ e = Climb(x.lo, L)
    OBVIOUS
  <2>4. b \in Items /\ b.op = "climb" /\ e \in Items /\ e.op = "climb"
    BY <1>1, <2>2, <2>3, ClimbIs
  <2>5. d \in Items /\ d.op = "binary"
    <3>1. "binary" \in Ops /\ "none" \in Args /\ 0 \in Levels
      BY DEF Ops, Args, Levels
    <3> QED BY <2>2, <2>3, <3>1, ItemIs DEF Binary
  <2>6. a \in E /\ b \in E /\ d \in E /\ e \in E
    <3>1. a \in E
      BY <1>4, <2>3, PlainInIs, Zenon DEF PlainIn, PlainCallsIn
    <3> QED BY <1>2, <1>4, <2>4, <2>5, <3>1
  <2>7. PICK s : s = <<a, b, d, e>> /\ s \in Seq(E) /\ Len(s) > 0
    <3>1. <<a, b, d, e>> \in Seq(E) /\ Len(<<a, b, d, e>>) > 0
      BY <2>6
    <3> QED BY <3>1, Zenon
  <2>8. PICK u : u = <<Skip>> \o s
    OBVIOUS
  <2>9. climb(x.lo, x.hi, c) = u
    <3>1. climb(x.lo, x.hi, c) = <<Skip, a, b, d, e>>
      BY <1>6, <2>1, <2>3 DEF climb
    <3>2. \A y, z, v, w : <<Skip, y, z, v, w>> = <<Skip>> \o <<y, z, v, w>>
      OBVIOUS
    <3> QED BY <2>7, <2>8, <3>1, <3>2, Zenon
  <2>10. c \notin Opens \union Closes
    <3>1. ASSUME NEW t \in Opens \union Closes PROVE Level(t) = 0
      <4>1. /\ t # "||" /\ t # "&&" /\ t # "|" /\ t # "^" /\ t # "&" /\ t # "==" /\ t # "<"
            /\ t # "<<" /\ t # "+" /\ t \notin {"*", "/"}
        BY DEF Opens, Closes
      <4>2. LogicalLevel(t) = 0 /\ ArithLevel(t) = 0
        BY <4>1 DEF LogicalLevel, ArithLevel
      <4> QED BY <4>2 DEF Level
    <3> QED BY <2>1, <2>2, <3>1
  <2>11. s \in Seq(PlainItems) /\ Len(s) > 0 /\ u = <<Skip>> \o s /\ p \in Seq(Brackets) /\ Len(p) > 0
    BY <1>4, <2>7, <2>8
  <2>12. Spelled(x, u, p, c)
    BY ONLY <1>3, <2>10, <2>11, SkipSpelled, Zenon
  <2> QED BY <2>9, <2>12
<1> QED BY <1>5, <1>6

(* Where a sequence written out is cut. *)
Cut(u, s1, a, s2, b, s3) == u = s1 \o (<<a>> \o (s2 \o (<<b>> \o s3)))

LEMMA Cuts ==
  /\ \A a, b, d, e : Cut(<<a, b, d, e>>, <<>>, a, <<b>>, d, <<e>>)
  /\ \A a, b, d, e : Cut(<<a, b, d, e>>, <<a>>, b, <<d>>, e, <<>>)
  /\ \A a, b, d, e, f : Cut(<<a, b, d, e, f>>, <<>>, a, <<b, d>>, e, <<f>>)
  /\ \A a, b, d, e, f : Cut(<<a, b, d, e, f>>, <<a>>, b, <<d>>, e, <<f>>)
  /\ \A a, b, d, e, f, g, h : Cut(<<a, b, d, e, f, g, h>>, <<a>>, b, <<d>>, e, <<f, g, h>>)
<1>1. ASSUME NEW a, NEW b, NEW d, NEW e PROVE <<a>> \o (<<b>> \o (<<d>> \o <<e>>)) = <<a, b, d, e>>
  <2>1. <<d>> \o <<e>> = <<d, e>> /\ <<b>> \o <<d, e>> = <<b, d, e>>
    BY Parts, ZenonT(60)
  <2>2. <<a, b, d, e>> = <<a>> \o <<b, d, e>>
    OBVIOUS
  <2> QED BY <2>1, <2>2, Zenon
<1>2. ASSUME NEW a, NEW b, NEW d, NEW e
      PROVE  <<a, b, d, e>> = <<>> \o (<<a>> \o (<<b>> \o (<<d>> \o <<e>>)))
  <2>1. <<>> \o <<a, b, d, e>> = <<a, b, d, e>>
    OBVIOUS
  <2> QED BY <1>1, <2>1, Zenon
<1>3. ASSUME NEW a, NEW b, NEW d, NEW e
      PROVE  <<a, b, d, e>> = <<a>> \o (<<b>> \o (<<d>> \o (<<e>> \o <<>>)))
  <2>1. <<e>> \o <<>> = <<e>>
    OBVIOUS
  <2> QED BY <1>1, <2>1, Zenon
<1>4. ASSUME NEW a, NEW b, NEW d, NEW e, NEW f
      PROVE  <<a, b, d, e, f>> = <<a>> \o (<<b>> \o (<<d>> \o (<<e>> \o <<f>>)))
  <2>1. <<b>> \o (<<d>> \o (<<e>> \o <<f>>)) = <<b, d, e, f>>
    BY <1>1
  <2>2. <<a, b, d, e, f>> = <<a>> \o <<b, d, e, f>>
    OBVIOUS
  <2> QED BY <2>1, <2>2, Zenon
<1>5. ASSUME NEW a, NEW b, NEW d, NEW e, NEW f
      PROVE  <<a, b, d, e, f>> = <<>> \o (<<a>> \o (<<b, d>> \o (<<e>> \o <<f>>)))
  <2>1. <<>> \o <<a, b, d, e, f>> = <<a, b, d, e, f>>
    OBVIOUS
  <2>2. <<a, b, d, e, f>> = <<a>> \o <<b, d, e, f>>
    OBVIOUS
  <2>3. <<e>> \o <<f>> = <<e, f>>
    BY Parts, Zenon
  <2>4. <<b, d>> \o <<e, f>> = <<b, d, e, f>>
    <3>1. PICK S, s, t, v : S = {b, d, e, f} /\ s = <<b, d>> /\ t = <<e, f>> /\ v = s \o t
      OBVIOUS
    <3>2. /\ s \in Seq(S) /\ Len(s) = 2 /\ s[1] = b /\ s[2] = d
          /\ t \in Seq(S) /\ Len(t) = 2 /\ t[1] = e /\ t[2] = f
      BY <3>1
    <3>3. /\ v \in Seq(S) /\ Len(v) = Len(s) + Len(t)
          /\ \A i \in 1 .. Len(v) : v[i] = IF i <= Len(s) THEN s[i] ELSE t[i - Len(s)]
      BY <3>1, <3>2, Joint
    <3>4. Len(v) = 4 /\ v[1] = b /\ v[2] = d /\ v[3] = e /\ v[4] = f
      BY <3>2, <3>3
    <3>5. PICK u : u = <<b, d, e, f>>
      OBVIOUS
    <3>6. u \in Seq(S) /\ Len(u) = 4 /\ u[1] = b /\ u[2] = d /\ u[3] = e /\ u[4] = f
      BY <3>1, <3>5
    <3>7. \A i \in 1 .. 4 : i = 1 \/ i = 2 \/ i = 3 \/ i = 4
      OBVIOUS
    <3>8. v = u
      <4>1. \A i \in 1 .. Len(v) : v[i] = u[i]
        BY <3>4, <3>6, <3>7
      <4> QED BY <3>3, <3>4, <3>6, <4>1, SeqEqual
    <3> QED BY <3>1, <3>5, <3>8
  <2> QED BY <2>1, <2>2, <2>3, <2>4, Zenon
<1>6. ASSUME NEW a, NEW b, NEW d, NEW e, NEW f, NEW g, NEW h
      PROVE  <<a, b, d, e, f, g, h>> = <<a>> \o (<<b>> \o (<<d>> \o (<<e>> \o <<f, g, h>>)))
  <2>1. <<e, f, g, h>> = <<e>> \o <<f, g, h>>
    OBVIOUS
  <2>2. <<d, e, f, g, h>> = <<d>> \o <<e, f, g, h>>
    OBVIOUS
  <2>3. <<b, d, e, f, g, h>> = <<b>> \o <<d, e, f, g, h>>
    OBVIOUS
  <2>4. <<a, b, d, e, f, g, h>> = <<a>> \o <<b, d, e, f, g, h>>
    OBVIOUS
  <2> QED BY <2>1, <2>2, <2>3, <2>4, Zenon
<1> QED BY <1>2, <1>3, <1>4, <1>5, <1>6, Zenon DEF Cut

(* Functions that open a bracket close it. *)
LEMMA Bracketed ==
  ASSUME NEW p \in Seq(Brackets), Len(p) > 0, NEW c
  PROVE  /\ Spelled(Call("next_index"), Calls1("next_index", c), p, c)
         /\ Spelled(Call("next_dim"), Calls1("next_dim", c), p, c)
         /\ Spelled(Call("selection_stmt"), Calls0("selection_stmt"), p, c)
         /\ Spelled(Call("while"), Calls0("while"), p, c)
         /\ Spelled(Call("do_while"), Calls0("do_while"), p, c)
<1>1. ASSUME NEW f \in {"next_index", "next_dim", "selection_stmt", "while", "do_while"},
             NEW u, Route(u, p, p, c)
      PROVE  Spelled(Call(f), u, p, c)
  <2>1. f \in ParseFns /\ f \notin ClosesParen \union ClosesBrace
    BY DEF ParseFns, OneToken, NoToken, ClosesParen, ClosesBrace
  <2>2. PICK x : x = Call(f) /\ p = Eff(x, p, c)
    BY <2>1, CallEff
  <2>3. Spelled(x, u, p, c)
    BY ONLY p \in Seq(Brackets), Len(p) > 0, <1>1, <2>2, RouteSpelled, Zenon
  <2> QED BY <2>2, <2>3
<1>2. PICK E : E = PlainItems
  OBVIOUS
<1>3. PlainIn(E)
  BY <1>2, PlainInIs
<1>4. /\ "(" \in Required /\ ")" \in Required /\ "[" \in Required /\ "]" \in Required
      /\ Pair("(", ")") /\ Pair("[", "]")
  BY PairIs DEF Required
<1>5. ASSUME NEW s \in Seq(E) PROVE Route(s, p, p, c)
  BY <1>2, <1>5, RoutePlain
<1>6. ASSUME NEW s1 \in Seq(E), NEW s2 \in Seq(E), NEW s3 \in Seq(E),
             NEW t \in Required, NEW m \in Required, Pair(t, m),
             NEW u, Cut(u, s1, Require(t), s2, Require(m), s3)
      PROVE  Route(u, p, p, c)
  <2>1. s1 \in Seq(PlainItems) /\ s2 \in Seq(PlainItems) /\ s3 \in Seq(PlainItems)
    BY <1>2, <1>6
  <2> QED BY ONLY p \in Seq(Brackets), Len(p) > 0, t \in Required, m \in Required, <1>6, <2>1,
                  BracketRoute, Zenon DEF Cut
<1>7. Route(Calls1("next_index", c), p, p, c)
  <2>1. Calls1("next_index", c) = next_index(c)
    BY DEF Calls1
  <2>2. PICK b, d, e : b = Call("expr") /\ d = Call("next_index") /\ e = Make("array_access")
    OBVIOUS
  <2>3. b \in E /\ d \in E /\ e \in E
    BY <1>3, <2>2, Zenon DEF PlainIn, PlainCallsIn, PlainMakesIn
  <2>4. PICK u : u = <<Require("["), b, Require("]"), d>>
    OBVIOUS
  <2>5. Cut(u, <<>>, Require("["), <<b>>, Require("]"), <<d>>)
    BY <2>4, Cuts, Zenon
  <2>6. <<>> \in Seq(E) /\ <<b>> \in Seq(E) /\ <<d>> \in Seq(E) /\ <<e>> \in Seq(E)
    BY <2>3, Tuples, Zenon
  <2>7. Route(u, p, p, c)
    BY ONLY <1>4, <1>6, <2>5, <2>6, Zenon
  <2>8. Route(<<e>>, p, p, c)
    BY <1>5, <2>6
  <2> QED BY ONLY <2>1, <2>2, <2>4, <2>7, <2>8, Zenon DEF next_index
<1>8. Route(Calls1("next_dim", c), p, p, c)
  <2>1. Calls1("next_dim", c) = next_dim(c)
    BY DEF Calls1
  <2>2. PICK b, d, e : b = Call("constant") /\ d = NeedInt /\ e = Call("next_dim")
    OBVIOUS
  <2>3. b \in E /\ d \in E /\ e \in E
    BY <1>3, <2>2, Zenon DEF PlainIn, PlainCallsIn, PlainOthersIn
  <2>4. PICK u : u = <<Require("["), b, d, Require("]"), e>>
    OBVIOUS
  <2>5. Cut(u, <<>>, Require("["), <<b, d>>, Require("]"), <<e>>)
    BY <2>4, Cuts, Zenon
  <2>6. <<>> \in Seq(E) /\ <<b, d>> \in Seq(E) /\ <<e>> \in Seq(E)
    BY <2>3, Tuples, Zenon
  <2>7. Route(u, p, p, c)
    BY ONLY <1>4, <1>6, <2>5, <2>6, Zenon
  <2>8. Route(<<>>, p, p, c)
    BY <1>5, <2>6
  <2> QED BY ONLY <2>1, <2>2, <2>4, <2>7, <2>8, Zenon DEF next_dim
<1>9. Route(Calls0("selection_stmt"), p, p, c)
  <2>1. Calls0("selection_stmt") = parse_selection_stmt
    BY DEF Calls0
  <2>2. PICK a, b, d, e, g : /\ a = Require("if") /\ b = Call("logical_or") /\ d = Call("block")
                             /\ e = Call("else_body") /\ g = Make("if")
    OBVIOUS
  <2>3. a \in E /\ b \in E /\ d \in E /\ e \in E /\ g \in E
    BY <1>3, <2>2, Zenon DEF PlainIn, PlainCallsIn, PlainRequiresIn, PlainMakesIn
  <2>4. PICK u : u = <<a, Require("("), b, Require(")"), d, e, g>>
    OBVIOUS
  <2>5. Cut(u, <<a>>, Require("("), <<b>>, Require(")"), <<d, e, g>>)
    BY <2>4, Cuts, Zenon
  <2>6. <<a>> \in Seq(E) /\ <<b>> \in Seq(E) /\ <<d, e, g>> \in Seq(E)
    BY <2>3, Tuples, Zenon
  <2>7. Route(u, p, p, c)
    BY ONLY <1>4, <1>6, <2>5, <2>6, Zenon
  <2> QED BY ONLY <2>1, <2>2, <2>4, <2>7, Zenon DEF parse_selection_stmt
<1>10. Body \in Seq(E)
  <2>1. Deepen \in E /\ Call("block") \in E /\ Shallow \in E
    BY <1>3, Zenon DEF PlainIn, PlainCallsIn, PlainOthersIn
  <2> QED BY <2>1, Tuples, Zenon DEF Body
<1>11. ASSUME NEW s, Route(s, p, p, c), NEW t, Route(t, p, p, c) PROVE Route(s \o t, p, p, c)
  <2>1. PICK u : u = s \o t
    OBVIOUS
  <2>2. Route(u, p, p, c)
    BY ONLY p \in Seq(Brackets), Len(p) > 0, <1>11, <2>1, RouteConcat, Zenon
  <2> QED BY <2>1, <2>2
<1>12. Route(Calls0("while"), p, p, c)
  <2>1. Calls0("while") = parse_while
    BY DEF Calls0
  <2>2. PICK a, b, e : a = Require("while") /\ b = Call("logical_or") /\ e = Make("while")
    OBVIOUS
  <2>3. a \in E /\ b \in E /\ e \in E
    BY <1>3, <2>2, Zenon DEF PlainIn, PlainCallsIn, PlainRequiresIn, PlainMakesIn
  <2>4. PICK u : u = <<a, Require("("), b, Require(")")>>
    OBVIOUS
  <2>5. Cut(u, <<a>>, Require("("), <<b>>, Require(")"), <<>>)
    BY <2>4, Cuts, Zenon
  <2>6. <<a>> \in Seq(E) /\ <<b>> \in Seq(E) /\ <<>> \in Seq(E) /\ <<e>> \in Seq(E)
    BY <2>3, Tuples, Zenon
  <2>7. Route(u, p, p, c)
    BY ONLY <1>4, <1>6, <2>5, <2>6, Zenon
  <2>8. Route(Body, p, p, c) /\ Route(<<e>>, p, p, c)
    BY <1>5, <1>10, <2>6
  <2>9. Route((u \o Body) \o <<e>>, p, p, c)
    BY ONLY <1>11, <2>7, <2>8, Zenon
  <2> QED BY ONLY <2>1, <2>2, <2>4, <2>9, Zenon DEF parse_while
<1>13. Route(Calls0("do_while"), p, p, c)
  <2>1. Calls0("do_while") = parse_do_while
    BY DEF Calls0
  <2>2. PICK a, b, d, e : /\ a = Require("do") /\ b = Require("while") /\ d = Call("logical_or")
                          /\ e = Make("do_while")
    OBVIOUS
  <2>3. a \in E /\ b \in E /\ d \in E /\ e \in E
    BY <1>3, <2>2, Zenon DEF PlainIn, PlainCallsIn, PlainRequiresIn, PlainMakesIn
  <2>4. PICK u : u = <<b, Require("("), d, Require(")"), e>>
    OBVIOUS
  <2>5. Cut(u, <<b>>, Require("("), <<d>>, Require(")"), <<e>>)
    BY <2>4, Cuts, Zenon
  <2>6. <<a>> \in Seq(E) /\ <<b>> \in Seq(E) /\ <<d>> \in Seq(E) /\ <<e>> \in Seq(E)
    BY <2>3, Tuples, Zenon
  <2>7. Route(u, p, p, c)
    BY ONLY <1>4, <1>6, <2>5, <2>6, Zenon
  <2>8. Route(Body, p, p, c) /\ Route(<<a>>, p, p, c)
    BY <1>5, <1>10, <2>6
  <2>9. Route((<<a>> \o Body) \o u, p, p, c)
    BY ONLY <1>11, <2>7, <2>8, Zenon
  <2> QED BY ONLY <2>1, <2>2, <2>4, <2>9, Zenon DEF parse_do_while
<1> QED BY <1>1, <1>7, <1>8, <1>9, <1>12, <1>13

(* Nodes that may be made outside all brackets. *)
LEMMA MakeRoute ==
  ASSUME NEW k \in {"compound", "struct_decl", "function_decl"}, NEW p \in Seq(Brackets), NEW c,
         NEW s, s = <<Make(k)>>
  PROVE  Route(s, p, p, c) /\ Len(s) = 1 /\ Quiet(s[1])
<1>1. k \in Made
  BY DEF Made
<1>2. PICK a : a = Make(k)
  OBVIOUS
<1>3. a \in Items /\ a.op = "make" /\ a.arg = k
  BY <1>1, <1>2, ItemFacts
<1>4. Eff(a, p, c) = p
  <2>1. Net(a, c) = "none"
    BY <1>3, NetIs
  <2>2. "none" \notin Opens \union Closes
    BY DEF Opens, Closes
  <2>3. Bump(p, "none") = p
    BY <2>2, BumpIs
  <2> QED BY <1>3, <2>1, <2>3 DEF Eff
<1>5. Marked(a, p, p, c)
  <2>1. Outer(a) /\ ~Inmost(a)
    BY <1>3 DEF Outer, Inmost
  <2> QED BY <1>3, <1>4, <2>1 DEF Marked, Enough
<1>6. Path(s, p, p, c)
  BY <1>2, <1>5, PathOne
<1>7. s \in Seq(Items) /\ Len(s) = 1 /\ s[1] = a
  BY <1>2, <1>3
<1>8. Anywhere(a) /\ Quiet(a)
  BY <1>3 DEF Anywhere, Spot, Quiet
<1> QED BY <1>6, <1>7, <1>8 DEF Route

(* The rest is left to another function. *)
LEMMA PassRoute ==
  ASSUME NEW p \in Seq(Brackets), NEW c, NEW g \in ParseFns, Anywhere(Call(g)), g # "global",
         Enough(Call(g), p), NEW r, r = Eff(Call(g), p, c)
  PROVE  /\ Route(<<Call(g)>>, p, r, c)
         /\ Len(p) > 0 => \A s \in Seq(PlainItems) : Route(s \o <<Call(g)>>, p, r, c)
<1>1. PICK a, t : a = Call(g) /\ t = <<a>>
  OBVIOUS
<1>2. a \in Items /\ a.op = "call" /\ a.arg = g /\ r \in Seq(Brackets)
  BY <1>1, CallEff
<1>3. Marked(a, p, r, c)
  BY <1>1, <1>2 DEF Marked
<1>4. t \in Seq(Items) /\ Len(t) = 1 /\ t[1] = a
  BY <1>1, <1>2
<1>5. Path(t, p, r, c)
  BY <1>1, <1>2, <1>3, PathOne
<1>6. Route(t, p, r, c)
  BY <1>1, <1>4, <1>5 DEF Route
<1>7. ASSUME Len(p) > 0, NEW s \in Seq(PlainItems) PROVE Route(s \o t, p, r, c)
  <2>1. PICK u : u = s \o t
    OBVIOUS
  <2>2. Route(s, p, p, c)
    BY <1>7, RoutePlain
  <2>3. Route(u, p, r, c)
    BY ONLY p \in Seq(Brackets), <1>6, <1>7, <2>1, <2>2, RouteConcat, Zenon
  <2> QED BY <2>1, <2>3
<1> QED BY <1>1, <1>6, <1>7

(* The first item of a sequence, and its last. *)
LEMMA ConsIs ==
  ASSUME NEW a \in Items, NEW s \in Seq(Items), Len(s) > 0, NEW u, u = <<a>> \o s
  PROVE  u[1] = a /\ u[2] = s[1] /\ u[Len(u)] = s[Len(s)] /\ Len(u) # 1
<1>1. PICK t : t = <<a>>
  OBVIOUS
<1>2. t \in Seq(Items) /\ Len(t) = 1 /\ t[1] = a /\ s \in Seq(Items) /\ u = t \o s
  BY <1>1
<1>3. /\ Len(u) = Len(t) + Len(s) /\ Len(s) \in Nat
      /\ \A i \in 1 .. Len(u) : u[i] = IF i <= Len(t) THEN t[i] ELSE s[i - Len(t)]
  <2>1. t \in Seq(Items) /\ s \in Seq(Items) /\ u = t \o s
    BY <1>2
  <2> QED BY ONLY <2>1, Joint, SMT
<1>4. /\ 1 \in 1 .. Len(u) /\ 2 \in 1 .. Len(u) /\ Len(u) \in 1 .. Len(u)
      /\ 1 <= Len(t) /\ ~(2 <= Len(t)) /\ ~(Len(u) <= Len(t)) /\ Len(u) # 1
      /\ 2 - Len(t) = 1 /\ Len(u) - Len(t) = Len(s)
  BY <1>2, <1>3
<1> QED BY <1>2, <1>3, <1>4

(* Expansions whose second item depends on the first. *)
LEMMA HeadSpelled ==
  ASSUME NEW x, NEW a \in Items, Begins(x, a), a.op # "skip",
         NEW p \in Seq(Brackets), NEW m \in Seq(Brackets), NEW r \in Seq(Brackets), NEW c,
         Marked(a, p, m, c), NEW s \in Seq(Items), Path(s, m, r, c), Len(s) > 0,
         Joins(a, m, s[1]), r = Eff(x, p, c), Len(r) > 0, NEW u, u = <<a>> \o s
  PROVE  Spelled(x, u, p, c)
<1>1. Path(u, p, r, c) /\ u \in Seq(Items) /\ Len(u) = Len(s) + 1
  BY PathCons
<1>2. u[1] = a /\ Len(u) # 1
  BY ConsIs
<1>3. r # <<>>
  <2>1. Len(<<>>) = 0 /\ ~(0 > 0)
    OBVIOUS
  <2> QED BY <2>1
<1> QED BY <1>1, <1>2, <1>3 DEF Spelled

LEMMA SkipPath ==
  ASSUME NEW x, NEW p \in Seq(Brackets), NEW c, NEW r \in Seq(Brackets), r = Eff(x, p, c),
         NEW m, m = Bump(p, c), NEW s \in Seq(Items), Path(s, m, r, c), Len(s) > 0,
         Joins(Skip, m, s[1]), SkipBegins(x, s[1], p, c), NEW u, u = <<Skip>> \o s,
         Len(r) > 0 \/ Closer(x) \/ ~Closer(s[Len(s)])
  PROVE  Spelled(x, u, p, c)
<1>1. Skip \in Items /\ Skip.op = "skip" /\ m \in Seq(Brackets)
  BY ItemFacts, BumpIs
<1>2. Eff(Skip, p, c) = m
  <2>1. Net(Skip, c) = c
    BY <1>1, NetIs
  <2> QED BY <1>1, <2>1 DEF Eff
<1>3. Marked(Skip, p, m, c)
  BY <1>1, <1>2 DEF Marked, Enough, Outer, Inmost
<1>4. Path(u, p, r, c) /\ u \in Seq(Items)
  BY <1>1, <1>3, PathCons
<1>5. u[1] = Skip /\ u[2] = s[1] /\ u[Len(u)] = s[Len(s)] /\ Len(u) # 1
  BY <1>1, ConsIs
<1>6. Begins(x, u[1])
  BY <1>1, <1>5 DEF Begins, Spot
<1>7. Closer(u[Len(u)]) /\ Eff(x, p, c) = <<>> => Closer(x)
  <2>1. Len(<<>>) = 0 /\ ~(0 > 0)
    OBVIOUS
  <2> QED BY <1>5, <2>1
<1> QED BY <1>4, <1>5, <1>6, <1>7 DEF Spelled

LEMMA SkipRoute ==
  ASSUME NEW x, NEW p \in Seq(Brackets), NEW c, NEW r \in Seq(Brackets), r = Eff(x, p, c),
         NEW m, m = Bump(p, c), NEW s, Route(s, m, r, c), Len(s) > 0, NEW u, u = <<Skip>> \o s,
         Len(m) > 0 \/ c \notin Ending \/ Quiet(s[1]),
         Len(r) > 0 \/ Closer(x) \/ ~Closer(s[Len(s)])
  PROVE  Spelled(x, u, p, c)
<1>1. Skip.op = "skip"
  BY ItemFacts
<1>2. s \in Seq(Items) /\ Path(s, m, r, c) /\ Anywhere(s[1])
  BY DEF Route
<1>3. Joins(Skip, m, s[1])
  BY <1>1, <1>2 DEF Joins, Leaves, Anywhere, Closer
<1>4. SkipBegins(x, s[1], p, c)
  <2>1. Len(<<>>) = 0 /\ ~(0 > 0)
    OBVIOUS
  <2>2. Spot(s[1]) = "none"
    BY <1>2 DEF Anywhere
  <2> QED BY <2>1, <2>2 DEF SkipBegins
<1> QED BY <1>2, <1>3, <1>4, SkipPath

(* Blocks and structures, up to their }. *)
LEMMA Braced ==
  ASSUME NEW p \in Seq(Brackets), Len(p) > 0, NEW c
  PROVE  /\ Spelled(Call("next_member"), Calls1("next_member", c), p, c)
         /\ Spelled(Call("next_stmt"), Calls1("next_stmt", c), p, c)
         /\ Spelled(Call("next_loop_stmt"), Calls1("next_loop_stmt", c), p, c)
<1>1. PICK r : r = Bump(p, "}") /\ r \in Seq(Brackets)
  BY BumpIs
<1>2. ASSUME NEW f \in ClosesBrace
      PROVE  /\ f \in ParseFns /\ r = Eff(Call(f), p, c) /\ Closer(Call(f)) /\ Anywhere(Call(f))
             /\ Enough(Call(f), p) /\ f # "global"
  <2>1. f \in ParseFns /\ f \notin ClosesParen /\ f # "global"
    BY <1>2 DEF ParseFns, OneToken, ClosesParen, ClosesBrace
  <2>2. PICK a : a = Call(f)
    OBVIOUS
  <2>3. a.op = "call" /\ a.arg = f /\ r = Eff(a, p, c)
    <3>1. f \in ClosesBrace
      BY <1>2
    <3> QED BY ONLY p \in Seq(Brackets), <1>1, <2>1, <2>2, <3>1, CallEff, ZenonT(60)
  <2>4. Closer(a)
    BY <1>2, <2>3 DEF Closer
  <2>5. Anywhere(a)
    BY <1>2, <2>3 DEF Anywhere, Spot, ClosesBrace
  <2>6. Enough(a, p)
    <3>1. ~Inmost(a)
      BY <2>1, <2>3 DEF Inmost
    <3>2. Len(p) \in Nat /\ Len(p) >= 1
      OBVIOUS
    <3> QED BY <3>1, <3>2 DEF Enough
  <2> QED BY <2>1, <2>2, <2>3, <2>4, <2>5, <2>6
<1>3. ASSUME NEW f \in ClosesBrace, NEW k \in {"compound", "struct_decl"}
      PROVE  Spelled(Call(f), <<Require("}"), Make(k)>>, p, c)
  <2>1. PICK s : s = <<Make(k)>>
    OBVIOUS
  <2>2. Route(s, r, r, c) /\ Len(s) = 1 /\ Quiet(s[1])
    BY <1>1, <2>1, MakeRoute
  <2>3. PICK u : u = <<Require("}"), Make(k)>>
    OBVIOUS
  <2>4. u = <<Require("}")>> \o s
    BY <2>1, <2>3, Parts
  <2>5. "}" \in Required
    BY DEF Required
  <2>6. Route(u, p, r, c)
    BY ONLY p \in Seq(Brackets), Len(p) > 0, <1>1, <2>2, <2>4, <2>5, RequireRoute, Zenon
  <2>7. Spelled(Call(f), u, p, c)
    BY <1>1, <1>2, <2>6, RouteSpelled
  <2> QED BY <2>3, <2>7
<1>4. ASSUME NEW f \in ClosesBrace, NEW a \in PlainItems, NEW b \in PlainItems
      PROVE  Spelled(Call(f), <<a, b, Call(f)>>, p, c)
  <2>1. PICK s, g, u : s = <<a, b>> /\ g = Call(f) /\ u = <<a, b, g>>
    OBVIOUS
  <2>2. s \in Seq(PlainItems)
    BY <2>1, Tuples, Zenon
  <2>3. u = s \o <<g>>
    <3>1. <<a, b, g>> = <<a, b>> \o <<g>>
      OBVIOUS
    <3> QED BY <2>1, <3>1
  <2>4. Route(u, p, r, c)
    BY <1>2, <2>1, <2>2, <2>3, PassRoute
  <2>5. Spelled(g, u, p, c)
    BY <1>1, <1>2, <2>1, <2>4, RouteSpelled
  <2> QED BY <2>1, <2>5
<1>5. PICK E : E = PlainItems
  OBVIOUS
<1>6. /\ Call("decl") \in E /\ Require(";") \in E /\ Call("stmt") \in E /\ Call("semicolon") \in E
      /\ Call("loop_stmt") \in E /\ Call("loop_semicolon") \in E
  BY <1>5, PlainInIs, Zenon DEF PlainIn, PlainCallsIn, PlainRequiresIn
<1>7. "next_member" \in ClosesBrace /\ "next_stmt" \in ClosesBrace /\ "next_loop_stmt" \in ClosesBrace
  BY DEF ClosesBrace
<1>8. Spelled(Call("next_member"), Calls1("next_member", c), p, c)
  <2>1. Calls1("next_member", c) = next_member(c)
    BY DEF Calls1
  <2>2. Spelled(Call("next_member"), <<Require("}"), Make("struct_decl")>>, p, c)
    BY <1>3, <1>7
  <2>3. Spelled(Call("next_member"), <<Call("decl"), Require(";"), Call("next_member")>>, p, c)
    BY <1>4, <1>5, <1>6, <1>7
  <2> QED BY ONLY <2>1, <2>2, <2>3, Zenon DEF next_member
<1>9. Spelled(Call("next_stmt"), Calls1("next_stmt", c), p, c)
  <2>1. Calls1("next_stmt", c) = next_stmt(c)
    BY DEF Calls1
  <2>2. Spelled(Call("next_stmt"), <<Require("}"), Make("compound")>>, p, c)
    BY <1>3, <1>7
  <2>3. Spelled(Call("next_stmt"), <<Call("stmt"), Call("semicolon"), Call("next_stmt")>>, p, c)
    BY <1>4, <1>5, <1>6, <1>7
  <2> QED BY ONLY <2>1, <2>2, <2>3, Zenon DEF next_stmt
<1>10. Spelled(Call("next_loop_stmt"), Calls1("next_loop_stmt", c), p, c)
  <2>1. Calls1("next_loop_stmt", c) = next_loop_stmt(c)
    BY DEF Calls1
  <2>2. Spelled(Call("next_loop_stmt"), <<Require("}"), Make("compound")>>, p, c)
    BY <1>3, <1>7
  <2>3. Spelled(Call("next_loop_stmt"),
                <<Call("loop_stmt"), Call("loop_semicolon"), Call("next_loop_stmt")>>, p, c)
    BY <1>4, <1>5, <1>6, <1>7
  <2> QED BY ONLY <2>1, <2>2, <2>3, Zenon DEF next_loop_stmt
<1> QED BY <1>8, <1>9, <1>10

(* What is read up to a ). *)
LEMMA ParenIs ==
  ASSUME NEW f \in ClosesParen, NEW p \in Seq(Brackets), Len(p) > 1, NEW c
  PROVE  /\ f \in ParseFns /\ f # "global" /\ Bump(p, ")") = Eff(Call(f), p, c)
         /\ Bump(p, ")") \in Seq(Brackets) /\ Len(Bump(p, ")")) > 0 /\ Len(p) > 0
         /\ Enough(Call(f), p) /\ (f # "for_kind" => Anywhere(Call(f)))
         /\ Call(f) \in Items /\ Marked(Call(f), p, Bump(p, ")"), c)
<1>1. f \in ParseFns /\ f # "global" /\ f \notin {"function_call", "array_access", "symbol",
                                                  "var_name", "decl_kind", "var_rest"}
  BY DEF ParseFns, OneToken, TwoTokens, NoToken, ClosesParen
<1>2. PICK a : a = Call(f)
  OBVIOUS
<1>3. a \in Items /\ a.op = "call" /\ a.arg = f /\ Bump(p, ")") = Eff(a, p, c)
  BY <1>1, <1>2, CallEff
<1>4. Bump(p, ")") \in Seq(Brackets) /\ Len(Bump(p, ")")) > 0 /\ Len(p) > 0 /\ Len(p) >= 1 /\ Len(p) >= 2
  <2>1. /\ Bump(p, ")") \in Seq(Brackets) /\ Len(p) \in Nat /\ Len(Bump(p, ")")) \in Nat
        /\ Len(Bump(p, ")")) >= Len(p) - 1
    BY BumpIs
  <2> QED BY <2>1
<1>5. Enough(a, p)
  BY <1>4 DEF Enough
<1>6. f # "for_kind" => Anywhere(a)
  BY <1>1, <1>3 DEF Anywhere, Spot
<1>7. Marked(a, p, Bump(p, ")"), c)
  BY <1>1, <1>3, <1>5 DEF Marked
<1> QED BY <1>1, <1>2, <1>3, <1>4, <1>5, <1>6, <1>7

LEMMA Parenthesized ==
  ASSUME NEW p \in Seq(Brackets), Len(p) > 1, NEW c
  PROVE  /\ Spelled(Call("next_arg"), Calls1("next_arg", c), p, c)
         /\ Spelled(Call("for_cond"), Calls1("for_cond", c), p, c)
         /\ Spelled(Call("for_inc"), Calls1("for_inc", c), p, c)
         /\ Spelled(Call("for_range"), Calls0("for_range"), p, c)
<1>1. PICK r : r = Bump(p, ")")
  OBVIOUS
<1>2. ASSUME NEW f \in ClosesParen
      PROVE  /\ f \in ParseFns /\ f # "global" /\ r = Eff(Call(f), p, c) /\ Enough(Call(f), p)
             /\ f # "for_kind" => Anywhere(Call(f))
  BY <1>1, ParenIs
<1>3. /\ "next_arg" \in ClosesParen /\ "for_cond" \in ClosesParen /\ "for_inc" \in ClosesParen
      /\ "for_range" \in ClosesParen /\ ")" \in Required
  BY DEF ClosesParen, Required
<1>4. r \in Seq(Brackets) /\ Len(r) > 0 /\ Len(p) > 0
  BY <1>1, <1>3, ParenIs
<1>5. ASSUME NEW f \in ClosesParen, NEW u, Route(u, p, r, c) PROVE Spelled(Call(f), u, p, c)
  <2>1. PICK x : x = Call(f) /\ r = Eff(x, p, c)
    BY <1>2
  <2>2. Spelled(x, u, p, c)
    BY ONLY <1>4, <1>5, <2>1, RouteSpelled, Zenon
  <2> QED BY <2>1, <2>2
<1>6. ASSUME NEW f \in ClosesParen, f # "for_kind", NEW s \in Seq(PlainItems)
      PROVE  Route(s \o <<Call(f)>>, p, r, c)
  BY <1>2, <1>4, <1>6, PassRoute
<1>7. ASSUME NEW s1 \in Seq(PlainItems), NEW s2 \in Seq(PlainItems), NEW u,
             u = s1 \o (<<Require(")")>> \o s2)
      PROVE  Route(u, p, r, c)
  BY ONLY p \in Seq(Brackets), Len(p) > 1, <1>1, <1>3, <1>7, ClosingRoute, Zenon
<1>8. PICK E : E = PlainItems
  OBVIOUS
<1>9. PlainIn(E)
  BY <1>8, PlainInIs
<1>10. Spelled(Call("next_arg"), Calls1("next_arg", c), p, c)
  <2>1. Calls1("next_arg", c) = next_arg(c)
    BY DEF Calls1
  <2>2. PICK a, b, d, g, t : /\ a = Call("logical_or") /\ b = Call("comma") /\ d = Make("function_call")
                             /\ g = Call("next_arg") /\ t = Require(")")
    OBVIOUS
  <2>3. a \in E /\ b \in E /\ d \in E
    BY <1>9, <2>2, Zenon DEF PlainIn, PlainCallsIn, PlainMakesIn
  <2>4. <<>> \in Seq(E) /\ <<d>> \in Seq(E) /\ <<a, b>> \in Seq(E)
    BY <2>3, Tuples, Zenon
  <2>5. <<t, d>> = <<>> \o (<<t>> \o <<d>>) /\ <<a, b, g>> = <<a, b>> \o <<g>>
    <3>1. <<t, d>> = <<t>> \o <<d>>
      BY Parts
    <3>2. <<>> \o <<t, d>> = <<t, d>> /\ <<a, b, g>> = <<a, b>> \o <<g>>
      OBVIOUS
    <3> QED BY <3>1, <3>2, Zenon
  <2>6. Route(<<t, d>>, p, r, c)
    BY <1>7, <1>8, <2>2, <2>4, <2>5
  <2>7. Route(<<a, b, g>>, p, r, c)
    BY <1>3, <1>6, <1>8, <2>2, <2>4, <2>5
  <2>8. Spelled(g, <<t, d>>, p, c) /\ Spelled(g, <<a, b, g>>, p, c)
    BY <1>3, <1>5, <2>2, <2>6, <2>7
  <2> QED BY ONLY <2>1, <2>2, <2>8, Zenon DEF next_arg
<1>11. Spelled(Call("for_cond"), Calls1("for_cond", c), p, c)
  <2>1. Calls1("for_cond", c) = for_cond(c)
    BY DEF Calls1
  <2>2. PICK a, b, g, x : /\ a = Call("expr") /\ b = Require(";") /\ g = Call("for_inc")
                          /\ x = Call("for_cond")
    OBVIOUS
  <2>3. a \in E /\ b \in E
    BY <1>9, <2>2, Zenon DEF PlainIn, PlainCallsIn, PlainRequiresIn
  <2>4. <<>> \in Seq(E) /\ <<a, b>> \in Seq(E)
    BY <2>3, Tuples, Zenon
  <2>5. <<a, b, g>> = <<a, b>> \o <<g>> /\ <<>> \o <<g>> = <<g>>
    OBVIOUS
  <2>6. Route(<<a, b, g>>, p, r, c) /\ Route(<<g>>, p, r, c)
    BY <1>3, <1>6, <1>8, <2>2, <2>4, <2>5
  <2>7. Spelled(x, <<a, b, g>>, p, c)
    BY <1>3, <1>5, <2>2, <2>6
  <2>8. c = ";" => Spelled(x, <<Skip, g>>, p, c)
    <3> SUFFICES ASSUME c = ";" PROVE Spelled(x, <<Skip, g>>, p, c)
      OBVIOUS
    <3>1. p = Bump(p, c)
      BY Words, BumpIs
    <3>2. PICK s, u : s = <<g>> /\ u = <<Skip, g>>
      OBVIOUS
    <3>3. Len(s) > 0 /\ u = <<Skip>> \o s
      <4>1. Len(s) > 0
        BY ONLY <3>2, SMT
      <4>2. u = <<Skip>> \o s
        BY ONLY <3>2, Parts, Zenon
      <4> QED BY <4>1, <4>2
    <3>4. r = Eff(x, p, c) /\ Route(s, p, r, c)
      BY <1>2, <1>3, <2>2, <2>6, <3>2
    <3>5. Spelled(x, u, p, c)
      BY ONLY p \in Seq(Brackets), <1>4, <3>1, <3>3, <3>4, SkipRoute, Zenon
    <3> QED BY <3>2, <3>5
  <2> QED BY ONLY <2>1, <2>2, <2>7, <2>8, Zenon DEF for_cond
<1>12. Body \in Seq(E)
  <2>1. Deepen \in E /\ Call("block") \in E /\ Shallow \in E
    BY <1>9, Zenon DEF PlainIn, PlainCallsIn, PlainOthersIn
  <2> QED BY <2>1, Tuples, Zenon DEF Body
<1>13. ASSUME NEW u, Route(u, p, r, c), NEW a \in E PROVE Route((u \o Body) \o <<a>>, p, r, c)
  <2>1. PICK v, w, t : v = u \o Body /\ t = <<a>> /\ w = v \o t
    OBVIOUS
  <2>2. t \in Seq(PlainItems)
    BY <1>8, <1>13, <2>1, Tuples, Zenon
  <2>3. Route(Body, r, r, c) /\ Route(t, r, r, c)
    BY <1>4, <1>8, <1>12, <2>2, RoutePlain
  <2>4. Route(v, p, r, c)
    BY ONLY <1>4, <1>13, <2>1, <2>3, RouteConcat, Zenon
  <2>5. Route(w, p, r, c)
    BY ONLY <1>4, <2>1, <2>3, <2>4, RouteConcat, Zenon
  <2> QED BY <2>1, <2>5
<1>14. Spelled(Call("for_range"), Calls0("for_range"), p, c)
  <2>1. Calls0("for_range") = parse_for_range
    BY DEF Calls0
  <2>2. PICK a, b, d, e, t : /\ a = Call("decl_without_initializer") /\ b = Require(":")
                             /\ d = Call("expr") /\ e = Make("for_range") /\ t = Require(")")
    OBVIOUS
  <2>3. a \in E /\ b \in E /\ d \in E /\ e \in E
    BY <1>9, <2>2, Zenon DEF PlainIn, PlainCallsIn, PlainRequiresIn, PlainMakesIn
  <2>4. <<>> \in Seq(E) /\ <<a, b, d>> \in Seq(E)
    BY <2>3, Tuples, Zenon
  <2>5. <<a, b, d, t>> = <<a, b, d>> \o (<<t>> \o <<>>)
    <3>1. <<t>> \o <<>> = <<t>> /\ <<a, b, d, t>> = <<a, b, d>> \o <<t>>
      OBVIOUS
    <3> QED BY <3>1, Zenon
  <2>6. Route(<<a, b, d, t>>, p, r, c)
    BY <1>7, <1>8, <2>2, <2>4, <2>5
  <2>7. Route((<<a, b, d, t>> \o Body) \o <<e>>, p, r, c)
    BY <1>13, <2>3, <2>6
  <2>8. Spelled(Call("for_range"), (<<a, b, d, t>> \o Body) \o <<e>>, p, c)
    BY <1>3, <1>5, <2>7
  <2> QED BY ONLY <2>1, <2>2, <2>8, Zenon DEF parse_for_range
<1>15. Spelled(Call("for_inc"), Calls1("for_inc", c), p, c)
  <2>1. Calls1("for_inc", c) = for_inc(c)
    BY DEF Calls1
  <2>2. PICK a, e, t, x : /\ a = Call("expr") /\ e = Make("for") /\ t = Require(")")
                          /\ x = Call("for_inc")
    OBVIOUS
  <2>3. a \in E /\ e \in E
    BY <1>9, <2>2, Zenon DEF PlainIn, PlainCallsIn, PlainMakesIn
  <2>4. <<>> \in Seq(E) /\ <<a>> \in Seq(E)
    BY <2>3, Tuples, Zenon
  <2>5. <<a, t>> = <<a>> \o (<<t>> \o <<>>)
    <3>1. <<t>> \o <<>> = <<t>> /\ <<a, t>> = <<a>> \o <<t>>
      OBVIOUS
    <3> QED BY <3>1, Zenon
  <2>6. Route(<<a, t>>, p, r, c)
    BY <1>7, <1>8, <2>2, <2>4, <2>5
  <2>7. Route((<<a, t>> \o Body) \o <<e>>, p, r, c)
    BY <1>13, <2>3, <2>6
  <2>8. Spelled(x, (<<a, t>> \o Body) \o <<e>>, p, c)
    BY <1>3, <1>5, <2>2, <2>7
  <2>9. c = ")" => Spelled(x, (<<Skip>> \o Body) \o <<e>>, p, c)
    <3> SUFFICES ASSUME c = ")" PROVE Spelled(x, (<<Skip>> \o Body) \o <<e>>, p, c)
      OBVIOUS
    <3>1. PICK b, d, g : b = Deepen /\ d = Call("block") /\ g = Shallow /\ Body = <<b, d, g>>
      BY DEF Body
    <3>2. b \in E /\ d \in E /\ g \in E
      BY <1>9, <3>1, Zenon DEF PlainIn, PlainCallsIn, PlainOthersIn
    <3>3. PICK s, u : s = <<b, d, g, e>> /\ u = <<Skip>> \o s
      OBVIOUS
    <3>4. (<<Skip>> \o <<b, d, g>>) \o <<e>> = <<Skip>> \o <<b, d, g, e>>
      OBVIOUS
    <3>5. s \in Seq(PlainItems) /\ Len(s) > 0
      <4>1. <<b, d, g, e>> \in Seq(E)
        BY <2>3, <3>2, Tuples, Zenon
      <4>2. Len(<<b, d, g, e>>) > 0
        OBVIOUS
      <4> QED BY <1>8, <3>3, <4>1, <4>2
    <3>6. Route(s, r, r, c) /\ r = Eff(x, p, c)
      BY <1>2, <1>3, <1>4, <2>2, <3>5, RoutePlain
    <3>7. Spelled(x, u, p, c)
      BY ONLY p \in Seq(Brackets), <1>1, <1>4, c = ")", <3>3, <3>5, <3>6, SkipRoute, Zenon
    <3> QED BY <3>1, <3>3, <3>4, <3>7
  <2>10. \/ c = ")" /\ for_inc(c) = (<<Skip>> \o Body) \o <<e>>
         \/ for_inc(c) = (<<a, t>> \o Body) \o <<e>>
    BY ONLY <2>2, Zenon DEF for_inc
  <2> QED BY ONLY <2>1, <2>2, <2>8, <2>9, <2>10, Zenon
<1> QED BY <1>10, <1>11, <1>14, <1>15

(* An item that leaves the brackets alone. *)
LEMMA StillIs ==
  ASSUME NEW a \in Items, a.op \notin {"skip", "require", "recount"},
         a.op = "call" => a.arg \notin ClosesParen \union ClosesBrace \union {"global"},
         NEW p \in Seq(Brackets), Len(p) > 0 \/ Outer(a), NEW c
  PROVE  Marked(a, p, p, c) /\ Eff(a, p, c) = p
<1>1. Net(a, c) = "none"
  BY NetIs
<1>2. Bump(p, "none") = p
  <2>1. "none" \notin Opens \union Closes
    BY DEF Opens, Closes
  <2> QED BY <2>1, BumpIs
<1>3. Eff(a, p, c) = p
  BY <1>1, <1>2 DEF Eff
<1>4. Enough(a, p)
  <2>1. ~Inmost(a)
    BY DEF Inmost
  <2>2. Len(p) > 0 => Len(p) >= 1
    <3>1. Len(p) \in Nat
      OBVIOUS
    <3> QED BY <3>1
  <2> QED BY <2>1, <2>2, Zenon DEF Enough
<1> QED BY <1>3, <1>4 DEF Marked

LEMMA CallStill ==
  ASSUME NEW g \in ParseFns, g \notin ClosesParen \union ClosesBrace \union {"global"},
         NEW p \in Seq(Brackets), Len(p) > 0, NEW c
  PROVE  /\ Call(g) \in Items /\ Call(g).op = "call" /\ Call(g).arg = g
         /\ Marked(Call(g), p, p, c) /\ Eff(Call(g), p, c) = p
<1>1. PICK a : a = Call(g)
  OBVIOUS
<1>2. a \in Items /\ a.op = "call" /\ a.arg = g
  BY <1>1, ItemFacts
<1>3. Marked(a, p, p, c) /\ Eff(a, p, c) = p
  BY <1>2, StillIs
<1> QED BY <1>1, <1>2, <1>3

(* Two items, the first of which leaves the brackets alone. *)
LEMMA HeadTwo ==
  ASSUME NEW x, NEW a \in Items, Begins(x, a), a.op # "skip", NEW b \in Items,
         NEW p \in Seq(Brackets), NEW r \in Seq(Brackets), NEW c, Marked(a, p, p, c),
         Marked(b, p, r, c), Joins(a, p, b), r = Eff(x, p, c), Len(r) > 0
  PROVE  Spelled(x, <<a, b>>, p, c)
<1>1. PICK s, u : s = <<b>> /\ u = <<a, b>>
  OBVIOUS
<1>2. s \in Seq(Items) /\ Len(s) > 0 /\ s[1] = b
  BY <1>1
<1>3. u = <<a>> \o s
  BY <1>1, Parts
<1>4. Path(s, p, r, c)
  BY <1>1, PathOne
<1>5. Spelled(x, u, p, c)
  BY <1>2, <1>3, <1>4, HeadSpelled
<1> QED BY <1>1, <1>5

LEMMA SkipTwo ==
  ASSUME NEW x, NEW a \in Items, NEW p \in Seq(Brackets), NEW c, SkipBegins(x, a, p, c),
         a.op # "skip", c \notin Opens \union Closes, Marked(a, p, p, c),
         Leaves(Skip, a), p = Eff(x, p, c), ~Closer(a)
  PROVE  Spelled(x, <<Skip, a>>, p, c)
<1>1. PICK s, u : s = <<a>> /\ u = <<Skip, a>>
  OBVIOUS
<1>2. s \in Seq(Items) /\ Len(s) > 0 /\ s[1] = a /\ s[Len(s)] = a
  BY <1>1
<1>3. u = <<Skip>> \o s
  BY <1>1, Parts
<1>4. Path(s, p, p, c)
  BY <1>1, PathOne
<1>5. p = Bump(p, c)
  BY BumpIs
<1>6. Joins(Skip, p, a)
  <2>1. Skip.op = "skip"
    BY ItemFacts
  <2> QED BY <2>1 DEF Joins, Closer
<1>7. Spelled(x, u, p, c)
  BY <1>2, <1>3, <1>4, <1>5, <1>6, SkipPath
<1> QED BY <1>1, <1>7

(* Types: at any place. *)
LEMMA TypeSpelled ==
  ASSUME NEW p \in Seq(Brackets), NEW c
  PROVE  /\ Spelled(Call("type"), Calls1("type", c), p, c)
         /\ Spelled(Call("return_type"), Calls1("return_type", c), p, c)
<1>1. PICK t, w : t = Call("type") /\ w = Call("return_type")
  OBVIOUS
<1>2. /\ t \in Items /\ t.op = "call" /\ t.arg = "type" /\ Eff(t, p, c) = p
      /\ w \in Items /\ w.op = "call" /\ w.arg = "return_type" /\ Eff(w, p, c) = p
      /\ "type" \in ParseFns /\ "type" \notin ClosesParen \union ClosesBrace \union {"global"}
  <2>1. /\ "type" \in ParseFns /\ "return_type" \in ParseFns
        /\ "type" \notin ClosesParen \union ClosesBrace \union {"global"}
        /\ "return_type" \notin ClosesParen \union ClosesBrace
    BY DEF ParseFns, OneToken, ClosesParen, ClosesBrace
  <2> QED BY <1>1, <2>1, CallEff
<1>3. Spelled(t, Calls1("type", c), p, c)
  <2>1. Calls1("type", c) = parse_type(c)
    BY DEF Calls1
  <2>2. Spelled(t, <<Skip>> \o Fail, p, c)
    BY <1>1, <1>2, FailSpelled
  <2>3. ASSUME c \in {"int", "sym"} PROVE Spelled(t, <<Skip, Stars>>, p, c)
    <3>1. PICK a : a = Stars /\ a \in Items /\ a.op = "stars" /\ a.op # "skip"
      BY ItemFacts
    <3>2. c \notin Opens \union Closes /\ c \notin Ending
      BY <2>3 DEF Opens, Closes, Ending
    <3>3. Spot(a) = "same" /\ ~Closer(a) /\ Outer(a)
      BY <3>1 DEF Spot, Closer, Outer
    <3>4. Leaves(Skip, a)
      <4>1. Skip.op = "skip"
        BY ItemFacts
      <4> QED BY <3>3, <4>1 DEF Leaves
    <3>5. SkipBegins(t, a, p, c)
      BY <1>2, <3>2, <3>3 DEF SkipBegins
    <3>6. Marked(a, p, p, c)
      BY <3>1, <3>3, StillIs
    <3>7. Spelled(t, <<Skip, a>>, p, c)
      BY ONLY p \in Seq(Brackets), <1>2, <3>1, <3>2, <3>3, <3>4, <3>5, <3>6, SkipTwo
    <3> QED BY <3>1, <3>7
  <2> QED BY ONLY <2>1, <2>2, <2>3, Zenon DEF parse_type
<1>4. Spelled(w, Calls1("return_type", c), p, c)
  <2>1. Calls1("return_type", c) = parse_return_type(c)
    BY DEF Calls1
  <2>2. Spelled(w, <<t>>, p, c)
    <3>1. Spot(t) = "none" /\ Outer(t) /\ ~Closer(t)
      BY <1>2 DEF Spot, Outer, Closer, ClosesBrace
    <3>2. Marked(t, p, p, c)
      BY <1>2, <3>1, StillIs
    <3>3. PICK s : s = <<t>>
      OBVIOUS
    <3>4. s \in Seq(Items) /\ Len(s) = 1 /\ s[1] = t
      BY <1>2, <3>3
    <3>5. Path(s, p, p, c)
      BY <3>2, <3>3, PathOne
    <3>6. Begins(w, t) /\ t.op # "skip"
      BY <1>2, <3>1 DEF Begins
    <3>7. Spelled(w, s, p, c)
      BY <1>2, <3>1, <3>4, <3>5, <3>6 DEF Spelled
    <3> QED BY <3>3, <3>7
  <2>3. ASSUME c = "void" PROVE Spelled(w, <<Skip>>, p, c)
    <3>1. c \notin Opens \union Closes /\ c \notin Ending
      BY <2>3 DEF Opens, Closes, Ending
    <3>2. PICK a : a = Skip /\ a \in Items /\ a.op = "skip"
      BY ItemFacts
    <3>3. Bump(p, c) = p /\ Net(a, c) = c
      BY <3>1, <3>2, BumpIs, NetIs
    <3>4. Eff(a, p, c) = p
      BY <3>2, <3>3 DEF Eff
    <3>5. Spot(a) = "none" /\ Outer(a) /\ ~Closer(a) /\ ~Inmost(a)
      BY <3>2 DEF Spot, Outer, Closer, Inmost
    <3>6. Marked(a, p, p, c)
      BY <3>2, <3>4, <3>5 DEF Marked, Enough
    <3>7. PICK s : s = <<a>>
      OBVIOUS
    <3>8. s \in Seq(Items) /\ Len(s) = 1 /\ s[1] = a
      BY <3>2, <3>7
    <3>9. Path(s, p, p, c)
      BY <3>6, <3>7, PathOne
    <3>10. Spelled(w, s, p, c)
      BY <1>2, <3>1, <3>5, <3>8, <3>9 DEF Spelled, Begins
    <3> QED BY <3>2, <3>7, <3>10
  <2> QED BY ONLY <1>1, <2>1, <2>2, <2>3, Zenon DEF parse_return_type
<1> QED BY <1>1, <1>3, <1>4

(* What begins with a name. *)
LEMMA SymbolSpelled ==
  ASSUME NEW p \in Seq(Brackets), Len(p) > 0, NEW c
  PROVE  Spelled(Call("symbol"), Calls1("symbol", c), p, c)
<1>1. PICK x : x = Call("symbol")
  OBVIOUS
<1>2. /\ "symbol" \in ParseFns \ (ClosesParen \union ClosesBrace)
      /\ "symbol" \in ParseFns /\ "symbol" \notin ClosesParen \union ClosesBrace \union {"global"}
  BY DEF ParseFns, OneToken, ClosesParen, ClosesBrace
<1>3. x.op = "call" /\ x.arg = "symbol" /\ Eff(x, p, c) = p
  BY <1>1, <1>2, CallStill
<1>4. Calls1("symbol", c) = parse_symbol(c)
  BY DEF Calls1
<1>5. PICK k : k = Back /\ k \in Items /\ k.op = "back"
  BY ItemFacts
<1>6. Marked(k, p, p, c)
  BY <1>5, StillIs
<1>7. Begins(x, k) /\ k.op # "skip" /\ ~Closer(k)
  BY <1>3, <1>5 DEF Begins, Closer
<1>8. ASSUME NEW g \in {"function_call", "array_access", "struct_field_access"}
      PROVE  Spelled(x, <<Back, Call(g)>>, p, c)
  <2>1. g \in ParseFns /\ g \notin ClosesParen \union ClosesBrace \union {"global"}
    BY DEF ParseFns, TwoTokens, NoToken, ClosesParen, ClosesBrace
  <2>2. PICK y : y = Call(g)
    OBVIOUS
  <2>3. y \in Items /\ y.op = "call" /\ y.arg = g /\ Marked(y, p, p, c)
    BY <2>1, <2>2, CallStill
  <2>4. Spot(y) = "at" \/ Spot(y) = "none"
    BY <2>3 DEF Spot
  <2>5. Joins(k, p, y)
    BY <1>5, <1>7, <2>3, <2>4 DEF Joins, Leaves
  <2>6. Spelled(x, <<k, y>>, p, c)
    BY <1>3, <1>5, <1>6, <1>7, <2>3, <2>5, HeadTwo
  <2> QED BY <1>5, <2>2, <2>6
<1>9. Spelled(x, <<Make("symbol")>>, p, c)
  <2>1. PICK E : E = PlainItems
    OBVIOUS
  <2>2. PlainIn(E) /\ Fail \in Seq(E)
    BY <2>1, PlainInIs DEF PlainIn, PlainOthersIn
  <2>3. Make("symbol") \in E
    BY <2>2, Zenon DEF PlainIn, PlainMakesIn
  <2>4. Shape(<<Make("symbol")>>, E, c)
    BY <2>2, <2>3, Shapes, Zenon
  <2> QED BY <1>1, <1>2, <2>1, <2>4, ShapeSpelled
<1>10. /\ Spelled(x, <<Back, Call("function_call")>>, p, c)
       /\ Spelled(x, <<Back, Call("array_access")>>, p, c)
       /\ Spelled(x, <<Back, Call("struct_field_access")>>, p, c)
  BY <1>8
<1> QED BY ONLY <1>1, <1>4, <1>9, <1>10, Zenon DEF parse_symbol

LEMMA PrimarySpelled ==
  ASSUME NEW p \in Seq(Brackets), Len(p) > 0, NEW c
  PROVE  Spelled(Call("primary"), Calls1("primary", c), p, c)
<1>1. PICK x : x = Call("primary")
  OBVIOUS
<1>2. "primary" \in ParseFns /\ "primary" \notin ClosesParen \union ClosesBrace \union {"global"}
  BY DEF ParseFns, OneToken, ClosesParen, ClosesBrace
<1>3. x.op = "call" /\ x.arg = "primary" /\ p = Eff(x, p, c)
  BY <1>1, <1>2, CallStill
<1>4. Calls1("primary", c) = parse_primary(c)
  BY DEF Calls1
<1>5. PICK E : E = PlainItems
  OBVIOUS
<1>6. PlainIn(E) /\ Fail \in Seq(E)
  BY <1>5, PlainInIs DEF PlainIn, PlainOthersIn
<1>7. Spelled(x, <<Call("constant")>>, p, c)
  <2>1. Call("constant") \in E
    BY <1>6, Zenon DEF PlainIn, PlainCallsIn
  <2>2. Shape(<<Call("constant")>>, E, c)
    BY <1>6, <2>1, Shapes, Zenon
  <2> QED BY <1>1, <1>2, <1>5, <2>2, ShapeSpelled
<1>8. ASSUME c = "sym" PROVE Spelled(x, <<Skip, Call("symbol")>>, p, c)
  <2>1. "symbol" \in ParseFns /\ "symbol" \notin ClosesParen \union ClosesBrace \union {"global"}
    BY DEF ParseFns, OneToken, ClosesParen, ClosesBrace
  <2>2. PICK y : y = Call("symbol")
    OBVIOUS
  <2>3. y \in Items /\ y.op = "call" /\ y.arg = "symbol" /\ Marked(y, p, p, c)
    BY <2>1, <2>2, CallStill
  <2>4. c \notin Opens \union Closes /\ c \notin Ending
    BY <1>8 DEF Opens, Closes, Ending
  <2>5. Spot(y) = "after" /\ ~Closer(y) /\ y.op # "skip"
    BY <2>3 DEF Spot, Closer, ClosesBrace
  <2>6. Leaves(Skip, y)
    <3>1. Skip.op = "skip"
      BY ItemFacts
    <3> QED BY <2>5, <3>1 DEF Leaves
  <2>7. SkipBegins(x, y, p, c)
    BY <1>8, <2>4, <2>5 DEF SkipBegins
  <2>8. Spelled(x, <<Skip, y>>, p, c)
    BY ONLY p \in Seq(Brackets), <1>3, <2>3, <2>4, <2>5, <2>6, <2>7, SkipTwo
  <2> QED BY <2>2, <2>8
<1>9. ASSUME c = "("
      PROVE  Spelled(x, <<Skip, Call("logical_or"), Require(")"), Paren, Call("paren_member")>>, p, c)
  <2>1. PICK q : q = Bump(p, c) /\ q \in Seq(Brackets) /\ Len(q) > 1
    <3>1. c \in Opens
      BY <1>9 DEF Opens
    <3>2. Bump(p, c) \in Seq(Brackets) /\ Len(Bump(p, c)) = Len(p) + 1 /\ Len(p) \in Nat
      BY <3>1, BumpIs
    <3> QED BY <3>2
  <2>2. Bump(q, ")") = p
    BY <1>9, <2>1, BumpPair, PairIs
  <2>3. PICK a, t, d, e : /\ a = Call("logical_or") /\ t = Require(")") /\ d = Paren
                          /\ e = Call("paren_member")
    OBVIOUS
  <2>4. a \in E /\ d \in E /\ e \in E
    BY <1>6, <2>3, Zenon DEF PlainIn, PlainCallsIn, PlainOthersIn
  <2>5. <<a>> \in Seq(PlainItems) /\ <<d, e>> \in Seq(PlainItems)
    BY <1>5, <2>4, Tuples, Zenon
  <2>6. PICK s, u : s = <<a, t, d, e>> /\ u = <<Skip>> \o s
    OBVIOUS
  <2>7. s = <<a>> \o (<<t>> \o <<d, e>>)
    <3>1. <<a, t, d, e>> = <<a>> \o <<t, d, e>>
      OBVIOUS
    <3>2. <<t, d, e>> = <<t>> \o <<d, e>>
      BY Parts
    <3> QED BY <2>6, <3>1, <3>2
  <2>8. ")" \in Required
    BY DEF Required
  <2>9. Route(s, q, p, c)
    BY ONLY <2>1, <2>2, <2>3, <2>5, <2>7, <2>8, ClosingRoute
  <2>10. Len(s) > 0
    BY ONLY <2>6, SMT
  <2>11. Len(q) > 0
    BY ONLY <2>1, SMT
  <2>12. Spelled(x, u, p, c)
    BY ONLY p \in Seq(Brackets), Len(p) > 0, <1>3, <2>1, <2>6, <2>9, <2>10, <2>11, SkipRoute, Zenon
  <2>13. u = <<Skip, a, t, d, e>>
    <3>1. <<Skip, a, t, d, e>> = <<Skip>> \o <<a, t, d, e>>
      OBVIOUS
    <3> QED BY <2>6, <3>1
  <2> QED BY <2>3, <2>12, <2>13
<1> QED BY ONLY <1>1, <1>4, <1>7, <1>8, <1>9, Zenon DEF parse_primary

LEMMA AccessSpelled ==
  ASSUME NEW p \in Seq(Brackets), Len(p) > 0, NEW c, NEW d, c = "sym"
  PROVE  /\ Spelled(Call("array_access"), Calls2("array_access", c, d), p, c)
         /\ Spelled(Call("function_call"), Calls0("function_call"), p, c)
<1>1. /\ "array_access" \in ParseFns \ (ClosesParen \union ClosesBrace)
      /\ "function_call" \in ParseFns /\ "function_call" \notin ClosesParen \union ClosesBrace
      /\ "next_arg" \in ClosesParen /\ "(" \in Required
  BY DEF ParseFns, TwoTokens, NoToken, ClosesParen, ClosesBrace, Required
<1>2. c \notin Opens \union Closes /\ c \notin Ending
  BY DEF Opens, Closes, Ending
<1>3. PICK E : E = PlainItems
  OBVIOUS
<1>4. PlainIn(E) /\ Fail \in Seq(E)
  BY <1>3, PlainInIs DEF PlainIn, PlainOthersIn
<1>5. Spelled(Call("array_access"), Calls2("array_access", c, d), p, c)
  <2>1. Calls2("array_access", c, d) = parse_array_access(d)
    BY DEF Calls2
  <2>2. Call("next_index") \in E
    BY <1>4, Zenon DEF PlainIn, PlainCallsIn
  <2>3. Shape(Calls2("array_access", c, d), E, c)
    BY ONLY <1>2, <1>4, <2>1, <2>2, Shapes, Zenon DEF parse_array_access
  <2> QED BY <1>1, <1>3, <2>3, ShapeSpelled
<1>6. Spelled(Call("function_call"), Calls0("function_call"), p, c)
  <2>1. Calls0("function_call") = parse_function_call
    BY DEF Calls0
  <2>2. PICK x : x = Call("function_call") /\ p = Eff(x, p, c)
    BY <1>1, CallEff
  <2>3. PICK q : q = Bump(p, "(") /\ q \in Seq(Brackets) /\ Len(q) > 1 /\ Len(q) > 0
    <3>1. "(" \in Opens
      BY DEF Opens
    <3>2. Bump(p, "(") \in Seq(Brackets) /\ Len(Bump(p, "(")) = Len(p) + 1 /\ Len(p) \in Nat
      BY <3>1, BumpIs
    <3> QED BY <3>2
  <2>4. Bump(q, ")") = p
    BY <2>3, BumpPair, PairIs
  <2>5. PICK g, v : g = Call("next_arg") /\ v = <<g>>
    OBVIOUS
  <2>6. Route(v, q, p, c)
    <3>1. /\ "next_arg" \in ParseFns /\ "next_arg" # "global" /\ p = Eff(g, q, c) /\ Enough(g, q)
          /\ Anywhere(g)
      BY <1>1, <2>3, <2>4, <2>5, ParenIs
    <3> QED BY <2>3, <2>5, <3>1, PassRoute
  <2>7. PICK s : s = <<Require("(")>> \o v
    OBVIOUS
  <2>8. Route(s, p, p, c)
    BY ONLY p \in Seq(Brackets), Len(p) > 0, <1>1, <2>3, <2>6, <2>7, RequireRoute, Zenon
  <2>9. s = <<Require("("), g>>
    BY <2>5, <2>7, Parts
  <2>10. Len(s) > 0
    BY ONLY <2>9, SMT
  <2>11. PICK u : u = <<Skip>> \o s
    OBVIOUS
  <2>12. p = Bump(p, c)
    BY <1>2, BumpIs
  <2>13. Spelled(x, u, p, c)
    BY ONLY p \in Seq(Brackets), Len(p) > 0, <2>2, <2>8, <2>10, <2>11, <2>12, SkipRoute, Zenon
  <2>14. u = <<Skip, Require("("), g>>
    <3>1. <<Skip, Require("("), g>> = <<Skip>> \o <<Require("("), g>>
      BY Parts
    <3> QED BY <2>9, <2>11, <3>1
  <2> QED BY <2>1, <2>2, <2>5, <2>13, <2>14 DEF parse_function_call
<1> QED BY <1>5, <1>6

(* Variables: after the name the cursor may go back to the type. *)
LEMMA NameSpelled ==
  ASSUME NEW p \in Seq(Brackets), Len(p) > 0, NEW c
  PROVE  /\ Spelled(Call("var_decl"), Calls0("var_decl"), p, c)
         /\ Spelled(Call("var_name"), Calls1("var_name", c), p, c)
<1>1. PICK x, n, y, t : /\ x = Call("var_decl") /\ n = Call("var_name") /\ y = Call("var_rest")
                        /\ t = Call("type")
  OBVIOUS
<1>2. ASSUME NEW g \in {"var_decl", "var_name", "var_rest", "type"}
      PROVE  g \in ParseFns /\ g \notin ClosesParen \union ClosesBrace \union {"global"}
  BY DEF ParseFns, OneToken, NoToken, ClosesParen, ClosesBrace
<1>3. /\ x.op = "call" /\ x.arg = "var_decl" /\ p = Eff(x, p, c)
      /\ n \in Items /\ n.op = "call" /\ n.arg = "var_name" /\ p = Eff(n, p, c) /\ Marked(n, p, p, c)
      /\ y \in Items /\ y.op = "call" /\ y.arg = "var_rest" /\ Marked(y, p, p, c)
      /\ t \in Items /\ t.op = "call" /\ t.arg = "type" /\ Marked(t, p, p, c)
  BY <1>1, <1>2, CallStill
<1>4. Spelled(x, <<t, n>>, p, c)
  <2>1. Begins(x, t) /\ t.op # "skip" /\ ~Closer(t)
    BY <1>3 DEF Begins, Spot, Closer, ClosesBrace
  <2>2. Spot(n) = "same" /\ n.op # "skip"
    BY <1>3 DEF Spot
  <2>3. Joins(t, p, n)
    BY <1>3, <2>1, <2>2 DEF Joins, Leaves
  <2> QED BY <1>3, <2>1, <2>3, HeadTwo
<1>5. c = "sym" => Spelled(n, <<Skip, y>>, p, c)
  <2> SUFFICES ASSUME c = "sym" PROVE Spelled(n, <<Skip, y>>, p, c)
    OBVIOUS
  <2>1. c \notin Opens \union Closes /\ c \notin Ending
    BY DEF Opens, Closes, Ending
  <2>2. Spot(y) = "name" /\ ~Closer(y) /\ y.op # "skip"
    BY <1>3 DEF Spot, Closer, ClosesBrace
  <2>3. Leaves(Skip, y)
    <3>1. Skip.op = "skip"
      BY ItemFacts
    <3> QED BY <2>2, <3>1 DEF Leaves
  <2>4. SkipBegins(n, y, p, c)
    BY <1>3, <2>1, <2>2 DEF SkipBegins
  <2> QED BY ONLY p \in Seq(Brackets), <1>3, <2>1, <2>2, <2>3, <2>4, SkipTwo
<1>6. Spelled(n, <<Skip>> \o Fail, p, c)
  BY <1>1, <1>2, FailSpelled
<1>7. Calls0("var_decl") = parse_var_decl /\ Calls1("var_name", c) = var_name(c)
  BY DEF Calls0, Calls1
<1> QED BY ONLY <1>1, <1>4, <1>5, <1>6, <1>7, Zenon DEF parse_var_decl, var_name

LEMMA RestSpelled ==
  ASSUME NEW p \in Seq(Brackets), Len(p) > 0, NEW c
  PROVE  Spelled(Call("var_rest"), Calls1("var_rest", c), p, c)
<1>1. PICK x : x = Call("var_rest")
  OBVIOUS
<1>2. "var_rest" \in ParseFns /\ "var_rest" \notin ClosesParen \union ClosesBrace \union {"global"}
  BY DEF ParseFns, OneToken, ClosesParen, ClosesBrace
<1>3. x.op = "call" /\ x.arg = "var_rest" /\ p = Eff(x, p, c)
  BY <1>1, <1>2, CallStill
<1>4. Calls1("var_rest", c) = var_rest(c)
  BY DEF Calls1
<1>5. c = "=" => Spelled(x, <<Skip, Call("logical_or"), Make("var_decl")>>, p, c)
  <2> SUFFICES ASSUME c = "=" PROVE Spelled(x, <<Skip, Call("logical_or"), Make("var_decl")>>, p, c)
    OBVIOUS
  <2>1. PICK E : E = PlainItems
    OBVIOUS
  <2>2. PlainIn(E) /\ Fail \in Seq(E)
    BY <2>1, PlainInIs DEF PlainIn, PlainOthersIn
  <2>3. Call("logical_or") \in E /\ Make("var_decl") \in E
    BY <2>2, Zenon DEF PlainIn, PlainCallsIn, PlainMakesIn
  <2>4. c \notin Opens \union Closes
    BY Words, Zenon
  <2>5. Shape(<<Skip, Call("logical_or"), Make("var_decl")>>, E, c)
    BY <2>2, <2>3, <2>4, Shapes, Zenon
  <2> QED BY <1>1, <1>2, <2>1, <2>5, ShapeSpelled
<1>6. ASSUME c \in Opens, NEW g \in {"function_decl", "array_decl"}
      PROVE  Spelled(x, <<Skip, Recount, Call(g)>>, p, c)
  <2>1. PICK q : q = Bump(p, c) /\ q \in Seq(Brackets) /\ Len(q) > 1 /\ Len(q) >= 2 /\ Front(q) = p
    <3>1. /\ Bump(p, c) \in Seq(Brackets) /\ Len(Bump(p, c)) = Len(p) + 1 /\ Len(p) \in Nat
          /\ Front(Bump(p, c)) = p
      BY <1>6, BumpIs
    <3> QED BY <3>1
  <2>2. g \in ParseFns /\ g \notin ClosesParen \union ClosesBrace \union {"global"}
    BY DEF ParseFns, NoToken, ClosesParen, ClosesBrace
  <2>3. PICK k, y : k = Recount /\ y = Call(g)
    OBVIOUS
  <2>4. k \in Items /\ k.op = "recount"
    BY <2>3, ItemFacts
  <2>5. y \in Items /\ y.op = "call" /\ y.arg = g /\ Marked(y, p, p, c)
    BY <2>2, <2>3, CallStill
  <2>6. Marked(k, q, p, c)
    <3>1. Eff(k, q, c) = p
      BY <2>1, <2>4 DEF Eff, Front
    <3>2. Enough(k, q)
      <4>1. Len(q) >= 1
        BY <2>1
      <4> QED BY <2>1, <4>1, Zenon DEF Enough
    <3> QED BY <2>4, <3>1, <3>2 DEF Marked
  <2>7. Anywhere(y) /\ Spot(k) = "open" /\ k.op # "skip"
    BY <2>4, <2>5 DEF Anywhere, Spot
  <2>8. PICK v, s, u : v = <<y>> /\ s = <<k>> \o v /\ u = <<Skip>> \o s
    OBVIOUS
  <2>9. v \in Seq(Items) /\ Len(v) = 1 /\ v[1] = y
    BY <2>5, <2>8
  <2>10. Path(v, p, p, c)
    BY <2>5, <2>8, PathOne
  <2>11. Joins(k, p, y)
    BY <2>7, AnywhereJoins
  <2>12. Path(s, q, p, c) /\ s \in Seq(Items) /\ Len(s) = 2
    <3>1. Path(s, q, p, c) /\ s \in Seq(Items) /\ Len(s) = Len(v) + 1
      BY <2>1, <2>4, <2>6, <2>8, <2>9, <2>10, <2>11, PathCons
    <3> QED BY <2>9, <3>1
  <2>13. s = <<k, y>>
    BY <2>8, Parts, Zenon
  <2>14. s[1] = k
    BY <2>13, Parts, Zenon
  <2>15. Joins(Skip, q, k)
    <3>1. Skip.op = "skip"
      BY ItemFacts
    <3> QED BY <2>7, <3>1 DEF Joins, Leaves, Closer
  <2>16. SkipBegins(x, k, p, c)
    <3>1. q # <<>>
      <4>1. Len(<<>>) = 0 /\ ~(0 > 1)
        OBVIOUS
      <4> QED BY <2>1, <4>1
    <3> QED BY <1>3, <1>6, <2>1, <2>7, <3>1 DEF SkipBegins
  <2>17. Len(s) > 0
    BY <2>12
  <2>18. Spelled(x, u, p, c)
    BY ONLY p \in Seq(Brackets), Len(p) > 0, <1>3, <2>1, <2>8, <2>12, <2>14, <2>15, <2>16, <2>17,
            SkipPath, Zenon
  <2>19. u = <<Skip, k, y>>
    <3>1. <<Skip, k, y>> = <<Skip>> \o <<k, y>>
      BY Parts
    <3> QED BY <2>8, <2>13, <3>1
  <2> QED BY <2>3, <2>18, <2>19
<1>7. Spelled(x, <<Skip>> \o Fail, p, c)
  BY <1>1, <1>2, FailSpelled
<1>8. /\ c = "(" => Spelled(x, <<Skip, Recount, Call("function_decl")>>, p, c)
      /\ c = "[" => Spelled(x, <<Skip, Recount, Call("array_decl")>>, p, c)
  <2>1. c = "(" => c \in Opens
    BY DEF Opens
  <2>2. c = "[" => c \in Opens
    BY DEF Opens
  <2> QED BY <1>6, <2>1, <2>2
<1> QED BY ONLY <1>1, <1>4, <1>5, <1>7, <1>8, Zenon DEF var_rest

(* Declarations and loops that read a type twice. *)
LEMMA KindSpelled ==
  ASSUME NEW p \in Seq(Brackets), Len(p) > 0, NEW c, NEW d
  PROVE  /\ Spelled(Call("decl_without_initializer"), Calls0("decl_without_initializer"), p, c)
         /\ Spelled(Call("decl_kind"), Calls2("decl_kind", c, d), p, c)
<1>1. PICK x, n, t, k : /\ x = Call("decl_without_initializer") /\ n = Call("decl_kind")
                        /\ t = Call("type") /\ k = ToType
  OBVIOUS
<1>2. ASSUME NEW g \in {"decl_without_initializer", "decl_kind", "type",
                        "array_decl_without_initializer", "var_decl_without_initializer"}
      PROVE  g \in ParseFns /\ g \notin ClosesParen \union ClosesBrace \union {"global"}
  BY DEF ParseFns, OneToken, TwoTokens, NoToken, ClosesParen, ClosesBrace
<1>3. /\ p = Eff(x, p, c)
      /\ n \in Items /\ n.op = "call" /\ n.arg = "decl_kind" /\ p = Eff(n, p, c) /\ Marked(n, p, p, c)
      /\ t \in Items /\ t.op = "call" /\ t.arg = "type" /\ Marked(t, p, p, c)
  BY <1>1, <1>2, CallStill
<1>4. k \in Items /\ k.op = "to_type"
  BY <1>1, ItemFacts
<1>5. Marked(k, p, p, c)
  BY <1>4, StillIs
<1>6. Spelled(x, <<t, n>>, p, c)
  <2>1. Begins(x, t) /\ t.op # "skip" /\ ~Closer(t)
    BY <1>3 DEF Begins, Spot, Closer, ClosesBrace
  <2>2. Spot(n) = "same" /\ n.op # "skip"
    BY <1>3 DEF Spot
  <2>3. Joins(t, p, n)
    BY <1>3, <2>1, <2>2 DEF Joins, Leaves
  <2> QED BY <1>3, <2>1, <2>3, HeadTwo
<1>7. ASSUME NEW g \in {"array_decl_without_initializer", "var_decl_without_initializer"}
      PROVE  Spelled(n, <<k, Call(g)>>, p, c)
  <2>1. PICK y : y = Call(g)
    OBVIOUS
  <2>2. y \in Items /\ y.op = "call" /\ y.arg = g /\ Marked(y, p, p, c)
    BY <1>2, <2>1, CallStill
  <2>3. Anywhere(y)
    BY <2>2 DEF Anywhere, Spot
  <2>4. Joins(k, p, y)
    BY <2>3, AnywhereJoins
  <2>5. Begins(n, k) /\ k.op # "skip"
    BY <1>3, <1>4 DEF Begins
  <2>6. Spelled(n, <<k, y>>, p, c)
    BY <1>3, <1>4, <1>5, <2>2, <2>4, <2>5, HeadTwo
  <2> QED BY <2>1, <2>6
<1>8. Calls0("decl_without_initializer") = parse_decl_without_initializer
  BY DEF Calls0
<1>9. Calls2("decl_kind", c, d) = decl_kind(d)
  BY DEF Calls2
<1>10. /\ Spelled(n, <<k, Call("array_decl_without_initializer")>>, p, c)
       /\ Spelled(n, <<k, Call("var_decl_without_initializer")>>, p, c)
  BY <1>7
<1> QED BY ONLY <1>1, <1>6, <1>8, <1>9, <1>10, Zenon DEF parse_decl_without_initializer, decl_kind

LEMMA ForSpelled ==
  ASSUME NEW p \in Seq(Brackets), Len(p) > 1, NEW c, NEW d
  PROVE  /\ Spelled(Call("for_init"), Calls1("for_init", c), p, c)
         /\ Spelled(Call("for_kind"), Calls2("for_kind", c, d), p, c)
<1>1. PICK x, n, t, k, y : /\ x = Call("for_init") /\ n = Call("for_kind") /\ t = Call("type")
                           /\ k = ToType /\ y = Call("for_range")
  OBVIOUS
<1>2. PICK r : r = Bump(p, ")")
  OBVIOUS
<1>3. /\ "for_init" \in ClosesParen /\ "for_kind" \in ClosesParen /\ "for_range" \in ClosesParen
      /\ "for_cond" \in ClosesParen
  BY DEF ClosesParen
<1>4. /\ r \in Seq(Brackets) /\ Len(r) > 0 /\ Len(p) > 0
      /\ r = Eff(x, p, c) /\ r = Eff(n, p, c) /\ n \in Items /\ Marked(n, p, r, c)
      /\ y \in Items /\ Marked(y, p, r, c) /\ Anywhere(y)
  BY <1>1, <1>2, <1>3, ParenIs
<1>5. /\ x.op = "call" /\ x.arg = "for_init" /\ n.op = "call" /\ n.arg = "for_kind"
      /\ t \in Items /\ t.op = "call" /\ t.arg = "type" /\ Marked(t, p, p, c)
  <2>1. /\ "type" \in ParseFns /\ "type" \notin ClosesParen \union ClosesBrace \union {"global"}
        /\ "for_init" \in ParseFns /\ "for_kind" \in ParseFns
    BY DEF ParseFns, OneToken, TwoTokens, ClosesParen, ClosesBrace
  <2> QED BY <1>1, <1>4, <2>1, CallStill, CallEff
<1>6. k \in Items /\ k.op = "to_type"
  BY <1>1, ItemFacts
<1>7. Marked(k, p, p, c) /\ Begins(n, k) /\ k.op # "skip"
  <2>1. Marked(k, p, p, c)
    BY <1>4, <1>6, StillIs
  <2> QED BY <1>5, <1>6, <2>1 DEF Begins
<1>8. Spelled(x, <<t, n>>, p, c)
  <2>1. Begins(x, t) /\ t.op # "skip" /\ ~Closer(t)
    BY <1>5 DEF Begins, Spot, Closer, ClosesBrace
  <2>2. Spot(n) = "same" /\ n.op # "skip"
    BY <1>5 DEF Spot
  <2>3. Joins(t, p, n)
    BY <1>5, <2>1, <2>2 DEF Joins, Leaves
  <2> QED BY <1>4, <1>5, <2>1, <2>3, HeadTwo
<1>9. Spelled(n, <<k, y>>, p, c)
  <2>1. Joins(k, p, y)
    BY <1>4, AnywhereJoins
  <2> QED BY <1>4, <1>6, <1>7, <2>1, HeadTwo
<1>10. PICK a, b, g : a = Call("expr") /\ b = Require(";") /\ g = Call("for_cond")
  OBVIOUS
<1>11. Route(<<a, b, g>>, p, r, c) /\ Route(<<g>>, p, r, c)
  <2>1. PICK E : E = PlainItems
    OBVIOUS
  <2>2. a \in E /\ b \in E
    BY <1>10, <2>1, PlainInIs, Zenon DEF PlainIn, PlainCallsIn, PlainRequiresIn
  <2>3. <<a, b>> \in Seq(PlainItems)
    BY <2>1, <2>2, Tuples, Zenon
  <2>4. <<a, b, g>> = <<a, b>> \o <<g>>
    OBVIOUS
  <2>5. /\ "for_cond" \in ParseFns /\ "for_cond" # "global" /\ r = Eff(g, p, c) /\ Enough(g, p)
        /\ Anywhere(g)
    BY <1>2, <1>3, <1>10, ParenIs
  <2> QED BY <1>4, <1>10, <2>3, <2>4, <2>5, PassRoute
<1>12. Spelled(n, <<k, a, b, g>>, p, c)
  <2>1. PICK s, u : s = <<a, b, g>> /\ u = <<k, a, b, g>>
    OBVIOUS
  <2>2. u = <<k>> \o s
    <3>1. <<k, a, b, g>> = <<k>> \o <<a, b, g>>
      OBVIOUS
    <3> QED BY <2>1, <3>1
  <2>3. Len(s) > 0
    BY ONLY <2>1, SMT
  <2>4. s \in Seq(Items) /\ Path(s, p, r, c) /\ Anywhere(s[1])
    BY <1>11, <2>1, <2>3 DEF Route
  <2>5. Joins(k, p, s[1])
    BY <1>4, <2>4, AnywhereJoins
  <2>6. Spelled(n, u, p, c)
    BY ONLY p \in Seq(Brackets), <1>4, <1>6, <1>7, <2>2, <2>3, <2>4, <2>5, HeadSpelled, Zenon
  <2> QED BY <2>1, <2>6
<1>13. c = ";" => Spelled(x, <<Skip, g>>, p, c)
  <2> SUFFICES ASSUME c = ";" PROVE Spelled(x, <<Skip, g>>, p, c)
    OBVIOUS
  <2>1. p = Bump(p, c)
    BY Words, BumpIs
  <2>2. PICK s, u : s = <<g>> /\ u = <<Skip, g>>
    OBVIOUS
  <2>3. Len(s) > 0
    BY ONLY <2>2, SMT
  <2>4. u = <<Skip>> \o s
    BY ONLY <2>2, Parts, Zenon
  <2>5. Route(s, p, r, c)
    BY <1>11, <2>2
  <2>6. Spelled(x, u, p, c)
    BY ONLY p \in Seq(Brackets), <1>4, <2>1, <2>3, <2>4, <2>5, SkipRoute, Zenon
  <2> QED BY <2>2, <2>6
<1>14. Calls1("for_init", c) = for_init(c)
  BY DEF Calls1
<1>15. Calls2("for_kind", c, d) = for_kind(d)
  BY DEF Calls2
<1> QED BY ONLY <1>1, <1>8, <1>9, <1>10, <1>12, <1>13, <1>14, <1>15, Zenon DEF for_init, for_kind

(* Functions that are called outside all brackets too. *)
LEMMA OuterCall ==
  ASSUME NEW g \in {"struct_decl", "function_decl", "return_type", "function_body", "block",
                    "iteration_block"}, NEW p \in Seq(Brackets), NEW c
  PROVE  /\ g \in ParseFns /\ g # "global" /\ Call(g) \in Items /\ Anywhere(Call(g))
         /\ Marked(Call(g), p, p, c) /\ p = Eff(Call(g), p, c) /\ Enough(Call(g), p)
         /\ g # "return_type" => Closer(Call(g))
         /\ g = "return_type" => ~Closer(Call(g))
<1>1. g \in ParseFns /\ g \notin ClosesParen \union ClosesBrace \union {"global"}
  BY DEF ParseFns, OneToken, NoToken, ClosesParen, ClosesBrace
<1>2. PICK a : a = Call(g)
  OBVIOUS
<1>3. a \in Items /\ a.op = "call" /\ a.arg = g
  BY <1>1, <1>2, ItemFacts
<1>4. Outer(a) /\ Anywhere(a) /\ (g # "return_type" => Closer(a))
  BY <1>3 DEF Outer, Anywhere, Spot, Closer
<1>5. g = "return_type" => ~Closer(a)
  BY <1>3 DEF Closer, ClosesBrace
<1>6. Marked(a, p, p, c) /\ p = Eff(a, p, c)
  BY <1>1, <1>3, <1>4, StillIs
<1>7. Enough(a, p)
  BY <1>6 DEF Marked
<1> QED BY <1>1, <1>2, <1>3, <1>4, <1>5, <1>6, <1>7

LEMMA OneMore == \A n \in Nat : n + 1 > 0 /\ (n > 0 => n + 1 > 1)
OBVIOUS

(* An opening bracket is required, and what follows closes it. *)
LEMMA OpenIs ==
  ASSUME NEW p \in Seq(Brackets), NEW t \in {"(", "{"}
  PROVE  /\ Bump(p, t) \in Seq(Brackets) /\ Len(Bump(p, t)) > 0 /\ t \in Required
         /\ t \in OuterTokens /\ t \notin Ending
         /\ t = "(" => Bump(Bump(p, t), ")") = p
         /\ t = "{" => Bump(Bump(p, t), "}") = p
         /\ Len(p) > 0 => Len(Bump(p, t)) > 1
<1>1. t \in Opens /\ t \in Required /\ t \in OuterTokens /\ t \notin Ending
  BY DEF Opens, Required, OuterTokens, Ending
<1>2. Bump(p, t) \in Seq(Brackets) /\ Len(Bump(p, t)) = Len(p) + 1 /\ Len(p) \in Nat
  BY <1>1, BumpIs
<1>3. /\ t = "(" => Bump(Bump(p, t), ")") = p
      /\ t = "{" => Bump(Bump(p, t), "}") = p
  BY BumpPair, PairIs
<1>4. Len(Bump(p, t)) > 0 /\ (Len(p) > 0 => Len(Bump(p, t)) > 1)
  <2>1. PICK n \in Nat : n = Len(p) /\ Len(Bump(p, t)) = n + 1
    BY <1>2
  <2>2. n + 1 > 0 /\ (n > 0 => n + 1 > 1)
    BY OneMore, Zenon
  <2> QED BY <2>1, <2>2, Zenon
<1> QED BY <1>1, <1>2, <1>3, <1>4

(* { and a function that reads up to }. *)
LEMMA BraceRoute ==
  ASSUME NEW g \in ClosesBrace, NEW p \in Seq(Brackets), NEW c
  PROVE  Route(<<Require("{"), Call(g)>>, p, p, c)
<1>1. PICK q : /\ q = Bump(p, "{") /\ q \in Seq(Brackets) /\ Len(q) > 0 /\ Bump(q, "}") = p
               /\ "{" \in Required /\ "{" \in OuterTokens
  BY OpenIs
<1>2. g \in ParseFns /\ g \notin ClosesParen /\ g # "global"
  BY DEF ParseFns, OneToken, ClosesParen, ClosesBrace
<1>3. PICK a : a = Call(g)
  OBVIOUS
<1>4. a \in Items /\ a.op = "call" /\ a.arg = g /\ p = Eff(a, q, c)
  BY <1>1, <1>2, <1>3, CallEff
<1>5. Anywhere(a)
  BY <1>4 DEF Anywhere, Spot, ClosesBrace
<1>6. Enough(a, q)
  <2>1. ~Inmost(a)
    BY <1>2, <1>4 DEF Inmost
  <2>2. Len(q) >= 1
    <3>1. Len(q) \in Nat /\ Len(q) > 0
      BY <1>1, BumpIs
    <3> QED BY ONLY <3>1, SMT
  <2> QED BY <2>1, <2>2, Zenon DEF Enough
<1>7. Route(<<a>>, q, p, c)
  BY <1>1, <1>2, <1>3, <1>4, <1>5, <1>6, PassRoute
<1>8. PICK s, u : s = <<a>> /\ u = <<Require("{"), a>>
  OBVIOUS
<1>9. u = <<Require("{")>> \o s
  BY ONLY <1>8, Parts, Zenon
<1>10. Route(u, p, p, c)
  BY ONLY p \in Seq(Brackets), <1>1, <1>7, <1>8, <1>9, RequireRoute, Zenon
<1> QED BY <1>3, <1>8, <1>10

LEMMA BlockSpelled ==
  ASSUME NEW p \in Seq(Brackets), NEW c
  PROVE  /\ Spelled(Call("block"), Calls0("block"), p, c)
         /\ Spelled(Call("iteration_block"), Calls0("iteration_block"), p, c)
         /\ Spelled(Call("function_body"), Calls1("function_body", c), p, c)
         /\ Len(p) > 0 => Spelled(Call("for"), Calls0("for"), p, c)
<1>1. ASSUME NEW g \in {"struct_decl", "function_decl", "function_body", "block", "iteration_block"},
             NEW u, Route(u, p, p, c)
      PROVE  Spelled(Call(g), u, p, c)
  <2>1. PICK x : x = Call(g)
    OBVIOUS
  <2>2. p = Eff(x, p, c) /\ Closer(x)
    BY <2>1, OuterCall
  <2>3. Spelled(x, u, p, c)
    BY ONLY p \in Seq(Brackets), <1>1, <2>2, RouteSpelled
  <2> QED BY <2>1, <2>3
<1>2. Spelled(Call("block"), Calls0("block"), p, c)
  <2>1. Calls0("block") = parse_block
    BY DEF Calls0
  <2>2. Route(<<Call("iteration_block")>>, p, p, c)
    BY OuterCall, PassRoute
  <2>3. Route(<<Require("{"), Call("next_stmt")>>, p, p, c)
    BY BraceRoute DEF ClosesBrace
  <2>4. /\ Spelled(Call("block"), <<Call("iteration_block")>>, p, c)
        /\ Spelled(Call("block"), <<Require("{"), Call("next_stmt")>>, p, c)
    BY <1>1, <2>2, <2>3
  <2> QED BY ONLY <2>1, <2>4, Zenon DEF parse_block
<1>3. Spelled(Call("iteration_block"), Calls0("iteration_block"), p, c)
  <2>1. Calls0("iteration_block") = parse_iteration_block
    BY DEF Calls0
  <2>2. Route(<<Require("{"), Call("next_loop_stmt")>>, p, p, c)
    BY BraceRoute DEF ClosesBrace
  <2> QED BY <1>1, <2>1, <2>2 DEF parse_iteration_block
<1>4. Spelled(Call("function_body"), Calls1("function_body", c), p, c)
  <2>1. Calls1("function_body", c) = function_body(c)
    BY DEF Calls1
  <2>2. PICK e, s : e = Make("function_decl") /\ s = <<e>>
    OBVIOUS
  <2>3. Route(s, p, p, c) /\ Len(s) = 1 /\ Quiet(s[1])
    BY <2>2, MakeRoute
  <2>4. Route(<<Call("block"), e>>, p, p, c)
    <3>1. PICK b, u : b = Call("block") /\ u = <<b, e>>
      OBVIOUS
    <3>2. b \in Items /\ Anywhere(b) /\ Marked(b, p, p, c)
      BY <3>1, OuterCall
    <3>3. u = <<b>> \o s
      BY ONLY <2>2, <3>1, Parts, Zenon
    <3>4. Route(u, p, p, c)
      BY <2>3, <3>2, <3>3, RouteCons
    <3> QED BY <3>1, <3>4
  <2>5. Route(<<Require(";"), e>>, p, p, c)
    <3>1. PICK u : u = <<Require(";"), e>>
      OBVIOUS
    <3>2. u = <<Require(";")>> \o s
      BY ONLY <2>2, <3>1, Parts, Zenon
    <3>3. p = Bump(p, ";") /\ ";" \in Required /\ ";" \in OuterTokens
      <4>1. p = Bump(p, ";")
        BY Words, BumpIs
      <4> QED BY <4>1 DEF Required, OuterTokens
    <3>4. Route(u, p, p, c)
      BY ONLY p \in Seq(Brackets), <2>3, <3>2, <3>3, RequireRoute, Zenon
    <3> QED BY <3>1, <3>4
  <2>6. /\ Spelled(Call("function_body"), <<Call("block"), e>>, p, c)
        /\ Spelled(Call("function_body"), <<Require(";"), e>>, p, c)
    BY <1>1, <2>4, <2>5
  <2> QED BY ONLY <2>1, <2>2, <2>6, Zenon DEF function_body
<1>5. ASSUME Len(p) > 0 PROVE Spelled(Call("for"), Calls0("for"), p, c)
  <2>1. Calls0("for") = parse_for
    BY DEF Calls0
  <2>2. "for" \in ParseFns /\ "for" \notin ClosesParen \union ClosesBrace
    BY DEF ParseFns, NoToken, ClosesParen, ClosesBrace
  <2>3. PICK x : x = Call("for") /\ p = Eff(x, p, c)
    BY <2>2, CallEff
  <2>4. PICK q : /\ q = Bump(p, "(") /\ q \in Seq(Brackets) /\ Len(q) > 1 /\ Len(q) > 0
                 /\ Bump(q, ")") = p /\ "(" \in Required
    BY <1>5, OpenIs
  <2>5. PICK g, v : g = Call("for_init") /\ v = <<g>>
    OBVIOUS
  <2>6. Route(v, q, p, c)
    <3>1. "for_init" \in ClosesParen
      BY DEF ClosesParen
    <3>2. /\ "for_init" \in ParseFns /\ "for_init" # "global" /\ p = Eff(g, q, c) /\ Enough(g, q)
          /\ Anywhere(g)
      BY <2>4, <2>5, <3>1, ParenIs
    <3> QED BY <2>4, <2>5, <3>2, PassRoute
  <2>7. PICK s : s = <<Require("(")>> \o v
    OBVIOUS
  <2>8. Route(s, p, p, c)
    BY ONLY p \in Seq(Brackets), <1>5, <2>4, <2>6, <2>7, RequireRoute, Zenon
  <2>9. PICK u : u = <<Require("for")>> \o s
    OBVIOUS
  <2>10. p = Bump(p, "for") /\ "for" \in Required
    <3>1. "for" \notin Opens \union Closes
      BY DEF Opens, Closes
    <3> QED BY <3>1, BumpIs DEF Required
  <2>11. Route(u, p, p, c)
    BY ONLY p \in Seq(Brackets), <1>5, <2>8, <2>9, <2>10, RequireRoute, Zenon
  <2>12. Spelled(x, u, p, c)
    BY ONLY p \in Seq(Brackets), <1>5, <2>3, <2>11, RouteSpelled, Zenon
  <2>13. u = <<Require("for"), Require("("), g>>
    <3>1. s = <<Require("("), g>>
      BY <2>5, <2>7, Parts, Zenon
    <3>2. <<Require("for"), Require("("), g>> = <<Require("for")>> \o <<Require("("), g>>
      BY Parts
    <3> QED BY <2>9, <3>1, <3>2
  <2> QED BY <2>1, <2>3, <2>5, <2>12, <2>13 DEF parse_for
<1> QED BY <1>2, <1>3, <1>4, <1>5

LEMMA DeclSpelled ==
  ASSUME NEW p \in Seq(Brackets), NEW c
  PROVE  /\ Spelled(Call("struct_decl"), Calls0("struct_decl"), p, c)
         /\ Spelled(Call("function_decl"), Calls0("function_decl"), p, c)
<1>1. ASSUME NEW g \in {"struct_decl", "function_decl"}, NEW u, Route(u, p, p, c)
      PROVE  Spelled(Call(g), u, p, c)
  <2>1. PICK x : x = Call(g)
    OBVIOUS
  <2>2. p = Eff(x, p, c) /\ Closer(x)
    BY <2>1, OuterCall
  <2>3. Spelled(x, u, p, c)
    BY ONLY p \in Seq(Brackets), <1>1, <2>2, RouteSpelled
  <2> QED BY <2>1, <2>3
<1>2. ASSUME NEW t \in {"struct", "sym"}, NEW s, Route(s, p, p, c), NEW u, u = <<Require(t)>> \o s
      PROVE  Route(u, p, p, c)
  <2>1. t \notin Opens \union Closes /\ t \in Required /\ t \in OuterTokens /\ t \notin Ending
    BY DEF Opens, Closes, Required, OuterTokens, Ending
  <2>2. p = Bump(p, t)
    BY <2>1, BumpIs
  <2> QED BY ONLY p \in Seq(Brackets), <1>2, <2>1, <2>2, RequireRoute, Zenon
<1>3. Route(Calls0("struct_decl"), p, p, c)
  <2>1. Calls0("struct_decl") = parse_struct_decl
    BY DEF Calls0
  <2>2. PICK a, b, d, e, s, v, u : /\ a = Require("struct") /\ b = Require("sym") /\ d = Require("{")
                                   /\ e = Call("next_member") /\ s = <<d, e>>
                                   /\ v = <<b>> \o s /\ u = <<a>> \o v
    OBVIOUS
  <2>3. Route(s, p, p, c)
    BY <2>2, BraceRoute DEF ClosesBrace
  <2>4. Route(v, p, p, c)
    BY <1>2, <2>2, <2>3
  <2>5. Route(u, p, p, c)
    BY <1>2, <2>2, <2>4
  <2>6. <<a, b, d, e>> = <<a>> \o <<b, d, e>>
    OBVIOUS
  <2>7. <<b, d, e>> = <<b>> \o <<d, e>>
    BY Parts
  <2>8. u = <<a, b, d, e>>
    BY <2>2, <2>6, <2>7
  <2> QED BY <2>1, <2>2, <2>5, <2>8 DEF parse_struct_decl
<1>4. Route(Calls0("function_decl"), p, p, c)
  <2>1. Calls0("function_decl") = parse_function_decl
    BY DEF Calls0
  <2>2. PICK a, b, d, e, f, g : /\ a = Call("return_type") /\ b = Require("sym") /\ d = Require("(")
                                /\ e = Call("function_param_list") /\ f = Require(")")
                                /\ g = Call("function_body")
    OBVIOUS
  <2>3. PICK q : /\ q = Bump(p, "(") /\ q \in Seq(Brackets) /\ Len(q) > 0 /\ p = Bump(q, ")")
                 /\ "(" \in Required /\ "(" \in OuterTokens
    BY OpenIs
  <2>4. PICK s1 : s1 = <<g>>
    OBVIOUS
  <2>5. Route(s1, p, p, c)
    BY <2>2, <2>4, OuterCall, PassRoute
  <2>6. PICK s2 : s2 = <<f>> \o s1
    OBVIOUS
  <2>7. Route(s2, q, p, c)
    <3>1. ")" \in Required /\ ")" \notin Ending
      BY DEF Required, Ending
    <3> QED BY ONLY <2>2, <2>3, <2>5, <2>6, <3>1, RequireRoute, Zenon
  <2>8. PICK s3 : s3 = <<e>> \o s2
    OBVIOUS
  <2>9. Route(s3, q, p, c)
    <3>1. /\ "function_param_list" \in ParseFns
          /\ "function_param_list" \notin ClosesParen \union ClosesBrace \union {"global"}
      BY DEF ParseFns, OneToken, ClosesParen, ClosesBrace
    <3>2. e \in Items /\ e.op = "call" /\ e.arg = "function_param_list" /\ Marked(e, q, q, c)
      BY <2>2, <2>3, <3>1, CallStill
    <3>3. Anywhere(e)
      BY <3>2 DEF Anywhere, Spot
    <3> QED BY ONLY <2>3, <2>7, <2>8, <3>2, <3>3, RouteCons, Zenon
  <2>10. PICK s4 : s4 = <<d>> \o s3
    OBVIOUS
  <2>11. Route(s4, p, p, c)
    BY ONLY p \in Seq(Brackets), <2>2, <2>3, <2>9, <2>10, RequireRoute, Zenon
  <2>12. PICK s5 : s5 = <<b>> \o s4
    OBVIOUS
  <2>13. Route(s5, p, p, c)
    BY <1>2, <2>2, <2>11, <2>12
  <2>14. PICK u : u = <<a>> \o s5
    OBVIOUS
  <2>15. Route(u, p, p, c)
    <3>1. a \in Items /\ Anywhere(a) /\ Marked(a, p, p, c) /\ ~Closer(a)
      BY <2>2, OuterCall
    <3> QED BY ONLY p \in Seq(Brackets), <2>13, <2>14, <3>1, RouteCons, Zenon
  <2>16. u = <<a, b, d, e, f, g>>
    <3>1. s2 = <<f, g>>
      BY ONLY <2>4, <2>6, Parts, Zenon
    <3>2. <<e, f, g>> = <<e>> \o <<f, g>>
      BY Parts
    <3>3. <<d, e, f, g>> = <<d>> \o <<e, f, g>>
      OBVIOUS
    <3>4. <<b, d, e, f, g>> = <<b>> \o <<d, e, f, g>>
      OBVIOUS
    <3>5. <<a, b, d, e, f, g>> = <<a>> \o <<b, d, e, f, g>>
      OBVIOUS
    <3> QED BY ONLY <2>8, <2>10, <2>12, <2>14, <3>1, <3>2, <3>3, <3>4, <3>5, Zenon
  <2> QED BY <2>1, <2>2, <2>15, <2>16 DEF parse_function_decl
<1> QED BY <1>1, <1>3, <1>4

(* parse(): between declarations no bracket is open. *)
LEMMA GlobalSpelled ==
  ASSUME NEW c
  PROVE  Spelled(Call("global"), Calls1("global", c), <<>>, c)
<1>0. <<>> \in Seq(Brackets)
  OBVIOUS
<1>1. PICK p : p = <<>> /\ p \in Seq(Brackets)
  BY <1>0, Zenon
<1>2. "global" \in ParseFns /\ "global" \notin ClosesParen \union ClosesBrace
  BY DEF ParseFns, OneToken, ClosesParen, ClosesBrace
<1>3. PICK x : /\ x = Call("global") /\ x \in Items /\ x.op = "call" /\ x.arg = "global"
               /\ p = Eff(x, p, c)
  BY <1>1, <1>2, CallEff
<1>4. /\ Quiet(x) /\ ~Closer(x) /\ Anywhere(x)
  <2>1. Quiet(x) /\ Anywhere(x)
    BY <1>3 DEF Quiet, Anywhere, Spot
  <2>2. ~Closer(x)
    BY <1>3 DEF Closer, ClosesBrace
  <2> QED BY <2>1, <2>2
<1>5. Marked(x, p, p, c)
  <2>1. Outer(x) /\ ~Inmost(x)
    BY <1>2, <1>3 DEF Outer, Inmost
  <2> QED BY <1>1, <1>3, <2>1 DEF Marked, Enough
<1>6. PICK s : s = <<x>>
  OBVIOUS
<1>7. s \in Seq(Items) /\ Len(s) = 1 /\ s[1] = x
  BY <1>3, <1>6
<1>8. Route(s, p, p, c)
  <2>1. Path(s, p, p, c)
    BY <1>1, <1>5, <1>6, PathOne
  <2> QED BY <1>4, <1>7, <2>1 DEF Route
<1>9. ASSUME NEW g \in {"struct_decl", "function_decl"} PROVE Spelled(x, <<Call(g), x>>, p, c)
  <2>1. PICK a, u : a = Call(g) /\ u = <<a, x>>
    OBVIOUS
  <2>2. a \in Items /\ Anywhere(a) /\ Marked(a, p, p, c)
    BY <1>1, <2>1, OuterCall
  <2>3. u = <<a>> \o s
    BY ONLY <1>6, <2>1, Parts, Zenon
  <2>4. Route(u, p, p, c)
    BY ONLY <1>1, <1>4, <1>7, <1>8, <2>2, <2>3, RouteCons, Zenon
  <2>5. u[Len(u)] = x
    <3>1. Len(u) = 2 /\ u[2] = x
      BY <2>1
    <3> QED BY <3>1
  <2>6. Spelled(x, u, p, c)
    BY ONLY <1>1, <1>3, <1>4, <2>4, <2>5, RouteSpelled, Zenon
  <2> QED BY <2>1, <2>6
<1>10. Spelled(x, Fail, p, c)
  BY <1>1, <1>2, <1>3, FailSpelled
<1>11. Calls1("global", c) = parse(c)
  BY DEF Calls1
<1>12. /\ Spelled(x, <<Call("struct_decl"), x>>, p, c)
       /\ Spelled(x, <<Call("function_decl"), x>>, p, c)
  BY <1>9
<1> QED BY ONLY <1>1, <1>3, <1>10, <1>11, <1>12, Zenon DEF parse

(* Functions that look at no token begin by calling or requiring. *)
Started(u) == Len(u) > 0 => u[1].op # "skip"

LEMMA Starts0 ==
  ASSUME NEW f \in NoToken, f # "function_call"
  PROVE  Started(Calls0(f))
<1>1. /\ \A g : Call(g).op # "skip"
      /\ \A t : Require(t).op # "skip"
  BY DEF Call, Require, Item
<1>2. /\ Started(<<>>)
      /\ \A a : a.op # "skip" => Started(<<a>>)
      /\ \A a, b : a.op # "skip" => Started(<<a, b>>)
      /\ \A a, b, d : a.op # "skip" => Started(<<a, b, d>>)
      /\ \A a, b, d, e : a.op # "skip" => Started(<<a, b, d, e>>)
      /\ \A a, b, d, e, g, h : a.op # "skip" => Started(<<a, b, d, e, g, h>>)
      /\ \A a, b, d, e, g, h, i : a.op # "skip" => Started(<<a, b, d, e, g, h, i>>)
      /\ \A a, b, d, e, g, h, i, j : a.op # "skip" => Started(<<a, b, d, e, g, h, i, j>>)
      /\ \A a, b, d, e, g, h, i, j, k : a.op # "skip" => Started(<<a, b, d, e, g, h, i, j, k>>)
  BY DEF Started
<1>3. /\ Call("decl_without_initializer") \in Items /\ Require(":") \in Items
      /\ Call("expr") \in Items /\ Require(")") \in Items /\ Require("do") \in Items
      /\ Require("while") \in Items /\ Require("(") \in Items /\ Call("logical_or") \in Items
      /\ Make("for_range") \in Items /\ Make("do_while") \in Items /\ Make("while") \in Items
      /\ Deepen \in Items /\ Call("block") \in Items /\ Shallow \in Items
  <2>1. /\ "decl_without_initializer" \in ParseFns /\ "expr" \in ParseFns
        /\ "logical_or" \in ParseFns /\ "block" \in ParseFns
    BY DEF ParseFns, OneToken, NoToken
  <2>2. {":", ")", "do", "while", "("} \subseteq Required
    BY DEF Required
  <2>3. {"for_range", "do_while", "while"} \subseteq Made
    BY DEF Made
  <2> QED BY <2>1, <2>2, <2>3, ItemFacts, Zenon
<1>4. CASE f \in {"logical_or", "postfix_unary", "struct_field_access", "assignment",
                  "array_decl_without_initializer", "array_decl", "decl_without_initializer",
                  "var_decl_without_initializer", "var_decl"}
  <2>1. \/ Calls0(f) = parse_logical_or \/ Calls0(f) = parse_postfix_unary
        \/ Calls0(f) = parse_struct_field_access \/ Calls0(f) = parse_assignment
        \/ Calls0(f) = parse_array_decl_without_initializer \/ Calls0(f) = parse_array_decl
        \/ Calls0(f) = parse_decl_without_initializer
        \/ Calls0(f) = parse_var_decl_without_initializer \/ Calls0(f) = parse_var_decl
    BY <1>4 DEF Calls0
  <2> QED BY ONLY <1>1, <1>2, <2>1, Zenon
          DEF parse_logical_or, parse_postfix_unary, parse_struct_field_access, parse_assignment,
              parse_array_decl_without_initializer, parse_array_decl, parse_var_decl,
              parse_decl_without_initializer, parse_var_decl_without_initializer
<1>5. CASE f \in {"struct_decl", "struct_var_decl", "struct_array_body", "function_decl", "block",
                  "iteration_block", "loop_semicolon", "semicolon", "selection_stmt", "jump_stmt",
                  "for"}
  <2>1. \/ Calls0(f) = parse_struct_decl \/ Calls0(f) = parse_struct_var_decl
        \/ Calls0(f) = struct_array_body \/ Calls0(f) = parse_function_decl
        \/ Calls0(f) = parse_block \/ Calls0(f) = parse_iteration_block
        \/ Calls0(f) = loop_semicolon \/ Calls0(f) = semicolon
        \/ Calls0(f) = parse_selection_stmt \/ Calls0(f) = parse_jump_stmt
        \/ Calls0(f) = parse_for
    BY <1>5 DEF Calls0
  <2> QED BY ONLY <1>1, <1>2, <2>1, Zenon
          DEF parse_struct_decl, parse_struct_var_decl, struct_array_body, parse_function_decl,
              parse_block, parse_iteration_block, loop_semicolon, semicolon, parse_selection_stmt,
              parse_jump_stmt, parse_for
<1>6. CASE f \in {"for_range", "do_while", "while"}
  <2>2. Body \in Seq(Items)
    BY <1>3, Tuples, Zenon DEF Body
  <2>3. ASSUME NEW s \in Seq(Items), NEW t \in Seq(Items), Len(s) > 0, s[1].op # "skip"
        PROVE  Started((s \o Body) \o t)
    <3>1. PICK v : v = s \o Body
      OBVIOUS
    <3>2. v \in Seq(Items) /\ Len(v) > 0 /\ v[1] = s[1]
      BY ONLY <2>2, <2>3, <3>1, Joint, SMT
    <3>3. PICK u : u = v \o t
      OBVIOUS
    <3>4. u[1] = v[1]
      BY ONLY <2>3, <3>2, <3>3, Joint, SMT
    <3> QED BY <2>3, <3>1, <3>2, <3>3, <3>4 DEF Started
  <2>4. /\ \A a, g, h, i : Len(<<a, g, h, i>>) > 0 /\ <<a, g, h, i>>[1] = a
        /\ \A a : Len(<<a>>) > 0 /\ <<a>>[1] = a
    OBVIOUS
  <2>5. CASE f = "for_range"
    <3>1. PICK a, g, h, i, j : /\ a = Call("decl_without_initializer") /\ g = Require(":")
                               /\ h = Call("expr") /\ i = Require(")") /\ j = Make("for_range")
      OBVIOUS
    <3>2. <<a, g, h, i>> \in Seq(Items) /\ <<j>> \in Seq(Items)
      BY <1>3, <3>1, Tuples, Zenon
    <3>3. Started((<<a, g, h, i>> \o Body) \o <<j>>)
      BY <1>1, <2>3, <2>4, <3>1, <3>2, Zenon
    <3>4. Calls0(f) = parse_for_range
      BY <2>5 DEF Calls0
    <3> QED BY ONLY <3>1, <3>3, <3>4, Zenon DEF parse_for_range
  <2>6. CASE f = "while"
    <3>1. PICK a, g, h, i, j : /\ a = Require("while") /\ g = Require("(")
                               /\ h = Call("logical_or") /\ i = Require(")") /\ j = Make("while")
      OBVIOUS
    <3>2. <<a, g, h, i>> \in Seq(Items) /\ <<j>> \in Seq(Items)
      BY <1>3, <3>1, Tuples, Zenon
    <3>3. Started((<<a, g, h, i>> \o Body) \o <<j>>)
      BY <1>1, <2>3, <2>4, <3>1, <3>2, Zenon
    <3>4. Calls0(f) = parse_while
      BY <2>6 DEF Calls0
    <3> QED BY ONLY <3>1, <3>3, <3>4, Zenon DEF parse_while
  <2>7. CASE f = "do_while"
    <3>1. PICK a, g, h, i, j, k :
            /\ a = Require("do") /\ g = Require("while") /\ h = Require("(")
            /\ i = Call("logical_or") /\ j = Require(")") /\ k = Make("do_while")
      OBVIOUS
    <3>2. <<a>> \in Seq(Items) /\ <<g, h, i, j, k>> \in Seq(Items)
      <4>1. a \in Items /\ g \in Items /\ h \in Items /\ i \in Items /\ j \in Items /\ k \in Items
        BY ONLY <1>3, <3>1
      <4> QED BY ONLY <4>1, SMT
    <3>3. Started((<<a>> \o Body) \o <<g, h, i, j, k>>)
      BY <1>1, <2>3, <2>4, <3>1, <3>2, Zenon
    <3>4. Calls0(f) = parse_do_while
      BY <2>7 DEF Calls0
    <3> QED BY ONLY <3>1, <3>3, <3>4, Zenon DEF parse_do_while
  <2> QED BY <1>6, <2>5, <2>6, <2>7
<1> QED BY <1>4, <1>5, <1>6 DEF NoToken

(* Every function of the parser changes the open brackets as its call      *)
(* promises, provided that its expansion does.                             *)
LEMMA ExpansionSpelled ==
  ASSUME NEW f \in ParseFns, NEW p \in Seq(Brackets), Enough(Call(f), p),
         f = "global" => p = <<>>, f = "iteration_stmt" => Cur \in LoopTokens,
         f \in {"function_call", "array_access"} => Cur = "sym"
  PROVE  Spelled(Call(f), Expansion(f), p, Cur)
<1>1. PICK c, d, E : c = Cur /\ d = Ahead /\ E = Expansion(f)
  OBVIOUS
<1>2. PICK x : x = Call(f) /\ x.op = "call" /\ x.arg = f
  BY ItemFacts
<1>3. Len(p) \in Nat
  OBVIOUS
<1>4. f \in ClosesParen => Len(p) > 1
  <2>1. f \in ClosesParen => Len(p) >= 2
    BY <1>2 DEF Enough, Inmost
  <2> QED BY ONLY <1>3, <2>1, SMT
<1>5. \/ Len(p) > 0
      \/ f \in {"global", "struct_decl", "function_decl", "return_type", "type",
                "function_body", "block", "iteration_block"}
  <2>1. \/ Len(p) >= 1
        \/ f \in {"global", "struct_decl", "function_decl", "return_type", "type",
                  "function_body", "block", "iteration_block"}
    BY <1>2 DEF Enough, Outer
  <2>2. Len(p) >= 1 => Len(p) > 0
    BY ONLY <1>3, SMT
  <2> QED BY <2>1, <2>2
<1>6. /\ f \in TwoTokens => E = Calls2(f, c, d)
      /\ f \in OneToken => E = Calls1(f, c)
      /\ f \in NoToken => E = Calls0(f)
  <2>1. /\ f \in TwoTokens => f \notin OneToken
        /\ f \in OneToken => f \notin TwoTokens
        /\ f \in NoToken => f \notin OneToken /\ f \notin TwoTokens
    BY DEF OneToken, TwoTokens, NoToken
  <2> QED BY <1>1, <2>1, Zenon DEF Expansion
<1>7. CASE f \in {"global", "struct_decl", "function_decl", "return_type", "type",
                  "function_body", "block", "iteration_block"}
  <2>1. /\ f \in {"global", "return_type", "type", "function_body"} => f \in OneToken
        /\ f \in {"struct_decl", "function_decl", "block", "iteration_block"} => f \in NoToken
    BY DEF OneToken, NoToken
  <2>2. CASE f = "global"
    BY <1>1, <1>6, <2>1, <2>2, GlobalSpelled, Zenon
  <2>3. CASE f = "type" \/ f = "return_type"
    BY <1>1, <1>6, <2>1, <2>3, TypeSpelled, Zenon
  <2>4. CASE f = "struct_decl" \/ f = "function_decl"
    BY <1>1, <1>6, <2>1, <2>4, DeclSpelled, Zenon
  <2>5. CASE f = "block" \/ f = "iteration_block" \/ f = "function_body"
    BY <1>1, <1>6, <2>1, <2>5, BlockSpelled, Zenon
  <2> QED BY <1>7, <2>2, <2>3, <2>4, <2>5
<1>8. CASE f \in ClosesParen
  <2>1. f = "next_arg" \/ f = "for_init" \/ f = "for_cond" \/ f = "for_inc" \/ f = "for_kind" \/ f = "for_range"
    BY <1>8 DEF ClosesParen
  <2>2. /\ f \in {"next_arg", "for_init", "for_cond", "for_inc"} => f \in OneToken
        /\ f = "for_kind" => f \in TwoTokens
        /\ f = "for_range" => f \in NoToken
    BY DEF OneToken, TwoTokens, NoToken
  <2>3. CASE f = "for_init" \/ f = "for_kind"
    BY <1>1, <1>4, <1>6, <1>8, <2>2, <2>3, ForSpelled, Zenon
  <2>4. CASE f = "next_arg" \/ f = "for_cond" \/ f = "for_inc" \/ f = "for_range"
    BY <1>1, <1>4, <1>6, <1>8, <2>2, <2>4, Parenthesized, Zenon
  <2> QED BY <2>1, <2>3, <2>4
<1>9. CASE Len(p) > 0 /\ f \in TwoTokens /\ f \notin ClosesParen
  <2>1. f = "array_access" \/ f = "decl_kind" \/ f = "symbol_stmt"
    BY <1>9 DEF TwoTokens, ClosesParen
  <2>2. CASE f = "array_access"
    BY <1>1, <1>6, <1>9, <2>2, AccessSpelled, Zenon
  <2>3. CASE f = "decl_kind"
    BY <1>1, <1>6, <1>9, <2>3, KindSpelled, Zenon
  <2>4. CASE f = "symbol_stmt"
    BY <1>1, <1>6, <1>9, <2>4, PlainTwo, Zenon
  <2> QED BY <2>1, <2>2, <2>3, <2>4
<1>10. CASE /\ Len(p) > 0 /\ f \in OneToken /\ f \notin ClosesParen
            /\ f \notin {"global", "return_type", "type", "function_body"}
  <2>1. \/ f \in {"prefix_unary", "postfix_op", "paren_member", "next_field", "expr",
                  "assign_op", "comma", "constant", "array_name", "first_dim", "array_body",
                  "decl", "struct_dims", "function_param_list", "stmt", "loop_stmt",
                  "else_body", "return_value"}
        \/ f = "next_index" \/ f = "next_dim" \/ f = "iteration_stmt" \/ f = "next_member"
        \/ f = "next_stmt" \/ f = "next_loop_stmt" \/ f = "symbol" \/ f = "primary"
        \/ f = "var_name" \/ f = "var_rest"
    BY <1>10 DEF OneToken, ClosesParen
  <2>2. CASE f \in {"prefix_unary", "postfix_op", "paren_member", "next_field", "expr",
                    "assign_op", "comma", "constant", "array_name", "first_dim", "array_body",
                    "decl", "struct_dims", "function_param_list", "stmt", "loop_stmt",
                    "else_body", "return_value"}
    BY ONLY p \in Seq(Brackets), <1>1, <1>6, <1>10, <2>2, PlainOne, Zenon
  <2>3. CASE f = "next_index" \/ f = "next_dim"
    BY <1>1, <1>6, <1>10, <2>3, Bracketed, Zenon
  <2>4. CASE f = "next_member" \/ f = "next_stmt" \/ f = "next_loop_stmt"
    BY <1>1, <1>6, <1>10, <2>4, Braced, Zenon
  <2>5. CASE f = "iteration_stmt"
    BY <1>1, <1>6, <1>10, <2>5, PlainLoop, Zenon
  <2>6. CASE f = "symbol" \/ f = "primary"
    BY <1>1, <1>6, <1>10, <2>6, SymbolSpelled, PrimarySpelled, Zenon
  <2>7. CASE f = "var_name" \/ f = "var_rest"
    BY <1>1, <1>6, <1>10, <2>7, NameSpelled, RestSpelled, Zenon
  <2> QED BY <2>1, <2>2, <2>3, <2>4, <2>5, <2>6, <2>7, Zenon
<1>11. CASE /\ Len(p) > 0 /\ f \in NoToken /\ f \notin ClosesParen
            /\ f \notin {"struct_decl", "function_decl", "block", "iteration_block"}
  <2>1. \/ f \in {"postfix_unary", "struct_field_access", "assignment",
                  "array_decl_without_initializer", "array_decl",
                  "var_decl_without_initializer", "struct_var_decl", "struct_array_body",
                  "loop_semicolon", "semicolon", "jump_stmt"}
        \/ f = "logical_or" \/ f = "selection_stmt" \/ f = "while" \/ f = "do_while"
        \/ f = "function_call" \/ f = "var_decl" \/ f = "decl_without_initializer" \/ f = "for"
    BY <1>11 DEF NoToken, ClosesParen
  <2>2. CASE f \in {"postfix_unary", "struct_field_access", "assignment",
                    "array_decl_without_initializer", "array_decl",
                    "var_decl_without_initializer", "struct_var_decl", "struct_array_body",
                    "loop_semicolon", "semicolon", "jump_stmt"}
    BY ONLY p \in Seq(Brackets), <1>1, <1>6, <1>11, <2>2, PlainNone, Zenon
  <2>3. CASE f = "logical_or"
    BY <1>1, <1>6, <1>11, <2>3, LogicalSpelled, Zenon
  <2>4. CASE f = "selection_stmt" \/ f = "while" \/ f = "do_while"
    BY <1>1, <1>6, <1>11, <2>4, Bracketed, Zenon
  <2>5. CASE f = "function_call"
    BY <1>1, <1>6, <1>11, <2>5, AccessSpelled, Zenon
  <2>6. CASE f = "var_decl" \/ f = "decl_without_initializer"
    BY <1>1, <1>6, <1>11, <2>6, NameSpelled, KindSpelled, Zenon
  <2>7. CASE f = "for"
    BY <1>1, <1>6, <1>11, <2>7, BlockSpelled, Zenon
  <2> QED BY <2>1, <2>2, <2>3, <2>4, <2>5, <2>6, <2>7, Zenon
<1> QED BY <1>5, <1>7, <1>8, <1>9, <1>10, <1>11 DEF ParseFns

(* One more token. *)
Goes(v, s, n) == \A i \in 1 .. n : v[i] = s[i]

LEMMA OpenedMore ==
  ASSUME NEW s, NEW v, NEW n \in Nat, NEW o, OpenedTo(s, n, o), Goes(v, s, n)
  PROVE  \E q : OpenedTo(v, n + 1, q) /\ \A i \in 0 .. n : q[i] = o[i]
<1>1. /\ o \in [0 .. n -> Seq(Brackets)] /\ o[0] = <<>>
      /\ \A i \in 1 .. n : o[i] = Bump(o[i - 1], s[i])
  BY DEF OpenedTo
<1>2. PICK b : b = Bump(o[n], v[n + 1])
  OBVIOUS
<1>3. n \in 0 .. n /\ o[n] \in Seq(Brackets) /\ b \in Seq(Brackets)
  BY <1>1, <1>2, BumpIs
<1>4. PICK q : q = [i \in 0 .. n + 1 |-> IF i = n + 1 THEN b ELSE o[i]]
  OBVIOUS
<1>5. q \in [0 .. n + 1 -> Seq(Brackets)] /\ q[n + 1] = b /\ \A i \in 0 .. n : q[i] = o[i]
  BY <1>1, <1>3, <1>4
<1>6. ASSUME NEW i \in 1 .. n + 1 PROVE q[i] = Bump(q[i - 1], v[i])
  <2>1. CASE i = n + 1
    <3>1. i - 1 = n
      BY <2>1
    <3> QED BY <1>2, <1>3, <1>5, <2>1, <3>1
  <2>2. CASE i # n + 1
    <3>1. i \in 1 .. n /\ i \in 0 .. n /\ i - 1 \in 0 .. n
      BY <2>2
    <3> QED BY <1>1, <1>5, <3>1 DEF Goes
  <2> QED BY <2>1, <2>2
<1>7. q[0] = <<>>
  BY <1>1, <1>5
<1> QED BY <1>5, <1>6, <1>7 DEF OpenedTo

LEMMA OpenedIs ==
  ASSUME NEW s, Len(s) \in Nat
  PROVE  \E o : OpenedTo(s, Len(s), o)
<1> DEFINE T == {n \in 0 .. Len(s) : ~\E o : OpenedTo(s, n, o)}
<1>1. T = {}
  <2> SUFFICES ASSUME T # {} PROVE FALSE
    OBVIOUS
  <2>1. PICK k \in T : \A y \in T : k <= y
    <3>1. T \subseteq Nat
      OBVIOUS
    <3> QED BY <3>1, Least
  <2>2. k \in 0 .. Len(s) /\ ~\E o : OpenedTo(s, k, o)
    BY <2>1
  <2>3. k # 0
    <3>1. PICK o : o = [i \in 0 .. 0 |-> <<>>]
      OBVIOUS
    <3>2. o \in [0 .. 0 -> Seq(Brackets)] /\ o[0] = <<>>
      BY <3>1
    <3>3. OpenedTo(s, 0, o)
      BY <3>2 DEF OpenedTo
    <3> QED BY <2>2, <3>3
  <2>4. k - 1 \in 0 .. Len(s) /\ k - 1 \in Nat /\ ~(k <= k - 1) /\ (k - 1) + 1 = k
    BY <2>2, <2>3
  <2>5. k - 1 \notin T
    BY <2>1, <2>4
  <2>6. PICK o : OpenedTo(s, k - 1, o)
    BY <2>4, <2>5
  <2>7. \E q : OpenedTo(s, (k - 1) + 1, q)
    <3>1. Goes(s, s, k - 1)
      BY DEF Goes
    <3> QED BY <2>4, <2>6, <3>1, OpenedMore, Zenon
  <2> QED BY <2>2, <2>4, <2>7
<1>2. Len(s) \in 0 .. Len(s)
  OBVIOUS
<1> QED BY <1>1, <1>2

LEMMA OpenedUnique ==
  ASSUME NEW s, NEW n \in Nat, NEW o, NEW q, OpenedTo(s, n, o), q[0] = <<>>,
         \A i \in 1 .. n : q[i] = Bump(q[i - 1], s[i])
  PROVE  q[n] = o[n]
<1>1. o[0] = <<>> /\ \A i \in 1 .. n : o[i] = Bump(o[i - 1], s[i])
  BY DEF OpenedTo
<1> DEFINE T == {i \in 0 .. n : q[i] # o[i]}
<1>2. T = {}
  <2> SUFFICES ASSUME T # {} PROVE FALSE
    OBVIOUS
  <2>1. PICK k \in T : \A y \in T : k <= y
    <3>1. T \subseteq Nat
      OBVIOUS
    <3> QED BY <3>1, Least
  <2>2. k \in 0 .. n /\ q[k] # o[k]
    BY <2>1
  <2>3. k # 0
    BY <1>1, <2>2
  <2>4. k \in 1 .. n /\ k - 1 \in 0 .. n /\ ~(k <= k - 1)
    BY <2>2, <2>3
  <2>5. q[k - 1] = o[k - 1]
    BY <2>1, <2>4
  <2> QED BY <1>1, <2>2, <2>4, <2>5
<1>3. n \in 0 .. n
  OBVIOUS
<1> QED BY <1>2, <1>3

(* OpenBrackets is what the whole sequence leaves open. *)
LEMMA OpenBracketsIs ==
  ASSUME NEW s, Len(s) \in Nat, NEW o, OpenedTo(s, Len(s), o)
  PROVE  OpenBrackets(s) = o[Len(s)]
<1> DEFINE rec(h) == [i \in 0 .. Len(s) |->
                        IF i = 0 THEN <<>>
                        ELSE LET p == h[i - 1] IN
                             CASE s[i] \in Opens -> Append(p, s[i])
                               [] s[i] \in Closes ->
                                    IF p # <<>> /\ p[Len(p)] = Mate(s[i])
                                    THEN SubSeq(p, 1, Len(p) - 1)
                                    ELSE Append(p, "bad")
                               [] OTHER -> p]
           f == CHOOSE h : h = rec(h)
<1>1. \A h : rec(h) = [i \in 0 .. Len(s) |-> IF i = 0 THEN <<>> ELSE Bump(h[i - 1], s[i])]
  BY DEF Bump
<1>2. OpenBrackets(s) = f[Len(s)]
  BY DEF OpenBrackets
<1> HIDE DEF rec
<1>3. o = rec(o)
  <2>1. /\ o \in [0 .. Len(s) -> Seq(Brackets)] /\ o[0] = <<>>
        /\ \A i \in 1 .. Len(s) : o[i] = Bump(o[i - 1], s[i])
    BY DEF OpenedTo
  <2>2. \A i \in 0 .. Len(s) : o[i] = IF i = 0 THEN <<>> ELSE Bump(o[i - 1], s[i])
    BY <2>1
  <2>3. o = [i \in 0 .. Len(s) |-> o[i]]
    BY <2>1
  <2> QED BY <1>1, <2>2, <2>3
<1>4. f = rec(f)
  BY <1>3, Zenon
<1> HIDE DEF f
<1>5. /\ f[0] = <<>>
      /\ \A i \in 1 .. Len(s) : f[i] = Bump(f[i - 1], s[i])
  BY <1>1, <1>4
<1>6. f[Len(s)] = o[Len(s)]
  BY <1>5, OpenedUnique, Zenon
<1> QED BY <1>2, <1>6

(* The state: what the first n tokens of s leave open is what the item on  *)
(* top of the stack t finds open, and the stack takes it to the end.       *)
Sealed(o, s, n) == n > 0 /\ n = Len(s) /\ o[n] = <<>> /\ s[n] \in Ending

Placed(x, o, s, n, at) ==
  /\ Spot(x) \in {"same", "name", "again"} => o[at] = o[n]
  /\ Spot(x) = "open"  => o[at] = Front(o[n])
  /\ Spot(x) = "after" => n > 0 /\ s[n] = "sym"
  /\ Spot(x) = "at"    => n < Len(s) /\ s[n + 1] = "sym"

SkipPlaced(y, o, s, n, at) ==
  /\ n < Len(s)
  /\ Spot(y) \in {"same", "name"} => o[at] = o[n] /\ s[n + 1] \notin Opens \union Closes
  /\ Spot(y) = "open"  => o[at] = o[n] /\ s[n + 1] \in Opens
  /\ Spot(y) = "after" => s[n + 1] = "sym"
  /\ Bump(o[n], s[n + 1]) = <<>> => s[n + 1] \notin Ending \/ Quiet(y)

Spanned(o, s, n, at, t) ==
  /\ OpenedTo(s, Len(s), o) /\ n \in 0 .. Len(s) /\ at \in 0 .. Len(s)
  /\ \E r : Path(t, o[n], r, s[n + 1])
  /\ Placed(t[1], o, s, n, at)
  /\ t[1].op = "skip" => Len(t) > 1 /\ SkipPlaced(t[2], o, s, n, at)
  /\ Sealed(o, s, n) => Quiet(t[1])
  /\ t[1] = Call("global") \/ Len(s) > 0

(* What is known of the item on top and of the next one. *)
LEMMA SpanTop ==
  ASSUME NEW o, NEW s, NEW n, NEW at, NEW t \in Seq(Items), Len(t) > 0,
         Spanned(o, s, n, at, t), NEW x, x = t[1], NEW p, p = o[n], NEW c, c = s[n + 1]
  PROVE  /\ p \in Seq(Brackets) /\ Enough(x, p) /\ x \in Items
         /\ x.op = "call" /\ x.arg = "global" => p = <<>>
         /\ x.op # "error" =>
              /\ Len(t) > 1 => Joins(x, Eff(x, p, c), t[2])
              /\ \E r : \A d : Path(Tail(t), Eff(x, p, c), r, d)
<1>1. PICK r : Path(t, p, r, c)
  BY DEF Spanned
<1>2. PICK u : u = Tail(t)
  OBVIOUS
<1>3. /\ p \in Seq(Brackets)
      /\ \E m \in Seq(Brackets) :
              /\ Marked(t[1], p, m, c) /\ (Len(t) > 1 => Joins(t[1], m, t[2]))
              /\ \A d : Path(u, m, r, d)
  BY <1>1, <1>2, PathTail, Zenon
<1>4. PICK m \in Seq(Brackets) : /\ Marked(x, p, m, c) /\ (Len(t) > 1 => Joins(x, m, t[2]))
                                 /\ \A d : Path(u, m, r, d)
  BY <1>3
<1>5. x.op # "error" => m = Eff(x, p, c)
  BY <1>4 DEF Marked
<1>6. Enough(x, p) /\ (x.op = "call" /\ x.arg = "global" => p = <<>>)
  BY <1>4 DEF Marked
<1>7. x \in Items
  OBVIOUS
<1> QED BY <1>2, <1>3, <1>4, <1>5, <1>6, <1>7

(* An item that is done in one step. *)
LEMMA SpanPop ==
  ASSUME NEW o, NEW s, NEW n, NEW at, NEW t \in Seq(Items), Len(t) > 1,
         Spanned(o, s, n, at, t), t[1].op # "error", Len(s) > 0,
         NEW m \in 0 .. Len(s), NEW to \in 0 .. Len(s), NEW u, u = Tail(t),
         o[m] = Eff(t[1], o[n], s[n + 1]), Placed(t[2], o, s, m, to),
         Sealed(o, s, m) => Quiet(t[2])
  PROVE  Spanned(o, s, m, to, u)
<1>1. Len(t) > 0
  OBVIOUS
<1>2. /\ Joins(t[1], o[m], t[2])
      /\ \E r : \A d : Path(u, o[m], r, d)
  BY <1>1, SpanTop
<1>3. u[1] = t[2]
  OBVIOUS
<1>4. t[2].op # "skip"
  BY <1>2 DEF Joins
<1>5. OpenedTo(s, Len(s), o)
  BY DEF Spanned
<1> QED BY <1>2, <1>3, <1>4, <1>5 DEF Spanned

LEMMA OneOrMore == \A n \in Nat : n > 0 => n > 1 \/ n = 1
OBVIOUS

(* An item whose place is taken by the items that stand for it. *)
LEMMA SpanExpand ==
  ASSUME NEW o, NEW s, NEW n, NEW at, NEW t \in Seq(Items), Len(t) > 0, Len(s) > 0,
         Spanned(o, s, n, at, t), ~Sealed(o, s, n), NEW x, x = t[1], x.op \in {"call", "climb"},
         NEW e, Spelled(x, e, o[n], s[n + 1]), n < Len(s) \/ Started(e),
         Len(e) > 0 => Ends(x, e[Len(e)]),
         x.op = "call" /\ x.arg = "type" => Len(e) > 0,
         x.op = "climb" /\ Len(e) > 0 => e[1].op = "skip",
         x.op = "climb" /\ Len(e) > 1 => Spot(e[2]) = "none",
         NEW u, u = e \o Tail(t), Stack(u),
         NEW to, to = IF x.op = "call" /\ x.arg = "type" THEN n ELSE at
  PROVE  Spanned(o, s, n, to, u)
<1>1. PICK p, c, m, v : p = o[n] /\ c = s[n + 1] /\ m = Eff(x, p, c) /\ v = Tail(t)
  OBVIOUS
<1>2. x.op # "error" /\ x.op # "skip" /\ x.op # "stars" /\ x.op # "back"
  OBVIOUS
<1>3. /\ Len(t) > 1 => Joins(x, m, t[2])
      /\ \E r : \A d : Path(v, m, r, d)
  BY <1>1, <1>2, SpanTop
<1>4. /\ e \in Seq(Items) /\ Path(e, p, m, c)
      /\ Len(e) > 0 => /\ Begins(x, e[1])
                       /\ Closer(e[Len(e)]) /\ m = <<>> => Closer(x)
      /\ Len(e) > 1 /\ e[1].op = "skip" => SkipBegins(x, e[2], p, c)
      /\ Len(e) = 1 /\ e[1].op = "skip" => c \notin Ending
  BY <1>1 DEF Spelled
<1>5. v \in Seq(Items) /\ Len(v) = Len(t) - 1 /\ (Len(t) > 1 => v[1] = t[2]) /\ Len(t) \in Nat
  BY <1>1
<1>6. /\ Len(e) \in Nat /\ Len(v) \in Nat /\ Len(u) = Len(e) + Len(v)
      /\ \A i \in 1 .. Len(u) : u[i] = IF i <= Len(e) THEN e[i] ELSE v[i - Len(e)]
  BY ONLY <1>1, <1>4, <1>5, u = e \o Tail(t), Joint, SMT
<1>7. Len(u) > 0 /\ (u[Len(u)].op # "skip")
  BY DEF Stack, Bottom
<1>8. /\ Len(e) > 0 => u[1] = e[1]
      /\ Len(e) > 1 => u[2] = e[2] /\ Len(u) > 1
      /\ Len(e) = 0 => u[1] = t[2] /\ Len(t) > 1
      /\ Len(e) = 1 /\ Len(u) > 1 => u[2] = t[2] /\ Len(t) > 1
      /\ Len(e) = 1 /\ ~(Len(u) > 1) => u[Len(u)] = e[1]
  <2>1. Len(u) > 0
    BY <1>7
  <2>2. Len(e) > 0 => 1 \in 1 .. Len(u) /\ 1 <= Len(e)
    BY ONLY <1>6, <2>1, SMT
  <2>3. Len(e) > 1 => 2 \in 1 .. Len(u) /\ 2 <= Len(e) /\ Len(u) > 1
    BY ONLY <1>6, <2>1, SMT
  <2>4. Len(e) = 0 => 1 \in 1 .. Len(u) /\ ~(1 <= Len(e)) /\ 1 - Len(e) = 1 /\ Len(t) > 1
    BY ONLY <1>5, <1>6, <2>1, SMT
  <2>5. Len(e) = 1 /\ Len(u) > 1 =>
          2 \in 1 .. Len(u) /\ ~(2 <= Len(e)) /\ 2 - Len(e) = 1 /\ Len(t) > 1
    BY ONLY <1>5, <1>6, <2>1, SMT
  <2>6. Len(e) = 1 /\ ~(Len(u) > 1) => Len(u) = 1 /\ Len(e) > 0
    BY ONLY <1>6, <2>1, SMT
  <2> QED BY <1>5, <1>6, <2>2, <2>3, <2>4, <2>5, <2>6
<1>9. Len(t) > 1 => /\ t[2].op # "skip"
                    /\ Spot(t[2]) = "none" \/ (Spot(t[2]) = "same" /\ x.op = "call" /\ x.arg = "type")
  BY <1>2, <1>3 DEF Joins, Leaves
<1>10. x.op = "call" /\ x.arg = "type" => Len(e) > 0 /\ e[Len(e)].op \in {"stars", "error"}
  BY DEF Ends
<1>11. Len(e) > 0 /\ Len(v) > 0 => Joins(e[Len(e)], m, v[1])
  <2> SUFFICES ASSUME Len(e) > 0, Len(v) > 0 PROVE Joins(e[Len(e)], m, v[1])
    OBVIOUS
  <2>1. Len(t) > 1 /\ v[1] = t[2]
    BY <1>5
  <2>2. Leaves(e[Len(e)], t[2])
    BY <1>9, <1>10, <2>1 DEF Leaves
  <2>3. Closer(e[Len(e)]) /\ m = <<>> => Quiet(t[2])
    BY <1>3, <1>4, <2>1 DEF Joins
  <2> QED BY <1>9, <2>1, <2>2, <2>3 DEF Joins
<1>12. \E r : Path(u, p, r, c)
  <2>1. PICK r : Path(v, m, r, c)
    BY <1>3
  <2>2. u = e \o v
    BY <1>1
  <2>3. Path(u, p, r, c)
    BY ONLY <1>4, <1>5, <1>11, <2>1, <2>2, PathConcat, Zenon
  <2> QED BY <2>3
<1>13. /\ OpenedTo(s, Len(s), o) /\ n \in 0 .. Len(s) /\ at \in 0 .. Len(s) /\ to \in 0 .. Len(s)
       /\ Placed(x, o, s, n, at)
  BY DEF Spanned
<1>14. x.op = "call" => (x.arg = "type" => to = n) /\ (x.arg # "type" => to = at)
  OBVIOUS
<1>15. Placed(u[1], o, s, n, to)
  <2>1. CASE Spot(u[1]) = "none"
    BY <2>1 DEF Placed
  <2>2. CASE Spot(u[1]) # "none"
    <3>1. Len(e) > 0 /\ u[1] = e[1]
      BY <1>6, <1>8, <1>9, <1>10, <2>2
    <3>2. x.op = "call"
      <4>1. e[1].op = "skip" => Spot(e[1]) = "none"
        BY DEF Spot
      <4> QED BY <2>2, <3>1, <4>1
    <3>3. CASE e[1].op = "to_type" /\ x.arg \in {"decl_kind", "for_kind"}
      <4>1. Spot(x) = "same" /\ Spot(u[1]) = "again"
        BY <3>1, <3>2, <3>3 DEF Spot
      <4> QED BY <1>13, <1>14, <3>2, <3>3, <4>1 DEF Placed
    <3>4. CASE e[1].op = "back" /\ x.arg = "symbol"
      <4>1. Spot(x) = "after" /\ Spot(u[1]) = "after"
        BY <3>1, <3>2, <3>4 DEF Spot
      <4> QED BY <1>13, <4>1 DEF Placed
    <3> QED BY <1>4, <2>2, <3>1, <3>3, <3>4 DEF Begins
  <2> QED BY <2>1, <2>2
<1>16. u[1].op = "skip" => Len(u) > 1 /\ SkipPlaced(u[2], o, s, n, to)
  <2> SUFFICES ASSUME u[1].op = "skip" PROVE Len(u) > 1 /\ SkipPlaced(u[2], o, s, n, to)
    OBVIOUS
  <2>1. Len(e) > 0 /\ u[1] = e[1] /\ e[1].op = "skip"
    BY <1>6, <1>8, <1>9
  <2>2. n < Len(s)
    BY <2>1 DEF Started
  <2>3. CASE Len(e) > 1
    <3>1. u[2] = e[2] /\ Len(u) > 1 /\ SkipBegins(x, e[2], p, c)
      BY <1>4, <1>8, <2>1, <2>3
    <3>2. CASE x.op = "climb"
      <4>1. Spot(u[2]) = "none"
        BY <2>3, <3>1, <3>2
      <4> QED BY <1>1, <2>2, <3>1, <4>1 DEF SkipPlaced, SkipBegins
    <3>3. CASE x.op = "call"
      <4>1. /\ x.arg = "var_name" => Spot(x) = "same"
            /\ x.arg = "var_rest" => Spot(x) = "name"
        BY <3>3 DEF Spot
      <4>2. x.arg \in {"var_name", "var_rest", "type"} => o[to] = o[n]
        <5>1. x.arg = "type" => o[to] = o[n]
          BY <1>14, <3>3
        <5>2. x.arg \in {"var_name", "var_rest"} => o[at] = o[n] /\ to = at
          BY <1>13, <1>14, <3>3, <4>1 DEF Placed
        <5> QED BY <5>1, <5>2
      <4>3. /\ Spot(u[2]) \in {"same", "name"} => o[to] = o[n] /\ c \notin Opens \union Closes
            /\ Spot(u[2]) = "open" => o[to] = o[n] /\ c \in Opens
        BY <3>1, <4>2 DEF SkipBegins
      <4>4. /\ Spot(u[2]) = "after" => c = "sym"
            /\ Bump(p, c) = <<>> => c \notin Ending \/ Quiet(u[2])
        BY <3>1 DEF SkipBegins
      <4> QED BY <1>1, <2>2, <3>1, <4>3, <4>4 DEF SkipPlaced
    <3> QED BY <3>2, <3>3
  <2>4. CASE Len(e) = 1
    <3>1. Len(u) > 1
      BY <1>7, <1>8, <2>1, <2>4
    <3>2. u[2] = t[2] /\ Len(t) > 1 /\ c \notin Ending
      BY <1>4, <1>8, <2>1, <2>4, <3>1
    <3>3. ~(x.op = "call" /\ x.arg = "type")
      BY <1>10, <2>1, <2>4
    <3>4. Spot(u[2]) = "none"
      BY <1>9, <3>2, <3>3
    <3> QED BY <1>1, <2>2, <3>1, <3>2, <3>4 DEF SkipPlaced
  <2>5. Len(e) > 0 /\ Len(e) \in Nat
    BY <1>6, <2>1
  <2>6. Len(e) > 1 \/ Len(e) = 1
    BY <2>5, OneOrMore
  <2> QED BY <2>3, <2>4, <2>6
<1> QED BY <1>1, <1>12, <1>13, <1>15, <1>16 DEF Spanned

(* So a path is one for any token, unless it begins there. *)
LEMMA PathAny ==
  ASSUME NEW t \in Seq(Items), Len(t) > 0, t[1].op # "skip", NEW p, NEW r, NEW c, Path(t, p, r, c),
         NEW d
  PROVE  Path(t, p, r, d)
<1>1. PICK u : u = Tail(t)
  OBVIOUS
<1>2. /\ p \in Seq(Brackets)
      /\ \E m \in Seq(Brackets) :
              /\ Marked(t[1], p, m, c) /\ (Len(t) > 1 => Joins(t[1], m, t[2]))
              /\ \A e : Path(u, m, r, e)
  BY <1>1, PathTail, Zenon
<1>3. PICK m \in Seq(Brackets) : /\ Marked(t[1], p, m, c) /\ (Len(t) > 1 => Joins(t[1], m, t[2]))
                                 /\ Path(u, m, r, d)
  BY <1>2
<1>4. PICK x : x = t[1] /\ x.op # "skip"
  OBVIOUS
<1>5. x \in Items /\ u \in Seq(Items) /\ (Len(u) > 0 => Len(t) > 1 /\ u[1] = t[2]) /\ t = <<x>> \o u
  BY <1>1, <1>4
<1>6. Net(x, c) = Net(x, d)
  BY <1>4, NetAny
<1>7. Marked(x, p, m, d)
  BY <1>3, <1>4, <1>6 DEF Marked, Eff
<1>8. Len(u) > 0 => Joins(x, m, u[1])
  BY <1>3, <1>4, <1>5
<1>9. Path(t, p, r, d)
  <2>1. /\ x \in Items /\ u \in Seq(Items) /\ t = <<x>> \o u
        /\ p \in Seq(Brackets) /\ m \in Seq(Brackets) /\ Marked(x, p, m, d) /\ Path(u, m, r, d)
    BY <1>2, <1>3, <1>5, <1>7
  <2> QED BY ONLY <1>8, <2>1, PathCons, Zenon
<1> QED BY <1>9

(* The input goes on. *)
LEMMA SpanLex ==
  ASSUME NEW s \in Seq(Tokens), NEW o, NEW n, NEW at, NEW t \in Seq(Items), Len(t) > 0,
         Spanned(o, s, n, at, t), t[1].op # "skip", NEW k \in Tokens, NEW v, v = Append(s, k)
  PROVE  \E q : Spanned(q, v, n, at, t)
<1>1. /\ Len(s) \in Nat /\ Len(v) = Len(s) + 1 /\ \A i \in 1 .. Len(s) : v[i] = s[i]
  OBVIOUS
<1>2. /\ OpenedTo(s, Len(s), o) /\ n \in 0 .. Len(s) /\ at \in 0 .. Len(s)
      /\ Placed(t[1], o, s, n, at)
  BY DEF Spanned
<1>3. PICK q : OpenedTo(v, Len(s) + 1, q) /\ \A i \in 0 .. Len(s) : q[i] = o[i]
  <2>1. PICK l : l = Len(s)
    OBVIOUS
  <2>2. l \in Nat /\ OpenedTo(s, l, o) /\ Goes(v, s, l)
    BY <1>1, <1>2, <2>1 DEF Goes
  <2>3. \E q : OpenedTo(v, l + 1, q) /\ \A i \in 0 .. l : q[i] = o[i]
    BY ONLY <2>2, OpenedMore
  <2> QED BY <2>1, <2>3
<1>4. q[n] = o[n] /\ q[at] = o[at]
  BY <1>2, <1>3
<1>5. n \in 0 .. Len(v) /\ at \in 0 .. Len(v) /\ Len(v) > 0 /\ n # Len(v)
  BY <1>1, <1>2
<1>6. PICK r : Path(t, o[n], r, s[n + 1])
  BY DEF Spanned
<1>7. Path(t, q[n], r, v[n + 1])
  BY <1>4, <1>6, PathAny
<1>8. /\ n < Len(s) => n + 1 \in 1 .. Len(s) /\ n < Len(v)
      /\ n > 0 => n \in 1 .. Len(s)
  BY <1>1, <1>2
<1>9. Placed(t[1], q, v, n, at)
  BY <1>1, <1>2, <1>4, <1>8 DEF Placed
<1>10. ~Sealed(q, v, n)
  BY <1>5 DEF Sealed
<1>11. OpenedTo(v, Len(v), q)
  BY <1>1, <1>3
<1> QED BY <1>5, <1>7, <1>9, <1>10, <1>11 DEF Spanned

(* A parse begins. *)
LEMMA SpanFirst ==
  ASSUME NEW s, Len(s) \in Nat, NEW t, t = <<Call("global")>>
  PROVE  \E o : Spanned(o, s, 0, 0, t)
<1>1. PICK o : OpenedTo(s, Len(s), o)
  BY OpenedIs
<1>2. PICK x : x = Call("global")
  OBVIOUS
<1>3. x.op = "call" /\ x.arg = "global" /\ t = <<x>> /\ t[1] = x
  BY <1>2 DEF Call, Item
<1>4. o[0] = <<>> /\ <<>> \in Seq(Brackets) /\ 0 \in 0 .. Len(s) /\ ~(0 > 0)
  BY <1>1 DEF OpenedTo
<1>5. PICK c : c = s[0 + 1]
  OBVIOUS
<1>6. Net(x, c) = "none"
  BY <1>3, NetIs DEF ClosesParen, ClosesBrace
<1>7. Eff(x, <<>>, c) = <<>>
  <2>1. Bump(<<>>, "none") = <<>>
    BY <1>4, BumpIs DEF Opens, Closes
  <2> QED BY <1>3, <1>6, <2>1 DEF Eff
<1>8. Enough(x, <<>>)
  BY <1>3 DEF Enough, Outer, Inmost, ClosesParen
<1>9. Marked(x, <<>>, <<>>, c)
  BY <1>7, <1>8 DEF Marked
<1>10. Path(t, o[0], <<>>, c)
  BY <1>3, <1>4, <1>9, PathOne
<1>11. Spot(x) = "none"
  BY <1>3 DEF Spot
<1>12. Placed(t[1], o, s, 0, 0)
  BY <1>3, <1>11 DEF Placed
<1>13. ~Sealed(o, s, 0)
  BY <1>4 DEF Sealed
<1> QED BY <1>1, <1>2, <1>3, <1>4, <1>5, <1>10, <1>12, <1>13 DEF Spanned

(* What a call leaves open depends on the function called only. *)
LEMMA SpelledCall ==
  ASSUME NEW f \in ParseFns, NEW x, x.op = "call", x.arg = f, NEW e, NEW p, NEW c,
         Spelled(Call(f), e, p, c)
  PROVE  Spelled(x, e, p, c)
<1>1. PICK y : y = Call(f) /\ y.op = "call" /\ y.arg = f
  BY ItemFacts
<1>2. Net(x, c) = Net(y, c)
  BY <1>1 DEF Net
<1>3. Eff(x, p, c) = Eff(y, p, c)
  BY <1>1, <1>2 DEF Eff
<1>4. \A a : Begins(y, a) => Begins(x, a)
  BY <1>1 DEF Begins
<1>5. Closer(y) => Closer(x)
  BY <1>1 DEF Closer
<1>6. \A a : SkipBegins(y, a, p, c) => SkipBegins(x, a, p, c)
  BY <1>1 DEF SkipBegins
<1>7. Spelled(y, e, p, c)
  BY <1>1
<1> QED BY ONLY <1>3, <1>4, <1>5, <1>6, <1>7, Zenon DEF Spelled

LEMMA ExpandSpan ==
  ASSUME StackInv, StackInv', NEW o, Spanned(o, toks, tok_begin, dt.at, todo), Expand
  PROVE  Spanned(o, toks', tok_begin', dt'.at, todo')
<1>1. PICK x, f, e, n : /\ x = todo[1] /\ f = x.arg /\ e = Expansion(f) /\ n = tok_begin
  OBVIOUS
<1>2. /\ x.op = "call" /\ f \in ParseFns /\ Known /\ Fits(x, e) /\ todo' = e \o Tail(todo)
      /\ tok_begin' = tok_begin + 0 /\ toks' = toks
      /\ dt' = IF f = "type" THEN [at |-> tok_begin, ptr_depth |-> 0] ELSE dt
  BY <1>1, ExpandIs
<1>3. /\ todo \in Seq(Items) /\ Len(todo) > 0 /\ Stack(todo') /\ toks \in Seq(Tokens)
      /\ n \in Nat /\ dt \in [at : Nat, ptr_depth : Nat] /\ Ready(x) /\ Top = x
  <2>1. Stack(todo) /\ Stack(todo') /\ Typed /\ Heads(todo[1], todo)
    BY DEF StackInv
  <2> QED BY <1>1, <2>1 DEF Stack, Typed, Heads, Top
<1>4. tok_begin' = n /\ dt'.at = (IF f = "type" THEN n ELSE dt.at)
  BY <1>1, <1>2, <1>3
<1>5. /\ o[n] \in Seq(Brackets) /\ Enough(x, o[n])
      /\ x.op = "call" /\ x.arg = "global" => o[n] = <<>>
  BY <1>1, <1>3, SpanTop
<1>6. PICK y : y = Call(f) /\ y.op = "call" /\ y.arg = f /\ y \in Items /\ Need(y) = CallNeed(f)
  BY <1>2, ItemFacts
<1>7. Enough(y, o[n])
  BY <1>1, <1>2, <1>5, <1>6 DEF Enough, Outer, Inmost
<1>8. f \in {"function_call", "array_access"} => n < Len(toks) /\ Cur = "sym"
  <2>1. f \in {"function_call", "array_access"} => Spot(x) = "at"
    BY <1>1, <1>2 DEF Spot
  <2>2. Placed(x, o, toks, n, dt.at)
    BY <1>1 DEF Spanned
  <2> QED BY <1>1, <2>1, <2>2 DEF Placed, Cur
<1>9. f = "iteration_stmt" => Cur \in LoopTokens
  <2>1. f = "iteration_stmt" => Need(x) = "loop"
    BY <1>1, <1>2 DEF Need, CallNeed
  <2> QED BY <1>3, <2>1 DEF Ready
<1>10. Spelled(x, e, o[n], toks[n + 1])
  <2>1. Spelled(Call(f), Expansion(f), o[n], Cur)
    BY <1>1, <1>2, <1>5, <1>6, <1>7, <1>8, <1>9, ExpansionSpelled
  <2> QED BY <1>1, <1>2, <2>1, SpelledCall DEF Cur
<1>11. f \in OneToken \/ f \in TwoTokens => n < Len(toks)
  <2>1. CASE f \in OneToken
    BY <1>1, <1>2, <1>3, <2>1, Reads
  <2>2. CASE f \in TwoTokens
    <3>1. Looks = 2
      <4>1. Top.op = "call" /\ Top.arg \in TwoTokens
        BY <1>1, <1>2, <1>3, <2>2
      <4>2. \A g \in TwoTokens : g \notin OneToken
        BY DEF OneToken, TwoTokens
      <4> QED BY ONLY <4>1, <4>2 DEF Looks
    <3>2. n + 2 <= Len(toks) /\ Len(toks) \in Nat
      BY <1>1, <1>2, <1>3, <3>1 DEF Known
    <3> QED BY ONLY <1>3, <3>2, SMT
  <2> QED BY <2>1, <2>2
<1>12. f \in NoToken => f # "global" /\ (f # "function_call" => Started(e))
  <2>1. f \in NoToken => f # "global" /\ f \notin OneToken /\ f \notin TwoTokens
    BY DEF NoToken, OneToken, TwoTokens
  <2>2. f \in NoToken => e = Calls0(f)
    BY <1>1, <2>1 DEF Expansion
  <2> QED BY <2>1, <2>2, Starts0
<1>13. n < Len(toks) \/ Started(e)
  BY <1>2, <1>8, <1>11, <1>12 DEF ParseFns
<1>14. n < Len(toks) \/ x # Call("global")
  <2>1. x = Call("global") => f = "global"
    BY <1>1 DEF Call, Item
  <2>2. f = "global" => f \notin NoToken
    BY <1>12
  <2> QED BY <1>2, <1>11, <2>1, <2>2, Zenon DEF ParseFns
<1>15. /\ n \in 0 .. Len(toks) /\ (x = Call("global") \/ Len(toks) > 0)
       /\ Sealed(o, toks, n) => Quiet(x)
  BY <1>1 DEF Spanned
<1>16. Len(toks) > 0
  <2>1. Len(toks) \in Nat
    BY <1>3
  <2>2. n < Len(toks) => Len(toks) > 0
    BY ONLY <1>3, <2>1, SMT
  <2> QED BY <1>14, <1>15, <2>2
<1>17. ~Sealed(o, toks, n)
  <2>1. Quiet(x) => x = Call("global")
    BY <1>2 DEF Quiet
  <2>2. Sealed(o, toks, n) => ~(n < Len(toks))
    BY <1>3 DEF Sealed
  <2> QED BY <1>14, <1>15, <2>1, <2>2
<1>18. Len(e) > 0 => Ends(x, e[Len(e)])
  BY <1>2 DEF Fits
<1>19. f = "type" => Len(e) > 0
  <2>1. f = "type" => e # <<>>
    BY <1>1, Nonempty
  <2>2. e \in Seq(Items)
    BY <1>2 DEF Fits
  <2> QED BY <2>1, <2>2
<1>20. /\ x.op \in {"call", "climb"} /\ x.op # "climb"
  BY <1>2
<1>21. /\ dt'.at = (IF x.op = "call" /\ x.arg = "type" THEN n ELSE dt.at)
       /\ x.op = "call" /\ x.arg = "type" => Len(e) > 0
  BY <1>1, <1>2, <1>4, <1>19
<1>22. Spanned(o, toks, n, dt.at, todo)
  BY <1>1
<1>23. Spanned(o, toks, n, dt'.at, todo')
  BY ONLY <1>1, <1>2, <1>3, <1>10, <1>13, <1>16, <1>17, <1>18, <1>20, <1>21, <1>22, SpanExpand, Zenon
<1> QED BY <1>2, <1>4, <1>23

LEMMA ClimbSpan ==
  ASSUME StackInv, StackInv', NEW o, Spanned(o, toks, tok_begin, dt.at, todo), ExpandClimb
  PROVE  Spanned(o, toks', tok_begin', dt'.at, todo')
<1>1. PICK x, c, n : x = Top /\ c = Cur /\ n = tok_begin
  OBVIOUS
<1>2. /\ x = todo[1] /\ x \in Items /\ Sound(x) /\ x.op = "climb" /\ Known
      /\ Rest = Tail(todo) /\ <<>> \o Rest = Rest /\ Len(todo) > 0
  BY <1>1, TopIs DEF ExpandClimb, Step
<1>3. PICK e : e = climb(x.lo, x.hi, c)
  OBVIOUS
<1>4. /\ todo' = e \o Tail(todo) /\ tok_begin' = tok_begin + 0 /\ toks' = toks /\ dt' = dt
  BY <1>1, <1>2, <1>3 DEF ExpandClimb, Do
<1>5. /\ todo \in Seq(Items) /\ Stack(todo') /\ toks \in Seq(Tokens) /\ n \in Nat
  <2>1. Stack(todo) /\ Stack(todo') /\ Typed
    BY DEF StackInv
  <2> QED BY <1>1, <2>1 DEF Stack, Typed
<1>6. tok_begin' = n
  BY <1>1, <1>4, <1>5
<1>7. n < Len(toks) /\ Len(toks) \in Nat /\ c = toks[n + 1]
  BY <1>1, <1>2, <1>5, Reads DEF Cur
<1>8. Len(toks) > 0
  BY ONLY <1>5, <1>7, SMT
<1>9. /\ o[n] \in Seq(Brackets) /\ Enough(x, o[n])
  BY <1>1, <1>2, <1>5, SpanTop
<1>10. Len(o[n]) > 0
  <2>1. ~Outer(x)
    BY <1>2 DEF Outer
  <2>2. Len(o[n]) >= 1 /\ Len(o[n]) \in Nat
    BY <1>9, <2>1 DEF Enough
  <2> QED BY ONLY <2>2, SMT
<1>11. Spelled(x, e, o[n], toks[n + 1])
  BY <1>2, <1>3, <1>7, <1>9, <1>10, ClimbSpelled
<1>12. ~Sealed(o, toks, n)
  BY <1>5, <1>7 DEF Sealed
<1>13. Fits(x, e)
  BY <1>2, <1>3, ClimbFits
<1>14. Len(e) > 0 => Ends(x, e[Len(e)])
  BY <1>13 DEF Fits
<1>15. /\ x.op = "climb" /\ Len(e) > 0 => e[1].op = "skip"
       /\ x.op = "climb" /\ Len(e) > 1 => Spot(e[2]) = "none"
  <2>1. CASE Level(c) \in x.lo .. x.hi
    <3>1. PICK a, b : a = Climb(Level(c), 10) /\ b = Climb(x.lo, Level(c))
      OBVIOUS
    <3>2. e = <<Skip, Call("prefix_unary"), a, Binary(Level(c)), b>>
      BY <1>3, <2>1, <3>1 DEF climb
    <3>3. e[1] = Skip /\ e[2] = Call("prefix_unary")
      BY <3>2
    <3>4. Skip.op = "skip" /\ Spot(Call("prefix_unary")) = "none"
      BY DEF Skip, Call, Item, Spot
    <3> QED BY <3>3, <3>4
  <2>2. CASE Level(c) \notin x.lo .. x.hi
    <3>1. e = <<>>
      BY <1>3, <2>2 DEF climb
    <3>2. Len(e) = 0 /\ ~(0 > 0) /\ ~(0 > 1)
      BY <3>1
    <3> QED BY <3>2
  <2> QED BY <2>1, <2>2
<1>16. /\ x.op \in {"call", "climb"} /\ x.op # "call"
  BY <1>2
<1>17. Spanned(o, toks, n, dt.at, todo)
  BY <1>1
<1>18. Spanned(o, toks, n, dt.at, todo')
  BY ONLY <1>2, <1>4, <1>5, <1>7, <1>8, <1>11, <1>12, <1>14, <1>15, <1>16, <1>17, SpanExpand, Zenon
<1> QED BY <1>4, <1>6, <1>18

(* The token under the cursor opens and closes what Bump says. *)
LEMMA SpanNext ==
  ASSUME NEW s \in Seq(Tokens), NEW o, NEW n, NEW at, NEW t, Spanned(o, s, n, at, t), n < Len(s)
  PROVE  n + 1 \in 0 .. Len(s) /\ o[n + 1] = Bump(o[n], s[n + 1])
<1>1. /\ OpenedTo(s, Len(s), o) /\ n \in 0 .. Len(s) /\ Len(s) \in Nat
  BY DEF Spanned
<1>2. \A i \in 1 .. Len(s) : o[i] = Bump(o[i - 1], s[i])
  BY <1>1 DEF OpenedTo
<1>3. n + 1 \in 0 .. Len(s) /\ n + 1 \in 1 .. Len(s) /\ (n + 1) - 1 = n
  BY ONLY <1>1, n < Len(s), SMT
<1> QED BY <1>2, <1>3

(* What is known of an item that is no call. *)
LEMMA SpanItem ==
  ASSUME NEW s \in Seq(Tokens), NEW o, NEW n, NEW at, NEW t \in Seq(Items), Len(t) > 1,
         Spanned(o, s, n, at, t), NEW x, x = t[1], NEW y, y = t[2], NEW p, p = o[n],
         NEW c, c = s[n + 1], x.op \notin {"call", "error"}
  PROVE  /\ p \in Seq(Brackets) /\ Len(p) \in Nat /\ Len(s) \in Nat /\ Len(s) > 0 /\ n \in Nat
         /\ n \in 0 .. Len(s) /\ at \in 0 .. Len(s)
         /\ Enough(x, p) /\ Leaves(x, y) /\ (Closer(x) /\ Eff(x, p, c) = <<>> => Quiet(y))
         /\ x.op \notin {"skip", "require", "recount"} => Eff(x, p, c) = p
         /\ x.op = "skip" => Eff(x, p, c) = Bump(p, c)
         /\ x.op = "require" => Eff(x, p, c) = Bump(p, x.arg)
         /\ x.op = "recount" => Eff(x, p, c) = Front(p)
         /\ Placed(x, o, s, n, at) /\ (Sealed(o, s, n) => Quiet(x))
         /\ ~Sealed(o, s, n) \/ x.op = "make"
         /\ x.op = "skip" => SkipPlaced(y, o, s, n, at)
         /\ n < Len(s) => n + 1 \in 0 .. Len(s) /\ o[n + 1] = Bump(p, c)
         /\ n > 0 => n - 1 \in 0 .. Len(s) /\ o[n - 1] \in Seq(Brackets) /\ p = Bump(o[n - 1], s[n])
<1>1. Len(t) > 0 /\ Len(s) \in Nat
  OBVIOUS
<1>2. p \in Seq(Brackets) /\ Enough(x, p) /\ Joins(x, Eff(x, p, c), y)
  BY <1>1, SpanTop
<1>3. Leaves(x, y) /\ (Closer(x) /\ Eff(x, p, c) = <<>> => Quiet(y))
  BY <1>2 DEF Joins
<1>4. /\ x.op # "recount" => Eff(x, p, c) = Bump(p, Net(x, c))
      /\ x.op = "recount" => Eff(x, p, c) = Front(p)
  BY DEF Eff, Front
<1>5. /\ x.op = "skip" => Net(x, c) = c
      /\ x.op = "require" => Net(x, c) = x.arg
      /\ x.op \notin {"skip", "require"} => Net(x, c) = "none"
  BY NetIs
<1>6. Bump(p, "none") = p
  BY <1>2, BumpIs DEF Opens, Closes
<1>7. /\ OpenedTo(s, Len(s), o) /\ n \in 0 .. Len(s) /\ at \in 0 .. Len(s)
      /\ Placed(x, o, s, n, at) /\ (Sealed(o, s, n) => Quiet(x))
      /\ x.op = "skip" => SkipPlaced(y, o, s, n, at)
      /\ x = Call("global") \/ Len(s) > 0
  BY DEF Spanned
<1>8. x # Call("global")
  BY DEF Call, Item
<1>9. Quiet(x) => x.op = "make"
  BY <1>8 DEF Quiet
<1>10. /\ o \in [0 .. Len(s) -> Seq(Brackets)]
       /\ \A i \in 1 .. Len(s) : o[i] = Bump(o[i - 1], s[i])
  BY <1>7 DEF OpenedTo
<1>11. n < Len(s) => n + 1 \in 0 .. Len(s) /\ n + 1 \in 1 .. Len(s) /\ (n + 1) - 1 = n
  BY ONLY <1>1, <1>7, SMT
<1>12. n > 0 => n - 1 \in 0 .. Len(s) /\ n \in 1 .. Len(s)
  BY ONLY <1>1, <1>7, SMT
<1>13. n < Len(s) => o[n + 1] = Bump(p, c)
  BY <1>10, <1>11
<1>14. n > 0 => o[n - 1] \in Seq(Brackets) /\ p = Bump(o[n - 1], s[n])
  BY <1>10, <1>12
<1>15. n \in Nat /\ Len(p) \in Nat
  BY <1>2, <1>7
<1>16. ~Sealed(o, s, n) \/ x.op = "make"
  BY <1>7, <1>9
<1>17. Len(s) > 0
  BY <1>7, <1>8
<1> QED BY <1>1, <1>2, <1>3, <1>4, <1>5, <1>6, <1>7, <1>11, <1>12, <1>13, <1>14, <1>15, <1>16, <1>17, Zenon

(* Items that leave the cursor where it is. *)
LEMMA SpanStill ==
  ASSUME NEW s \in Seq(Tokens), NEW o, NEW n, NEW at, NEW t \in Seq(Items), Len(t) > 1,
         Spanned(o, s, n, at, t), NEW u, u = Tail(t),
         t[1].op \in {"make", "binary", "paren", "deepen", "shallow", "need_int"}
  PROVE  Spanned(o, s, n, at, u)
<1>1. PICK x, y, p, c : x = t[1] /\ y = t[2] /\ p = o[n] /\ c = s[n + 1]
  OBVIOUS
<1>2. /\ x.op \notin {"call", "error", "skip", "require", "recount", "stars", "back"}
      /\ x.op = "make" => Closer(x)
  BY <1>1 DEF Closer
<1>3. /\ Len(s) > 0 /\ n \in 0 .. Len(s) /\ at \in 0 .. Len(s) /\ Leaves(x, y)
      /\ Closer(x) /\ Eff(x, p, c) = <<>> => Quiet(y)
      /\ Eff(x, p, c) = p /\ (~Sealed(o, s, n) \/ x.op = "make")
  BY <1>1, <1>2, SpanItem
<1>4. Spot(y) = "none"
  BY <1>2, <1>3 DEF Leaves
<1>5. Placed(y, o, s, n, at)
  BY <1>4 DEF Placed
<1>6. Sealed(o, s, n) => Quiet(y)
  BY <1>1, <1>2, <1>3 DEF Sealed
<1>7. o[n] = Eff(t[1], o[n], s[n + 1]) /\ t[1].op # "error" /\ y = t[2]
  BY <1>1, <1>2, <1>3
<1> QED BY ONLY t \in Seq(Items), Len(t) > 1, Spanned(o, s, n, at, t), u = Tail(t), <1>3, <1>5, <1>6, <1>7,
                SpanPop, Zenon

LEMMA SpanRequire ==
  ASSUME NEW s \in Seq(Tokens), NEW o, NEW n, NEW at, NEW t \in Seq(Items), Len(t) > 1,
         Spanned(o, s, n, at, t), NEW u, u = Tail(t),
         t[1].op = "require", n < Len(s), s[n + 1] = t[1].arg
  PROVE  Spanned(o, s, n + 1, at, u)
<1>1. PICK x, y, p, c, m : x = t[1] /\ y = t[2] /\ p = o[n] /\ c = s[n + 1] /\ m = n + 1
  OBVIOUS
<1>2. x.op = "require" /\ x.op \notin {"call", "error", "skip", "stars", "back"} /\ c = x.arg
  BY <1>1
<1>3. /\ Len(s) > 0 /\ m \in 0 .. Len(s) /\ at \in 0 .. Len(s) /\ Leaves(x, y)
      /\ Closer(x) /\ Eff(x, p, c) = <<>> => Quiet(y)
      /\ Eff(x, p, c) = Bump(p, x.arg) /\ o[m] = Bump(p, c)
  BY <1>1, <1>2, SpanItem
<1>4. Spot(y) = "none"
  BY <1>2, <1>3 DEF Leaves
<1>5. Placed(y, o, s, m, at)
  BY <1>4 DEF Placed
<1>6. Sealed(o, s, m) => Quiet(y)
  <2>1. Sealed(o, s, m) => o[m] = <<>> /\ c \in Ending
    BY <1>1 DEF Sealed
  <2>2. c \in Ending => Closer(x)
    BY <1>2 DEF Closer
  <2> QED BY <1>2, <1>3, <2>1, <2>2
<1>7. o[m] = Eff(t[1], o[n], s[n + 1]) /\ t[1].op # "error" /\ y = t[2] /\ m = n + 1
  BY <1>1, <1>2, <1>3
<1> QED BY ONLY t \in Seq(Items), Len(t) > 1, Spanned(o, s, n, at, t), u = Tail(t), <1>3, <1>5, <1>6, <1>7,
                SpanPop, Zenon

LEMMA SpanSkip ==
  ASSUME NEW s \in Seq(Tokens), NEW o, NEW n, NEW at, NEW t \in Seq(Items), Len(t) > 1,
         Spanned(o, s, n, at, t), NEW u, u = Tail(t), t[1].op = "skip"
  PROVE  Spanned(o, s, n + 1, at, u)
<1>1. PICK x, y, p, c, m : x = t[1] /\ y = t[2] /\ p = o[n] /\ c = s[n + 1] /\ m = n + 1
  OBVIOUS
<1>2. x.op = "skip" /\ x.op \notin {"call", "error", "require", "stars", "back"}
  BY <1>1
<1>3. SkipPlaced(y, o, s, n, at) /\ p \in Seq(Brackets)
  BY <1>1, <1>2, SpanItem
<1>4. n < Len(s)
  BY <1>3 DEF SkipPlaced
<1>5. /\ Len(s) > 0 /\ m \in 0 .. Len(s) /\ at \in 0 .. Len(s) /\ Leaves(x, y) /\ n \in Nat
      /\ Eff(x, p, c) = Bump(p, c) /\ o[m] = Bump(p, c)
  BY <1>1, <1>2, <1>4, SpanItem
<1>6. Spot(y) \in {"none", "same", "name", "open", "after"}
  BY <1>2, <1>5 DEF Leaves
<1>7. Placed(y, o, s, m, at)
  <2>1. CASE Spot(y) = "none"
    BY <2>1 DEF Placed
  <2>2. CASE Spot(y) \in {"same", "name"}
    <3>1. o[at] = p /\ c \notin Opens \union Closes
      BY <1>1, <1>3, <2>2 DEF SkipPlaced
    <3>2. o[m] = p
      BY <1>3, <1>5, <3>1, BumpIs
    <3> QED BY <2>2, <3>1, <3>2 DEF Placed
  <2>3. CASE Spot(y) = "open"
    <3>1. o[at] = p /\ c \in Opens
      BY <1>1, <1>3, <2>3 DEF SkipPlaced
    <3>2. Front(o[m]) = p
      BY <1>3, <1>5, <3>1, BumpIs
    <3> QED BY <2>3, <3>1, <3>2 DEF Placed
  <2>4. CASE Spot(y) = "after"
    <3>1. s[m] = "sym"
      BY <1>1, <1>3, <2>4 DEF SkipPlaced
    <3>2. m > 0
      BY <1>1, <1>5
    <3> QED BY <2>4, <3>1, <3>2 DEF Placed
  <2> QED BY <1>6, <2>1, <2>2, <2>3, <2>4
<1>8. Sealed(o, s, m) => Quiet(y)
  <2>1. Sealed(o, s, m) => o[m] = <<>> /\ c \in Ending
    BY <1>1 DEF Sealed
  <2>2. Bump(p, c) = <<>> => c \notin Ending \/ Quiet(y)
    BY <1>1, <1>3 DEF SkipPlaced
  <2> QED BY <1>5, <2>1, <2>2
<1>9. o[m] = Eff(t[1], o[n], s[n + 1]) /\ t[1].op # "error" /\ y = t[2] /\ m = n + 1
  BY <1>1, <1>2, <1>5
<1> QED BY ONLY t \in Seq(Items), Len(t) > 1, Spanned(o, s, n, at, t), u = Tail(t), <1>5, <1>7, <1>8, <1>9,
                SpanPop, Zenon

LEMMA SpanBack ==
  ASSUME NEW s \in Seq(Tokens), NEW o, NEW n, NEW at, NEW t \in Seq(Items), Len(t) > 1,
         Spanned(o, s, n, at, t), NEW u, u = Tail(t), t[1].op = "back"
  PROVE  Spanned(o, s, n - 1, at, u)
<1>1. PICK x, y, p, c, m : x = t[1] /\ y = t[2] /\ p = o[n] /\ c = s[n + 1] /\ m = n - 1
  OBVIOUS
<1>2. x.op = "back" /\ x.op \notin {"call", "error", "require", "stars", "skip", "recount"}
  BY <1>1
<1>3. Placed(x, o, s, n, at)
  BY <1>1, <1>2, SpanItem
<1>4. n > 0 /\ s[n] = "sym"
  <2>1. Spot(x) = "after"
    BY <1>2 DEF Spot
  <2> QED BY <1>3, <2>1 DEF Placed
<1>5. /\ Len(s) > 0 /\ m \in 0 .. Len(s) /\ at \in 0 .. Len(s) /\ Leaves(x, y)
      /\ n \in 0 .. Len(s) /\ Len(s) \in Nat
      /\ Eff(x, p, c) = p /\ o[m] \in Seq(Brackets) /\ p = Bump(o[m], s[n])
  <2>1. /\ Len(s) > 0 /\ at \in 0 .. Len(s) /\ Leaves(x, y)
        /\ n \in 0 .. Len(s) /\ Len(s) \in Nat /\ Eff(x, p, c) = p
    BY <1>1, <1>2, SpanItem
  <2>2. n > 0 => n - 1 \in 0 .. Len(s) /\ o[n - 1] \in Seq(Brackets) /\ p = Bump(o[n - 1], s[n])
    BY <1>1, <1>2, SpanItem
  <2> QED BY <1>1, <1>4, <2>1, <2>2
<1>6. o[m] = p
  BY <1>4, <1>5, BumpIs DEF Opens, Closes
<1>7. m < Len(s) /\ m + 1 = n /\ m # Len(s)
  BY ONLY <1>1, <1>5, SMT
<1>8. Spot(y) \in {"none", "at"}
  BY <1>2, <1>5 DEF Leaves
<1>9. Placed(y, o, s, m, at)
  BY <1>4, <1>7, <1>8 DEF Placed
<1>10. Sealed(o, s, m) => Quiet(y)
  BY <1>7 DEF Sealed
<1>11. o[m] = Eff(t[1], o[n], s[n + 1]) /\ t[1].op # "error" /\ y = t[2] /\ m = n - 1
  BY <1>1, <1>2, <1>5, <1>6
<1> QED BY ONLY t \in Seq(Items), Len(t) > 1, Spanned(o, s, n, at, t), u = Tail(t), <1>5, <1>9, <1>10, <1>11,
                SpanPop, Zenon

LEMMA SpanStarless ==
  ASSUME NEW s \in Seq(Tokens), NEW o, NEW n, NEW at, NEW t \in Seq(Items), Len(t) > 1,
         Spanned(o, s, n, at, t), NEW u, u = Tail(t), t[1].op = "stars"
  PROVE  Spanned(o, s, n, at, u)
<1>1. PICK x, y, p, c : x = t[1] /\ y = t[2] /\ p = o[n] /\ c = s[n + 1]
  OBVIOUS
<1>2. x.op = "stars" /\ x.op \notin {"call", "error", "skip", "require", "recount", "back", "make"}
  BY <1>1
<1>3. /\ Len(s) > 0 /\ n \in 0 .. Len(s) /\ at \in 0 .. Len(s) /\ Leaves(x, y)
      /\ Eff(x, p, c) = p /\ ~Sealed(o, s, n) /\ Placed(x, o, s, n, at)
  <2>1. /\ Len(s) > 0 /\ n \in 0 .. Len(s) /\ at \in 0 .. Len(s) /\ Leaves(x, y)
        /\ Eff(x, p, c) = p /\ Placed(x, o, s, n, at)
    BY <1>1, <1>2, SpanItem
  <2>2. ~Sealed(o, s, n) \/ x.op = "make"
    BY <1>1, <1>2, SpanItem
  <2>3. x.op # "make"
    BY <1>2
  <2> QED BY <2>1, <2>2, <2>3, Zenon
<1>4. Spot(y) \in {"none", "same"}
  BY <1>2, <1>3 DEF Leaves
<1>5. o[at] = o[n]
  <2>1. Spot(x) = "same"
    BY <1>2 DEF Spot
  <2> QED BY <1>3, <2>1 DEF Placed
<1>6. Placed(y, o, s, n, at)
  BY <1>4, <1>5 DEF Placed
<1>7. o[n] = Eff(t[1], o[n], s[n + 1]) /\ t[1].op # "error" /\ y = t[2]
  BY <1>1, <1>2, <1>3
<1> QED BY ONLY t \in Seq(Items), Len(t) > 1, Spanned(o, s, n, at, t), u = Tail(t), <1>3, <1>6, <1>7,
                SpanPop, Zenon

(* One star is passed over, and the loop over them goes on. *)
LEMMA SpanStar ==
  ASSUME NEW s \in Seq(Tokens), NEW o, NEW n, NEW at, NEW t \in Seq(Items), Len(t) > 1,
         Spanned(o, s, n, at, t), NEW u, u = <<Stars>> \o Tail(t), t[1].op = "stars",
         n < Len(s), s[n + 1] = "*"
  PROVE  Spanned(o, s, n + 1, at, u)
<1>1. PICK x, y, p, c, m, v : /\ x = t[1] /\ y = t[2] /\ p = o[n] /\ c = s[n + 1] /\ m = n + 1
                              /\ v = Tail(t)
  OBVIOUS
<1>2. x.op = "stars" /\ x.op \notin {"call", "error", "skip", "require", "recount", "back", "make"}
  BY <1>1
<1>3. /\ Len(s) > 0 /\ n \in 0 .. Len(s) /\ at \in 0 .. Len(s) /\ Leaves(x, y)
      /\ Eff(x, p, c) = p /\ Placed(x, o, s, n, at) /\ p \in Seq(Brackets)
      /\ m \in 0 .. Len(s) /\ o[m] = Bump(p, c)
  <2>1. /\ Len(s) > 0 /\ n \in 0 .. Len(s) /\ at \in 0 .. Len(s) /\ Leaves(x, y)
        /\ Eff(x, p, c) = p /\ Placed(x, o, s, n, at) /\ p \in Seq(Brackets)
    BY <1>1, <1>2, SpanItem
  <2>2. n < Len(s) => n + 1 \in 0 .. Len(s) /\ o[n + 1] = Bump(p, c)
    BY <1>1, SpanNext
  <2> QED BY <1>1, <2>1, <2>2
<1>4. c = "*" /\ c \notin Ending /\ o[m] = p
  <2>1. c = "*" /\ c \notin Ending /\ c \notin Opens \union Closes
    BY <1>1 DEF Ending, Opens, Closes
  <2> QED BY <1>3, <2>1, BumpIs
<1>5. o[at] = o[m]
  <2>1. Spot(x) = "same"
    BY <1>2 DEF Spot
  <2> QED BY <1>1, <1>3, <1>4, <2>1 DEF Placed
<1>6. PICK a : a = Stars /\ a \in Items /\ a.op = "stars"
  BY ItemFacts
<1>7. Spot(a) = "same" /\ ~Closer(a)
  BY <1>6 DEF Spot, Closer
<1>8. Placed(a, o, s, m, at)
  BY <1>5, <1>7 DEF Placed
<1>9. ~Sealed(o, s, m)
  BY <1>1, <1>4 DEF Sealed
<1>10. PICK d : d = s[m + 1]
  OBVIOUS
<1>11. Len(t) > 0
  OBVIOUS
<1>12. /\ Joins(x, p, y)
       /\ \E r : \A e : Path(v, p, r, e)
  BY <1>1, <1>2, <1>3, <1>11, SpanTop
<1>13. PICK r : Path(v, p, r, d)
  BY <1>12
<1>14. Eff(a, p, d) = p
  <2>1. Net(a, d) = "none"
    BY <1>6, NetIs
  <2>2. "none" \notin Opens \union Closes
    BY DEF Opens, Closes
  <2>3. Bump(p, "none") = p
    BY <1>3, <2>2, BumpIs
  <2> QED BY <1>6, <2>1, <2>3 DEF Eff
<1>15. Marked(a, p, p, d)
  <2>1. Enough(a, p)
    BY <1>6 DEF Enough, Outer, Inmost
  <2> QED BY <1>6, <1>14, <2>1 DEF Marked
<1>16. Joins(a, p, y)
  <2>1. Leaves(a, y)
    BY <1>2, <1>3, <1>6 DEF Leaves
  <2> QED BY <1>7, <1>12, <2>1 DEF Joins
<1>17. v \in Seq(Items) /\ Len(v) > 0 /\ v[1] = y /\ u = <<a>> \o v
  BY <1>1, <1>6
<1>18. Len(v) > 0 => Joins(a, p, v[1])
  BY <1>16, <1>17
<1>19. Path(u, p, r, d)
  BY ONLY <1>3, <1>6, <1>13, <1>15, <1>17, <1>18, PathCons, Zenon
<1>20. u[1] = a
  BY <1>17
<1>21. OpenedTo(s, Len(s), o)
  BY DEF Spanned
<1>22. /\ \E z : Path(u, o[m], z, s[m + 1])
       /\ u[1].op # "skip"
  BY <1>4, <1>6, <1>10, <1>19, <1>20
<1>23. Spanned(o, s, m, at, u)
  BY <1>3, <1>8, <1>9, <1>20, <1>21, <1>22 DEF Spanned
<1> QED BY <1>1, <1>23

(* The cursor goes back to the type. *)
LEMMA SpanRewind ==
  ASSUME NEW s \in Seq(Tokens), NEW o, NEW n, NEW at, NEW t \in Seq(Items), Len(t) > 1,
         Spanned(o, s, n, at, t), NEW u, u = Tail(t), t[1].op \in {"to_type", "recount"}
  PROVE  Spanned(o, s, at, at, u)
<1>1. PICK x, y, p, c : x = t[1] /\ y = t[2] /\ p = o[n] /\ c = s[n + 1]
  OBVIOUS
<1>2. x.op \in {"to_type", "recount"} /\ x.op \notin {"call", "error", "skip", "require", "stars", "back", "make"}
  BY <1>1
<1>3. /\ Len(s) > 0 /\ at \in 0 .. Len(s) /\ Leaves(x, y) /\ Placed(x, o, s, n, at)
      /\ p \in Seq(Brackets) /\ Len(p) \in Nat /\ Enough(x, p)
      /\ x.op = "to_type" => Eff(x, p, c) = p
      /\ x.op = "recount" => Eff(x, p, c) = Front(p)
  BY <1>1, <1>2, SpanItem
<1>4. o[at] = Eff(x, p, c)
  <2>1. /\ x.op = "to_type" => Spot(x) = "again"
        /\ x.op = "recount" => Spot(x) = "open"
    BY DEF Spot
  <2> QED BY <1>1, <1>2, <1>3, <2>1 DEF Placed
<1>5. o[at] # <<>>
  <2>1. Len(<<>>) = 0
    OBVIOUS
  <2>2. CASE x.op = "to_type"
    <3>1. ~Outer(x)
      BY <2>2 DEF Outer
    <3>2. Len(p) >= 1
      BY <1>3, <3>1 DEF Enough
    <3>3. Len(p) # 0
      BY ONLY <1>3, <3>2, SMT
    <3> QED BY <1>3, <1>4, <2>1, <2>2, <3>3
  <2>3. CASE x.op = "recount"
    <3>1. Inmost(x)
      BY <2>3 DEF Inmost
    <3>2. Len(p) >= 2
      BY <1>3, <3>1 DEF Enough
    <3>3. PICK k \in Nat : k = Len(p) - 1 /\ k # 0 /\ k <= Len(p)
      BY <1>3, <3>2
    <3>4. Front(p) = SubSeq(p, 1, k) /\ Len(SubSeq(p, 1, k)) = k
      BY <1>3, <3>3 DEF Front
    <3> QED BY <1>3, <1>4, <2>1, <2>3, <3>3, <3>4
  <2> QED BY <1>2, <2>2, <2>3
<1>6. Spot(y) = "none"
  BY <1>2, <1>3 DEF Leaves
<1>7. Placed(y, o, s, at, at)
  BY <1>6 DEF Placed
<1>8. Sealed(o, s, at) => Quiet(y)
  BY <1>5 DEF Sealed
<1>9. o[at] = Eff(t[1], o[n], s[n + 1]) /\ t[1].op # "error" /\ y = t[2]
  BY <1>1, <1>2, <1>4
<1> QED BY ONLY t \in Seq(Items), Len(t) > 1, Spanned(o, s, n, at, t), u = Tail(t), <1>3, <1>7, <1>8, <1>9,
                SpanPop, Zenon

Spans == phase = "parse" => \E o : Spanned(o, toks, tok_begin, dt.at, todo)
BracketInv == Spans /\ AcceptedBalanced /\ OverrunMeansTruncated

LEMMA ItemSpan ==
  ASSUME StackInv, NEW o, Spanned(o, toks, tok_begin, dt.at, todo),
         require_token \/ peek_next \/ CountStars \/ MakeNode \/ CountLoops \/ Rewind \/ CheckInt
  PROVE  toks' = toks /\ Spanned(o, toks', tok_begin', dt'.at, todo')
<1>1. PICK x, t, u, n, at : x = Top /\ t = todo /\ u = Tail(t) /\ n = tok_begin /\ at = dt.at
  OBVIOUS
<1>2. /\ x = t[1] /\ x \in Items /\ Ready(x) /\ Rest = u /\ <<>> \o Rest = u
      /\ ~Bottom(x) => Len(t) > 1
  BY <1>1, TopIs
<1>3. /\ toks \in Seq(Tokens) /\ t \in Seq(Items) /\ n \in Nat
      /\ dt \in [at : Nat, ptr_depth : Nat] /\ at \in Nat /\ dt.ptr_depth \in Nat
  BY <1>1 DEF StackInv, Stack, Typed
<1>4. Spanned(o, toks, n, at, t)
  BY <1>1
<1>5. x.op \notin {"error", "call"} => Len(t) > 1
  BY <1>2 DEF Bottom
<1>6. CASE require_token
  <2>1. /\ x.op = "require" /\ Known /\ Cur = x.arg /\ todo' = u /\ tok_begin' = n + 1
        /\ toks' = toks /\ dt' = dt
    BY <1>1, <1>2, <1>6 DEF require_token, Step, Do
  <2>2. n < Len(toks) /\ toks[n + 1] = x.arg
    BY <1>1, <2>1, Reads DEF Cur
  <2>3. Spanned(o, toks, n + 1, at, u)
    BY <1>1, <1>2, <1>3, <1>4, <1>5, <2>1, <2>2, SpanRequire
  <2> QED BY <1>1, <2>1, <2>3
<1>7. CASE peek_next
  <2>1. /\ x.op \in {"skip", "back"} /\ todo' = u
        /\ tok_begin' = n + (IF x.op = "skip" THEN 1 ELSE -1)
        /\ toks' = toks /\ dt' = dt
    BY <1>1, <1>2, <1>7 DEF peek_next, Do
  <2>2. CASE x.op = "skip"
    <3>1. Spanned(o, toks, n + 1, at, u)
      BY <1>1, <1>2, <1>3, <1>4, <1>5, <2>2, SpanSkip
    <3> QED BY <1>1, <2>1, <2>2, <3>1
  <2>3. CASE x.op = "back"
    <3>1. Spanned(o, toks, n - 1, at, u)
      BY <1>1, <1>2, <1>3, <1>4, <1>5, <2>3, SpanBack
    <3>2. tok_begin' = n - 1
      BY <1>3, <2>1, <2>3
    <3> QED BY <1>1, <2>1, <3>1, <3>2
  <2> QED BY <2>1, <2>2, <2>3
<1>8. CASE CountStars
  <2>1. x.op = "stars" /\ Known /\ toks' = toks
    BY <1>1, <1>8 DEF CountStars, Step, Do
  <2>2. n < Len(toks) /\ Cur = toks[n + 1]
    BY <1>1, <2>1, Reads DEF Cur
  <2>3. CASE Cur = "*"
    <3>1. PICK d : d = dt /\ d \in [at : Nat, ptr_depth : Nat]
      BY <1>3
    <3>2. todo' = <<Stars>> \o u /\ tok_begin' = n + 1 /\ dt' = [d EXCEPT !.ptr_depth = @ + 1]
      BY <1>1, <1>2, <1>8, <2>3, <3>1 DEF CountStars, Do
    <3>3. dt'.at = at
      BY <1>1, <3>1, <3>2
    <3>4. PICK v : v = todo'
      OBVIOUS
    <3>5. Spanned(o, toks, n + 1, at, v)
      BY <1>1, <1>2, <1>3, <1>4, <1>5, <2>1, <2>2, <2>3, <3>2, <3>4, SpanStar
    <3> QED BY <2>1, <3>2, <3>3, <3>4, <3>5
  <2>4. CASE Cur # "*"
    <3>1. todo' = u /\ tok_begin' = n + 0 /\ dt' = dt
      BY <1>1, <1>2, <1>8, <2>4 DEF CountStars, Do
    <3>2. tok_begin' = n
      BY <1>3, <3>1
    <3>3. Spanned(o, toks, n, at, u)
      BY <1>1, <1>2, <1>3, <1>4, <1>5, <2>1, SpanStarless
    <3> QED BY <1>1, <2>1, <3>1, <3>2, <3>3
  <2> QED BY <2>3, <2>4
<1>9. CASE MakeNode \/ CountLoops \/ CheckInt
  <2>1. /\ x.op \in {"make", "binary", "paren", "deepen", "shallow", "need_int"}
        /\ todo' = u /\ tok_begin' = n + 0 /\ toks' = toks /\ dt' = dt
    BY <1>1, <1>2, <1>9 DEF MakeNode, CountLoops, CheckInt, Do
  <2>2. tok_begin' = n
    BY <1>3, <2>1
  <2>3. Spanned(o, toks, n, at, u)
    BY <1>1, <1>2, <1>3, <1>4, <1>5, <2>1, SpanStill
  <2> QED BY <1>1, <2>1, <2>2, <2>3
<1>10. CASE Rewind
  <2>1. /\ x.op \in {"to_type", "recount"} /\ todo' = u /\ toks' = toks /\ dt' = dt
        /\ tok_begin' = n + ((IF x.op = "to_type" THEN at ELSE Recounted) - n)
    BY <1>1, <1>2, <1>10 DEF Rewind, Do
  <2>2. x.op = "recount" => Recounted = at
    <3>1. x.op = "recount" => n = at + 3 + dt.ptr_depth
      BY <1>1, <1>2 DEF Ready, Need, After
    <3> QED BY <1>1, <1>3, <3>1 DEF Recounted
  <2>3. tok_begin' = at
    <3>1. tok_begin' = n + (at - n)
      BY <2>1, <2>2
    <3> QED BY <1>3, <3>1
  <2>4. Spanned(o, toks, at, at, u)
    BY <1>1, <1>2, <1>3, <1>4, <1>5, <2>1, SpanRewind
  <2> QED BY <1>1, <2>1, <2>3, <2>4
<1> QED BY <1>6, <1>7, <1>8, <1>9, <1>10

(* The cursor can reach the end of the tokens only where more must follow. *)
LEMMA OverrunSpan ==
  ASSUME StackInv, NEW o, Spanned(o, toks, tok_begin, dt.at, todo), ReadPastEnd
  PROVE  OverrunMeansTruncated'
<1>1. PICK x, n : x = Top /\ n = tok_begin
  OBVIOUS
<1>2. /\ x = todo[1] /\ toks \in Seq(Tokens) /\ Len(toks) \in Nat /\ n \in Nat
  BY <1>1, TopIs DEF StackInv, Typed
<1>3. toks' = toks /\ tok_begin' = n /\ Running /\ ~Known /\ ended
  BY <1>1 DEF ReadPastEnd
<1> SUFFICES ASSUME n = Len(toks)
             PROVE  toks # <<>> /\ (OpenBrackets(toks) # <<>> \/ toks[Len(toks)] \notin {"}", ";"})
  BY <1>3 DEF OverrunMeansTruncated
<1>4. AtEnd
  BY <1>1, <1>2, <1>3 DEF AtEnd
<1>5. x # Call("global")
  BY <1>1, <1>3, <1>4 DEF Running
<1>6. /\ OpenedTo(toks, Len(toks), o) /\ (Sealed(o, toks, n) => Quiet(x)) /\ Len(toks) > 0
  BY <1>1, <1>2, <1>5 DEF Spanned
<1>7. ~Quiet(x)
  <2> SUFFICES ASSUME Quiet(x) PROVE FALSE
    OBVIOUS
  <2>1. x.op \in {"make", "error"}
    BY <1>5 DEF Quiet
  <2>2. Looks = 0
    BY <1>1, <2>1 DEF Looks
  <2> QED BY <1>1, <1>2, <1>3, <2>2 DEF Known
<1>8. o[n] # <<>> \/ toks[n] \notin Ending
  BY <1>2, <1>6, <1>7 DEF Sealed
<1>9. OpenBrackets(toks) = o[Len(toks)]
  BY <1>2, <1>6, OpenBracketsIs
<1>10. toks # <<>>
  BY <1>2, <1>6
<1> QED BY <1>8, <1>9, <1>10 DEF Ending

LEMMA FinishSpan ==
  ASSUME StackInv, NEW o, Spanned(o, toks, tok_begin, dt.at, todo), Finish
  PROVE  AcceptedBalanced'
<1>1. PICK n, t : n = tok_begin /\ t = todo
  OBVIOUS
<1>2. t \in Seq(Items) /\ Len(t) > 0 /\ Len(toks) \in Nat /\ n \in Nat /\ Top = t[1]
  BY <1>1, TopIs DEF StackInv, Stack, Typed
<1>3. toks' = toks /\ Top = Call("global") /\ AtEnd
  BY DEF Finish
<1>4. t[1].op = "call" /\ t[1].arg = "global"
  BY <1>2, <1>3 DEF Call, Item
<1>5. OpenedTo(toks, Len(toks), o) /\ n \in 0 .. Len(toks) /\ Spanned(o, toks, n, dt.at, t)
  BY <1>1 DEF Spanned
<1>6. n = Len(toks)
  BY <1>1, <1>2, <1>3, <1>5 DEF AtEnd
<1>7. o[n] = <<>>
  BY <1>2, <1>4, <1>5, SpanTop
<1>8. OpenBrackets(toks) = o[Len(toks)]
  BY <1>2, <1>5, OpenBracketsIs
<1> QED BY <1>3, <1>6, <1>7, <1>8 DEF AcceptedBalanced

LEMMA BracketStep ==
  ASSUME StackInv, StackInv', BracketInv, [Next]_vars
  PROVE  BracketInv'
<1>1. Spans /\ AcceptedBalanced /\ OverrunMeansTruncated
  BY DEF BracketInv
<1>2. ASSUME phase' = "parse", Spans' PROVE BracketInv'
  BY <1>2 DEF BracketInv, AcceptedBalanced, OverrunMeansTruncated
<1>3. CASE UNCHANGED vars
  BY <1>1, <1>3 DEF vars, BracketInv, Spans, AcceptedBalanced, OverrunMeansTruncated
<1>4. CASE Again
  <2>1. toks' \in Seq(Tokens) /\ phase' = "parse" /\ tok_begin' = 0 /\ dt'.at = 0
        /\ todo' = <<Call("global")>>
    BY <1>4, PrefixesAssumption DEF Again
  <2>2. PICK s, t : s = toks' /\ t = todo' /\ Len(s) \in Nat
    BY <2>1
  <2>3. \E o : Spanned(o, s, 0, 0, t)
    BY <2>1, <2>2, SpanFirst
  <2>4. Spans'
    BY <2>1, <2>2, <2>3 DEF Spans
  <2> QED BY <1>2, <2>1, <2>4
<1>5. CASE phase = "parse"
  <2>1. PICK o : Spanned(o, toks, tok_begin, dt.at, todo)
    BY <1>1, <1>5 DEF Spans
  <2>2. ASSUME NEW c \in Tokens, Lex(c) PROVE BracketInv'
    <3>1. /\ toks' = Append(toks, c) /\ tok_begin' = tok_begin /\ todo' = todo /\ dt' = dt
          /\ phase' = phase /\ ~Known
      BY <2>2 DEF Lex
    <3>2. PICK s, t, n, at, v : /\ s = toks /\ t = todo /\ n = tok_begin /\ at = dt.at
                                /\ v = toks'
      OBVIOUS
    <3>3. /\ s \in Seq(Tokens) /\ t \in Seq(Items) /\ Len(t) > 0 /\ Top = t[1]
          /\ v = Append(s, c) /\ Spanned(o, s, n, at, t)
      BY <2>1, <3>1, <3>2, TopIs DEF StackInv, Stack, Typed
    <3>4. t[1].op # "skip"
      <4> SUFFICES ASSUME t[1].op = "skip" PROVE FALSE
        OBVIOUS
      <4>1. Looks = 0
        BY <3>3 DEF Looks
      <4>2. n \in 0 .. Len(s) /\ Len(s) \in Nat
        BY <3>3 DEF Spanned
      <4> QED BY <3>1, <3>2, <4>1, <4>2 DEF Known
    <3>5. \E q : Spanned(q, v, n, at, t)
      BY <2>2, <3>3, <3>4, SpanLex
    <3>6. Spans'
      BY <3>1, <3>2, <3>5 DEF Spans
    <3> QED BY <1>2, <1>5, <3>1, <3>6
  <2>3. CASE LexEnd
    <3>1. UNCHANGED <<toks, tok_begin, todo, dt, phase>>
      BY <2>3 DEF LexEnd
    <3>2. Spans'
      BY <1>1, <3>1 DEF Spans
    <3> QED BY <1>2, <1>5, <3>1, <3>2
  <2>4. CASE \/ Expand \/ ExpandClimb \/ require_token \/ peek_next \/ CountStars \/ MakeNode
             \/ CountLoops \/ Rewind \/ CheckInt
    <3>1. phase' = phase
      BY <2>4 DEF Expand, ExpandClimb, require_token, peek_next, CountStars, MakeNode, CountLoops,
                  Rewind, CheckInt
    <3>2. Spanned(o, toks', tok_begin', dt'.at, todo')
      BY <2>1, <2>4, ExpandSpan, ClimbSpan, ItemSpan
    <3>3. Spans'
      BY <3>2 DEF Spans
    <3> QED BY <1>2, <1>5, <3>1, <3>3
  <2>5. CASE weak_compile_error
    <3>1. phase' = "error"
      BY <2>5 DEF weak_compile_error
    <3> QED BY <3>1 DEF BracketInv, Spans, AcceptedBalanced, OverrunMeansTruncated
  <2>6. CASE ReadPastEnd
    <3>1. phase' = "overrun"
      BY <2>6 DEF ReadPastEnd
    <3>2. OverrunMeansTruncated'
      BY <2>1, <2>6, OverrunSpan
    <3> QED BY <3>1, <3>2 DEF BracketInv, Spans, AcceptedBalanced
  <2>7. CASE Finish
    <3>1. phase' = "done"
      BY <2>7 DEF Finish
    <3>2. AcceptedBalanced'
      BY <2>1, <2>7, FinishSpan
    <3> QED BY <3>1, <3>2 DEF BracketInv, Spans, OverrunMeansTruncated
  <2> QED BY <1>3, <1>4, <2>2, <2>3, <2>4, <2>5, <2>6, <2>7 DEF Next, Work
<1>6. CASE phase # "parse"
  <2>1. Again \/ UNCHANGED vars
    BY <1>6 DEF Next, Work, Lex, LexEnd, Expand, ExpandClimb, require_token, peek_next, CountStars,
                MakeNode, CountLoops, Rewind, CheckInt, weak_compile_error, ReadPastEnd, Finish,
                Step, Running
  <2> QED BY <1>3, <1>4, <2>1
<1> QED BY <1>5, <1>6

(* The stack spells what is left to close in every state of the parser. *)
LEMMA BracketInvariance == Spec => []BracketInv
<1>1. Init => BracketInv
  <2> SUFFICES ASSUME Init PROVE BracketInv
    OBVIOUS
  <2>1. /\ toks \in Seq(Tokens) /\ phase = "parse" /\ tok_begin = 0 /\ dt.at = 0
        /\ todo = <<Call("global")>>
    BY PrefixesAssumption DEF Init
  <2>2. PICK s, t : s = toks /\ t = todo /\ Len(s) \in Nat
    BY <2>1
  <2>3. \E o : Spanned(o, s, 0, 0, t)
    BY <2>1, <2>2, SpanFirst
  <2>4. Spans
    BY <2>1, <2>2, <2>3 DEF Spans
  <2> QED BY <2>1, <2>4 DEF BracketInv, AcceptedBalanced, OverrunMeansTruncated
<1>2. StackInv /\ StackInv' /\ BracketInv /\ [Next]_vars => BracketInv'
  BY BracketStep
<1> QED BY <1>1, <1>2, StackInvariance, PTL DEF Spec

(* An accepted input of any length closes every bracket it opens with its  *)
(* mate: each function closes what it, or its caller for it, has opened.   *)
THEOREM Balance == Spec => []AcceptedBalanced
<1>1. BracketInv => AcceptedBalanced
  BY DEF BracketInv
<1> QED BY <1>1, BracketInvariance, PTL

(* Whatever the input, the parser reaches the end of the tokens inside one *)
(* of its functions only if the input stops inside a bracket or not after  *)
(* } or ;.                                                                 *)
THEOREM Truncation == Spec => []OverrunMeansTruncated
<1>1. BracketInv => OverrunMeansTruncated
  BY DEF BracketInv
<1> QED BY <1>1, BracketInvariance, PTL

====
