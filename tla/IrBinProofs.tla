---- MODULE IrBinProofs ----
(***************************************************************************)
(* Reading inverts writing, for units of any size.  While a file is        *)
(* written, the proof accompanies it with the run of a reader on what is   *)
(* there so far (Trace): the reader's pending work mirrors the writer's,   *)
(* item by item, but for at most one item that waits for a value.          *)
(***************************************************************************)
EXTENDS IrBin, SequenceTheorems, TLAPS

Types == {"alloca", "array", "imm", "string", "sym", "store", "bin", "jump", "cond", "ret", "call"}
Funs  == Types \union {"header", "args", "body", "fn_decl", "unit"}
Fieldnames == {"num_fns", "num", "len", "bytes", "args", "ret_type", "ptr_depth", "alloca", "array",
               "imm", "sym", "op", "idx", "goto_label", "is_void", "type", "instr_idx",
               "cfg_block_no", "meta", "claimed_reg"}
Slots  == {"stmt", "store.idx", "store.body", "cond", "lhs", "rhs", "arg", "ret"}
Values == Nat \union Types
WItems == [op : {"put"}, arg : Fieldnames, n : Values] \union
          [op : {"call"}, arg : Funs, n : {0}] \union [op : {"node"}, arg : Slots, n : {0}]

(* What the reader does where the writer does an item. *)
mirror(x) == IF x.op # "put" THEN x ELSE IF x.arg = "bytes" THEN GetBytes ELSE Get(x.arg)
Mirror(w) == [i \in 1 .. Len(w) |-> mirror(w[i])]

IsBytes(x) == x.op = "put" /\ x.arg = "bytes"

(* The bytes of a name or a string follow their length, which is not 0. *)
Lengths(w, v) ==
  \A i \in 1 .. Len(w) : IsBytes(w[i]) =>
    IF i = 1 THEN v = 1 ELSE w[i - 1] = Put("len", 1)

(* Rest, with the value it looks at. *)
RestAt(f, v) == CASE f = "ret"  -> IF v = 0 THEN <<Node("ret")>> ELSE <<>>
                  [] f = "call" -> Times(Node("arg"), v)
                  [] f = "args" -> Times(Call("alloca"), v)
                  [] f = "body" -> Times(Node("stmt"), v)
                  [] f = "unit" -> Times(Call("fn_decl"), v)
Later == {"ret", "call", "args", "body", "unit"}

(* The reader's item x waits for v: with v it becomes the mirror of q, the *)
(* work of the writer that follows v, or it fails.                         *)
Fails(x, v)  == v = 0 /\ (x = GetBytes \/ x = Then("body"))
Opens(x, v)  == CASE x.op = "then"   -> RestAt(x.arg, v)
                  [] x.op = "switch" -> read_node(v)
Waits(x, v, q) ==
  \/ Fails(x, v)
  \/ /\ x.op = "switch" \/ (x.op = "then" /\ x.arg \in Later /\ (x.arg = "body" => v # 0))
     /\ Opens(x, v) = Mirror(q)

(* The reader's work r is the mirror of the writer's work w, or it has an  *)
(* item that waits; so has then the history got, of its node.              *)
Aligned(w, r, g, h) == r = Mirror(w) /\ g = h
Pending(w, r, g, h, a, f, v, q, t, x) ==
  /\ a \in Seq(WItems) /\ q \in Seq(WItems) /\ t \in Seq(WItems)
  /\ f \in Fieldnames \ {"bytes"} /\ v \in Values
  /\ \A i \in 1 .. Len(a) : a[i].op = "put"
  /\ w = a \o (<<Put(f, v)>> \o (q \o t))
  /\ r = Mirror(a) \o (<<Get(f), x>> \o Mirror(t))
  /\ Waits(x, v, q)
  /\ h = IF x.op = "switch" THEN Append(g, <<x.arg, v>>) ELSE g
Follows(w, r, g, h) ==
  \/ Aligned(w, r, g, h)
  \/ \E a, f, v, q, t, x : Pending(w, r, g, h, a, f, v, q, t, x)

------------------------------------------------------------------------------
(* Runs of the reader. *)

Conf(r, p, v, g) == [todo |-> r, pos |-> p, val |-> v, got |-> g]
Here == Conf(todo, pos, val, got)

Reads(x) == x.op \in {"get", "bytes"}
Unfold(x, v) ==
  CASE x.op \in {"get", "bytes", "new_fn"} -> <<>>
    [] x.op = "call" -> read(x.arg)
    [] x.op = "node" -> <<Get("type"), Item("switch", x.arg, 0)>>
    [] x.op \in {"then", "switch"} -> Opens(x, v)

Goes(c, F) ==
  /\ c.todo # <<>> /\ c.pos \in Nat
  /\ Head(c.todo).op = "then" => Head(c.todo).arg \in Later
  /\ Reads(Head(c.todo)) => c.pos < Len(F) /\ F[c.pos + 1].field = Head(c.todo).arg
  /\ ~Fails(Head(c.todo), c.val)

After(c, F) ==
  LET x == Head(c.todo) IN
  Conf(Unfold(x, c.val) \o Tail(c.todo),
       IF Reads(x) THEN c.pos + 1 ELSE c.pos,
       IF Reads(x) THEN F[c.pos + 1].v ELSE c.val,
       IF x.op = "new_fn" THEN <<>> ELSE IF x.op = "switch" THEN Append(c.got, <<x.arg, c.val>>) ELSE c.got)

Trace(T, m, F) ==
  /\ m \in Nat \ {0} /\ T[1] = Conf(<<Call("unit")>>, 0, 0, <<>>)
  /\ \A k \in 1 .. m - 1 : Goes(T[k], F) /\ T[k + 1] = After(T[k], F)

Stuck(c) == c.todo # <<>> /\ Fails(Head(c.todo), c.val)

(* Where the run has got when the writer still has w to do. *)
Abreast(c, w, h, F) ==
  /\ c.pos = Len(F) /\ Lengths(w, c.val) /\ Follows(w, c.todo, c.got, h)

(* A run of the reader on F that is abreast of the writer, or has failed. *)
Good(w, h, F) == \E T, m : Trace(T, m, F) /\ (Stuck(T[m]) \/ Abreast(T[m], w, h, F))

Fields == [field : Fieldnames, v : Values]

WriteInv ==
  /\ todo \in Seq(WItems) /\ file \in Seq(Fields) /\ pos = 0 /\ val = 0 /\ got = <<>>
  /\ Good(todo, wrote, file)

(* A file F was written, of which the reader's file is a prefix. *)
ReadInv ==
  /\ pos \in Nat /\ pos <= Len(file) /\ file \in Seq(Fields)
  /\ \E F, T, m, k :
       /\ F \in Seq(Fields) /\ Len(file) <= Len(F) /\ \A j \in 1 .. Len(file) : file[j] = F[j]
       /\ whole = (Len(file) = Len(F))
       /\ Trace(T, m, F) /\ k \in 1 .. m /\ T[k] = Here
       /\ Stuck(T[m]) \/ (T[m].todo = <<>> /\ T[m].pos = Len(F) /\ T[m].got = wrote)
  /\ phase = "fatal" => todo # <<>> /\ ((Reads(Top) /\ Missing) \/ (Top.op = "bytes" /\ val = 0))
  /\ phase = "done" => todo = <<>>

FileInv ==
  /\ phase \in {"write", "read", "fatal", "crash", "done"}
  /\ phase = "write" => WriteInv
  /\ phase # "write" => ReadInv

------------------------------------------------------------------------------
(* Sequences of items. *)

(* Mirroring keeps lengths and commutes with taking sequences apart. *)
LEMMA MirrorIs ==
  ASSUME NEW w \in Seq(WItems)
  PROVE  /\ Mirror(w) \in Seq({mirror(x) : x \in WItems}) /\ Len(Mirror(w)) = Len(w)
         /\ \A i \in 1 .. Len(w) : Mirror(w)[i] = mirror(w[i])
<1>1. \A i \in 1 .. Len(w) : w[i] \in WItems
  OBVIOUS
<1> QED BY <1>1 DEF Mirror

(* What a joined sequence holds at each place. *)
LEMMA JoinAt ==
  ASSUME NEW S, NEW a \in Seq(S), NEW b \in Seq(S)
  PROVE  /\ a \o b \in Seq(S) /\ Len(a \o b) = Len(a) + Len(b)
         /\ \A i \in 1 .. Len(a \o b) : (a \o b)[i] = IF i <= Len(a) THEN a[i] ELSE b[i - Len(a)]
OBVIOUS

LEMMA MirrorJoin ==
  ASSUME NEW a \in Seq(WItems), NEW b \in Seq(WItems)
  PROVE  a \o b \in Seq(WItems) /\ Mirror(a \o b) = Mirror(a) \o Mirror(b)
<1>1. PICK s : s = a \o b
  OBVIOUS
<1>2. /\ s \in Seq(WItems) /\ Len(s) = Len(a) + Len(b)
      /\ \A i \in 1 .. Len(s) : s[i] = IF i <= Len(a) THEN a[i] ELSE b[i - Len(a)]
  BY <1>1, JoinAt
<1>3. PICK S : S = {mirror(x) : x \in WItems}
  OBVIOUS
<1>4. PICK m1, m2, m : m1 = Mirror(a) /\ m2 = Mirror(b) /\ m = Mirror(s)
  OBVIOUS
<1>5. /\ m \in Seq(S) /\ Len(m) = Len(s) /\ \A i \in 1 .. Len(s) : m[i] = mirror(s[i])
      /\ m1 \in Seq(S) /\ Len(m1) = Len(a) /\ \A i \in 1 .. Len(a) : m1[i] = mirror(a[i])
      /\ m2 \in Seq(S) /\ Len(m2) = Len(b) /\ \A i \in 1 .. Len(b) : m2[i] = mirror(b[i])
  BY <1>2, <1>3, <1>4, MirrorIs
<1>6. ASSUME NEW i \in 1 .. Len(m) PROVE m[i] = IF i <= Len(m1) THEN m1[i] ELSE m2[i - Len(m1)]
  <2>0. Len(a) \in Nat /\ Len(b) \in Nat /\ i \in Int
    OBVIOUS
  <2>1. CASE i <= Len(a)
    <3>1. i \in 1 .. Len(a) /\ i \in 1 .. Len(s)
      BY <2>0, <2>1, <1>2, <1>5
    <3> QED BY <2>1, <3>1, <1>2, <1>5
  <2>2. CASE ~(i <= Len(a))
    <3>1. i - Len(a) \in 1 .. Len(b) /\ i \in 1 .. Len(s)
      BY <2>0, <2>2, <1>2, <1>5
    <3> QED BY <2>2, <3>1, <1>2, <1>5
  <2> QED BY <2>1, <2>2
<1>7. m = m1 \o m2
  <2>1. PICK j : j = m1 \o m2
    OBVIOUS
  <2>2. /\ j \in Seq(S) /\ Len(j) = Len(m1) + Len(m2)
        /\ \A i \in 1 .. Len(j) : j[i] = IF i <= Len(m1) THEN m1[i] ELSE m2[i - Len(m1)]
    <3>1. m1 \in Seq(S) /\ m2 \in Seq(S)
      BY <1>5
    <3> QED BY ONLY <3>1, <2>1, JoinAt
  <2>3. Len(m) = Len(j)
    BY <1>2, <1>5, <2>2
  <2>4. \A i \in 1 .. Len(m) : m[i] = j[i]
    BY <1>6, <2>2, <2>3
  <2>5. m = j
    BY <1>5, <2>2, <2>3, <2>4, SeqEqual
  <2> QED BY <2>1, <2>5
<1> QED BY <1>1, <1>2, <1>4, <1>7

(* The first item is done: its mirror is done. *)
LEMMA MirrorTail ==
  ASSUME NEW w \in Seq(WItems), w # <<>>
  PROVE  /\ Mirror(w) # <<>> /\ Head(Mirror(w)) = mirror(Head(w))
         /\ Tail(w) \in Seq(WItems) /\ Tail(Mirror(w)) = Mirror(Tail(w)) /\ Head(w) \in WItems
<1>1. PICK S : S = {mirror(x) : x \in WItems}
  OBVIOUS
<1>2. PICK m, t, u : m = Mirror(w) /\ t = Tail(w) /\ u = Mirror(t)
  OBVIOUS
<1>3. t \in Seq(WItems) /\ Len(t) = Len(w) - 1 /\ \A i \in 1 .. Len(t) : t[i] = w[i + 1]
  BY <1>2
<1>4. /\ m \in Seq(S) /\ Len(m) = Len(w) /\ \A i \in 1 .. Len(w) : m[i] = mirror(w[i])
      /\ u \in Seq(S) /\ Len(u) = Len(t) /\ \A i \in 1 .. Len(t) : u[i] = mirror(t[i])
  BY <1>1, <1>2, <1>3, MirrorIs
<1>5. Len(w) \in Nat /\ Len(w) > 0
  OBVIOUS
<1>6. \A i \in 1 .. Len(u) : u[i] = m[i + 1]
  BY <1>3, <1>4, <1>5
<1>7. Tail(m) = u
  BY <1>3, <1>4, <1>5, <1>6
<1>8. Head(m) = m[1] /\ Head(w) = w[1] /\ m # <<>> /\ w[1] \in WItems
  BY <1>4, <1>5
<1> QED BY <1>2, <1>3, <1>4, <1>5, <1>7, <1>8

(* Sequences put together from three parts. *)
LEMMA Parts ==
  ASSUME NEW S, NEW a \in Seq(S), NEW b \in Seq(S), NEW c \in Seq(S)
  PROVE  /\ (a \o b) \o c = a \o (b \o c) /\ a \o b \in Seq(S)
         /\ <<>> \o a = a /\ a \o <<>> = a
         /\ a # <<>> => Head(a \o b) = Head(a) /\ Tail(a \o b) = Tail(a) \o b /\ a \o b # <<>>
OBVIOUS

(* The items a function of the writer is made of, and their mirrors. *)
LEMMA PutIs ==
  ASSUME NEW f \in Fieldnames, NEW v \in Values
  PROVE  /\ Put(f, v) \in WItems
         /\ mirror(Put(f, v)) = IF f = "bytes" THEN GetBytes ELSE Get(f)
         /\ IsBytes(Put(f, v)) <=> f = "bytes"
         /\ Put(f, v).op = "put" /\ Put(f, v).arg = f /\ Put(f, v).n = v
BY DEF Put, Item, Get, GetBytes, mirror, WItems, IsBytes

LEMMA CallIs ==
  ASSUME NEW f \in Funs
  PROVE  /\ Call(f) \in WItems /\ mirror(Call(f)) = Call(f) /\ ~IsBytes(Call(f))
         /\ Call(f).op = "call" /\ Call(f).arg = f
BY DEF Call, Item, mirror, WItems, IsBytes

LEMMA NodeIs ==
  ASSUME NEW f \in Slots
  PROVE  /\ Node(f) \in WItems /\ mirror(Node(f)) = Node(f) /\ ~IsBytes(Node(f))
         /\ Node(f).op = "node" /\ Node(f).arg = f
BY DEF Node, Item, mirror, WItems, IsBytes

LEMMA MirrorOne ==
  ASSUME NEW a \in WItems
  PROVE  <<a>> \in Seq(WItems) /\ Mirror(<<a>>) = <<mirror(a)>>
BY DEF Mirror

LEMMA MirrorTwo ==
  ASSUME NEW a \in WItems, NEW b \in WItems
  PROVE  <<a, b>> \in Seq(WItems) /\ Mirror(<<a, b>>) = <<mirror(a), mirror(b)>>
BY DEF Mirror

LEMMA MirrorThree ==
  ASSUME NEW a \in WItems, NEW b \in WItems, NEW c \in WItems
  PROVE  <<a, b, c>> \in Seq(WItems) /\ Mirror(<<a, b, c>>) = <<mirror(a), mirror(b), mirror(c)>>
BY DEF Mirror

LEMMA MirrorFour ==
  ASSUME NEW a \in WItems, NEW b \in WItems, NEW c \in WItems, NEW d \in WItems
  PROVE  /\ <<a, b, c, d>> \in Seq(WItems)
         /\ Mirror(<<a, b, c, d>>) = <<mirror(a), mirror(b), mirror(c), mirror(d)>>
BY DEF Mirror

LEMMA MirrorFive ==
  ASSUME NEW a \in WItems, NEW b \in WItems, NEW c \in WItems, NEW d \in WItems, NEW e \in WItems
  PROVE  /\ <<a, b, c, d, e>> \in Seq(WItems)
         /\ Mirror(<<a, b, c, d, e>>) = <<mirror(a), mirror(b), mirror(c), mirror(d), mirror(e)>>
BY DEF Mirror

LEMMA MirrorNone == Mirror(<<>>) = <<>>
BY DEF Mirror

LEMMA Joined ==
  ASSUME NEW S, NEW x \in S, NEW y \in S
  PROVE  <<x>> \o <<y>> = <<x, y>>
<1>1. PICK a, b, c, d : a = <<x>> /\ b = <<y>> /\ c = a \o b /\ d = <<x, y>>
  OBVIOUS
<1>2. a \in Seq(S) /\ b \in Seq(S) /\ Len(a) = 1 /\ Len(b) = 1 /\ a[1] = x /\ b[1] = y
  BY <1>1
<1>3. c \in Seq(S) /\ Len(c) = 2 /\ c[1] = x /\ c[2] = y
  BY <1>1, <1>2
<1>4. d \in Seq(S) /\ Len(d) = 2 /\ d[1] = x /\ d[2] = y
  BY <1>1
<1>5. c = d
  BY <1>3, <1>4, SeqEqual
<1> QED BY <1>1, <1>5

LEMMA MirrorTimes ==
  ASSUME NEW x \in WItems, NEW n \in Nat
  PROVE  Times(x, n) \in Seq(WItems) /\ Mirror(Times(x, n)) = Times(mirror(x), n) /\ Len(Times(x, n)) = n
<1>1. Times(x, n) \in Seq(WItems) /\ Len(Times(x, n)) = n /\ \A i \in 1 .. n : Times(x, n)[i] = x
  BY DEF Times
<1> QED BY <1>1 DEF Times, Mirror

------------------------------------------------------------------------------
(* What one function writes, and what its counterpart reads. *)

NoOrphan(s) == \A i \in 1 .. Len(s) : IsBytes(s[i]) => i > 1 /\ s[i - 1] = Put("len", 1)
Late(s, r, a, f, v, q, x) ==
  /\ a \in Seq(WItems) /\ q \in Seq(WItems) /\ f \in Fieldnames \ {"bytes"} /\ v \in Values
  /\ \A i \in 1 .. Len(a) : a[i].op = "put"
  /\ s = a \o (<<Put(f, v)>> \o q) /\ r = Mirror(a) \o <<Get(f), x>>
  /\ Waits(x, v, q) /\ x.op # "switch"
Shaped(s, r) ==
  /\ s \in Seq(WItems) /\ NoOrphan(s)
  /\ r = Mirror(s) \/ \E a, f, v, q, x : Late(s, r, a, f, v, q, x)

LEMMA ShapedOne ==
  ASSUME NEW x \in WItems, ~IsBytes(x)
  PROVE  Shaped(<<x>>, <<mirror(x)>>)
<1>1. <<mirror(x)>> = Mirror(<<x>>)
  BY MirrorOne
<1>2. <<x>> \in Seq(WItems) /\ NoOrphan(<<x>>)
  BY DEF NoOrphan
<1> QED BY <1>1, <1>2 DEF Shaped

LEMMA ShapedTwo ==
  ASSUME NEW x \in WItems, NEW y \in WItems, ~IsBytes(x), IsBytes(y) => x = Put("len", 1)
  PROVE  Shaped(<<x, y>>, <<mirror(x), mirror(y)>>)
<1>1. <<mirror(x), mirror(y)>> = Mirror(<<x, y>>)
  BY MirrorTwo
<1>2. <<x, y>> \in Seq(WItems) /\ NoOrphan(<<x, y>>)
  BY DEF NoOrphan
<1> QED BY <1>1, <1>2 DEF Shaped

LEMMA ShapedThree ==
  ASSUME NEW x \in WItems, NEW y \in WItems, NEW z \in WItems, ~IsBytes(x), ~IsBytes(y), ~IsBytes(z)
  PROVE  Shaped(<<x, y, z>>, <<mirror(x), mirror(y), mirror(z)>>)
<1>1. <<mirror(x), mirror(y), mirror(z)>> = Mirror(<<x, y, z>>)
  BY MirrorThree
<1>2. <<x, y, z>> \in Seq(WItems) /\ NoOrphan(<<x, y, z>>)
  BY DEF NoOrphan
<1> QED BY <1>1, <1>2 DEF Shaped

(* A count, a flag or a length, and what depends on it. *)
LEMMA ShapedLate ==
  ASSUME NEW f \in Fieldnames \ {"bytes"}, NEW v \in Values, NEW q \in Seq(WItems),
         \A i \in 1 .. Len(q) : ~IsBytes(q[i]), NEW x, Waits(x, v, q), x.op # "switch"
  PROVE  Shaped(<<Put(f, v)>> \o q, <<Get(f), x>>)
<1>1. Put(f, v) \in WItems /\ ~IsBytes(Put(f, v))
  BY PutIs
<1>2. PICK y : y = Put(f, v)
  OBVIOUS
<1>3. <<y>> \in Seq(WItems) /\ Len(<<y>>) = 1 /\ <<y>>[1] = y
  BY <1>1, <1>2
<1>4. PICK s : s = <<y>> \o q
  OBVIOUS
<1>5. /\ s \in Seq(WItems) /\ Len(s) = 1 + Len(q)
      /\ \A i \in 1 .. Len(s) : s[i] = IF i <= 1 THEN <<y>>[i] ELSE q[i - 1]
  BY <1>3, <1>4, JoinAt
<1>6. NoOrphan(s)
  <2>1. SUFFICES ASSUME NEW i \in 1 .. Len(s) PROVE ~IsBytes(s[i])
    BY DEF NoOrphan
  <2>2. CASE i = 1
    BY <2>2, <1>1, <1>2, <1>3, <1>5
  <2>3. CASE i # 1
    <3>1. i - 1 \in 1 .. Len(q) /\ s[i] = q[i - 1]
      BY <2>3, <1>5
    <3> QED BY <3>1
  <2> QED BY <2>2, <2>3
<1>7. Mirror(<<>>) \o <<Get(f), x>> = <<Get(f), x>> /\ <<>> \o s = s
  <2>1. Mirror(<<>>) = <<>>
    BY DEF Mirror
  <2>2. \A u, w : <<>> \o <<u, w>> = <<u, w>>
    OBVIOUS
  <2>3. <<>> \o s = s
    BY <1>5
  <2> QED BY <2>1, <2>2, <2>3
<1>8. Late(s, <<Get(f), x>>, <<>>, f, v, q, x)
  <2>1. <<>> \in Seq(WItems) /\ \A i \in 1 .. Len(<<>>) : <<>>[i].op = "put"
    OBVIOUS
  <2>2. s = <<>> \o (<<Put(f, v)>> \o q)
    BY <1>2, <1>4, <1>7
  <2> QED BY <2>1, <2>2, <1>7 DEF Late
<1> QED BY <1>2, <1>4, <1>5, <1>6, <1>8 DEF Shaped

(* The fields and slots of the functions, which the steps below need. *)
LEMMA Words ==
  /\ \A f \in {"num_fns", "num", "len", "args", "ret_type", "ptr_depth", "alloca", "array", "imm",
               "sym", "op", "idx", "goto_label", "is_void", "type", "instr_idx", "cfg_block_no",
               "meta", "claimed_reg"} : f \in Fieldnames \ {"bytes"} /\ f \in Fieldnames
  /\ "bytes" \in Fieldnames
  /\ \A f \in {"stmt", "store.idx", "store.body", "cond", "lhs", "rhs", "arg", "ret"} : f \in Slots
  /\ \A n \in Nat : n \in Values
  /\ Types \subseteq Values
<1>1. /\ "bytes" \in Fieldnames
      /\ \A n \in Nat : n \in Values
      /\ Types \subseteq Values
  BY DEF Fieldnames, Values
<1>2. \A f \in {"stmt", "store.idx", "store.body", "cond", "lhs", "rhs", "arg", "ret"} : f \in Slots
  BY DEF Slots
<1>3. \A f \in {"num_fns", "num", "len", "args", "ret_type", "ptr_depth", "alloca", "array", "imm",
               "sym", "op", "idx", "goto_label", "is_void", "type", "instr_idx", "cfg_block_no",
               "meta", "claimed_reg"} : f \in Fieldnames \ {"bytes"} /\ f \in Fieldnames
  BY DEF Fieldnames
<1> QED BY <1>1, <1>2, <1>3

LEMMA ThenIs == \A f : Then(f).op = "then" /\ Then(f).arg = f
BY DEF Then, Item

(* A number n, and n items alike. *)
LEMMA ShapedTimes ==
  ASSUME NEW f \in Fieldnames \ {"bytes"}, NEW n \in Nat, NEW y \in WItems, ~IsBytes(y), mirror(y) = y,
         NEW g \in Later, g = "body" /\ n # 0 => RestAt(g, n) = Times(y, n),
         g # "body" => RestAt(g, n) = Times(y, n)
  PROVE  Shaped(<<Put(f, n)>> \o Times(y, n), <<Get(f), Then(g)>>)
<1>1. PICK q : q = Times(y, n)
  OBVIOUS
<1>2. /\ q \in Seq(WItems) /\ Mirror(q) = Times(y, n) /\ Len(q) = n
  BY <1>1, MirrorTimes
<1>3. \A i \in 1 .. Len(q) : ~IsBytes(q[i])
  BY <1>1, <1>2 DEF Times
<1>4. Waits(Then(g), n, q)
  <2>1. CASE g = "body" /\ n = 0
    BY <2>1 DEF Waits, Fails
  <2>2. CASE ~(g = "body" /\ n = 0)
    <3>1. Opens(Then(g), n) = Mirror(q)
      BY <2>2, <1>2, ThenIs DEF Opens
    <3> QED BY <2>2, <3>1, ThenIs DEF Waits
  <2> QED BY <2>1, <2>2
<1>5. n \in Values /\ Then(g).op # "switch"
  BY Words, ThenIs
<1>6. Shaped(<<Put(f, n)>> \o q, <<Get(f), Then(g)>>)
  BY <1>2, <1>3, <1>4, <1>5, ShapedLate
<1> QED BY <1>1, <1>6

LEMMA RestIs ==
  /\ \A n : RestAt("ret", n) = IF n = 0 THEN <<Node("ret")>> ELSE <<>>
  /\ \A n : RestAt("call", n) = Times(Node("arg"), n)
  /\ \A n : RestAt("args", n) = Times(Call("alloca"), n)
  /\ \A n : RestAt("body", n) = Times(Node("stmt"), n)
  /\ \A n : RestAt("unit", n) = Times(Call("fn_decl"), n)
  /\ \A f \in {"ret", "call", "args", "body", "unit"} : f \in Later
BY DEF RestAt, Later

LEMMA LeafShapes ==
  ASSUME NEW f \in {"alloca", "array", "imm", "sym", "jump"}, NEW s \in write(f)
  PROVE  Shaped(s, read(f))
<1>1. PICK g : g \in Fieldnames \ {"bytes"} /\ s = <<Put(g, 0)>> /\ read(f) = <<Get(g)>>
  <2>1. CASE f = "alloca"
    BY <2>1, Words DEF write, read, write_alloca, read_alloca
  <2>2. CASE f = "array"
    BY <2>2, Words DEF write, read, write_alloca_array, read_alloca_array
  <2>3. CASE f = "imm"
    BY <2>3, Words DEF write, read, write_imm, read_imm
  <2>4. CASE f = "sym"
    BY <2>4, Words DEF write, read, write_sym, read_sym
  <2>5. CASE f = "jump"
    BY <2>5, Words DEF write, read, write_jump, read_jump
  <2> QED BY <2>1, <2>2, <2>3, <2>4, <2>5
<1>2. Put(g, 0) \in WItems /\ ~IsBytes(Put(g, 0)) /\ mirror(Put(g, 0)) = Get(g)
  BY <1>1, PutIs, Words
<1> QED BY <1>1, <1>2, ShapedOne

LEMMA PairShapes ==
  ASSUME NEW f \in {"store", "bin", "cond"}, NEW s \in write(f)
  PROVE  Shaped(s, read(f))
<1>1. CASE f = "store"
  <2>1. s = <<Node("store.idx"), Node("store.body")>> /\ read(f) = <<Node("store.idx"), Node("store.body")>>
    BY <1>1 DEF write, read, write_store, read_store
  <2> QED BY <2>1, Words, NodeIs, ShapedTwo
<1>2. CASE f = "bin"
  <2>1. s = <<Put("op", 0), Node("lhs"), Node("rhs")>> /\ read(f) = <<Get("op"), Node("lhs"), Node("rhs")>>
    BY <1>2 DEF write, read, write_bin, read_bin
  <2> QED BY <2>1, Words, NodeIs, PutIs, ShapedThree
<1>3. CASE f = "cond"
  <2>1. s = <<Node("cond"), Put("goto_label", 0)>> /\ read(f) = <<Node("cond"), Get("goto_label")>>
    BY <1>3 DEF write, read, write_cond, read_cond
  <2> QED BY <2>1, Words, NodeIs, PutIs, ShapedTwo
<1> QED BY <1>1, <1>2, <1>3

LEMMA CountShapes ==
  ASSUME NEW f \in {"args", "body", "unit"}, NEW s \in write(f)
  PROVE  Shaped(s, read(f))
<1>1. CASE f = "args"
  <2>1. PICK n \in 0 .. MaxArgs : s = <<Put("num", n)>> \o Times(Call("alloca"), n)
    BY <1>1 DEF write, write_fn_decl_args
  <2>2. read(f) = <<Get("num"), Then("args")>>
    BY <1>1 DEF read, read_fn_decl_args
  <2>3. "alloca" \in Funs
    BY DEF Funs, Types
  <2>4. n \in Nat
    BY BoundsAssumption
  <2> QED BY <2>1, <2>2, <2>3, <2>4, CallIs, RestIs, Words, ShapedTimes
<1>2. CASE f = "body"
  <2>1. PICK n \in 0 .. MaxBody : s = <<Put("num", n)>> \o Times(Node("stmt"), n)
    BY <1>2 DEF write, write_fn_decl_body
  <2>2. read(f) = <<Get("num"), Then("body")>>
    BY <1>2 DEF read, read_fn_decl_body
  <2>3. n \in Nat
    BY BoundsAssumption
  <2> QED BY <2>1, <2>2, <2>3, NodeIs, RestIs, Words, ShapedTimes
<1>3. CASE f = "unit"
  <2>1. PICK n \in 0 .. MaxFns : s = <<Put("num_fns", n)>> \o Times(Call("fn_decl"), n)
    BY <1>3 DEF write, write_unit
  <2>2. read(f) = <<Get("num_fns"), Then("unit")>>
    BY <1>3 DEF read, read_unit
  <2>3. "fn_decl" \in Funs
    BY DEF Funs
  <2>4. n \in Nat
    BY BoundsAssumption
  <2> QED BY <2>1, <2>2, <2>3, <2>4, CallIs, RestIs, Words, ShapedTimes
<1> QED BY <1>1, <1>2, <1>3

LEMMA ValueShapes ==
  ASSUME NEW f \in {"string", "ret"}, NEW s \in write(f)
  PROVE  Shaped(s, read(f))
<1>1. CASE f = "string"
  <2>1. PICK n \in 0 .. 1 : s = <<Put("len", n)>> \o Bytes(n)
    BY <1>1 DEF write, write_string
  <2>2. read(f) = <<Get("len"), GetBytes>>
    BY <1>1 DEF read, read_string
  <2>3. CASE n = 0
    <3>1. s = <<Put("len", 0)>> \o <<>> /\ <<>> \in Seq(WItems)
      BY <2>1, <2>3 DEF Bytes
    <3>2. Waits(GetBytes, 0, <<>>) /\ GetBytes.op # "switch"
      BY DEF Waits, Fails, GetBytes, Item
    <3>3. \A i \in 1 .. Len(<<>>) : ~IsBytes(<<>>[i])
      OBVIOUS
    <3> QED BY <3>1, <3>2, <3>3, <2>2, Words, ShapedLate
  <2>4. CASE n = 1
    <3>1. s = <<Put("len", 1)>> \o <<Put("bytes", 1)>>
      BY <2>1, <2>4 DEF Bytes
    <3>2. s = <<Put("len", 1), Put("bytes", 1)>>
      BY <3>1, Joined, PutIs, Words
    <3> QED BY <3>2, <2>2, PutIs, Words, ShapedTwo
  <2> QED BY <2>3, <2>4
<1>2. CASE f = "ret"
  <2>1. read(f) = <<Get("is_void"), Then("ret")>>
    BY <1>2 DEF read, read_ret
  <2>2. s = <<Put("is_void", 1)>> \/ s = <<Put("is_void", 0), Node("ret")>>
    BY <1>2 DEF write, write_ret
  <2>3. CASE s = <<Put("is_void", 1)>>
    <3>1. s = <<Put("is_void", 1)>> \o <<>> /\ <<>> \in Seq(WItems)
      BY <2>3
    <3>2. Opens(Then("ret"), 1) = Mirror(<<>>)
      BY RestIs, ThenIs, MirrorNone DEF Opens
    <3>3. Waits(Then("ret"), 1, <<>>) /\ Then("ret").op # "switch"
      BY <3>2, ThenIs, RestIs DEF Waits
    <3>4. \A i \in 1 .. Len(<<>>) : ~IsBytes(<<>>[i])
      OBVIOUS
    <3> QED BY <3>1, <3>3, <3>4, <2>1, Words, ShapedLate
  <2>4. CASE s = <<Put("is_void", 0), Node("ret")>>
    <3>1. s = <<Put("is_void", 0)>> \o <<Node("ret")>>
      BY <2>4
    <3>2. Node("ret") \in WItems /\ mirror(Node("ret")) = Node("ret") /\ ~IsBytes(Node("ret"))
      BY NodeIs, Words
    <3>3. PICK q : q = <<Node("ret")>>
      OBVIOUS
    <3>4. q \in Seq(WItems) /\ (\A i \in 1 .. Len(q) : ~IsBytes(q[i])) /\ Mirror(q) = <<Node("ret")>>
      BY <3>2, <3>3, MirrorOne
    <3>5. Opens(Then("ret"), 0) = Mirror(q)
      BY RestIs, ThenIs, <3>4 DEF Opens
    <3>6. Waits(Then("ret"), 0, q) /\ Then("ret").op # "switch"
      BY <3>5, ThenIs, RestIs DEF Waits
    <3> QED BY <3>1, <3>3, <3>4, <3>6, <2>1, Words, ShapedLate
  <2> QED BY <2>2, <2>3, <2>4
<1> QED BY <1>1, <1>2

LEMMA HeaderShape ==
  ASSUME NEW s \in write("header")
  PROVE  Shaped(s, read("header"))
<1>1. /\ s = <<Put("len", 1), Put("bytes", 1), Put("ret_type", 0), Put("ptr_depth", 0)>>
      /\ read("header") = <<Get("len"), GetBytes, Get("ret_type"), Get("ptr_depth")>>
  BY DEF write, read, write_fn_decl_header, read_fn_decl_header
<1>2. PICK x, y, z, u : x = Put("len", 1) /\ y = Put("bytes", 1) /\ z = Put("ret_type", 0) /\ u = Put("ptr_depth", 0)
  OBVIOUS
<1>3. /\ x \in WItems /\ y \in WItems /\ z \in WItems /\ u \in WItems
      /\ ~IsBytes(x) /\ ~IsBytes(z) /\ ~IsBytes(u)
      /\ mirror(x) = Get("len") /\ mirror(y) = GetBytes /\ mirror(z) = Get("ret_type")
      /\ mirror(u) = Get("ptr_depth")
  BY <1>2, PutIs, Words
<1>4. s = <<x, y, z, u>>
  BY <1>1, <1>2
<1>5. s \in Seq(WItems) /\ read("header") = Mirror(s)
  BY <1>1, <1>3, <1>4, MirrorFour
<1>6. NoOrphan(s)
  BY <1>2, <1>3, <1>4 DEF NoOrphan
<1> QED BY <1>5, <1>6 DEF Shaped

LEMMA JoinedPairs ==
  ASSUME NEW S, NEW x \in S, NEW y \in S, NEW z \in S, NEW u \in S
  PROVE  <<x, y>> \o <<z, u>> = <<x, y, z, u>>
<1>1. PICK a, b, c, d : a = <<x, y>> /\ b = <<z, u>> /\ c = a \o b /\ d = <<x, y, z, u>>
  OBVIOUS
<1>2. /\ a \in Seq(S) /\ b \in Seq(S) /\ Len(a) = 2 /\ Len(b) = 2
      /\ a[1] = x /\ a[2] = y /\ b[1] = z /\ b[2] = u
  BY <1>1
<1>3. c \in Seq(S) /\ Len(c) = 4 /\ c[1] = x /\ c[2] = y /\ c[3] = z /\ c[4] = u
  BY <1>1, <1>2
<1>4. d \in Seq(S) /\ Len(d) = 4 /\ d[1] = x /\ d[2] = y /\ d[3] = z /\ d[4] = u
  BY <1>1
<1>5. \A i \in 1 .. Len(c) : c[i] = d[i]
  BY <1>3, <1>4
<1>6. c = d
  BY <1>3, <1>4, <1>5, SeqEqual
<1> QED BY <1>1, <1>6

LEMMA JoinedThird ==
  ASSUME NEW S, NEW x \in S, NEW y \in S, NEW z \in S, NEW q \in Seq(S)
  PROVE  <<x, y, z>> \o q = <<x, y>> \o (<<z>> \o q)
<1>1. PICK a, b, c : a = <<x, y>> /\ b = <<z>> /\ c = <<x, y, z>>
  OBVIOUS
<1>2. /\ a \in Seq(S) /\ Len(a) = 2 /\ a[1] = x /\ a[2] = y
      /\ b \in Seq(S) /\ Len(b) = 1 /\ b[1] = z
      /\ c \in Seq(S) /\ Len(c) = 3 /\ c[1] = x /\ c[2] = y /\ c[3] = z
  BY <1>1
<1>3. PICK d : d = a \o b
  OBVIOUS
<1>4. d \in Seq(S) /\ Len(d) = 3 /\ d[1] = x /\ d[2] = y /\ d[3] = z
  <2>1. a \in Seq(S) /\ b \in Seq(S)
    BY <1>2
  <2>2. /\ d \in Seq(S) /\ Len(d) = Len(a) + Len(b)
        /\ \A i \in 1 .. Len(d) : d[i] = IF i <= Len(a) THEN a[i] ELSE b[i - Len(a)]
    BY <2>1, <1>3, JoinAt
  <2> QED BY <2>2, <1>2
<1>5. \A i \in 1 .. Len(c) : c[i] = d[i]
  BY <1>2, <1>4
<1>6. c = d
  BY <1>2, <1>4, <1>5, SeqEqual
<1>7. (a \o b) \o q = a \o (b \o q)
  <2>1. a \in Seq(S) /\ b \in Seq(S)
    BY <1>2
  <2> QED BY <2>1, Parts
<1> QED BY <1>1, <1>3, <1>6, <1>7

(* The name of the callee comes before the count of the arguments. *)
LEMMA CallShape ==
  ASSUME NEW s \in write("call")
  PROVE  Shaped(s, read("call"))
<1>1. PICK n \in 0 .. MaxArgs : s = <<Put("len", 1), Put("bytes", 1), Put("args", n)>> \o Times(Node("arg"), n)
  BY DEF write, write_fn_call
<1>2. n \in Nat /\ n \in Values
  BY BoundsAssumption, Words
<1>3. PICK x, y, z, q : x = Put("len", 1) /\ y = Put("bytes", 1) /\ z = Put("args", n) /\ q = Times(Node("arg"), n)
  OBVIOUS
<1>4. /\ x \in WItems /\ y \in WItems /\ z \in WItems /\ ~IsBytes(x) /\ ~IsBytes(z)
      /\ mirror(x) = Get("len") /\ mirror(y) = GetBytes /\ x.op = "put" /\ y.op = "put"
  BY <1>2, <1>3, PutIs, Words
<1>5. /\ Node("arg") \in WItems /\ mirror(Node("arg")) = Node("arg") /\ ~IsBytes(Node("arg"))
  BY NodeIs, Words
<1>6. /\ q \in Seq(WItems) /\ Mirror(q) = Times(Node("arg"), n) /\ Len(q) = n
      /\ \A i \in 1 .. Len(q) : ~IsBytes(q[i])
  <2>1. q \in Seq(WItems) /\ Mirror(q) = Times(Node("arg"), n) /\ Len(q) = n
    BY <1>2, <1>3, <1>5, MirrorTimes
  <2>2. \A i \in 1 .. n : q[i] = Node("arg")
    BY <1>3 DEF Times
  <2> QED BY <2>1, <2>2, <1>5
<1>7. PICK a : a = <<x, y>>
  OBVIOUS
<1>8. /\ a \in Seq(WItems) /\ Len(a) = 2 /\ a[1] = x /\ a[2] = y /\ Mirror(a) = <<Get("len"), GetBytes>>
  BY <1>4, <1>7, MirrorTwo
<1>9. s = a \o (<<Put("args", n)>> \o q)
  <2>1. <<x, y, z>> \o q = <<x, y>> \o (<<z>> \o q)
    BY <1>4, <1>6, JoinedThird
  <2> QED BY <2>1, <1>1, <1>3, <1>7
<1>10. read("call") = Mirror(a) \o <<Get("args"), Then("call")>>
  <2>1. read("call") = <<Get("len"), GetBytes, Get("args"), Then("call")>>
    BY DEF read, read_fn_call
  <2>2. PICK S : S = {Get("len"), GetBytes, Get("args"), Then("call")}
    OBVIOUS
  <2>3. Get("len") \in S /\ GetBytes \in S /\ Get("args") \in S /\ Then("call") \in S
    BY <2>2
  <2>4. <<Get("len"), GetBytes>> \o <<Get("args"), Then("call")>> = <<Get("len"), GetBytes, Get("args"), Then("call")>>
    BY <2>3, JoinedPairs
  <2> QED BY <2>1, <2>4, <1>8
<1>11. Waits(Then("call"), n, q)
  BY <1>6, RestIs, ThenIs DEF Waits, Opens
<1>12. \A i \in 1 .. Len(a) : a[i].op = "put"
  BY <1>4, <1>8
<1>13. Late(s, read("call"), a, "args", n, q, Then("call"))
  BY <1>2, <1>6, <1>8, <1>9, <1>10, <1>11, <1>12, ThenIs, Words DEF Late
<1>14. s \in Seq(WItems) /\ NoOrphan(s)
  <2>1. PICK b : b = <<z>> \o q
    OBVIOUS
  <2>2. /\ b \in Seq(WItems) /\ Len(b) = 1 + n /\ b[1] = z /\ \A i \in 2 .. 1 + n : b[i] = q[i - 1]
    BY <1>2, <1>4, <1>6, <2>1
  <2>3. s = a \o b
    BY <1>3, <1>9, <2>1
  <2>4. /\ s \in Seq(WItems) /\ Len(s) = 2 + Len(b)
        /\ \A i \in 1 .. Len(s) : s[i] = IF i <= 2 THEN a[i] ELSE b[i - 2]
    <3>1. a \in Seq(WItems) /\ b \in Seq(WItems)
      BY <1>8, <2>2
    <3>2. /\ s \in Seq(WItems) /\ Len(s) = Len(a) + Len(b)
          /\ \A i \in 1 .. Len(s) : s[i] = IF i <= Len(a) THEN a[i] ELSE b[i - Len(a)]
      BY <3>1, <2>3, JoinAt
    <3> QED BY <3>2, <1>8
  <2>5. ASSUME NEW i \in 1 .. Len(b) PROVE ~IsBytes(b[i])
    <3>1. CASE i = 1
      BY <3>1, <2>2, <1>4
    <3>2. CASE i # 1
      <4>1. i \in 2 .. 1 + n /\ i - 1 \in 1 .. Len(q)
        BY <3>2, <2>2, <1>2, <1>6
      <4> QED BY <4>1, <2>2, <1>6
    <3> QED BY <3>1, <3>2
  <2>6. ASSUME NEW i \in 1 .. Len(s), IsBytes(s[i]) PROVE i > 1 /\ s[i - 1] = Put("len", 1)
    <3>1. CASE i = 1
      BY <3>1, <2>4, <2>6, <1>8, <1>4
    <3>2. CASE i = 2
      <4>1. s[1] = x
        BY <3>2, <2>4, <1>8
      <4> QED BY <3>2, <4>1, <1>3
    <3>3. CASE i > 2
      <4>1. i - 2 \in 1 .. Len(b) /\ s[i] = b[i - 2]
        BY <3>3, <2>2, <2>4
      <4> QED BY <4>1, <2>5, <2>6
    <3> QED BY <3>1, <3>2, <3>3
  <2> QED BY <2>4, <2>6 DEF NoOrphan
<1> QED BY <1>13, <1>14 DEF Shaped

(* Every function of the writer but one has the reader's as its mirror. *)
LEMMA Shapes ==
  ASSUME NEW f \in Funs, f # "fn_decl", NEW s \in write(f)
  PROVE  Shaped(s, read(f))
<1>1. \/ f \in {"alloca", "array", "imm", "sym", "jump"} \/ f \in {"store", "bin", "cond"}
      \/ f \in {"args", "body", "unit"} \/ f \in {"string", "ret"} \/ f = "header" \/ f = "call"
  BY DEF Funs, Types
<1> QED BY <1>1, LeafShapes, PairShapes, CountShapes, ValueShapes, HeaderShape, CallShape

(* A function is read into the node of the one before. *)
LEMMA FunctionShape ==
  ASSUME NEW s \in write("fn_decl")
  PROVE  /\ s \in Seq(WItems) /\ NoOrphan(s)
         /\ read("fn_decl") = <<Item("new_fn", "", 0)>> \o Mirror(s)
<1>1. /\ s = <<Call("header"), Call("args"), Call("body")>>
      /\ read("fn_decl") = <<Item("new_fn", "", 0), Call("header"), Call("args"), Call("body")>>
  BY DEF write, read, write_fn_decl, read_fn_decl
<1>2. PICK x, y, z, u : x = Call("header") /\ y = Call("args") /\ z = Call("body") /\ u = Item("new_fn", "", 0)
  OBVIOUS
<1>3. /\ x \in WItems /\ y \in WItems /\ z \in WItems /\ ~IsBytes(x) /\ ~IsBytes(y) /\ ~IsBytes(z)
      /\ mirror(x) = x /\ mirror(y) = y /\ mirror(z) = z
  <2>1. "header" \in Funs /\ "args" \in Funs /\ "body" \in Funs
    BY DEF Funs
  <2> QED BY <1>2, <2>1, CallIs
<1>4. s = <<x, y, z>> /\ s \in Seq(WItems) /\ Mirror(s) = <<x, y, z>>
  <2>1. <<x, y, z>> \in Seq(WItems) /\ Mirror(<<x, y, z>>) = <<mirror(x), mirror(y), mirror(z)>>
    BY <1>3, MirrorThree
  <2>2. s = <<x, y, z>>
    BY <1>1, <1>2
  <2> QED BY <2>1, <2>2, <1>3
<1>5. NoOrphan(s)
  BY <1>3, <1>4 DEF NoOrphan
<1>6. <<u>> \o <<x, y, z>> = <<u, x, y, z>>
  <2>1. PICK S : S = {u, x, y, z}
    OBVIOUS
  <2>2. PICK a, b, c, d : a = <<u>> /\ b = <<x, y, z>> /\ c = a \o b /\ d = <<u, x, y, z>>
    OBVIOUS
  <2>3. /\ a \in Seq(S) /\ b \in Seq(S) /\ Len(a) = 1 /\ Len(b) = 3
        /\ a[1] = u /\ b[1] = x /\ b[2] = y /\ b[3] = z
    BY <2>1, <2>2
  <2>4. c \in Seq(S) /\ Len(c) = 4 /\ c[1] = u /\ c[2] = x /\ c[3] = y /\ c[4] = z
    BY <2>2, <2>3
  <2>5. d \in Seq(S) /\ Len(d) = 4 /\ d[1] = u /\ d[2] = x /\ d[3] = y /\ d[4] = z
    BY <2>1, <2>2
  <2>6. \A i \in 1 .. Len(c) : c[i] = d[i]
    BY <2>4, <2>5
  <2>7. c = d
    BY <2>4, <2>5, <2>6, SeqEqual
  <2> QED BY <2>2, <2>7
<1> QED BY <1>1, <1>2, <1>4, <1>5, <1>6

(* A node is written behind its type, which tells the reader what follows. *)
LEMMA NodeShape ==
  ASSUME NEW t \in Types, NEW x, x.op = "switch"
  PROVE  \E q \in Seq(WItems) :
           NoOrphan(q) /\ write_node(t) = <<Put("type", t)>> \o q /\ Waits(x, t, q)
<1>0. t \in Funs /\ t \in Values
  BY Words DEF Funs
<1>1. PICK x0, x1, x2, x3, x4, x5 : /\ x0 = Put("type", t) /\ x1 = Put("instr_idx", 0) /\ x2 = Put("cfg_block_no", 0)
                                /\ x3 = Put("meta", 0) /\ x4 = Put("claimed_reg", 0) /\ x5 = Call(t)
  OBVIOUS
<1>2. /\ x0 \in WItems /\ x1 \in WItems /\ x2 \in WItems /\ x3 \in WItems /\ x4 \in WItems /\ x5 \in WItems
      /\ ~IsBytes(x1) /\ ~IsBytes(x2) /\ ~IsBytes(x3) /\ ~IsBytes(x4) /\ ~IsBytes(x5)
      /\ mirror(x1) = Get("instr_idx") /\ mirror(x2) = Get("cfg_block_no") /\ mirror(x3) = Get("meta")
      /\ mirror(x4) = Get("claimed_reg") /\ mirror(x5) = Call(t)
  BY <1>0, <1>1, PutIs, CallIs, Words
<1>3. PICK q : q = <<x1, x2, x3, x4, x5>>
  OBVIOUS
<1>4. /\ q \in Seq(WItems) /\ Len(q) = 5 /\ q[1] = x1 /\ q[2] = x2 /\ q[3] = x3 /\ q[4] = x4 /\ q[5] = x5
      /\ Mirror(q) = <<mirror(x1), mirror(x2), mirror(x3), mirror(x4), mirror(x5)>>
  <2>1. <<x1, x2, x3, x4, x5>> \in Seq(WItems)
    BY <1>2
  <2> QED BY <1>2, <1>3, <2>1, MirrorFive
<1>5. NoOrphan(q)
  BY <1>2, <1>4 DEF NoOrphan
<1>6. Waits(x, t, q)
  <2>1. PICK y1, y2, y3, y4, y5 : /\ y1 = Get("instr_idx") /\ y2 = Get("cfg_block_no") /\ y3 = Get("meta")
                                  /\ y4 = Get("claimed_reg") /\ y5 = Call(t)
    OBVIOUS
  <2>2. <<y1, y2, y3, y4>> \o <<y5>> = <<y1, y2, y3, y4, y5>>
    <3>1. PICK S, a, b, c, d : /\ S = {y1, y2, y3, y4, y5} /\ a = <<y1, y2, y3, y4>> /\ b = <<y5>>
                               /\ c = a \o b /\ d = <<y1, y2, y3, y4, y5>>
      OBVIOUS
    <3>2. /\ a \in Seq(S) /\ b \in Seq(S) /\ Len(a) = 4 /\ Len(b) = 1
          /\ a[1] = y1 /\ a[2] = y2 /\ a[3] = y3 /\ a[4] = y4 /\ b[1] = y5
      BY <3>1
    <3>3. c \in Seq(S) /\ Len(c) = 5 /\ c[1] = y1 /\ c[2] = y2 /\ c[3] = y3 /\ c[4] = y4 /\ c[5] = y5
      BY <3>1, <3>2
    <3>4. d \in Seq(S) /\ Len(d) = 5 /\ d[1] = y1 /\ d[2] = y2 /\ d[3] = y3 /\ d[4] = y4 /\ d[5] = y5
      BY <3>1
    <3>5. \A i \in 1 .. Len(c) : c[i] = d[i]
      BY <3>3, <3>4
    <3>6. c = d
      BY <3>3, <3>4, <3>5, SeqEqual
    <3> QED BY <3>1, <3>6
  <2>3. read_node(t) = <<y1, y2, y3, y4, y5>>
    BY <2>1, <2>2 DEF read_node, read_node_meta
  <2>4. Mirror(q) = <<y1, y2, y3, y4, y5>>
    BY <2>1, <1>2, <1>4
  <2>5. Opens(x, t) = read_node(t)
    BY DEF Opens
  <2>6. Opens(x, t) = Mirror(q)
    BY <2>3, <2>4, <2>5
  <2> QED BY <2>6 DEF Waits
<1>7. write_node(t) = <<Put("type", t)>> \o q
  <2>1. PICK a, b, c, d, e : /\ a = <<x0, x1, x2, x3, x4>> /\ b = <<x5>> /\ c = a \o b /\ d = <<x0>> /\ e = d \o q
    OBVIOUS
  <2>2. /\ a \in Seq(WItems) /\ b \in Seq(WItems) /\ d \in Seq(WItems) /\ Len(a) = 5 /\ Len(b) = 1 /\ Len(d) = 1
        /\ a[1] = x0 /\ a[2] = x1 /\ a[3] = x2 /\ a[4] = x3 /\ a[5] = x4 /\ b[1] = x5 /\ d[1] = x0
    BY <2>1, <1>2
  <2>3. /\ c \in Seq(WItems) /\ Len(c) = 6 /\ c[1] = x0 /\ c[2] = x1 /\ c[3] = x2 /\ c[4] = x3
        /\ c[5] = x4 /\ c[6] = x5
    BY <2>1, <2>2
  <2>4. /\ e \in Seq(WItems) /\ Len(e) = 6 /\ e[1] = x0 /\ e[2] = x1 /\ e[3] = x2 /\ e[4] = x3
        /\ e[5] = x4 /\ e[6] = x5
    <3>1. d \in Seq(WItems) /\ q \in Seq(WItems)
      BY <2>2, <1>4
    <3>2. /\ e \in Seq(WItems) /\ Len(e) = Len(d) + Len(q)
          /\ \A i \in 1 .. Len(e) : e[i] = IF i <= Len(d) THEN d[i] ELSE q[i - Len(d)]
      BY <3>1, <2>1, JoinAt
    <3> QED BY <3>2, <2>2, <1>4
  <2>5. \A i \in 1 .. Len(c) : c[i] = e[i]
    BY <2>3, <2>4
  <2>6. c = e
    BY <2>3, <2>4, <2>5, SeqEqual
  <2>7. write_node(t) = c
    BY <2>1, <1>1 DEF write_node, write_node_meta
  <2> QED BY <2>1, <2>6, <2>7, <1>1
<1> QED BY <1>4, <1>5, <1>6, <1>7

------------------------------------------------------------------------------
(* The run of the reader grows with the file. *)

LEMMA ItemKinds ==
  ASSUME NEW x \in WItems
  PROVE  /\ x.op \in {"put", "call", "node"}
         /\ x.op = "put" => x = Put(x.arg, x.n) /\ x.arg \in Fieldnames /\ x.n \in Values
         /\ x.op = "call" => x = Call(x.arg) /\ x.arg \in Funs
         /\ x.op = "node" => x = Node(x.arg) /\ x.arg \in Slots
BY DEF WItems, Put, Call, Node, Item

LEMMA TraceGrows ==
  ASSUME NEW T, NEW m, NEW F \in Seq(Fields), NEW y \in Fields, Trace(T, m, F)
  PROVE  Trace(T, m, Append(F, y))
<1>1. PICK G : G = Append(F, y)
  OBVIOUS
<1>2. Len(G) = Len(F) + 1 /\ Len(F) \in Nat /\ \A i \in 1 .. Len(F) : G[i] = F[i]
  BY <1>1
<1>3. ASSUME NEW k \in 1 .. m - 1 PROVE Goes(T[k], G) /\ T[k + 1] = After(T[k], G)
  <2>1. Goes(T[k], F) /\ T[k + 1] = After(T[k], F)
    BY DEF Trace
  <2>2. Reads(Head(T[k].todo)) => T[k].pos + 1 \in 1 .. Len(F) /\ G[T[k].pos + 1] = F[T[k].pos + 1]
    BY <2>1, <1>2 DEF Goes
  <2>3. Goes(T[k], G)
    BY <2>1, <2>2, <1>2 DEF Goes
  <2>4. After(T[k], G) = After(T[k], F)
    BY <2>2 DEF After
  <2> QED BY <2>1, <2>3, <2>4
<1> QED BY <1>1, <1>3 DEF Trace

LEMMA TraceSteps ==
  ASSUME NEW T, NEW m, NEW F, Trace(T, m, F), Goes(T[m], F)
  PROVE  \E U : Trace(U, m + 1, F) /\ U[m + 1] = After(T[m], F)
<1>1. m \in Nat \ {0}
  BY DEF Trace
<1>2. PICK U : U = [k \in 1 .. m + 1 |-> IF k = m + 1 THEN After(T[m], F) ELSE T[k]]
  OBVIOUS
<1>3. U[m + 1] = After(T[m], F) /\ \A k \in 1 .. m : U[k] = T[k]
  BY <1>1, <1>2
<1>4. ASSUME NEW k \in 1 .. (m + 1) - 1 PROVE Goes(U[k], F) /\ U[k + 1] = After(U[k], F)
  <2>1. CASE k = m
    BY <2>1, <1>1, <1>3
  <2>2. CASE k # m
    <3>1. k \in 1 .. m - 1 /\ k + 1 \in 1 .. m /\ k \in 1 .. m
      BY <2>2, <1>1
    <3>2. Goes(T[k], F) /\ T[k + 1] = After(T[k], F)
      BY <3>1 DEF Trace
    <3> QED BY <3>1, <3>2, <1>3
  <2> QED BY <2>1, <2>2
<1>5. U[1] = T[1] /\ m + 1 \in Nat \ {0}
  BY <1>1, <1>3
<1> QED BY <1>3, <1>4, <1>5 DEF Trace

LEMMA OneStep ==
  ASSUME NEW T, NEW m, NEW F, NEW w, NEW h, Trace(T, m, F), Goes(T[m], F),
         Stuck(After(T[m], F)) \/ Abreast(After(T[m], F), w, h, F)
  PROVE  Good(w, h, F)
<1>1. PICK U : Trace(U, m + 1, F) /\ U[m + 1] = After(T[m], F)
  BY TraceSteps
<1> QED BY <1>1 DEF Good

LEMMA TwoSteps ==
  ASSUME NEW T, NEW m, NEW F, NEW w, NEW h, Trace(T, m, F), Goes(T[m], F),
         Goes(After(T[m], F), F),
         Abreast(After(After(T[m], F), F), w, h, F)
  PROVE  Good(w, h, F)
<1>1. PICK U : Trace(U, m + 1, F) /\ U[m + 1] = After(T[m], F)
  BY TraceSteps
<1> QED BY <1>1, OneStep

LEMMA GetIs ==
  /\ GetBytes.op = "bytes" /\ GetBytes.arg = "bytes"
  /\ \A f : Get(f).op = "get" /\ Get(f).arg = f
BY DEF Get, GetBytes, Item

(* The reader takes the field that the writer just appended. *)
LEMMA ReadStep ==
  ASSUME NEW c, NEW F \in Seq(Fields), NEW f \in Fieldnames, NEW v \in Values, NEW S,
         NEW r \in Seq(S), c.todo # <<>>, Head(c.todo) = mirror(Put(f, v)), Tail(c.todo) = r,
         c.pos = Len(F), f = "bytes" => c.val = 1
  PROVE  LET G == Append(F, [field |-> f, v |-> v]) IN
         /\ G \in Seq(Fields) /\ Goes(c, G) /\ After(c, G) = Conf(r, Len(G), v, c.got)
<1>1. PICK y, G : y = [field |-> f, v |-> v] /\ G = Append(F, y)
  OBVIOUS
<1>2. y \in Fields /\ y.field = f /\ y.v = v
  BY <1>1 DEF Fields
<1>3. G \in Seq(Fields) /\ Len(G) = Len(F) + 1 /\ G[Len(F) + 1] = y /\ Len(F) \in Nat
  BY <1>1, <1>2
<1>4. PICK x : x = Head(c.todo)
  OBVIOUS
<1>5. x = IF f = "bytes" THEN GetBytes ELSE Get(f)
  BY <1>4, PutIs
<1>6. Reads(x) /\ x.arg = f /\ (x.op = "get" \/ x.op = "bytes") /\ x.op # "then"
  BY <1>5, GetIs DEF Reads
<1>7. ~Fails(x, c.val)
  <2>1. CASE f = "bytes"
    BY <2>1, <1>5, <1>6, GetIs, ThenIs DEF Fails
  <2>2. CASE f # "bytes"
    BY <2>2, <1>5, <1>6, GetIs, ThenIs DEF Fails
  <2> QED BY <2>1, <2>2
<1>8. Goes(c, G)
  BY <1>2, <1>3, <1>4, <1>6, <1>7 DEF Goes
<1>9. After(c, G) = Conf(r, Len(G), v, c.got)
  <2>1. Unfold(x, c.val) = <<>>
    BY <1>6 DEF Unfold
  <2>2. <<>> \o r = r
    OBVIOUS
  <2>3. x.op # "new_fn" /\ x.op # "switch"
    BY <1>6
  <2> QED BY <1>2, <1>3, <1>4, <1>6, <2>1, <2>2, <2>3 DEF After
<1> QED BY <1>1, <1>3, <1>8, <1>9

(* The item of the reader that waited opens, and is what the writer does. *)
LEMMA OpenStep ==
  ASSUME NEW c, NEW F, NEW x, NEW v \in Values, NEW q \in Seq(WItems), NEW S, NEW t \in Seq(S),
         c.todo # <<>>, Head(c.todo) = x, Tail(c.todo) = t, c.pos \in Nat, c.val = v,
         Waits(x, v, q), ~Fails(x, v)
  PROVE  /\ Goes(c, F)
         /\ After(c, F) = Conf(Mirror(q) \o t, c.pos, v,
                               IF x.op = "switch" THEN Append(c.got, <<x.arg, v>>) ELSE c.got)
<1>1. x.op \in {"switch", "then"} /\ Opens(x, v) = Mirror(q) /\ (x.op = "then" => x.arg \in Later)
  BY DEF Waits
<1>2. ~Reads(x) /\ x.op # "new_fn" /\ Unfold(x, v) = Opens(x, v)
  BY <1>1 DEF Reads, Unfold
<1> QED BY <1>1, <1>2 DEF Goes, After

(* The writer's field, the rest of its work and the lengths it has left. *)
LEMMA LengthsTail ==
  ASSUME NEW w \in Seq(WItems), w # <<>>, NEW v, Lengths(w, v)
  PROVE  /\ Head(w).op = "put" => Lengths(Tail(w), Head(w).n)
         /\ Head(w).op # "put" => NoOrphan(Tail(w))
         /\ IsBytes(Head(w)) => v = 1
<1>1. PICK t : t = Tail(w)
  OBVIOUS
<1>2. /\ Len(t) = Len(w) - 1 /\ Len(w) \in Nat /\ Len(w) > 0 /\ \A i \in 1 .. Len(t) : t[i] = w[i + 1]
  BY <1>1
<1>3. w[1] = Head(w)
  OBVIOUS
<1>4. ASSUME NEW i \in 1 .. Len(t), IsBytes(t[i])
      PROVE  IF i = 1 THEN w[1] = Put("len", 1) ELSE t[i - 1] = Put("len", 1)
  <2>1. i + 1 \in 1 .. Len(w) /\ i + 1 # 1 /\ (i + 1) - 1 = i /\ IsBytes(w[i + 1])
    BY <1>2, <1>4
  <2>2. w[i] = Put("len", 1)
    BY <2>1 DEF Lengths
  <2>3. CASE i = 1
    BY <2>2, <2>3
  <2>4. CASE i # 1
    BY <2>2, <2>4, <1>2
  <2> QED BY <2>3, <2>4
<1>5. Put("len", 1).op = "put" /\ Put("len", 1).n = 1
  BY PutIs, Words
<1>6. Head(w).op = "put" => Lengths(t, Head(w).n)
  BY <1>3, <1>4, <1>5 DEF Lengths
<1>7. Head(w).op # "put" => NoOrphan(t)
  BY <1>3, <1>4, <1>5 DEF NoOrphan
<1>8. IsBytes(Head(w)) => v = 1
  BY <1>2, <1>3 DEF Lengths
<1> QED BY <1>1, <1>6, <1>7, <1>8

LEMMA NoOrphanJoin ==
  ASSUME NEW a \in Seq(WItems), NEW b \in Seq(WItems), NoOrphan(a), NoOrphan(b)
  PROVE  NoOrphan(a \o b) /\ \A v : Lengths(a \o b, v)
<1>1. PICK s : s = a \o b
  OBVIOUS
<1>2. /\ s \in Seq(WItems) /\ Len(s) = Len(a) + Len(b)
      /\ \A i \in 1 .. Len(s) : s[i] = IF i <= Len(a) THEN a[i] ELSE b[i - Len(a)]
  BY <1>1, JoinAt
<1>3. Len(a) \in Nat /\ Len(b) \in Nat
  OBVIOUS
<1>4. ASSUME NEW i \in 1 .. Len(s), IsBytes(s[i]) PROVE i > 1 /\ s[i - 1] = Put("len", 1)
  <2>1. CASE i <= Len(a)
    <3>1. i \in 1 .. Len(a) /\ IsBytes(a[i])
      BY <2>1, <1>2, <1>3, <1>4
    <3>2. i > 1 /\ a[i - 1] = Put("len", 1)
      BY <3>1 DEF NoOrphan
    <3>3. i - 1 \in 1 .. Len(s) /\ i - 1 <= Len(a)
      BY <3>1, <3>2, <1>2, <1>3
    <3> QED BY <3>2, <3>3, <1>2
  <2>2. CASE ~(i <= Len(a))
    <3>1. PICK j : j = i - Len(a)
      OBVIOUS
    <3>2. j \in 1 .. Len(b) /\ IsBytes(b[j])
      BY <2>2, <3>1, <1>2, <1>3, <1>4
    <3>3. j > 1 /\ b[j - 1] = Put("len", 1)
      BY <3>2 DEF NoOrphan
    <3>4. i - 1 \in 1 .. Len(s) /\ ~(i - 1 <= Len(a)) /\ (i - 1) - Len(a) = j - 1
      BY <3>1, <3>2, <3>3, <1>2, <1>3
    <3>5. s[i - 1] = b[(i - 1) - Len(a)]
      BY <3>4, <1>2
    <3>6. i > 1
      BY <3>4
    <3> QED BY <3>3, <3>4, <3>5, <3>6
  <2> QED BY <2>1, <2>2
<1> QED BY <1>1, <1>4 DEF NoOrphan, Lengths

LEMMA HeadJoin ==
  ASSUME NEW S, NEW a \in Seq(S), NEW b \in Seq(S), a # <<>>
  PROVE  Head(a \o b) = Head(a) /\ Tail(a \o b) = Tail(a) \o b
BY Parts

LEMMA JoinJoin ==
  ASSUME NEW S, NEW a \in Seq(S), NEW b \in Seq(S), NEW c \in Seq(S)
  PROVE  (a \o b) \o c = a \o (b \o c)
BY Parts

LEMMA SeqWider ==
  ASSUME NEW S, NEW U, S \subseteq U, NEW s \in Seq(S)
  PROVE  s \in Seq(U)
OBVIOUS

(* The reader's work from an item that waits. *)
Waiting(g, x, t, S, R, M) ==
  /\ R \in Seq(S) /\ M \in Seq(S) /\ {mirror(y) : y \in WItems} \subseteq S
  /\ R = <<g, x>> \o Mirror(t) /\ R # <<>> /\ Head(R) = g /\ Tail(R) = <<x>> \o M /\ M = Mirror(t)
  /\ <<x>> \o M \in Seq(S) /\ <<x>> \o M # <<>> /\ Head(<<x>> \o M) = x /\ Tail(<<x>> \o M) = M

LEMMA ReaderParts ==
  ASSUME NEW t \in Seq(WItems), NEW g, NEW x
  PROVE  \E S, R, M : Waiting(g, x, t, S, R, M)
<1>1. PICK S, M, b, R, N : /\ S = {mirror(y) : y \in WItems} \union {g, x} /\ M = Mirror(t)
                           /\ b = <<g, x>> /\ R = b \o M /\ N = <<x>> \o M
  OBVIOUS
<1>2. M \in Seq(S) /\ Len(M) \in Nat
  <2>1. M \in Seq({mirror(y) : y \in WItems})
    BY <1>1, MirrorIs
  <2>2. {mirror(y) : y \in WItems} \subseteq S
    BY <1>1
  <2>3. M \in Seq(S)
    BY <2>1, <2>2, SeqWider
  <2> QED BY <2>3
<1>3. b \in Seq(S) /\ Len(b) = 2 /\ b[1] = g /\ b[2] = x /\ g \in S /\ x \in S
  BY <1>1
<1>4. /\ R \in Seq(S) /\ Len(R) = 2 + Len(M) /\ R[1] = g /\ R[2] = x
      /\ \A i \in 3 .. Len(R) : R[i] = M[i - 2]
  BY <1>1, <1>2, <1>3
<1>5. /\ N \in Seq(S) /\ Len(N) = 1 + Len(M) /\ N[1] = x /\ \A i \in 2 .. Len(N) : N[i] = M[i - 1]
  <2>1. PICK e : e = <<x>>
    OBVIOUS
  <2>2. e \in Seq(S) /\ Len(e) = 1 /\ e[1] = x
    BY <1>3, <2>1
  <2>3. /\ N \in Seq(S) /\ Len(N) = Len(e) + Len(M)
        /\ \A i \in 1 .. Len(N) : N[i] = IF i <= Len(e) THEN e[i] ELSE M[i - Len(e)]
    BY <1>1, <1>2, <2>1, <2>2, JoinAt
  <2> QED BY <2>2, <2>3, <1>2
<1>6. Head(R) = g /\ R # <<>> /\ Head(N) = x /\ N # <<>>
  BY <1>2, <1>4, <1>5
<1>7. Tail(R) = N
  <2>1. Tail(R) \in Seq(S) /\ Len(Tail(R)) = 1 + Len(M) /\ \A i \in 1 .. Len(N) : Tail(R)[i] = R[i + 1]
    BY <1>2, <1>4, <1>5
  <2>2. ASSUME NEW i \in 1 .. Len(N) PROVE R[i + 1] = N[i]
    <3>1. CASE i = 1
      BY <3>1, <1>4, <1>5
    <3>2. CASE i # 1
      <4>1. i + 1 \in 3 .. Len(R) /\ i \in 2 .. Len(N) /\ (i + 1) - 2 = i - 1
        BY <3>2, <1>2, <1>4, <1>5
      <4> QED BY <4>1, <1>4, <1>5
    <3> QED BY <3>1, <3>2
  <2>3. \A i \in 1 .. Len(Tail(R)) : Tail(R)[i] = N[i]
    BY <2>1, <2>2, <1>5
  <2> QED BY <2>1, <2>3, <1>5, SeqEqual
<1>8. Tail(N) = M
  <2>1. PICK e : e = Tail(N)
    OBVIOUS
  <2>2. e \in Seq(S) /\ Len(e) = Len(M) /\ \A i \in 1 .. Len(M) : e[i] = N[i + 1]
    BY <1>2, <1>5, <2>1
  <2>3. \A i \in 1 .. Len(M) : N[i + 1] = M[i]
    <3>1. TAKE i \in 1 .. Len(M)
    <3>2. i + 1 \in 2 .. Len(N) /\ (i + 1) - 1 = i
      BY <1>2, <1>5
    <3> QED BY <3>2, <1>5
  <2>4. \A i \in 1 .. Len(e) : e[i] = M[i]
    BY <2>2, <2>3
  <2>5. e = M
    BY <2>2, <2>4, <1>2, SeqEqual
  <2> QED BY <2>1, <2>5
<1> QED BY <1>1, <1>2, <1>4, <1>5, <1>6, <1>7, <1>8 DEF Waiting

(* The writer appends a field: the reader takes it, and what waited for    *)
(* its value opens.                                                        *)
LEMMA WriteStep ==
  ASSUME NEW w \in Seq(WItems), w # <<>>, Head(w).op = "put", NEW F \in Seq(Fields), NEW h, Good(w, h, F)
  PROVE  Good(Tail(w), h, Append(F, [field |-> Head(w).arg, v |-> Head(w).n]))
<1>1. PICK f, v : f = Head(w).arg /\ v = Head(w).n
  OBVIOUS
<1>2. Head(w) \in WItems /\ Head(w) = Put(f, v) /\ f \in Fieldnames /\ v \in Values
  BY <1>1, MirrorTail, ItemKinds
<1>3. PICK y, G : y = [field |-> f, v |-> v] /\ G = Append(F, y)
  OBVIOUS
<1>4. y \in Fields /\ Len(G) \in Nat /\ G \in Seq(Fields)
  BY <1>2, <1>3 DEF Fields
<1>5. PICK T, m : Trace(T, m, F) /\ (Stuck(T[m]) \/ Abreast(T[m], w, h, F))
  BY DEF Good
<1>6. Trace(T, m, G)
  BY <1>3, <1>4, <1>5, TraceGrows
<1>7. CASE Stuck(T[m])
  BY <1>1, <1>3, <1>6, <1>7 DEF Good
<1>8. CASE Abreast(T[m], w, h, F)
  <2>1. PICK c : c = T[m]
    OBVIOUS
  <2>2. c.pos = Len(F) /\ Lengths(w, c.val) /\ Follows(w, c.todo, c.got, h)
    BY <1>8, <2>1 DEF Abreast
  <2>3. Lengths(Tail(w), v) /\ (f = "bytes" => c.val = 1)
    <3>1. IsBytes(Head(w)) <=> f = "bytes"
      BY <1>2, PutIs
    <3> QED BY <1>1, <2>2, <3>1, LengthsTail
  <2>4. CASE Aligned(w, c.todo, c.got, h)
    <3>1. PICK r : r = Mirror(Tail(w))
      OBVIOUS
    <3>2. /\ c.todo = Mirror(w) /\ c.got = h /\ c.todo # <<>> /\ Head(c.todo) = mirror(Put(f, v))
          /\ Tail(c.todo) = r /\ Tail(w) \in Seq(WItems)
      BY <2>4, <3>1, <1>2, MirrorTail DEF Aligned
    <3>3. r \in Seq({mirror(z) : z \in WItems})
      BY <3>1, <3>2, MirrorIs
    <3>4. Goes(c, G) /\ After(c, G) = Conf(r, Len(G), v, c.got)
      BY <1>2, <1>3, <2>2, <2>3, <3>2, <3>3, ReadStep
    <3>5. Abreast(After(c, G), Tail(w), h, G)
      BY <2>3, <3>1, <3>2, <3>4 DEF Abreast, Conf, Follows, Aligned
    <3> QED BY <1>1, <1>3, <1>6, <2>1, <3>4, <3>5, OneStep
  <2>5. ASSUME NEW a, NEW f0, NEW v0, NEW q, NEW t, NEW x,
               Pending(w, c.todo, c.got, h, a, f0, v0, q, t, x)
        PROVE  Good(Tail(w), h, G)
    <3>1. /\ a \in Seq(WItems) /\ q \in Seq(WItems) /\ t \in Seq(WItems)
          /\ f0 \in Fieldnames \ {"bytes"} /\ f0 \in Fieldnames /\ v0 \in Values
          /\ \A i \in 1 .. Len(a) : a[i].op = "put"
          /\ w = a \o (<<Put(f0, v0)>> \o (q \o t))
          /\ c.todo = Mirror(a) \o (<<Get(f0), x>> \o Mirror(t))
          /\ Waits(x, v0, q)
          /\ h = IF x.op = "switch" THEN Append(c.got, <<x.arg, v0>>) ELSE c.got
      BY <2>5 DEF Pending
    <3>2. PICK S, R, M : Waiting(Get(f0), x, t, S, R, M)
      BY <3>1, ReaderParts
    <3>3a. /\ R \in Seq(S) /\ M \in Seq(S) /\ {mirror(z) : z \in WItems} \subseteq S
           /\ R = <<Get(f0), x>> \o Mirror(t) /\ R # <<>> /\ Head(R) = Get(f0) /\ Tail(R) = <<x>> \o M
           /\ M = Mirror(t) /\ <<x>> \o M \in Seq(S) /\ <<x>> \o M # <<>>
           /\ Head(<<x>> \o M) = x /\ Tail(<<x>> \o M) = M
      BY <3>2 DEF Waiting
    <3>3. Put(f0, v0) \in WItems /\ Put(f0, v0).arg = f0 /\ Put(f0, v0).n = v0 /\ mirror(Put(f0, v0)) = Get(f0)
      BY <3>1, PutIs
    <3>4. PICK W, u : u = q \o t /\ W = <<Put(f0, v0)>> \o u
      OBVIOUS
    <3>5. u \in Seq(WItems) /\ W \in Seq(WItems) /\ W # <<>> /\ Head(W) = Put(f0, v0) /\ Tail(W) = u
      <4>1. u \in Seq(WItems)
        BY <3>1, <3>4
      <4>2. PICK e : e = <<Put(f0, v0)>>
        OBVIOUS
      <4>3. e \in Seq(WItems) /\ e # <<>> /\ Head(e) = Put(f0, v0) /\ Tail(e) = <<>>
        BY <3>3, <4>2
      <4>4. <<>> \o u = u
        BY <4>1
      <4> QED BY <4>1, <4>2, <4>3, <4>4, <3>4, Parts
    <3>6. w = a \o W /\ c.todo = Mirror(a) \o R
      BY <3>1, <3>3a, <3>4
    <3>7. CASE a # <<>>
      <4>1. PICK b : b = Tail(a)
        OBVIOUS
      <4>2. /\ b \in Seq(WItems) /\ Mirror(a) # <<>> /\ Head(Mirror(a)) = mirror(Head(a))
            /\ Tail(Mirror(a)) = Mirror(b)
        BY <3>1, <3>7, <4>1, MirrorTail
      <4>3. Mirror(a) \in Seq(S) /\ Mirror(b) \in Seq(S)
        <5>1. Mirror(a) \in Seq({mirror(k) : k \in WItems}) /\ Mirror(b) \in Seq({mirror(k) : k \in WItems})
          BY <3>1, <4>2, MirrorIs
        <5>2. {mirror(k) : k \in WItems} \subseteq S
          BY <3>3a
        <5> QED BY <5>1, <5>2, SeqWider
      <4>4. Head(w) = Head(a) /\ Tail(w) = b \o W
        <5>1. Head(a \o W) = Head(a) /\ Tail(a \o W) = Tail(a) \o W
          <6>1. a \in Seq(WItems) /\ W \in Seq(WItems)
            BY <3>1, <3>5
          <6> QED BY <6>1, <3>7, HeadJoin
        <5> QED BY <5>1, <3>6, <4>1
      <4>5. /\ c.todo # <<>> /\ Head(c.todo) = mirror(Put(f, v)) /\ Tail(c.todo) = Mirror(b) \o R
            /\ Mirror(b) \o R \in Seq(S)
        <5>1. PICK k, l : k = Mirror(a) /\ l = Mirror(b)
          OBVIOUS
        <5>2. k \in Seq(S) /\ l \in Seq(S) /\ R \in Seq(S) /\ k # <<>>
          BY <3>3a, <4>2, <4>3, <5>1
        <5>3. Head(k \o R) = Head(k) /\ Tail(k \o R) = Tail(k) \o R /\ k \o R # <<>>
          BY <5>2, Parts
        <5>4. l \o R \in Seq(S)
          BY <5>2, Parts
        <5>5. Head(k) = mirror(Put(f, v))
          BY <4>2, <4>4, <1>2, <5>1
        <5>6. Tail(k) = l /\ c.todo = k \o R
          BY <4>2, <3>6, <5>1
        <5> QED BY <5>1, <5>3, <5>4, <5>5, <5>6
      <4>6. Goes(c, G) /\ After(c, G) = Conf(Mirror(b) \o R, Len(G), v, c.got)
        BY <1>2, <1>3, <2>2, <2>3, <4>5, ReadStep
      <4>7. Pending(Tail(w), Mirror(b) \o R, c.got, h, b, f0, v0, q, t, x)
        <5>1. \A i \in 1 .. Len(b) : b[i].op = "put"
          <6>1. \A i \in 1 .. Len(b) : i + 1 \in 1 .. Len(a) /\ b[i] = a[i + 1]
            BY <3>1, <3>7, <4>1
          <6> QED BY <3>1, <6>1
        <5>2. Tail(w) = b \o (<<Put(f0, v0)>> \o (q \o t)) /\ Mirror(b) \o R = Mirror(b) \o (<<Get(f0), x>> \o Mirror(t))
          BY <3>3a, <3>4, <4>4
        <5> QED BY <3>1, <4>2, <5>1, <5>2 DEF Pending
      <4>8. Abreast(After(c, G), Tail(w), h, G)
        BY <2>3, <4>6, <4>7 DEF Abreast, Conf, Follows
      <4> QED BY <1>6, <2>1, <4>6, <4>8, OneStep
    <3>8. CASE a = <<>>
      <4>1. w = W /\ c.todo = R
        <5>1. Mirror(a) = <<>> /\ <<>> \o R = R /\ <<>> \o W = W
          BY <3>3a, <3>5, <3>8, MirrorNone
        <5> QED BY <5>1, <3>6, <3>8
      <4>2. f = f0 /\ v = v0
        BY <4>1, <3>3, <3>5, <1>1
      <4>3. PICK N : N = <<x>> \o M
        OBVIOUS
      <4>4. /\ c.todo # <<>> /\ Head(c.todo) = mirror(Put(f, v)) /\ Tail(c.todo) = N /\ N \in Seq(S)
            /\ N # <<>> /\ Head(N) = x /\ Tail(N) = M
        BY <4>1, <4>2, <4>3, <3>3a, <3>3
      <4>5. Goes(c, G) /\ After(c, G) = Conf(N, Len(G), v, c.got)
        BY <1>2, <1>3, <2>2, <2>3, <4>4, ReadStep
      <4>6. PICK d : d = After(c, G)
        OBVIOUS
      <4>7. d.todo = N /\ d.pos = Len(G) /\ d.val = v /\ d.got = c.got
        BY <4>5, <4>6 DEF Conf
      <4>8. CASE Fails(x, v)
        <5>1. Stuck(d)
          BY <4>4, <4>7, <4>8 DEF Stuck
        <5> QED BY <1>6, <2>1, <4>5, <4>6, <5>1, OneStep
      <4>9. CASE ~Fails(x, v)
        <5>1. /\ Goes(d, G)
              /\ After(d, G) = Conf(Mirror(q) \o M, Len(G), v, IF x.op = "switch" THEN Append(c.got, <<x.arg, v>>) ELSE c.got)
          <6>1. d.todo # <<>> /\ Head(d.todo) = x /\ Tail(d.todo) = M /\ d.pos \in Nat /\ d.val = v
            BY <1>4, <4>4, <4>7
          <6>2. Waits(x, v, q) /\ v \in Values /\ q \in Seq(WItems) /\ M \in Seq(S)
            BY <1>2, <3>1, <3>3a, <4>2
          <6>3. /\ Goes(d, G)
                /\ After(d, G) = Conf(Mirror(q) \o M, d.pos, v,
                                     IF x.op = "switch" THEN Append(d.got, <<x.arg, v>>) ELSE d.got)
            BY SMTT(60), <6>1, <6>2, <4>9, OpenStep
          <6> QED BY <6>3, <4>7
        <5>2. After(d, G) = Conf(Mirror(u), Len(G), v, h)
          <6>1. Mirror(u) = Mirror(q) \o M
            BY <3>1, <3>3a, <3>4, MirrorJoin
          <6> QED BY <5>1, <6>1, <3>1, <4>2
        <5>3. Abreast(After(d, G), Tail(w), h, G)
          <6>1. Tail(w) = u
            BY <4>1, <3>5
          <6>2. PICK e : e = After(d, G)
            OBVIOUS
          <6>3. e.todo = Mirror(u) /\ e.pos = Len(G) /\ e.val = v /\ e.got = h
            BY <5>2, <6>2 DEF Conf
          <6>4. Abreast(e, u, h, G)
            BY <2>3, <6>1, <6>3 DEF Abreast, Follows, Aligned
          <6> QED BY <6>1, <6>2, <6>4
        <5> QED BY <1>6, <2>1, <4>5, <4>6, <5>1, <5>3, TwoSteps
      <4> QED BY <4>8, <4>9
    <3> QED BY <3>7, <3>8
  <2> QED BY <1>1, <1>3, <2>2, <2>4, <2>5 DEF Follows
<1> QED BY <1>5, <1>7, <1>8

(* Work that begins with a call or a node has the reader's in step. *)
LEMMA InStep ==
  ASSUME NEW w \in Seq(WItems), w # <<>>, Head(w).op # "put", NEW r, NEW g, NEW h, Follows(w, r, g, h)
  PROVE  r = Mirror(w) /\ g = h
<1>1. ASSUME NEW a, NEW f, NEW v, NEW q, NEW t, NEW x, Pending(w, r, g, h, a, f, v, q, t, x)
      PROVE  FALSE
  <2>1. /\ a \in Seq(WItems) /\ q \in Seq(WItems) /\ t \in Seq(WItems) /\ f \in Fieldnames /\ v \in Values
        /\ \A i \in 1 .. Len(a) : a[i].op = "put"
        /\ w = a \o (<<Put(f, v)>> \o (q \o t))
    BY <1>1 DEF Pending
  <2>2. PICK e, u, W : e = <<Put(f, v)>> /\ u = q \o t /\ W = e \o u
    OBVIOUS
  <2>3. e \in Seq(WItems) /\ e # <<>> /\ Head(e).op = "put" /\ u \in Seq(WItems)
    BY <2>1, <2>2, PutIs
  <2>4. W \in Seq(WItems) /\ Head(W).op = "put"
    BY <2>2, <2>3, HeadJoin
  <2>5. w = a \o W
    BY <2>1, <2>2
  <2>6. CASE a = <<>>
    BY <2>4, <2>5, <2>6
  <2>7. CASE a # <<>>
    <3>1. Head(w) = Head(a)
      BY <2>1, <2>4, <2>5, <2>7, HeadJoin
    <3>2. Head(a) = a[1] /\ 1 \in 1 .. Len(a)
      BY <2>1, <2>7
    <3> QED BY <3>1, <3>2, <2>1
  <2> QED BY <2>6, <2>7
<1> QED BY <1>1 DEF Follows, Aligned

(* A counterpart with the shape of what is written, before more work. *)
LEMMA FollowsShaped ==
  ASSUME NEW s, NEW r, Shaped(s, r), NEW t \in Seq(WItems), NEW g
  PROVE  Follows(s \o t, r \o Mirror(t), g, g)
<1>1. s \in Seq(WItems)
  BY DEF Shaped
<1>2. CASE r = Mirror(s)
  BY <1>1, <1>2, MirrorJoin DEF Follows, Aligned
<1>3. ASSUME NEW a, NEW f, NEW v, NEW q, NEW x, Late(s, r, a, f, v, q, x)
      PROVE  Follows(s \o t, r \o Mirror(t), g, g)
  <2>1. /\ a \in Seq(WItems) /\ q \in Seq(WItems) /\ f \in Fieldnames \ {"bytes"} /\ f \in Fieldnames /\ v \in Values
        /\ \A i \in 1 .. Len(a) : a[i].op = "put"
        /\ s = a \o (<<Put(f, v)>> \o q) /\ r = Mirror(a) \o <<Get(f), x>>
        /\ Waits(x, v, q) /\ x.op # "switch"
    BY <1>3 DEF Late
  <2>2. PICK e : e = <<Put(f, v)>>
    OBVIOUS
  <2>3. e \in Seq(WItems)
    BY <2>1, <2>2, PutIs
  <2>4. s \o t = a \o (e \o (q \o t))
    <3>1. PICK b : b = e \o q
      OBVIOUS
    <3>2. b \in Seq(WItems) /\ b \o t = e \o (q \o t)
      <4>1. e \in Seq(WItems) /\ q \in Seq(WItems) /\ t \in Seq(WItems)
        BY <2>1, <2>3
      <4>2. e \o q \in Seq(WItems)
        BY <4>1, JoinAt
      <4>3. (e \o q) \o t = e \o (q \o t)
        BY <4>1, JoinJoin
      <4> QED BY <4>2, <4>3, <3>1
    <3>3. (a \o b) \o t = a \o (b \o t)
      <4>1. a \in Seq(WItems) /\ b \in Seq(WItems) /\ t \in Seq(WItems)
        BY <2>1, <3>2
      <4> QED BY <4>1, JoinJoin
    <3> QED BY <2>1, <2>2, <3>1, <3>2, <3>3
  <2>5. r \o Mirror(t) = Mirror(a) \o (<<Get(f), x>> \o Mirror(t))
    <3>1. PICK S, k, l, z : /\ S = {mirror(y) : y \in WItems} \union {Get(f), x}
                            /\ k = Mirror(a) /\ l = Mirror(t) /\ z = <<Get(f), x>>
      OBVIOUS
    <3>2. /\ k \in Seq({mirror(y) : y \in WItems}) /\ l \in Seq({mirror(y) : y \in WItems})
          /\ {mirror(y) : y \in WItems} \subseteq S
      BY <2>1, <3>1, MirrorIs
    <3>3. k \in Seq(S) /\ l \in Seq(S)
      BY <3>2, SeqWider
    <3>4. z \in Seq(S)
      BY <3>1
    <3>5. (k \o z) \o l = k \o (z \o l)
      BY <3>3, <3>4, Parts
    <3> QED BY <2>1, <3>1, <3>5
  <2>6. Pending(s \o t, r \o Mirror(t), g, g, a, f, v, q, t, x)
    BY <2>1, <2>2, <2>4, <2>5 DEF Pending
  <2> QED BY <2>6 DEF Follows
<1> QED BY <1>2, <1>3 DEF Shaped

(* The writer enters a function: so does the reader. *)
LEMMA CallStep ==
  ASSUME NEW w \in Seq(WItems), w # <<>>, Head(w).op = "call", NEW s \in write(Head(w).arg),
         NEW F \in Seq(Fields), NEW h, Good(w, h, F)
  PROVE  /\ s \o Tail(w) \in Seq(WItems)
         /\ Good(s \o Tail(w), IF Head(w).arg = "fn_decl" THEN <<>> ELSE h, F)
<1>1. PICK f, t : f = Head(w).arg /\ t = Tail(w)
  OBVIOUS
<1>2. Head(w) \in WItems /\ f \in Funs /\ Head(w) = Call(f) /\ t \in Seq(WItems)
  BY <1>1, MirrorTail, ItemKinds
<1>3. s \in Seq(WItems) /\ NoOrphan(s)
  BY <1>1, <1>2, Shapes, FunctionShape DEF Shaped
<1>4. s \o t \in Seq(WItems)
  BY <1>2, <1>3
<1>5. PICK T, m : Trace(T, m, F) /\ (Stuck(T[m]) \/ Abreast(T[m], w, h, F))
  BY DEF Good
<1>6. CASE Stuck(T[m])
  BY <1>1, <1>4, <1>5, <1>6 DEF Good
<1>7. CASE Abreast(T[m], w, h, F)
  <2>1. PICK c : c = T[m]
    OBVIOUS
  <2>2. c.pos = Len(F) /\ Lengths(w, c.val) /\ Follows(w, c.todo, c.got, h)
    BY <1>7, <2>1 DEF Abreast
  <2>3. \A v : Lengths(s \o t, v)
    <3>1. NoOrphan(t)
      BY <2>2, <1>1, LengthsTail
    <3> QED BY <3>1, <1>2, <1>3, NoOrphanJoin
  <2>4. PICK M : M = Mirror(t)
    OBVIOUS
  <2>5. c.todo # <<>> /\ Head(c.todo) = Call(f) /\ Tail(c.todo) = M /\ c.got = h
    <3>1. c.todo = Mirror(w) /\ c.got = h
      BY <2>2, InStep
    <3>2. mirror(Call(f)) = Call(f)
      BY <1>2, CallIs
    <3> QED BY <3>1, <3>2, <2>4, <1>1, <1>2, MirrorTail
  <2>6. Call(f).op = "call" /\ Call(f).arg = f
    BY <1>2, CallIs
  <2>7. ~Reads(Call(f)) /\ ~Fails(Call(f), c.val) /\ Unfold(Call(f), c.val) = read(f)
    <3>1. Call(f) # GetBytes /\ Call(f) # Then("body")
      BY <2>6, GetIs, ThenIs
    <3>2. Unfold(Call(f), c.val) = read(Call(f).arg)
      BY <2>6 DEF Unfold
    <3> QED BY <2>6, <3>1, <3>2 DEF Reads, Fails
  <2>8. Goes(c, F) /\ After(c, F) = Conf(read(f) \o M, Len(F), c.val, h)
    <3>1. c.pos \in Nat
      BY <2>2
    <3> QED BY <2>2, <2>5, <2>6, <2>7, <3>1 DEF Goes, After
  <2>9. CASE f # "fn_decl"
    <3>1. Shaped(s, read(f))
      BY <2>9, <1>1, <1>2, Shapes
    <3>2. Follows(s \o t, read(f) \o M, h, h)
      BY <3>1, <1>2, <2>4, FollowsShaped
    <3>3. Abreast(After(c, F), s \o t, h, F)
      BY <2>3, <2>8, <3>2 DEF Abreast, Conf
    <3> QED BY <1>1, <1>4, <1>5, <2>1, <2>8, <2>9, <3>3, OneStep
  <2>10. CASE f = "fn_decl"
    <3>1. PICK x, k : x = Item("new_fn", "", 0) /\ k = Mirror(s)
      OBVIOUS
    <3>2. x.op = "new_fn" /\ x # GetBytes /\ x # Then("body")
      <4>1. x.op = "new_fn"
        BY <3>1 DEF Item
      <4> QED BY <4>1, GetIs, ThenIs
    <3>3. read(f) = <<x>> \o k
      BY <2>10, <1>1, <3>1, FunctionShape
    <3>4. PICK S, e, N : S = {mirror(y) : y \in WItems} \union {x} /\ e = <<x>> /\ N = k \o M
      OBVIOUS
    <3>5. /\ k \in Seq({mirror(y) : y \in WItems}) /\ M \in Seq({mirror(y) : y \in WItems})
          /\ {mirror(y) : y \in WItems} \subseteq S
      BY <1>2, <1>3, <2>4, <3>1, <3>4, MirrorIs
    <3>6. k \in Seq(S) /\ M \in Seq(S)
      BY <3>5, SeqWider
    <3>7. e \in Seq(S) /\ e # <<>> /\ Head(e) = x /\ Tail(e) = <<>>
      BY <3>4
    <3>8. N \in Seq(S) /\ (e \o k) \o M = e \o N
      BY <3>4, <3>6, <3>7, Parts
    <3>9. /\ e \o N # <<>> /\ Head(e \o N) = x /\ Tail(e \o N) = N
      <4>1. <<>> \o N = N
        BY <3>8
      <4>2. Head(e \o N) = Head(e) /\ Tail(e \o N) = Tail(e) \o N
        BY <3>7, <3>8, HeadJoin
      <4>3. e \o N # <<>>
        BY <3>7, <3>8, Parts
      <4> QED BY <4>1, <4>2, <4>3, <3>7
    <3>10. PICK d : d = After(c, F)
      OBVIOUS
    <3>11. d.todo = e \o N /\ d.pos = Len(F) /\ d.val = c.val /\ d.got = h
      <4>1. read(f) \o M = e \o N
        BY <3>3, <3>4, <3>8
      <4>2. d = Conf(e \o N, Len(F), c.val, h)
        BY <2>8, <3>10, <4>1
      <4> QED BY <4>2 DEF Conf
    <3>12. Goes(d, F)
      <4>1. ~Reads(x) /\ ~Fails(x, d.val)
        BY <3>2 DEF Reads, Fails
      <4>2. d.pos \in Nat
        BY <3>11
      <4> QED BY <3>2, <3>9, <3>11, <4>1, <4>2 DEF Goes
    <3>13. After(d, F) = Conf(N, Len(F), c.val, <<>>)
      <4>1. ~Reads(x) /\ Unfold(x, d.val) = <<>>
        BY <3>2 DEF Reads, Unfold
      <4>2. <<>> \o N = N
        BY <3>8
      <4> QED BY <3>2, <3>9, <3>11, <4>1, <4>2 DEF After
    <3>14. Abreast(After(d, F), s \o t, <<>>, F)
      <4>1. N = Mirror(s \o t)
        BY <1>2, <1>3, <2>4, <3>1, <3>4, MirrorJoin
      <4> QED BY <4>1, <2>3, <3>13 DEF Abreast, Conf, Follows, Aligned
    <3>15. Good(s \o t, <<>>, F)
      BY <1>5, <2>1, <2>8, <3>10, <3>12, <3>14, TwoSteps
    <3> QED BY <1>1, <1>4, <2>10, <3>15
  <2> QED BY <2>9, <2>10
<1> QED BY <1>5, <1>6, <1>7

(* The writer enters a node: the reader will read its type. *)
LEMMA NodeStep ==
  ASSUME NEW w \in Seq(WItems), w # <<>>, Head(w).op = "node", NEW ty \in Types,
         NEW F \in Seq(Fields), NEW h, Good(w, h, F)
  PROVE  /\ write_node(ty) \o Tail(w) \in Seq(WItems)
         /\ Good(write_node(ty) \o Tail(w), Append(h, <<Head(w).arg, ty>>), F)
<1>1. PICK f, t, x : f = Head(w).arg /\ t = Tail(w) /\ x = Item("switch", f, 0)
  OBVIOUS
<1>2. Head(w) \in WItems /\ f \in Slots /\ Head(w) = Node(f) /\ t \in Seq(WItems)
  BY <1>1, MirrorTail, ItemKinds
<1>3. x.op = "switch" /\ x.arg = f
  BY <1>1 DEF Item
<1>4. PICK q \in Seq(WItems) : NoOrphan(q) /\ write_node(ty) = <<Put("type", ty)>> \o q /\ Waits(x, ty, q)
  BY <1>3, NodeShape
<1>5. "type" \in Fieldnames \ {"bytes"} /\ "type" \in Fieldnames /\ ty \in Values
  BY Words
<1>6. Put("type", ty) \in WItems /\ ~IsBytes(Put("type", ty))
  BY <1>5, PutIs
<1>7. PICK e, u, W : e = <<Put("type", ty)>> /\ u = q \o t /\ W = e \o u
  OBVIOUS
<1>8. /\ e \in Seq(WItems) /\ Len(e) = 1 /\ e[1] = Put("type", ty) /\ NoOrphan(e)
  BY <1>6, <1>7 DEF NoOrphan
<1>9. u \in Seq(WItems) /\ W \in Seq(WItems) /\ write_node(ty) \o t = W
  <2>1. e \in Seq(WItems) /\ q \in Seq(WItems) /\ t \in Seq(WItems)
    BY <1>2, <1>4, <1>8
  <2>2. (e \o q) \o t = e \o (q \o t)
    BY <2>1, JoinJoin
  <2>3. u \in Seq(WItems)
    BY <2>1, <1>7, JoinAt
  <2>4. W \in Seq(WItems)
    BY <2>1, <2>3, <1>7, JoinAt
  <2> QED BY <2>2, <2>3, <2>4, <1>4, <1>7
<1>10. PICK T, m : Trace(T, m, F) /\ (Stuck(T[m]) \/ Abreast(T[m], w, h, F))
  BY DEF Good
<1>11. CASE Stuck(T[m])
  BY <1>1, <1>9, <1>10, <1>11 DEF Good
<1>12. CASE Abreast(T[m], w, h, F)
  <2>1. PICK c : c = T[m]
    OBVIOUS
  <2>2. c.pos = Len(F) /\ Lengths(w, c.val) /\ Follows(w, c.todo, c.got, h)
    BY <1>12, <2>1 DEF Abreast
  <2>3. \A v : Lengths(W, v)
    <3>1. NoOrphan(t)
      BY <2>2, <1>1, LengthsTail
    <3>2. NoOrphan(u)
      BY <3>1, <1>2, <1>4, <1>7, NoOrphanJoin
    <3> QED BY <3>2, <1>7, <1>8, <1>9, NoOrphanJoin
  <2>4. PICK M : M = Mirror(t)
    OBVIOUS
  <2>5. c.todo # <<>> /\ Head(c.todo) = Node(f) /\ Tail(c.todo) = M /\ c.got = h
    <3>1. c.todo = Mirror(w) /\ c.got = h
      BY <2>2, InStep
    <3>2. mirror(Node(f)) = Node(f)
      BY <1>2, NodeIs
    <3> QED BY <3>1, <3>2, <2>4, <1>1, <1>2, MirrorTail
  <2>6. Node(f).op = "node" /\ Node(f).arg = f
    BY <1>2, NodeIs
  <2>7. /\ ~Reads(Node(f)) /\ ~Fails(Node(f), c.val)
        /\ Unfold(Node(f), c.val) = <<Get("type"), x>>
    <3>1. Node(f) # GetBytes /\ Node(f) # Then("body")
      BY <2>6, GetIs, ThenIs
    <3>2. Unfold(Node(f), c.val) = <<Get("type"), Item("switch", Node(f).arg, 0)>>
      BY <2>6 DEF Unfold
    <3> QED BY <2>6, <3>1, <3>2, <1>1 DEF Reads, Fails
  <2>8. Goes(c, F) /\ After(c, F) = Conf(<<Get("type"), x>> \o M, Len(F), c.val, h)
    <3>1. c.pos \in Nat
      BY <2>2
    <3> QED BY <2>2, <2>5, <2>6, <2>7, <3>1 DEF Goes, After
  <2>9. Pending(W, <<Get("type"), x>> \o M, h, Append(h, <<f, ty>>), <<>>, "type", ty, q, t, x)
    <3>1. PICK S, R, N : Waiting(Get("type"), x, t, S, R, N)
      BY <1>2, ReaderParts
    <3>2. R \in Seq(S) /\ R = <<Get("type"), x>> \o M
      BY <3>1, <2>4 DEF Waiting
    <3>3. <<>> \o R = R /\ <<>> \o W = W /\ Mirror(<<>>) = <<>>
      BY <3>2, <1>9, MirrorNone
    <3>4. <<>> \in Seq(WItems) /\ \A i \in 1 .. Len(<<>>) : <<>>[i].op = "put"
      OBVIOUS
    <3>5. W = <<>> \o (<<Put("type", ty)>> \o (q \o t))
      BY <1>7, <3>3
    <3>6. <<Get("type"), x>> \o M = Mirror(<<>>) \o (<<Get("type"), x>> \o Mirror(t))
      BY <2>4, <3>2, <3>3
    <3> QED BY <1>2, <1>3, <1>4, <1>5, <3>4, <3>5, <3>6 DEF Pending
  <2>10. Abreast(After(c, F), W, Append(h, <<f, ty>>), F)
    <3>1. PICK d : d = After(c, F)
      OBVIOUS
    <3>2. d.todo = <<Get("type"), x>> \o M /\ d.pos = Len(F) /\ d.val = c.val /\ d.got = h
      BY <2>8, <3>1 DEF Conf
    <3>3. Follows(W, d.todo, d.got, Append(h, <<f, ty>>))
      BY <2>9, <3>2 DEF Follows
    <3> QED BY <2>3, <3>1, <3>2, <3>3 DEF Abreast
  <2>11. Good(W, Append(h, <<f, ty>>), F)
    BY <1>10, <2>1, <2>8, <2>10, OneStep
  <2> QED BY <2>11, <1>1, <1>9
<1> QED BY <1>10, <1>11, <1>12

------------------------------------------------------------------------------
(* The writer. *)

LEMMA NodeTypes == \A slot : Accepted(slot) \subseteq Types
BY DEF Accepted, Types

LEMMA InitWrites ==
  ASSUME Init
  PROVE  FileInv
<1>1. PICK c, T : c = Conf(<<Call("unit")>>, 0, 0, <<>>) /\ T = [k \in {1} |-> c]
  OBVIOUS
<1>2. "unit" \in Funs
  BY DEF Funs
<1>3. Call("unit") \in WItems /\ mirror(Call("unit")) = Call("unit") /\ ~IsBytes(Call("unit"))
  BY <1>2, CallIs
<1>4. PICK w : w = <<Call("unit")>>
  OBVIOUS
<1>5. w \in Seq(WItems) /\ Mirror(w) = <<Call("unit")>> /\ Lengths(w, 0)
  BY <1>3, <1>4, MirrorOne DEF Lengths
<1>6. c.todo = w /\ c.pos = 0 /\ c.val = 0 /\ c.got = <<>>
  BY <1>1, <1>4 DEF Conf
<1>7. Trace(T, 1, <<>>) /\ T[1] = c
  BY <1>1 DEF Trace
<1>8. Abreast(c, w, <<>>, <<>>)
  BY <1>4, <1>5, <1>6 DEF Abreast, Follows, Aligned
<1>9. Good(w, <<>>, <<>>)
  BY <1>7, <1>8 DEF Good
<1> QED BY <1>4, <1>5, <1>9 DEF Init, FileInv, WriteInv

LEMMA WriterWrites ==
  ASSUME WriteInv, phase = "write", Write
  PROVE  WriteInv'
<1>1. /\ todo # <<>> /\ Top.op = "put" /\ file' = Append(file, [field |-> Head(todo).arg, v |-> Head(todo).n])
      /\ todo' = <<>> \o Tail(todo) /\ UNCHANGED <<pos, val, wrote, got>> /\ Head(todo).op = "put"
  BY DEF Write, Busy, Top, Do
<1>2. todo \in Seq(WItems) /\ file \in Seq(Fields) /\ Good(todo, wrote, file)
  BY DEF WriteInv
<1>3. Tail(todo) \in Seq(WItems) /\ todo' = Tail(todo)
  BY <1>1, <1>2
<1>4. Good(Tail(todo), wrote, file')
  BY <1>1, <1>2, WriteStep
<1>5. file' \in Seq(Fields)
  <2>1. Head(todo) \in WItems
    BY <1>1, <1>2
  <2>2. [field |-> Head(todo).arg, v |-> Head(todo).n] \in Fields
    BY <1>1, <2>1, ItemKinds DEF Fields
  <2> QED BY <1>1, <1>2, <2>2
<1> QED BY <1>1, <1>3, <1>4, <1>5 DEF WriteInv

LEMMA WriterCalls ==
  ASSUME WriteInv, phase = "write", WriteCall
  PROVE  WriteInv'
<1>1. PICK items \in write(Head(todo).arg) : todo' = items \o Tail(todo)
  BY DEF WriteCall, Top, Do
<1>2. /\ todo # <<>> /\ Head(todo).op = "call" /\ UNCHANGED <<file, pos, val, got>>
      /\ wrote' = IF Head(todo).arg = "fn_decl" THEN <<>> ELSE wrote
  BY DEF WriteCall, Busy, Top
<1>3. todo \in Seq(WItems) /\ file \in Seq(Fields) /\ Good(todo, wrote, file)
  BY DEF WriteInv
<1>4. items \o Tail(todo) \in Seq(WItems) /\ Good(items \o Tail(todo), wrote', file)
  BY <1>1, <1>2, <1>3, CallStep
<1> QED BY <1>1, <1>2, <1>3, <1>4 DEF WriteInv

LEMMA WriterEnters ==
  ASSUME WriteInv, phase = "write", NEW t, WriteNode(t)
  PROVE  WriteInv'
<1>1. /\ todo # <<>> /\ Head(todo).op = "node" /\ UNCHANGED <<file, pos, val, got>> /\ t \in Types
      /\ todo' = write_node(t) \o Tail(todo) /\ wrote' = Append(wrote, <<Head(todo).arg, t>>)
  BY NodeTypes DEF WriteNode, Busy, Top, Do
<1>2. todo \in Seq(WItems) /\ file \in Seq(Fields) /\ Good(todo, wrote, file)
  BY DEF WriteInv
<1>3. write_node(t) \o Tail(todo) \in Seq(WItems) /\ Good(write_node(t) \o Tail(todo), wrote', file)
  BY <1>1, <1>2, NodeStep
<1> QED BY <1>1, <1>2, <1>3 DEF WriteInv

(* With nothing left to write, the run has ended: the reader is done.      *)
LEMMA DoneInStep ==
  ASSUME NEW r, NEW g, NEW h, Follows(<<>>, r, g, h)
  PROVE  r = <<>> /\ g = h
<1>1. ASSUME NEW a, NEW f, NEW v, NEW q, NEW t, NEW x, Pending(<<>>, r, g, h, a, f, v, q, t, x)
      PROVE  FALSE
  <2>1. /\ a \in Seq(WItems) /\ q \in Seq(WItems) /\ t \in Seq(WItems) /\ f \in Fieldnames /\ v \in Values
        /\ <<>> = a \o (<<Put(f, v)>> \o (q \o t))
    BY <1>1 DEF Pending
  <2>2. PICK e, u, W : e = <<Put(f, v)>> /\ u = q \o t /\ W = e \o u
    OBVIOUS
  <2>3. e \in Seq(WItems) /\ Len(e) = 1 /\ u \in Seq(WItems)
    BY <2>1, <2>2, PutIs
  <2>4. W \in Seq(WItems) /\ Len(W) = 1 + Len(u)
    BY <2>2, <2>3, JoinAt
  <2>5. <<>> = a \o W
    BY <2>1, <2>2
  <2>6. a \in Seq(WItems) /\ W \in Seq(WItems)
    BY <2>1, <2>4
  <2>7. Len(a \o W) = Len(a) + Len(W) /\ Len(a) \in Nat /\ Len(u) \in Nat
    BY <2>6, <2>3, JoinAt
  <2>8. Len(a \o W) = 0
    BY <2>5
  <2> QED BY <2>4, <2>7, <2>8
<1> QED BY <1>1, MirrorNone DEF Follows, Aligned

(* The file is opened again, or the part of it that reached the disk. *)
LEMMA Reopened ==
  ASSUME WriteInv, phase = "write", NEW n \in Nat, Reopen(n)
  PROVE  ReadInv'
<1>1. /\ todo = <<>> /\ n <= Len(file) /\ file' = SubSeq(file, 1, n) /\ whole' = (n = Len(file))
      /\ todo' = <<Call("unit")>> /\ phase' = "read" /\ UNCHANGED <<pos, val, wrote, got>>
  BY DEF Reopen
<1>2. file \in Seq(Fields) /\ pos = 0 /\ val = 0 /\ got = <<>> /\ Good(<<>>, wrote, file)
  BY <1>1 DEF WriteInv
<1>3. file' \in Seq(Fields) /\ Len(file') = n /\ \A j \in 1 .. n : file'[j] = file[j]
  BY <1>1, <1>2
<1>4. PICK T, m : Trace(T, m, file) /\ (Stuck(T[m]) \/ Abreast(T[m], <<>>, wrote, file))
  BY <1>2 DEF Good
<1>5. Stuck(T[m]) \/ (T[m].todo = <<>> /\ T[m].pos = Len(file) /\ T[m].got = wrote)
  BY <1>4, DoneInStep DEF Abreast
<1>6. T[1] = Here' /\ 1 \in 1 .. m
  BY <1>1, <1>2, <1>4 DEF Trace, Here
<1>7. pos' \in Nat /\ pos' <= Len(file')
  BY <1>1, <1>2, <1>3
<1>8. whole' = (Len(file') = Len(file)) /\ wrote' = wrote
  BY <1>1, <1>3
<1>9. Len(file') <= Len(file) /\ \A j \in 1 .. Len(file') : file'[j] = file[j]
  BY <1>1, <1>3
<1>10. phase' # "fatal" /\ phase' # "done"
  BY <1>1
<1> QED BY <1>2, <1>3, <1>4, <1>5, <1>6, <1>7, <1>8, <1>9, <1>10 DEF ReadInv

------------------------------------------------------------------------------
(* The reader. *)

ReadsOn == Read \/ ReadCall \/ ReadNode \/ ReadSwitch \/ NewFn

(* What the file determines: a step of the reader is the next one of the   *)
(* run on the whole file.                                                  *)
LEMMA ReadsAlong ==
  ASSUME ReadInv, phase = "read", ReadsOn
  PROVE  ReadInv'
<1>1. todo # <<>> /\ phase' = "read" /\ UNCHANGED <<file, wrote, whole>>
  BY DEF ReadsOn, Read, ReadCall, ReadNode, ReadSwitch, NewFn, Busy
<1>2. ~Fails(Top, val)
  <2>1. CASE Read
    BY <2>1, ThenIs, GetIs DEF Read, Fails
  <2>2. CASE ReadCall
    BY <2>2, ThenIs, GetIs DEF ReadCall, Fails
  <2>3. CASE ReadNode
    BY <2>3, ThenIs, GetIs DEF ReadNode, Fails
  <2>4. CASE ReadSwitch
    BY <2>4, ThenIs, GetIs DEF ReadSwitch, Fails
  <2>5. CASE NewFn
    BY <2>5, ThenIs, GetIs DEF NewFn, Fails
  <2> QED BY <2>1, <2>2, <2>3, <2>4, <2>5 DEF ReadsOn
<1>3. PICK F, T, m, k :
        /\ F \in Seq(Fields) /\ Len(file) <= Len(F) /\ \A j \in 1 .. Len(file) : file[j] = F[j]
        /\ whole = (Len(file) = Len(F))
        /\ Trace(T, m, F) /\ k \in 1 .. m /\ T[k] = Here
        /\ Stuck(T[m]) \/ (T[m].todo = <<>> /\ T[m].pos = Len(F) /\ T[m].got = wrote)
  BY DEF ReadInv
<1>4. Here.todo = todo /\ Here.pos = pos /\ Here.val = val /\ Here.got = got
  BY DEF Here, Conf
<1>5. k # m
  BY <1>1, <1>2, <1>3, <1>4 DEF Stuck, Top
<1>6. m \in Nat /\ k \in 1 .. m - 1 /\ k + 1 \in 1 .. m
  BY <1>3, <1>5 DEF Trace
<1>7. Goes(Here, F) /\ T[k + 1] = After(Here, F)
  BY <1>3, <1>6 DEF Trace
<1>8. pos \in Nat /\ pos <= Len(file) /\ file \in Seq(Fields)
  BY DEF ReadInv
<1>9. Here' = After(Here, F) /\ pos' \in Nat /\ pos' <= Len(file)
  <2>1. CASE Read
    <3>1. Reads(Top) /\ pos' = pos + 1 /\ val' = file[pos + 1].v /\ todo' = <<>> \o Tail(todo) /\ got' = got
      BY <2>1 DEF Read, Do, Reads
    <3>2. pos # Len(file)
      BY <2>1 DEF Read, Missing
    <3>3. pos + 1 \in 1 .. Len(file)
      BY <3>2, <1>8
    <3>4. file[pos + 1] = F[pos + 1]
      BY <3>3, <1>3
    <3>5. Unfold(Top, val) = <<>> /\ Top.op # "new_fn" /\ Top.op # "switch"
      BY <3>1 DEF Unfold, Reads
    <3>6. After(Here, F) = Conf(<<>> \o Tail(todo), pos + 1, file[pos + 1].v, got)
      BY <1>4, <3>1, <3>4, <3>5 DEF After, Top
    <3> QED BY <3>1, <3>3, <3>6 DEF Here
  <2>2. CASE ReadCall
    <3>1. /\ Top.op \in {"call", "then"} /\ UNCHANGED <<pos, val, got>>
          /\ todo' = (IF Top.op = "call" THEN read(Top.arg) ELSE Rest(Top.arg)) \o Tail(todo)
      BY <2>2 DEF ReadCall, Do
    <3>2. ~Reads(Top) /\ Top.op # "new_fn" /\ Top.op # "switch"
      BY <3>1 DEF Reads
    <3>3. Unfold(Top, val) = IF Top.op = "call" THEN read(Top.arg) ELSE Rest(Top.arg)
      <4>1. CASE Top.op = "call"
        BY <4>1 DEF Unfold
      <4>2. CASE Top.op = "then"
        <5>1. Top.arg \in Later
          BY <1>4, <1>7, <4>2 DEF Goes, Top
        <5>2. Rest(Top.arg) = RestAt(Top.arg, val)
          <6>1. CASE Top.arg = "ret"
            BY <6>1 DEF Rest, RestAt, ret_body
          <6>2. CASE Top.arg = "call"
            BY <6>2 DEF Rest, RestAt, call_args
          <6>3. CASE Top.arg = "args"
            BY <6>3 DEF Rest, RestAt, decl_args
          <6>4. CASE Top.arg = "body"
            BY <6>4 DEF Rest, RestAt, decl_body
          <6>5. CASE Top.arg = "unit"
            BY <6>5 DEF Rest, RestAt, unit_fns
          <6> QED BY <5>1, <6>1, <6>2, <6>3, <6>4, <6>5 DEF Later
        <5>3. Unfold(Top, val) = RestAt(Top.arg, val)
          BY <4>2 DEF Unfold, Opens
        <5> QED BY <4>2, <5>2, <5>3
      <4> QED BY <3>1, <4>1, <4>2
    <3>4. After(Here, F) = Conf(Unfold(Top, val) \o Tail(todo), pos, val, got)
      BY <1>4, <3>2 DEF After, Top
    <3> QED BY <3>1, <3>3, <3>4, <1>8 DEF Here
  <2>3. CASE ReadNode
    <3>1. /\ Top.op = "node" /\ UNCHANGED <<pos, val, got>>
          /\ todo' = <<Get("type"), Item("switch", Top.arg, 0)>> \o Tail(todo)
      BY <2>3 DEF ReadNode, Do
    <3>2. ~Reads(Top) /\ Unfold(Top, val) = <<Get("type"), Item("switch", Top.arg, 0)>>
      BY <3>1 DEF Reads, Unfold
    <3>3. After(Here, F) = Conf(Unfold(Top, val) \o Tail(todo), pos, val, got)
      BY <1>4, <3>1, <3>2 DEF After, Top
    <3> QED BY <3>1, <3>2, <3>3, <1>8 DEF Here
  <2>4. CASE ReadSwitch
    <3>1. /\ Top.op = "switch" /\ UNCHANGED <<pos, val>> /\ got' = Append(got, <<Top.arg, val>>)
          /\ todo' = read_node(val) \o Tail(todo)
      BY <2>4 DEF ReadSwitch, Do
    <3>2. ~Reads(Top) /\ Unfold(Top, val) = Opens(Top, val)
      BY <3>1 DEF Reads, Unfold
    <3>3. Opens(Top, val) = read_node(val)
      BY <3>1 DEF Opens
    <3>4. After(Here, F) = Conf(Unfold(Top, val) \o Tail(todo), pos, val, Append(got, <<Top.arg, val>>))
      BY <1>4, <3>1, <3>2 DEF After, Top
    <3> QED BY <3>1, <3>2, <3>3, <3>4, <1>8 DEF Here
  <2>5. CASE NewFn
    <3>1. Top.op = "new_fn" /\ UNCHANGED <<pos, val>> /\ got' = <<>> /\ todo' = <<>> \o Tail(todo)
      BY <2>5 DEF NewFn, Do
    <3>2. ~Reads(Top) /\ Unfold(Top, val) = <<>>
      BY <3>1 DEF Reads, Unfold
    <3>3. After(Here, F) = Conf(Unfold(Top, val) \o Tail(todo), pos, val, <<>>)
      BY <1>4, <3>1, <3>2 DEF After, Top
    <3> QED BY <3>1, <3>2, <3>3, <1>8 DEF Here
  <2> QED BY <2>1, <2>2, <2>3, <2>4, <2>5 DEF ReadsOn
<1>10. T[k + 1] = Here'
  BY <1>7, <1>9
<1>11. pos' \in Nat /\ pos' <= Len(file') /\ file' \in Seq(Fields) /\ phase' # "fatal" /\ phase' # "done"
  BY <1>1, <1>8, <1>9
<1>12. /\ F \in Seq(Fields) /\ Len(file') <= Len(F) /\ \A j \in 1 .. Len(file') : file'[j] = F[j]
       /\ whole' = (Len(file') = Len(F))
       /\ Trace(T, m, F) /\ k + 1 \in 1 .. m /\ T[k + 1] = Here'
       /\ Stuck(T[m]) \/ (T[m].todo = <<>> /\ T[m].pos = Len(F) /\ T[m].got = wrote')
  BY <1>1, <1>3, <1>6, <1>10
<1> QED BY <1>11, <1>12 DEF ReadInv

(* The reader stops: nothing but the phase changes. *)
LEMMA ReaderStops ==
  ASSUME ReadInv, UNCHANGED <<todo, file, pos, val, wrote, whole, got>>,
         phase' = "fatal" => todo # <<>> /\ ((Reads(Top) /\ Missing) \/ (Top.op = "bytes" /\ val = 0)),
         phase' = "done" => todo = <<>>
  PROVE  ReadInv'
<1>1. Here' = Here /\ Top' = Top /\ Missing' = Missing
  BY DEF Here, Top, Missing
<1>2. PICK F, T, m, k :
        /\ F \in Seq(Fields) /\ Len(file) <= Len(F) /\ \A j \in 1 .. Len(file) : file[j] = F[j]
        /\ whole = (Len(file) = Len(F))
        /\ Trace(T, m, F) /\ k \in 1 .. m /\ T[k] = Here
        /\ Stuck(T[m]) \/ (T[m].todo = <<>> /\ T[m].pos = Len(F) /\ T[m].got = wrote)
  BY DEF ReadInv
<1>3. /\ F \in Seq(Fields) /\ Len(file') <= Len(F) /\ \A j \in 1 .. Len(file') : file'[j] = F[j]
      /\ whole' = (Len(file') = Len(F))
      /\ Trace(T, m, F) /\ k \in 1 .. m /\ T[k] = Here'
      /\ Stuck(T[m]) \/ (T[m].todo = <<>> /\ T[m].pos = Len(F) /\ T[m].got = wrote')
  BY <1>1, <1>2
<1>4. pos' \in Nat /\ pos' <= Len(file') /\ file' \in Seq(Fields)
  BY DEF ReadInv
<1> QED BY <1>1, <1>3, <1>4 DEF ReadInv

LEMMA FileInvStep ==
  ASSUME FileInv, [Next]_vars
  PROVE  FileInv'
<1>1. CASE phase = "write"
  <2>1. WriteInv
    BY <1>1 DEF FileInv
  <2>2. CASE Write
    BY <1>1, <2>1, <2>2, WriterWrites DEF FileInv, Write
  <2>3. CASE WriteCall
    BY <1>1, <2>1, <2>3, WriterCalls DEF FileInv, WriteCall
  <2>4. ASSUME NEW t, WriteNode(t) PROVE FileInv'
    BY <1>1, <2>1, <2>4, WriterEnters DEF FileInv, WriteNode
  <2>5. ASSUME NEW n \in 0 .. MaxFields, Reopen(n) PROVE FileInv'
    <3>1. n \in Nat
      BY BoundsAssumption
    <3> QED BY <1>1, <2>1, <2>5, <3>1, Reopened DEF FileInv, Reopen
  <2>6. CASE UNCHANGED vars
    <3>1. UNCHANGED <<phase, todo, file, pos, val, wrote, whole, got>>
      BY <2>6 DEF vars
    <3> QED BY <1>1, <2>1, <3>1 DEF FileInv, WriteInv
  <2>7. ~(Read \/ ReadFails \/ ReadCall \/ EmptyBody \/ ReadNode \/ ReadSwitch \/ NewFn \/ Return)
    BY <1>1 DEF Read, ReadFails, ReadCall, EmptyBody, ReadNode, ReadSwitch, NewFn, Return, Busy
  <2> QED BY <2>2, <2>3, <2>4, <2>5, <2>6, <2>7 DEF Next
<1>2. CASE phase # "write"
  <2>1. ReadInv
    BY <1>2 DEF FileInv
  <2>2. CASE ReadsOn
    <3>1. phase = "read" /\ phase' = "read"
      BY <2>2 DEF ReadsOn, Read, ReadCall, ReadNode, ReadSwitch, NewFn, Busy
    <3> QED BY <2>1, <2>2, <3>1, ReadsAlong DEF FileInv
  <2>3. CASE ReadFails
    <3>1. /\ phase' = "fatal" /\ UNCHANGED <<todo, file, pos, val, wrote, whole, got>>
          /\ todo # <<>> /\ ((Reads(Top) /\ Missing) \/ (Top.op = "bytes" /\ val = 0))
      BY <2>3 DEF ReadFails, Busy, Reads
    <3> QED BY <2>1, <3>1, ReaderStops DEF FileInv
  <2>4. CASE EmptyBody
    <3>1. phase' = "crash" /\ UNCHANGED <<todo, file, pos, val, wrote, whole, got>>
      BY <2>4 DEF EmptyBody
    <3> QED BY <2>1, <3>1, ReaderStops DEF FileInv
  <2>5. CASE Return
    <3>1. phase' = "done" /\ todo = <<>> /\ UNCHANGED <<todo, file, pos, val, wrote, whole, got>>
      BY <2>5 DEF Return
    <3> QED BY <2>1, <3>1, ReaderStops DEF FileInv
  <2>6. CASE UNCHANGED vars
    <3>1. UNCHANGED <<phase, todo, file, pos, val, wrote, whole, got>>
      BY <2>6 DEF vars
    <3>2. ReadInv'
      BY <2>1, <3>1, ReaderStops DEF ReadInv
    <3> QED BY <1>2, <3>1, <3>2 DEF FileInv
  <2>7. ~Write /\ ~WriteCall /\ (\A t : ~WriteNode(t)) /\ (\A n : ~Reopen(n))
    BY <1>2 DEF Write, WriteCall, WriteNode, Reopen, Busy
  <2> QED BY <2>2, <2>3, <2>4, <2>5, <2>6, <2>7 DEF Next, ReadsOn
<1> QED BY <1>1, <1>2

------------------------------------------------------------------------------
(* The theorems. *)

(* All along a file is written, a reader started on what is there so far   *)
(* stays in step with the writer; all along one is read, the reader is on  *)
(* the run that reads the whole of what was written.                       *)
THEOREM FileInvariance == Spec => []FileInv
<1>1. Init => FileInv
  BY InitWrites
<1>2. FileInv /\ [Next]_vars => FileInv'
  BY FileInvStep
<1> QED BY <1>1, <1>2, PTL DEF Spec

(* Where the reader stands, and what this says of the field it reads. *)
LEMMA StandsWhere ==
  ASSUME FileInv
  PROVE  ReadsBack /\ TruncatedRejected
<1>1. CASE phase = "write"
  BY <1>1 DEF ReadsBack, TruncatedRejected
<1>2. CASE phase # "write"
  <2>1. ReadInv
    BY <1>2 DEF FileInv
  <2>2. PICK F, T, m, k :
          /\ F \in Seq(Fields) /\ Len(file) <= Len(F) /\ \A j \in 1 .. Len(file) : file[j] = F[j]
          /\ whole = (Len(file) = Len(F))
          /\ Trace(T, m, F) /\ k \in 1 .. m /\ T[k] = Here
          /\ Stuck(T[m]) \/ (T[m].todo = <<>> /\ T[m].pos = Len(F) /\ T[m].got = wrote)
    BY <2>1 DEF ReadInv
  <2>3. Here.todo = todo /\ Here.pos = pos /\ Here.val = val /\ Here.got = got
    BY DEF Here, Conf
  <2>4. pos \in Nat /\ pos <= Len(file) /\ file \in Seq(Fields) /\ Len(file) \in Nat /\ Len(F) \in Nat
    BY <2>1, <2>2 DEF ReadInv
  <2>5. m \in Nat /\ (k # m => k \in 1 .. m - 1)
    BY <2>2 DEF Trace
  <2>6. k # m => Goes(Here, F)
    BY <2>2, <2>5 DEF Trace
  <2>7. /\ k # m => todo # <<>>
        /\ k # m /\ Reads(Top) => pos < Len(F) /\ F[pos + 1].field = Top.arg
    BY <2>3, <2>6 DEF Goes, Top
  <2>8. k = m => (todo # <<>> /\ Fails(Top, val)) \/ (todo = <<>> /\ pos = Len(F) /\ got = wrote)
    BY <2>2, <2>3 DEF Stuck, Top
  <2>9. Reads(Top) /\ Fails(Top, val) => Top.op = "bytes" /\ val = 0
    BY GetIs, ThenIs DEF Reads, Fails
  <2>10. phase = "done" => got = wrote /\ pos = Len(file) /\ whole
    <3>1. phase = "done" => todo = <<>>
      BY <2>1 DEF ReadInv
    <3>2. todo = <<>> => pos = Len(F) /\ got = wrote
      BY <2>7, <2>8
    <3>3. todo = <<>> => Len(file) = Len(F)
      BY <3>2, <2>2, <2>4
    <3>4. Len(file) = Len(F) => whole
      BY <2>2
    <3> QED BY <3>1, <3>2, <3>3, <3>4
  <2>11. phase = "fatal" /\ whole => Top.op = "bytes" /\ val = 0
    <3>1. phase = "fatal" => todo # <<>> /\ ((Reads(Top) /\ Missing) \/ (Top.op = "bytes" /\ val = 0))
      BY <2>1 DEF ReadInv
    <3>2. whole /\ Missing => pos = Len(F)
      BY <2>2 DEF Missing
    <3>3. whole /\ todo # <<>> /\ Reads(Top) /\ Missing => Top.op = "bytes" /\ val = 0
      BY <3>2, <2>4, <2>7, <2>8, <2>9
    <3> QED BY <3>1, <3>3
  <2>12. phase = "read" /\ todo # <<>> /\ Top.op \in {"get", "bytes"} /\ ~Missing
           /\ ~(Top.op = "bytes" /\ val = 0) => file[pos + 1].field = Top.arg
    <3>1. SUFFICES ASSUME todo # <<>>, Reads(Top), ~Missing, ~(Top.op = "bytes" /\ val = 0)
                   PROVE  file[pos + 1].field = Top.arg
      BY DEF Reads
    <3>2. F[pos + 1].field = Top.arg
      BY <3>1, <2>7, <2>8, <2>9
    <3>3. pos + 1 \in 1 .. Len(file)
      BY <3>1, <2>4 DEF Missing
    <3> QED BY <3>2, <3>3, <2>2
  <2> QED BY <2>10, <2>11, <2>12 DEF ReadsBack, TruncatedRejected
<1> QED BY <1>1, <1>2

(* Reading gives back what was written: every field is read where it was   *)
(* written, and a unit that is read to its end holds the nodes of the last *)
(* function, each in its place.                                            *)
THEOREM ReadingInvertsWriting == Spec => []ReadsBack
<1>1. FileInv => ReadsBack
  BY StandsWhere
<1> QED BY <1>1, FileInvariance, PTL

(* A file that lost its end is never taken for a unit. *)
THEOREM TruncationDetected == Spec => []TruncatedRejected
<1>1. FileInv => TruncatedRejected
  BY StandsWhere
<1> QED BY <1>1, FileInvariance, PTL

====
