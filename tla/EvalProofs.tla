---- MODULE EvalProofs ----
(***************************************************************************)
(* Where the evaluator keeps the variables of the active functions, and    *)
(* that each reads what it last wrote, however deep the calls.             *)
(***************************************************************************)
EXTENDS Eval, SequenceTheorems, TLAPS

Maps    == [0 .. MaxSyms - 1 -> Int]
Entries == [val : Vals \union {Undef}, size : Nat \ {0}, at : Nat]
Frames  == [bp : Nat, map : Maps, env : Seq(Entries), dest : Int]
Args    == [kind : {"imm"}, x : Vals] \union [kind : {"sym"}, x : Nat]

End(e) == e.at + e.size

(* The variables env of one function follow one another from lo to hi. *)
EnvOK(env, lo, hi) ==
  /\ lo <= hi /\ Len(env) <= MaxSyms
  /\ \A k \in DOMAIN env : lo <= env[k].at /\ End(env[k]) <= hi
  /\ \A j, k \in DOMAIN env : j < k => End(env[j]) <= env[k].at

(* The frames F, each above those before it and all below top. *)
Layout(F, top) ==
  /\ F \in Seq(Frames) /\ F # <<>>
  /\ \A f \in DOMAIN F : EnvOK(F[f].env, F[f].bp, top)
  /\ \A f, g \in DOMAIN F : f < g =>
       F[f].bp <= F[g].bp /\ \A k \in DOMAIN F[f].env : End(F[f].env[k]) <= F[g].bp
  /\ \A f, g \in DOMAIN F : g = f + 1 => F[g].dest \in Vars(F[f].env) \union {NoDest}

(* The map of a frame is saved in the next one. *)
MapAt(F, map, f) == IF f < Len(F) THEN F[f + 1].map ELSE map

(* Every frame's map knows where its variables are, *)
Mapped(F, map) ==
  \A f \in DOMAIN F : \A k \in DOMAIN F[f].env : MapAt(F, map, f)[k - 1] = F[f].env[k].at

(* and the bytes there are those of the value last assigned. *)
Holds(mem, e) ==
  e.val # Undef => \A b \in Bytes(e.at, e.size) : b \in DOMAIN mem /\ mem[b] = e.val
Held(F, mem) == \A f \in DOMAIN F : \A k \in DOMAIN F[f].env : Holds(mem, F[f].env[k])

(* The active functions, and the one whose arguments are being pushed.     *)
Rec(c) == [bp |-> c.bp, map |-> c.map, env |-> c.env, dest |-> c.dest]
Active == IF pc = "args" THEN Append(frames, Rec(callee)) ELSE frames

CallInv ==
  /\ callee \in [args : Seq(Args), bp : Nat, map : Maps, env : Seq(Entries), dest : Int]
  /\ Len(callee.env) + Len(callee.args) <= MaxSyms
  /\ \A n \in DOMAIN callee.args : callee.args[n].kind = "sym" => callee.args[n].x \in Usable

LayoutInv ==
  /\ pc \in {"run", "args", "done"} /\ frames \in Seq(Frames) /\ frames # <<>>
  /\ stack_map \in Maps /\ sp \in Nat
  /\ Layout(Active, sp)
  /\ pc = "args" => CallInv

(* Arguments not pushed yet are still found through stack_map. *)
OrderInv ==
  /\ \A x \in Len(callee.env) .. MaxSyms - 1 : stack_map[x] = callee.map[x]
  /\ \A n \in DOMAIN callee.args :
       callee.args[n].kind = "sym" => callee.args[n].x >= Len(callee.env) + n - 1

ValueInv ==
  /\ sp <= MaxSp
  /\ Mapped(Active, stack_map) /\ Held(Active, stack)
  /\ pc = "args" => OrderInv

------------------------------------------------------------------------------
(* Environments. *)

(* A new variable at hi. *)
LEMMA EnvGrow ==
  ASSUME NEW env \in Seq(Entries), NEW lo \in Nat, NEW hi \in Nat, EnvOK(env, lo, hi),
         NEW e \in Entries, e.at = hi, Len(env) < MaxSyms
  PROVE  /\ Append(env, e) \in Seq(Entries) /\ EnvOK(Append(env, e), lo, hi + e.size)
         /\ Len(Append(env, e)) = Len(env) + 1 /\ Append(env, e)[Len(env) + 1] = e
         /\ \A k \in DOMAIN env : Append(env, e)[k] = env[k]
<1> DEFINE G == Append(env, e)
           L == Len(env)
<1>1. /\ G \in Seq(Entries) /\ Len(G) = L + 1 /\ G[L + 1] = e /\ L \in Nat
      /\ DOMAIN G = 1 .. L + 1 /\ DOMAIN env = 1 .. L /\ \A k \in 1 .. L : G[k] = env[k]
  OBVIOUS
<1>2. \A k \in 1 .. L : env[k] \in Entries
  BY <1>1
<1>3. \A k \in 1 .. L : env[k].at \in Nat /\ env[k].size \in Nat
  BY <1>2 DEF Entries
<1>4. e.at \in Nat /\ e.size \in Nat
  BY DEF Entries
<1>5. MaxSyms \in Nat
  BY BoundsAssumption
<1> HIDE DEF G, L
<1>c. \A k \in 1 .. L + 1 : k = L + 1 \/ k \in 1 .. L
  BY <1>1
<1>6. ASSUME NEW k \in 1 .. L + 1 PROVE lo <= G[k].at /\ End(G[k]) <= hi + e.size
  <2>1. CASE k = L + 1
    BY <1>1, <1>4, <2>1 DEF EnvOK, End
  <2>2. CASE k \in 1 .. L
    <3>1. G[k] = env[k] /\ lo <= env[k].at /\ End(env[k]) <= hi
      BY <1>1, <2>2 DEF EnvOK
    <3>2. End(env[k]) \in Nat
      BY <1>3, <2>2 DEF End
    <3>3. End(env[k]) <= hi + e.size
      BY <1>4, <3>1, <3>2
    <3> QED BY <3>1, <3>3
  <2> QED BY <1>c, <2>1, <2>2
<1>7. ASSUME NEW j \in 1 .. L + 1, NEW k \in 1 .. L + 1, j < k PROVE End(G[j]) <= G[k].at
  <2>0. j \in 1 .. L
    BY <1>1, <1>7
  <2>1. CASE k = L + 1
    BY <1>1, <1>3, <2>0, <2>1 DEF EnvOK
  <2>2. CASE k \in 1 .. L
    BY <1>1, <1>7, <2>0, <2>2 DEF EnvOK
  <2> QED BY <1>c, <2>1, <2>2
<1>8. lo <= hi + e.size /\ Len(G) <= MaxSyms
  BY <1>1, <1>4, <1>5 DEF EnvOK, L
<1>9. EnvOK(G, lo, hi + e.size)
  BY <1>1, <1>6, <1>7, <1>8 DEF EnvOK
<1> QED BY <1>1, <1>9 DEF G, L

(* A variable is assigned to. *)
LEMMA EnvSet ==
  ASSUME NEW env \in Seq(Entries), NEW lo \in Nat, NEW hi \in Nat, EnvOK(env, lo, hi),
         NEW n \in DOMAIN env, NEW v \in Vals
  PROVE  LET G == [env EXCEPT ![n].val = v] IN
         /\ G \in Seq(Entries) /\ EnvOK(G, lo, hi) /\ DOMAIN G = DOMAIN env /\ Len(G) = Len(env)
         /\ \A k \in DOMAIN env : /\ G[k].at = env[k].at /\ G[k].size = env[k].size
                                  /\ G[k].val = IF k = n THEN v ELSE env[k].val
<1> DEFINE G == [env EXCEPT ![n].val = v]
<1>1. env[n] \in Entries
  OBVIOUS
<1>2. [env[n] EXCEPT !.val = v] \in Entries
  BY <1>1 DEF Entries
<1>3. G \in Seq(Entries) /\ Len(G) = Len(env) /\ DOMAIN G = DOMAIN env
  BY <1>2
<1>4. G[n] = [env[n] EXCEPT !.val = v] /\ \A k \in DOMAIN env : k # n => G[k] = env[k]
  OBVIOUS
<1> HIDE DEF G
<1>5. G[n].at = env[n].at /\ G[n].size = env[n].size /\ G[n].val = v
  BY <1>1, <1>4 DEF Entries
<1>6. \A k \in DOMAIN env : /\ G[k].at = env[k].at /\ G[k].size = env[k].size
                            /\ G[k].val = IF k = n THEN v ELSE env[k].val
  BY <1>4, <1>5
<1>7. EnvOK(G, lo, hi)
  BY <1>3, <1>6 DEF EnvOK, End
<1> QED BY <1>3, <1>6, <1>7 DEF G

------------------------------------------------------------------------------
(* Frames. *)

(* What the parts of a layout are. *)
LEMMA LayoutTyped ==
  ASSUME NEW F, NEW top \in Nat, Layout(F, top)
  PROVE  /\ Len(F) \in Nat \ {0} /\ DOMAIN F = 1 .. Len(F) /\ Len(F) \in DOMAIN F
         /\ \A f \in DOMAIN F : /\ F[f] \in Frames /\ F[f].bp \in Nat /\ F[f].map \in Maps
                                /\ F[f].env \in Seq(Entries) /\ F[f].dest \in Int
                                /\ DOMAIN F[f].env = 1 .. Len(F[f].env)
         /\ \A f \in DOMAIN F : \A k \in DOMAIN F[f].env :
              /\ F[f].env[k] \in Entries /\ F[f].env[k].at \in Nat /\ F[f].env[k].size \in Nat \ {0}
              /\ F[f].env[k].val \in Vals \union {Undef}
<1>1. F \in Seq(Frames) /\ F # <<>>
  BY DEF Layout
<1>2. Len(F) \in Nat /\ DOMAIN F = 1 .. Len(F) /\ Len(F) # 0
  BY <1>1
<1>3. Len(F) \in 1 .. Len(F)
  BY <1>2
<1>4. ASSUME NEW f \in DOMAIN F
      PROVE  /\ F[f] \in Frames /\ F[f].bp \in Nat /\ F[f].map \in Maps
             /\ F[f].env \in Seq(Entries) /\ F[f].dest \in Int
  <2>1. F[f] \in Frames
    BY <1>1
  <2> QED BY <2>1 DEF Frames
<1>5. ASSUME NEW f \in DOMAIN F, NEW k \in DOMAIN F[f].env
      PROVE  /\ F[f].env[k] \in Entries /\ F[f].env[k].at \in Nat /\ F[f].env[k].size \in Nat \ {0}
             /\ F[f].env[k].val \in Vals \union {Undef}
  <2>1. F[f].env[k] \in Entries
    BY <1>4
  <2> QED BY <2>1 DEF Entries
<1>6. \A f \in DOMAIN F : DOMAIN F[f].env = 1 .. Len(F[f].env)
  BY <1>4
<1> QED BY <1>2, <1>3, <1>4, <1>5, <1>6

(* G is F with another environment in its last frame. *)
SameBut(F, G, env) ==
  /\ G \in Seq(Frames) /\ Len(G) = Len(F)
  /\ \A f \in 1 .. Len(F) - 1 : G[f] = F[f]
  /\ LET g == G[Len(F)]
         f == F[Len(F)]
     IN  g.bp = f.bp /\ g.map = f.map /\ g.dest = f.dest /\ g.env = env

(* So the code changes it. *)
LEMMA SetEnv ==
  ASSUME NEW F \in Seq(Frames), F # <<>>, NEW env \in Seq(Entries)
  PROVE  SameBut(F, [F EXCEPT ![Len(F)].env = env], env)
<1> DEFINE L == Len(F)
           G == [F EXCEPT ![L].env = env]
<1>1. L \in Nat /\ L # 0 /\ DOMAIN F = 1 .. L
  OBVIOUS
<1>2. L \in DOMAIN F
  BY <1>1
<1>3. F[L] \in Frames
  BY <1>2
<1>4. [F[L] EXCEPT !.env = env] \in Frames
  BY <1>3 DEF Frames
<1>5. G = [F EXCEPT ![L] = [F[L] EXCEPT !.env = env]]
  OBVIOUS
<1>6. G \in Seq(Frames) /\ Len(G) = L
  BY <1>4, <1>5
<1>7. G[L] = [F[L] EXCEPT !.env = env] /\ \A f \in 1 .. L - 1 : G[f] = F[f]
  BY <1>1, <1>2, <1>5
<1> HIDE DEF G
<1>8. G[L].bp = F[L].bp /\ G[L].map = F[L].map /\ G[L].dest = F[L].dest /\ G[L].env = env
  BY <1>3, <1>7 DEF Frames
<1> QED BY <1>6, <1>7, <1>8 DEF SameBut, G

(* The layout of frames survives it when the environment fits. *)
LEMMA SameButLayout ==
  ASSUME NEW F, NEW top \in Nat, Layout(F, top), NEW env \in Seq(Entries), NEW G,
         SameBut(F, G, env), NEW new \in Nat, top <= new, EnvOK(env, F[Len(F)].bp, new)
  PROVE  Layout(G, new)
<1> DEFINE L == Len(F)
<1>1. L \in Nat \ {0} /\ DOMAIN F = 1 .. L /\ DOMAIN G = 1 .. L /\ G # <<>>
  BY LayoutTyped DEF SameBut
<1>2. /\ \A f \in 1 .. L - 1 : G[f] = F[f]
      /\ G[L].bp = F[L].bp /\ G[L].dest = F[L].dest /\ G[L].env = env
  BY DEF SameBut
<1>3. \A f \in 1 .. L : G[f].bp = F[f].bp /\ G[f].dest = F[f].dest
  <2> HIDE DEF L
  <2>1. \A f \in 1 .. L : f = L \/ f \in 1 .. L - 1
    BY <1>1
  <2> QED BY <1>2, <2>1
<1>4. ASSUME NEW f \in 1 .. L PROVE EnvOK(G[f].env, G[f].bp, new)
  <2>1. CASE f = L
    BY <1>2, <2>1
  <2>2. CASE f \in 1 .. L - 1
    <3>1. f \in DOMAIN F
      BY <1>1, <2>2
    <3>2. EnvOK(F[f].env, F[f].bp, top) /\ F[f].bp \in Nat
      BY <3>1, LayoutTyped DEF Layout
    <3>3. \A k \in DOMAIN F[f].env : F[f].env[k].at \in Nat /\ F[f].env[k].size \in Nat
      BY <3>1, LayoutTyped
    <3>4. F[f].bp <= new
      BY <3>2 DEF EnvOK
    <3>5. ASSUME NEW k \in DOMAIN F[f].env PROVE End(F[f].env[k]) <= new
      <4>1. End(F[f].env[k]) <= top
        BY <3>2 DEF EnvOK
      <4>2. End(F[f].env[k]) \in Nat
        BY <3>3 DEF End
      <4> QED BY <4>1, <4>2
    <3> QED BY <1>2, <2>2, <3>2, <3>4, <3>5 DEF EnvOK
  <2>c. f = L \/ f \in 1 .. L - 1
    <3> HIDE DEF L
    <3> QED BY <1>1
  <2> QED BY <2>1, <2>2, <2>c
<1>5. ASSUME NEW f \in 1 .. L, NEW g \in 1 .. L, f < g
      PROVE  G[f].bp <= G[g].bp /\ \A k \in DOMAIN G[f].env : End(G[f].env[k]) <= G[g].bp
  <2>1. f \in 1 .. L - 1
    <3> HIDE DEF L
    <3> QED BY <1>1, <1>5
  <2>2. G[f] = F[f]
    BY <1>2, <2>1
  <2> QED BY <1>1, <1>3, <1>5, <2>2 DEF Layout
<1>6. ASSUME NEW f \in 1 .. L, NEW g \in 1 .. L, g = f + 1
      PROVE  G[g].dest \in Vars(G[f].env) \union {NoDest}
  <2>1. f \in 1 .. L - 1
    <3> HIDE DEF L
    <3> QED BY <1>1, <1>6
  <2> QED BY <1>1, <1>2, <1>3, <1>6, <2>1 DEF Layout
<1>7. G \in Seq(Frames)
  BY DEF SameBut
<1> QED BY <1>1, <1>4, <1>5, <1>6, <1>7 DEF Layout

(* The last element of a stack is popped. *)
LEMMA FrontFacts ==
  ASSUME NEW E, NEW s \in Seq(E), s # <<>>
  PROVE  /\ Len(s) \in Nat \ {0} /\ Front(s) \in Seq(E) /\ Len(Front(s)) = Len(s) - 1
         /\ DOMAIN Front(s) = 1 .. Len(s) - 1
         /\ \A k \in 1 .. Len(s) - 1 : Front(s)[k] = s[k]
<1>1. Len(s) \in Nat \ {0}
  OBVIOUS
<1> DEFINE n == Len(s) - 1
<1>2. Front(s) = SubSeq(s, 1, n)
  BY DEF Front
<1>3. n \in 0 .. Len(s) /\ 1 \in 1 .. Len(s) + 1 /\ n \in Nat /\ n - 1 + 1 = n
  BY <1>1
<1>4. /\ SubSeq(s, 1, n) \in Seq(E) /\ Len(SubSeq(s, 1, n)) = IF 1 <= n THEN n - 1 + 1 ELSE 0
      /\ \A k \in 1 .. n - 1 + 1 : SubSeq(s, 1, n)[k] = s[1 + k - 1]
  BY <1>3, SubSeqProperties
<1>5. \A k \in 1 .. n : 1 + k - 1 = k
  BY <1>3
<1>6. /\ SubSeq(s, 1, n) \in Seq(E) /\ Len(SubSeq(s, 1, n)) = n
      /\ \A k \in 1 .. n : SubSeq(s, 1, n)[k] = s[k]
  BY <1>3, <1>4, <1>5
<1> QED BY <1>1, <1>2, <1>6

(* A call begins: a frame without variables. *)
LEMMA PushLayout ==
  ASSUME NEW F, NEW top \in Nat, Layout(F, top), NEW r \in Frames, r.bp = top, r.env = <<>>,
         r.dest \in Vars(F[Len(F)].env) \union {NoDest}
  PROVE  /\ Layout(Append(F, r), top)
         /\ Len(Append(F, r)) = Len(F) + 1 /\ Append(F, r)[Len(F) + 1] = r
         /\ \A f \in DOMAIN F : Append(F, r)[f] = F[f]
<1> DEFINE L == Len(F)
           G == Append(F, r)
<1>1. F \in Seq(Frames)
  BY DEF Layout
<1>2. /\ L \in Nat \ {0} /\ DOMAIN F = 1 .. L /\ G \in Seq(Frames) /\ G # <<>> /\ Len(G) = L + 1
      /\ DOMAIN G = 1 .. L + 1 /\ G[L + 1] = r /\ \A f \in 1 .. L : G[f] = F[f]
  BY SMTT(30), <1>1, LayoutTyped
<1> HIDE DEF G, L
<1>c. \A f \in 1 .. L + 1 : f = L + 1 \/ f \in 1 .. L
  BY <1>2
<1>3. ASSUME NEW f \in 1 .. L + 1 PROVE EnvOK(G[f].env, G[f].bp, top)
  <2>1. CASE f = L + 1
    <3>1. G[f].env = <<>> /\ G[f].bp = top /\ MaxSyms \in Nat
      BY <1>2, <2>1, BoundsAssumption
    <3>2. Len(<<>>) = 0 /\ DOMAIN <<>> = {}
      OBVIOUS
    <3> QED BY <3>1, <3>2 DEF EnvOK
  <2>2. CASE f \in 1 .. L
    BY <1>2, <2>2 DEF Layout
  <2> QED BY <1>c, <2>1, <2>2
<1>4. ASSUME NEW f \in 1 .. L + 1, NEW g \in 1 .. L + 1, f < g
      PROVE  G[f].bp <= G[g].bp /\ \A k \in DOMAIN G[f].env : End(G[f].env[k]) <= G[g].bp
  <2>0. f \in 1 .. L /\ G[f] = F[f]
    BY <1>2, <1>4
  <2>1. CASE g = L + 1
    BY <1>2, <2>0, <2>1 DEF Layout, EnvOK
  <2>2. CASE g \in 1 .. L
    BY <1>2, <1>4, <2>0, <2>2 DEF Layout
  <2> QED BY <1>c, <2>1, <2>2
<1>5. ASSUME NEW f \in 1 .. L + 1, NEW g \in 1 .. L + 1, g = f + 1
      PROVE  G[g].dest \in Vars(G[f].env) \union {NoDest}
  <2>0. f \in 1 .. L /\ G[f] = F[f]
    BY <1>2, <1>5
  <2>1. CASE g = L + 1
    <3>1. f = L
      BY <1>2, <1>5, <2>1
    <3> QED BY <1>2, <2>0, <2>1, <3>1 DEF L
  <2>2. CASE g \in 1 .. L
    BY <1>2, <1>5, <2>0, <2>2 DEF Layout
  <2> QED BY <1>c, <2>1, <2>2
<1>6. Layout(G, top)
  BY <1>2, <1>3, <1>4, <1>5 DEF Layout
<1> QED BY <1>2, <1>6 DEF G, L

(* A function returns: what is left lies below its bp. *)
LEMMA PopLayout ==
  ASSUME NEW F, NEW top \in Nat, Layout(F, top), Len(F) > 1
  PROVE  Layout(Front(F), F[Len(F)].bp)
<1> DEFINE L == Len(F)
           G == Front(F)
<1>1. F \in Seq(Frames) /\ F # <<>>
  BY DEF Layout
<1>2. /\ L \in Nat \ {0} /\ DOMAIN F = 1 .. L /\ L \in 1 .. L
      /\ \A f \in DOMAIN F : F[f].bp \in Nat
  BY LayoutTyped
<1>3. G \in Seq(Frames) /\ Len(G) = L - 1 /\ DOMAIN G = 1 .. L - 1 /\ \A f \in 1 .. L - 1 : G[f] = F[f]
  BY <1>1, FrontFacts
<1>4. L > 1
  OBVIOUS
<1> HIDE DEF G, L
<1>5. G # <<>>
  BY <1>2, <1>3, <1>4
<1>6. \A f \in 1 .. L - 1 : f \in 1 .. L /\ f < L
  BY <1>2
<1>7. ASSUME NEW f \in 1 .. L - 1 PROVE EnvOK(G[f].env, G[f].bp, F[L].bp)
  BY <1>2, <1>3, <1>6 DEF Layout, EnvOK
<1>8. ASSUME NEW f \in 1 .. L - 1, NEW g \in 1 .. L - 1, f < g
      PROVE  G[f].bp <= G[g].bp /\ \A k \in DOMAIN G[f].env : End(G[f].env[k]) <= G[g].bp
  BY <1>2, <1>3, <1>6, <1>8 DEF Layout
<1>9. ASSUME NEW f \in 1 .. L - 1, NEW g \in 1 .. L - 1, g = f + 1
      PROVE  G[g].dest \in Vars(G[f].env) \union {NoDest}
  BY <1>2, <1>3, <1>6, <1>9 DEF Layout
<1>10. Layout(G, F[L].bp)
  BY <1>3, <1>5, <1>7, <1>8, <1>9 DEF Layout
<1> QED BY <1>10 DEF G, L

(* Two variables have no byte in common. *)
LEMMA Apart ==
  ASSUME NEW F, NEW top \in Nat, Layout(F, top), NEW f \in DOMAIN F, NEW g \in DOMAIN F,
         NEW j \in DOMAIN F[f].env, NEW k \in DOMAIN F[g].env, ~(f = g /\ j = k)
  PROVE  End(F[f].env[j]) <= F[g].env[k].at \/ End(F[g].env[k]) <= F[f].env[j].at
<1> DEFINE d == F[f].env[j]
           e == F[g].env[k]
<1>1. /\ f \in Nat /\ g \in Nat /\ j \in Nat /\ k \in Nat
      /\ F[f].bp \in Nat /\ F[g].bp \in Nat
      /\ d.at \in Nat /\ e.at \in Nat /\ End(d) \in Nat /\ End(e) \in Nat
  <2>1. /\ DOMAIN F = 1 .. Len(F) /\ Len(F) \in Nat
        /\ DOMAIN F[f].env = 1 .. Len(F[f].env) /\ F[f].env \in Seq(Entries)
        /\ DOMAIN F[g].env = 1 .. Len(F[g].env) /\ F[g].env \in Seq(Entries)
        /\ F[f].bp \in Nat /\ F[g].bp \in Nat
    BY LayoutTyped
  <2>2. f \in Nat /\ g \in Nat /\ j \in Nat /\ k \in Nat
    BY <2>1
  <2>3. d.at \in Nat /\ d.size \in Nat /\ e.at \in Nat /\ e.size \in Nat
    BY LayoutTyped
  <2>4. End(d) \in Nat /\ End(e) \in Nat
    <3> HIDE DEF d, e
    <3> QED BY <2>3 DEF End
  <2> QED BY <2>1, <2>2, <2>3, <2>4
<1>2. F[f].bp <= d.at /\ F[g].bp <= e.at
  BY DEF Layout, EnvOK
<1>3. /\ f < g => End(d) <= F[g].bp
      /\ g < f => End(e) <= F[f].bp
      /\ f = g /\ j < k => End(d) <= e.at
      /\ f = g /\ k < j => End(e) <= d.at
  BY DEF Layout, EnvOK
<1>4. f < g \/ g < f \/ (f = g /\ j < k) \/ (f = g /\ k < j)
  BY <1>1
<1> HIDE DEF d, e
<1> QED BY <1>1, <1>2, <1>3, <1>4 DEF d, e

------------------------------------------------------------------------------
(* Bytes. *)

(* set() writes its bytes and no others. *)
LEMMA WriteFacts ==
  ASSUME NEW mem, NEW addr, NEW size, NEW v
  PROVE  LET w == Write(mem, addr, size, v) IN
         /\ \A b \in Bytes(addr, size) : b \in DOMAIN w /\ w[b] = v
         /\ \A b \in DOMAIN mem : b \notin Bytes(addr, size) => b \in DOMAIN w /\ w[b] = mem[b]
BY DEF Write

(* A variable beside those bytes keeps its value, *)
LEMMA HoldsApart ==
  ASSUME NEW mem, NEW e \in Entries, Holds(mem, e), NEW addr \in Nat, NEW size \in Nat, NEW v,
         End(e) <= addr \/ addr + size <= e.at
  PROVE  Holds(Write(mem, addr, size, v), e)
<1>1. e.at \in Nat /\ e.size \in Nat
  BY DEF Entries
<1>2. \A b \in Bytes(e.at, e.size) : b \notin Bytes(addr, size)
  BY <1>1 DEF Bytes, End
<1> QED BY <1>2, WriteFacts DEF Holds

(* the one that is written gets the new one, *)
LEMMA HoldsNew ==
  ASSUME NEW mem, NEW e
  PROVE  Holds(Write(mem, e.at, e.size, e.val), e)
BY WriteFacts DEF Holds

(* and get() finds it. *)
LEMMA GetHeld ==
  ASSUME NEW mem, NEW e \in Entries, Holds(mem, e), e.val # Undef
  PROVE  get(mem, e.at, e.size) = e.val
<1>1. e.at \in Nat /\ e.size \in Nat \ {0} /\ e.val \in Vals
  BY DEF Entries
<1>2. e.at \in Bytes(e.at, e.size)
  BY <1>1 DEF Bytes
<1>3. \A b \in Bytes(e.at, e.size) : b \in DOMAIN mem /\ mem[b] = e.val
  BY DEF Holds
<1> QED BY <1>1, <1>2, <1>3 DEF get

(* Every variable but the one assigned to keeps its value. *)
LEMMA HeldSet ==
  ASSUME NEW F, NEW top \in Nat, Layout(F, top), NEW mem, Held(F, mem), NEW v \in Vals,
         NEW n \in DOMAIN F[Len(F)].env, NEW G,
         SameBut(F, G, [F[Len(F)].env EXCEPT ![n].val = v])
  PROVE  Held(G, Write(mem, F[Len(F)].env[n].at, F[Len(F)].env[n].size, v))
<1> DEFINE L == Len(F)
           x == F[L].env[n]
           new == [F[L].env EXCEPT ![n].val = v]
           w == Write(mem, x.at, x.size, v)
<1>1. /\ L \in Nat \ {0} /\ DOMAIN F = 1 .. L /\ L \in DOMAIN F /\ DOMAIN G = 1 .. L
      /\ F[L].env \in Seq(Entries) /\ F[L].bp \in Nat /\ x.at \in Nat /\ x.size \in Nat
  BY LayoutTyped DEF SameBut
<1>2. G[L].env = new /\ \A f \in 1 .. L - 1 : G[f] = F[f]
  BY DEF SameBut
<1>3. /\ DOMAIN new = DOMAIN F[L].env /\ new \in Seq(Entries)
      /\ \A k \in DOMAIN new : /\ new[k].at = F[L].env[k].at /\ new[k].size = F[L].env[k].size
                               /\ new[k].val = IF k = n THEN v ELSE F[L].env[k].val
  <2>1. EnvOK(F[L].env, F[L].bp, top)
    BY <1>1 DEF Layout
  <2> QED BY SMTT(30), <1>1, <2>1, EnvSet
<1>4. ASSUME NEW f \in DOMAIN F, NEW k \in DOMAIN F[f].env, ~(f = L /\ k = n)
      PROVE  Holds(w, F[f].env[k])
  <2>1. End(F[f].env[k]) <= x.at \/ End(x) <= F[f].env[k].at
    BY <1>1, <1>4, Apart
  <2>2. Holds(mem, F[f].env[k]) /\ F[f].env[k] \in Entries
    BY LayoutTyped DEF Held
  <2>3. x.at + x.size = End(x)
    BY DEF End
  <2> HIDE DEF x
  <2> QED BY <1>1, <2>1, <2>2, <2>3, HoldsApart
<1> HIDE DEF new, w, x
<1>5. ASSUME NEW f \in 1 .. L, NEW k \in DOMAIN G[f].env PROVE Holds(w, G[f].env[k])
  <2>1. CASE f \in 1 .. L - 1
    <3>1. f \in DOMAIN F /\ f # L
      BY <1>1, <2>1
    <3> QED BY <1>2, <1>4, <2>1, <3>1
  <2>2. CASE f = L /\ k # n
    <3>1. G[f].env[k] = new[k] /\ k \in DOMAIN F[L].env
      BY <1>2, <1>3, <2>2
    <3>2. Holds(w, F[L].env[k])
      BY <1>1, <1>4, <2>2, <3>1
    <3> QED BY <1>3, <2>2, <3>1, <3>2 DEF Holds
  <2>3. CASE f = L /\ k = n
    <3>1. G[f].env[k] = new[n] /\ new[n].at = x.at /\ new[n].size = x.size /\ new[n].val = v
      BY <1>2, <1>3, <2>3 DEF x
    <3>2. Holds(w, new[n])
      BY <3>1, HoldsNew DEF w
    <3> QED BY <3>1, <3>2
  <2>c. f \in 1 .. L - 1 \/ f = L
    <3> HIDE DEF L
    <3> QED BY <1>1
  <2> QED BY <2>1, <2>2, <2>3, <2>c
<1> QED BY <1>1, <1>5 DEF Held, w, x

(* A new variable lies beside all others; one that has no value yet is no  *)
(* claim on the bytes.                                                     *)
LEMMA HeldGrow ==
  ASSUME NEW F, NEW top \in Nat, Layout(F, top), NEW mem, Held(F, mem),
         NEW e \in Entries, e.at = top, NEW G, SameBut(F, G, Append(F[Len(F)].env, e))
  PROVE  /\ Held(G, Write(mem, top, e.size, e.val))
         /\ e.val = Undef => Held(G, mem)
<1> DEFINE L == Len(F)
           env == F[L].env
           new == Append(env, e)
           w == Write(mem, top, e.size, e.val)
           K == Len(env)
<1>1. /\ L \in Nat \ {0} /\ DOMAIN F = 1 .. L /\ L \in DOMAIN F /\ DOMAIN G = 1 .. L
      /\ env \in Seq(Entries)
  BY LayoutTyped DEF SameBut
<1>2. G[L].env = new /\ \A f \in 1 .. L - 1 : G[f] = F[f]
  BY DEF SameBut
<1>3. K \in Nat /\ DOMAIN env = 1 .. K /\ DOMAIN new = 1 .. K + 1 /\ new[K + 1] = e
      /\ \A k \in 1 .. K : new[k] = env[k]
  BY <1>1
<1>4. e.size \in Nat
  BY DEF Entries
<1>5. ASSUME NEW f \in DOMAIN F, NEW k \in DOMAIN F[f].env
      PROVE  Holds(mem, F[f].env[k]) /\ Holds(w, F[f].env[k])
  <2>1. Holds(mem, F[f].env[k]) /\ F[f].env[k] \in Entries
    BY LayoutTyped DEF Held
  <2>2. End(F[f].env[k]) <= top
    BY DEF Layout, EnvOK
  <2> QED BY <1>4, <2>1, <2>2, HoldsApart
<1>6. Holds(w, e) /\ (e.val = Undef => Holds(mem, e))
  BY HoldsNew DEF Holds
<1> HIDE DEF new, w, env, K
<1>7. ASSUME NEW f \in 1 .. L, NEW k \in DOMAIN G[f].env
      PROVE  Holds(w, G[f].env[k]) /\ (e.val = Undef => Holds(mem, G[f].env[k]))
  <2>1. CASE f \in 1 .. L - 1
    <3>1. f \in DOMAIN F
      BY <1>1, <2>1
    <3> QED BY <1>2, <1>5, <2>1, <3>1
  <2>2. CASE f = L
    <3>1. G[f].env = new /\ k \in 1 .. K + 1
      BY <1>2, <1>3, <2>2
    <3>2. CASE k = K + 1
      BY <1>3, <1>6, <3>1, <3>2
    <3>3. CASE k \in 1 .. K
      BY <1>1, <1>3, <1>5, <3>1, <3>3 DEF env
    <3>c. k = K + 1 \/ k \in 1 .. K
      BY <1>3, <3>1
    <3> QED BY <3>2, <3>3, <3>c
  <2>c. f \in 1 .. L - 1 \/ f = L
    <3> HIDE DEF L
    <3> QED BY <1>1
  <2> QED BY <2>1, <2>2, <2>c
<1> QED BY <1>1, <1>7 DEF Held, w

------------------------------------------------------------------------------
(* Maps. *)

(* The saved maps are the same. *)
LEMMA MapAtSame ==
  ASSUME NEW F, NEW G, NEW env, NEW map, Len(F) \in Nat, SameBut(F, G, env),
         NEW f \in 1 .. Len(F)
  PROVE  MapAt(G, map, f) = MapAt(F, map, f)
<1> DEFINE L == Len(F)
<1>1. Len(G) = L /\ G[L].map = F[L].map /\ \A g \in 1 .. L - 1 : G[g] = F[g]
  BY DEF SameBut
<1> HIDE DEF L
<1>2. CASE f < L
  <2>1. f + 1 = L \/ f + 1 \in 1 .. L - 1
    BY <1>2 DEF L
  <2>2. G[f + 1].map = F[f + 1].map
    BY <1>1, <2>1
  <2> QED BY <1>1, <2>2 DEF MapAt, L
<1>3. CASE ~(f < L)
  BY <1>1, <1>3 DEF MapAt, L
<1> QED BY <1>2, <1>3

(* An assignment moves no variable. *)
LEMMA MappedSet ==
  ASSUME NEW F, NEW top \in Nat, Layout(F, top), NEW map, Mapped(F, map),
         NEW v \in Vals, NEW n \in DOMAIN F[Len(F)].env, NEW G,
         SameBut(F, G, [F[Len(F)].env EXCEPT ![n].val = v])
  PROVE  Mapped(G, map)
<1> DEFINE L == Len(F)
           new == [F[L].env EXCEPT ![n].val = v]
<1>1. /\ L \in Nat \ {0} /\ DOMAIN F = 1 .. L /\ L \in DOMAIN F /\ DOMAIN G = 1 .. L
      /\ F[L].env \in Seq(Entries) /\ F[L].bp \in Nat
  BY LayoutTyped DEF SameBut
<1>2. G[L].env = new /\ \A f \in 1 .. L - 1 : G[f] = F[f]
  BY DEF SameBut
<1>3. DOMAIN new = DOMAIN F[L].env /\ \A k \in DOMAIN new : new[k].at = F[L].env[k].at
  BY <1>1, EnvSet DEF Layout
<1>4. \A f \in 1 .. L : MapAt(G, map, f) = MapAt(F, map, f)
  BY <1>1, MapAtSame
<1> HIDE DEF new
<1>5. ASSUME NEW f \in 1 .. L, NEW k \in DOMAIN G[f].env
      PROVE  k \in DOMAIN F[f].env /\ G[f].env[k].at = F[f].env[k].at
  <2>c. f \in 1 .. L - 1 \/ f = L
    <3> HIDE DEF L
    <3> QED BY <1>1
  <2> QED BY <1>2, <1>3, <2>c
<1> QED BY <1>1, <1>4, <1>5 DEF Mapped

(* push() records where the new one is. *)
LEMMA MappedGrow ==
  ASSUME NEW F, NEW top \in Nat, Layout(F, top), NEW map \in Maps, Mapped(F, map),
         NEW e \in Entries, e.at = top, Len(F[Len(F)].env) < MaxSyms, NEW G,
         SameBut(F, G, Append(F[Len(F)].env, e))
  PROVE  Mapped(G, [map EXCEPT ![Len(F[Len(F)].env)] = top])
<1> DEFINE L == Len(F)
           env == F[L].env
           K == Len(env)
           new == Append(env, e)
           m == [map EXCEPT ![K] = top]
<1>1. /\ L \in Nat \ {0} /\ DOMAIN F = 1 .. L /\ L \in DOMAIN F /\ DOMAIN G = 1 .. L
      /\ env \in Seq(Entries) /\ Len(G) = L
  BY LayoutTyped DEF SameBut
<1>2. G[L].env = new /\ \A f \in 1 .. L - 1 : G[f] = F[f]
  BY DEF SameBut
<1>3. K \in Nat /\ DOMAIN env = 1 .. K /\ DOMAIN new = 1 .. K + 1 /\ new[K + 1] = e
      /\ \A k \in 1 .. K : new[k] = env[k]
  BY <1>1
<1>4. K \in 0 .. MaxSyms - 1 /\ MaxSyms \in Nat /\ DOMAIN map = 0 .. MaxSyms - 1
  BY <1>3, BoundsAssumption DEF Maps
<1>5. m[K] = top /\ \A x \in 0 .. MaxSyms - 1 : x # K => m[x] = map[x]
  BY <1>4
<1>6. \A f \in 1 .. L : MapAt(G, map, f) = MapAt(F, map, f)
  BY <1>1, MapAtSame
<1>h. K < MaxSyms
  OBVIOUS
<1> HIDE DEF new, env, K, m, L
<1>7. ASSUME NEW f \in 1 .. L, NEW k \in DOMAIN G[f].env
      PROVE  MapAt(G, m, f)[k - 1] = G[f].env[k].at
  <2>1. CASE f \in 1 .. L - 1
    <3>1. f \in DOMAIN F /\ f < L
      BY <1>1, <2>1
    <3>2. MapAt(G, m, f) = MapAt(F, map, f)
      BY <1>1, <1>6, <3>1 DEF MapAt
    <3>3. G[f] = F[f]
      BY <1>2, <2>1
    <3> QED BY <3>1, <3>2, <3>3 DEF Mapped
  <2>2. CASE f = L
    <3>1. G[f].env = new /\ k \in 1 .. K + 1 /\ MapAt(G, m, f) = m
      BY <1>1, <1>2, <1>3, <2>2 DEF MapAt
    <3>2. CASE k = K + 1
      <4>1. k - 1 = K
        BY <1>3, <3>2
      <4> QED BY <1>3, <1>5, <3>1, <3>2, <4>1
    <3>3. CASE k \in 1 .. K
      <4>1. k - 1 \in 0 .. MaxSyms - 1 /\ k - 1 # K
        BY <1>3, <1>4, <1>h, <3>3
      <4>2. MapAt(F, map, L) = map
        BY <1>1 DEF MapAt, L
      <4>3. map[k - 1] = env[k].at
        BY <1>1, <1>3, <3>3, <4>2 DEF Mapped, env
      <4> QED BY <1>3, <1>5, <3>1, <3>3, <4>1, <4>3
    <3>c. k = K + 1 \/ k \in 1 .. K
      BY <1>3, <3>1
    <3> QED BY <3>2, <3>3, <3>c
  <2>c. f \in 1 .. L - 1 \/ f = L
    BY <1>1
  <2> QED BY <2>1, <2>2, <2>c
<1> QED BY <1>1, <1>7 DEF Mapped, m, K, env, L

(* A call saves the map of its caller, *)
LEMMA PushKeeps ==
  ASSUME NEW F, NEW top \in Nat, Layout(F, top), NEW map, NEW mem, NEW r, r.env = <<>>, r.map = map
  PROVE  /\ Mapped(F, map) => Mapped(Append(F, r), map)
         /\ Held(F, mem) => Held(Append(F, r), mem)
<1> DEFINE L == Len(F)
           G == Append(F, r)
<1>1. F \in Seq(Frames)
  BY DEF Layout
<1>2. /\ L \in Nat \ {0} /\ DOMAIN F = 1 .. L /\ Len(G) = L + 1
      /\ DOMAIN G = 1 .. L + 1 /\ G[L + 1] = r /\ \A f \in 1 .. L : G[f] = F[f]
  BY <1>1, LayoutTyped
<1> HIDE DEF G, L
<1>c. \A f \in 1 .. L + 1 : f = L + 1 \/ f \in 1 .. L
  BY <1>2
<1>3. DOMAIN G[L + 1].env = {}
  BY <1>2
<1>4. Held(F, mem) => Held(G, mem)
  BY <1>2, <1>3, <1>c DEF Held
<1>5. ASSUME NEW f \in 1 .. L PROVE MapAt(G, map, f) = MapAt(F, map, f)
  <2>1. CASE f < L
    <3>1. f + 1 \in 1 .. L /\ f < L + 1
      BY <1>2, <2>1
    <3> QED BY <1>2, <2>1, <3>1 DEF MapAt, L
  <2>2. CASE f = L
    <3>1. f < L + 1 /\ ~(f < L)
      BY <1>2, <2>2
    <3> QED BY <1>2, <2>2, <3>1 DEF MapAt, L
  <2>c. f < L \/ f = L
    BY <1>2
  <2> QED BY <2>1, <2>2, <2>c
<1>6. Mapped(F, map) => Mapped(G, map)
  BY <1>2, <1>3, <1>5, <1>c DEF Mapped
<1> QED BY <1>4, <1>6 DEF G

(* and a return brings it back. *)
LEMMA PopKeeps ==
  ASSUME NEW F, NEW top \in Nat, Layout(F, top), NEW map, NEW mem, Len(F) > 1,
         Mapped(F, map), Held(F, mem)
  PROVE  Mapped(Front(F), F[Len(F)].map) /\ Held(Front(F), mem)
<1> DEFINE L == Len(F)
           G == Front(F)
<1>1. F \in Seq(Frames) /\ F # <<>>
  BY DEF Layout
<1>2. L \in Nat \ {0} /\ DOMAIN F = 1 .. L
  BY LayoutTyped
<1>3. Len(G) = L - 1 /\ DOMAIN G = 1 .. L - 1 /\ \A f \in 1 .. L - 1 : G[f] = F[f]
  BY <1>1, FrontFacts
<1> HIDE DEF G, L
<1>4. \A f \in 1 .. L - 1 : f \in 1 .. L /\ f < L
  BY <1>2
<1>5. Held(G, mem)
  BY <1>2, <1>3, <1>4 DEF Held
<1>6. ASSUME NEW f \in 1 .. L - 1 PROVE MapAt(G, F[L].map, f) = MapAt(F, map, f)
  <2>1. CASE f < L - 1
    <3>1. f + 1 \in 1 .. L - 1
      BY <1>2, <2>1
    <3> QED BY <1>3, <1>4, <2>1, <3>1 DEF MapAt, L
  <2>2. CASE f = L - 1
    <3>1. f + 1 = L /\ ~(f < L - 1)
      BY <1>2, <2>2
    <3> QED BY <1>3, <1>4, <2>2, <3>1 DEF MapAt, L
  <2>c. f < L - 1 \/ f = L - 1
    BY <1>2
  <2> QED BY <2>1, <2>2, <2>c
<1>7. Mapped(G, F[L].map)
  BY <1>2, <1>3, <1>4, <1>6 DEF Mapped
<1> QED BY <1>5, <1>7 DEF G, L

------------------------------------------------------------------------------
(* Operations on the frames F, all of which are below top. *)

(* set() on a variable of the last frame. *)
LEMMA AssignKeeps ==
  ASSUME NEW F, NEW top \in Nat, Layout(F, top), NEW v \in Vals, NEW n \in DOMAIN F[Len(F)].env,
         NEW map, NEW mem
  PROVE  LET G == [F EXCEPT ![Len(F)].env[n].val = v]
             size == F[Len(F)].env[n].size
         IN  /\ G \in Seq(Frames) /\ G # <<>> /\ Layout(G, top)
             /\ Mapped(F, map) => /\ Mapped(G, map) /\ map[n - 1] = F[Len(F)].env[n].at
                                  /\ Held(F, mem) => Held(G, Write(mem, map[n - 1], size, v))
<1> DEFINE L == Len(F)
           env == F[L].env
           new == [env EXCEPT ![n].val = v]
           G == [F EXCEPT ![L].env[n].val = v]
<1>1. F \in Seq(Frames) /\ F # <<>>
  BY DEF Layout
<1>2. L \in DOMAIN F /\ env \in Seq(Entries) /\ F[L].bp \in Nat /\ L \in Nat
  BY LayoutTyped
<1>3. EnvOK(env, F[L].bp, top)
  BY <1>2 DEF Layout
<1>4. new \in Seq(Entries) /\ EnvOK(new, F[L].bp, top)
  BY <1>2, <1>3, EnvSet
<1>5. G = [F EXCEPT ![L].env = new]
  OBVIOUS
<1>6. SameBut(F, G, new)
  BY <1>1, <1>4, <1>5, SetEnv
<1> HIDE DEF G
<1>7. top <= top
  OBVIOUS
<1>8. Layout(G, top)
  BY <1>4, <1>6, <1>7, SameButLayout
<1>9. G \in Seq(Frames) /\ G # <<>>
  BY <1>8 DEF Layout
<1>10. ASSUME Mapped(F, map)
       PROVE  /\ Mapped(G, map) /\ map[n - 1] = env[n].at
              /\ Held(F, mem) => Held(G, Write(mem, map[n - 1], env[n].size, v))
  <2>1. Mapped(G, map)
    BY <1>6, <1>10, MappedSet
  <2>2. MapAt(F, map, L) = map
    BY <1>2 DEF MapAt
  <2>3. map[n - 1] = env[n].at
    BY <1>2, <1>10, <2>2 DEF Mapped
  <2>4. Held(F, mem) => Held(G, Write(mem, env[n].at, env[n].size, v))
    BY <1>6, HeldSet
  <2> QED BY <2>1, <2>3, <2>4
<1> QED BY <1>8, <1>9, <1>10 DEF G

(* push() of a new variable. *)
LEMMA GrowKeeps ==
  ASSUME NEW F, NEW top \in Nat, Layout(F, top), NEW e \in Entries, e.at = top,
         Len(F[Len(F)].env) < MaxSyms, NEW G, SameBut(F, G, Append(F[Len(F)].env, e))
  PROVE  Layout(G, top + e.size)
<1> DEFINE env == F[Len(F)].env
<1>1. Len(F) \in DOMAIN F /\ env \in Seq(Entries) /\ F[Len(F)].bp \in Nat
  BY LayoutTyped
<1>2. EnvOK(env, F[Len(F)].bp, top)
  BY <1>1 DEF Layout
<1>3. Append(env, e) \in Seq(Entries) /\ EnvOK(Append(env, e), F[Len(F)].bp, top + e.size)
  BY <1>1, <1>2, EnvGrow
<1>4. top + e.size \in Nat /\ top <= top + e.size
  BY DEF Entries
<1> QED BY <1>3, <1>4, SameButLayout

(* A place below 128 is kept as it is in a char. *)
LEMMA CharKeeps ==
  /\ \A x \in 0 .. 127 : to_char(x) = x
  /\ \A x \in Int : to_char(x) \in Int
BY DEF to_char

------------------------------------------------------------------------------
(* The actions. *)

(* The stack stays below 128 bytes, *)
InByte == MaxSp <= 128

(* and the n-th argument of a call is no variable numbered below n.        *)
InOrder ==
  \A args \in ArgLists : \A n \in DOMAIN args : args[n].kind = "sym" => args[n].x >= n - 1

(* While a function runs, the frames are those of the active functions. *)
LEMMA Running ==
  ASSUME LayoutInv, pc = "run"
  PROVE  /\ Active = frames /\ Layout(frames, sp) /\ sp \in Nat /\ stack_map \in Maps
         /\ Len(frames) \in Nat \ {0} /\ Len(frames) \in DOMAIN frames
         /\ Run = frames[Len(frames)] /\ Run.env \in Seq(Entries)
         /\ Vars(Run.env) = 0 .. Len(Run.env) - 1 /\ Len(Run.env) \in Nat
         /\ \A s \in Vars(Run.env) : s + 1 \in DOMAIN Run.env
<1>1. Active = frames /\ Layout(frames, sp) /\ sp \in Nat /\ stack_map \in Maps
  BY DEF LayoutInv, Active
<1>2. Len(frames) \in Nat \ {0} /\ Len(frames) \in DOMAIN frames /\ Run.env \in Seq(Entries)
  BY <1>1, LayoutTyped DEF Run
<1> QED BY <1>1, <1>2 DEF Run, Vars

(* The frames are active, each under the map it reads its variables by. *)
LEMMA ActiveFrames ==
  ASSUME LayoutInv
  PROVE  \A f \in DOMAIN frames : /\ f \in DOMAIN Active /\ Active[f] = frames[f]
                                  /\ MapAt(Active, stack_map, f) = MapOf(f)
<1> DEFINE L == Len(frames)
           r == Rec(callee)
<1>1. frames \in Seq(Frames) /\ L \in Nat /\ DOMAIN frames = 1 .. L
  BY DEF LayoutInv
<1>2. CASE pc # "args"
  <2>1. Active = frames
    BY <1>2 DEF Active
  <2> QED BY <1>2, <2>1 DEF MapAt, MapOf
<1>3. CASE pc = "args"
  <2>1. Active = Append(frames, r)
    BY <1>3 DEF Active
  <2>2. /\ Len(Active) = L + 1 /\ DOMAIN Active = 1 .. L + 1 /\ Active[L + 1] = r
        /\ \A f \in 1 .. L : Active[f] = frames[f]
    <3> HIDE DEF r
    <3>1. Active \in Seq(Frames)
      BY DEF LayoutInv, Layout
    <3> QED BY <1>1, <2>1, <3>1
  <2>3. r.map = callee.map
    BY DEF Rec
  <2>4. ASSUME NEW f \in 1 .. L
        PROVE  f \in 1 .. L + 1 /\ Active[f] = frames[f] /\ MapAt(Active, stack_map, f) = MapOf(f)
    <3> HIDE DEF L, r
    <3>1. f \in 1 .. L + 1 /\ f < L + 1 /\ Active[f] = frames[f] /\ f + 1 \in 1 .. L + 1
      BY <1>1, <2>2
    <3>2. CASE f < L
      <4>1. f + 1 \in 1 .. L
        BY <1>1, <3>2
      <4>2. Active[f + 1] = frames[f + 1]
        BY <2>2, <4>1
      <4> QED BY <2>2, <3>1, <3>2, <4>2 DEF MapAt, MapOf, L
    <3>3. CASE f = L
      BY <1>1, <1>3, <2>2, <2>3, <3>1, <3>3 DEF MapAt, MapOf, L
    <3>c. f < L \/ f = L
      BY <1>1
    <3> QED BY <3>1, <3>2, <3>3, <3>c
  <2> QED BY <1>1, <2>2, <2>4
<1> QED BY <1>2, <1>3

(* eval_alloca. *)
LEMMA AllocaKeeps ==
  ASSUME LayoutInv, NEW size \in Sizes, eval_alloca(size)
  PROVE  LayoutInv' /\ (InByte /\ ValueInv => ValueInv')
<1> DEFINE L == Len(frames)
           K == Len(Run.env)
           e == Entry(Undef, size, sp)
<1>1. pc = "run" /\ K < MaxSyms /\ sp + size <= MaxSp
  BY DEF eval_alloca
<1>2. /\ stack_map' = [stack_map EXCEPT ![K] = to_char(sp)] /\ sp' = sp + size
      /\ frames' = [frames EXCEPT ![L].env = Append(@, e)] /\ UNCHANGED <<stack, pc, callee>>
  BY DEF eval_alloca, push
<1>3. /\ Active = frames /\ Layout(frames, sp) /\ sp \in Nat /\ stack_map \in Maps
      /\ Run = frames[L] /\ Run.env \in Seq(Entries) /\ K \in Nat
  BY <1>1, Running
<1>4. size \in Nat \ {0}
  BY SizesAssumption
<1>5. e \in Entries /\ e.at = sp /\ e.size = size /\ e.val = Undef
  BY <1>3, <1>4 DEF Entry, Entries
<1> HIDE DEF e
<1>6. frames \in Seq(Frames) /\ frames # <<>>
  BY DEF LayoutInv
<1>7. frames' = [frames EXCEPT ![L].env = Append(frames[L].env, e)]
  BY <1>2
<1>8. SameBut(frames, frames', Append(frames[L].env, e))
  <2>1. Append(frames[L].env, e) \in Seq(Entries)
    BY <1>3, <1>5
  <2> QED BY <1>6, <1>7, <2>1, SetEnv
<1>9. Layout(frames', sp')
  BY <1>1, <1>2, <1>3, <1>5, <1>8, GrowKeeps
<1>10. stack_map' \in Maps
  <2>1. to_char(sp) \in Int
    BY <1>3, CharKeeps
  <2> QED BY <1>2, <1>3, <2>1 DEF Maps
<1>11. Active' = frames' /\ pc' = "run"
  BY <1>1, <1>2 DEF Active
<1>12. LayoutInv'
  <2>1. frames' \in Seq(Frames) /\ frames' # <<>>
    BY <1>9 DEF Layout
  <2>2. sp' \in Nat
    BY <1>2, <1>3, <1>4
  <2> QED BY <1>9, <1>10, <1>11, <2>1, <2>2 DEF LayoutInv
<1>13. ASSUME InByte, ValueInv PROVE ValueInv'
  <2>1. sp \in 0 .. 127 /\ sp' <= MaxSp
    <3>1. sp + size <= MaxSp /\ MaxSp \in Nat /\ MaxSp <= 128 /\ sp \in Nat /\ size \in Nat \ {0}
      BY <1>1, <1>3, <1>4, <1>13, BoundsAssumption DEF InByte
    <3>2. sp \in 0 .. 127
      BY <3>1
    <3> QED BY <1>1, <1>2, <3>2
  <2>2. stack_map' = [stack_map EXCEPT ![K] = sp]
    BY <1>2, <2>1, CharKeeps
  <2>3. Mapped(frames, stack_map) /\ Held(frames, stack)
    BY <1>3, <1>13 DEF ValueInv
  <2>4. Mapped(frames', stack_map')
    BY <1>1, <1>3, <1>5, <1>8, <2>2, <2>3, MappedGrow
  <2>5. Held(frames', stack')
    BY <1>2, <1>3, <1>5, <1>8, <2>3, HeldGrow
  <2> QED BY <1>11, <2>1, <2>4, <2>5 DEF ValueInv
<1> QED BY <1>12, <1>13

(* Assignments: of a constant, or of a variable that has a value. *)
LEMMA StoreKeeps ==
  ASSUME LayoutInv,
         \/ \E s \in Vars(Run.env), v \in Vals : eval_store_imm(s, v)
         \/ \E to \in Vars(Run.env), from \in Usable : eval_store_sym(to, from)
  PROVE  LayoutInv' /\ (ValueInv => ValueInv')
<1> DEFINE L == Len(frames)
<1>1. pc = "run" /\ UNCHANGED <<stack_map, sp, pc, callee>>
  BY DEF eval_store_imm, eval_store_sym
<1>2. /\ Active = frames /\ Layout(frames, sp) /\ sp \in Nat /\ stack_map \in Maps
      /\ Run = frames[L] /\ Run.env \in Seq(Entries) /\ L \in DOMAIN frames /\ L \in Nat
      /\ \A s \in Vars(Run.env) : s + 1 \in DOMAIN Run.env /\ s \in Nat
  BY <1>1, Running
<1>3. PICK n \in DOMAIN frames[L].env, v \in Vals :
        /\ frames' = [frames EXCEPT ![L].env[n].val = v]
        /\ ValueInv => stack' = Write(stack, stack_map[n - 1], frames[L].env[n].size, v)
  <2>1. CASE \E s \in Vars(Run.env), v \in Vals : eval_store_imm(s, v)
    <3>1. PICK s \in Vars(Run.env), v \in Vals : eval_store_imm(s, v)
      BY <2>1
    <3>2. s + 1 \in DOMAIN frames[L].env /\ (s + 1) - 1 = s
      BY <1>2
    <3>3. /\ frames' = [frames EXCEPT ![L].env[s + 1].val = v]
          /\ stack' = Write(stack, stack_map[s], frames[L].env[s + 1].size, v)
      BY <3>1 DEF eval_store_imm, set, Var
    <3> QED BY <3>2, <3>3
  <2>2. CASE \E to \in Vars(Run.env), from \in Usable : eval_store_sym(to, from)
    <3>1. PICK to \in Vars(Run.env), from \in Usable : eval_store_sym(to, from)
      BY <2>2
    <3>2. /\ to + 1 \in DOMAIN frames[L].env /\ (to + 1) - 1 = to
          /\ from + 1 \in DOMAIN frames[L].env /\ (from + 1) - 1 = from
      BY SMTT(30), <1>2 DEF Usable
    <3> DEFINE e == frames[L].env[from + 1]
    <3>3. e \in Entries /\ e.val # Undef /\ e.val \in Vals
      <4>1. e \in Entries
        BY <1>2, <3>2
      <4>2. e.val # Undef
        BY <1>2 DEF Usable, Var
      <4> HIDE DEF e
      <4> QED BY <4>1, <4>2 DEF Entries
    <3>4. /\ frames' = [frames EXCEPT ![L].env[to + 1].val = e.val]
          /\ stack' = Write(stack, stack_map[to], frames[L].env[to + 1].size,
                            get(stack, stack_map[from], e.size))
      BY <1>2, <3>1 DEF eval_store_sym, Var
    <3>5. ASSUME ValueInv PROVE get(stack, stack_map[from], e.size) = e.val
      <4>1. MapAt(frames, stack_map, L) = stack_map
        BY <1>2 DEF MapAt
      <4>2. stack_map[from] = e.at
        BY <1>2, <3>2, <3>5, <4>1 DEF ValueInv, Mapped
      <4>3. Holds(stack, e)
        BY <1>2, <3>2, <3>5 DEF ValueInv, Held
      <4> HIDE DEF e
      <4> QED BY <3>3, <4>2, <4>3, GetHeld
    <3> HIDE DEF e
    <3> QED BY <3>2, <3>3, <3>4, <3>5
  <2> QED BY <2>1, <2>2
<1>4. /\ frames' \in Seq(Frames) /\ frames' # <<>> /\ Layout(frames', sp)
      /\ Mapped(frames, stack_map) =>
           /\ Mapped(frames', stack_map)
           /\ Held(frames, stack) =>
                Held(frames', Write(stack, stack_map[n - 1], frames[L].env[n].size, v))
  <2>1. PICK F, n1, v1 : F = frames /\ n1 = n /\ v1 = v
    OBVIOUS
  <2>2. Layout(F, sp) /\ sp \in Nat /\ v1 \in Vals /\ n1 \in DOMAIN F[Len(F)].env
    BY <1>2, <2>1
  <2>3. LET G == [F EXCEPT ![Len(F)].env[n1].val = v1]
            size == F[Len(F)].env[n1].size
        IN  /\ G \in Seq(Frames) /\ G # <<>> /\ Layout(G, sp)
            /\ Mapped(F, stack_map) =>
                 /\ Mapped(G, stack_map) /\ stack_map[n1 - 1] = F[Len(F)].env[n1].at
                 /\ Held(F, stack) => Held(G, Write(stack, stack_map[n1 - 1], size, v1))
    BY <2>2, AssignKeeps, Zenon
  <2>4. frames' = [F EXCEPT ![Len(F)].env[n1].val = v1]
    BY <1>3, <2>1
  <2> QED BY <2>1, <2>3, <2>4, Zenon
<1>5. Active' = frames' /\ pc' = "run" /\ sp' = sp /\ stack_map' = stack_map
  BY <1>1 DEF Active
<1>6. LayoutInv'
  BY <1>2, <1>4, <1>5 DEF LayoutInv
<1>7. ASSUME ValueInv PROVE ValueInv'
  BY <1>2, <1>3, <1>4, <1>5, <1>7 DEF ValueInv
<1> QED BY <1>6, <1>7

(* The prologue of call_eval. *)
LEMMA CallKeeps ==
  ASSUME LayoutInv, NEW args \in ArgLists, NEW dest \in Vars(Run.env) \union {NoDest},
         CallStart(args, dest)
  PROVE  LayoutInv' /\ (InOrder /\ ValueInv => ValueInv')
<1> DEFINE L == Len(frames)
           r == [bp |-> sp, map |-> stack_map, env |-> <<>>, dest |-> dest]
<1>1. /\ pc = "run" /\ Len(args) <= MaxSyms /\ pc' = "args"
      /\ \A n \in DOMAIN args : args[n].kind = "sym" => args[n].x \in Usable
      /\ callee' = [args |-> args, bp |-> sp, map |-> stack_map, env |-> <<>>, dest |-> dest]
      /\ UNCHANGED <<stack, stack_map, sp, frames>>
  BY DEF CallStart
<1>2. /\ Active = frames /\ Layout(frames, sp) /\ sp \in Nat /\ stack_map \in Maps
      /\ Run = frames[L] /\ Vars(Run.env) = 0 .. Len(Run.env) - 1 /\ Len(Run.env) \in Nat
  BY <1>1, Running
<1>3. dest \in Int /\ dest \in Vars(frames[L].env) \union {NoDest}
  BY <1>2 DEF NoDest
<1>4. <<>> \in Seq(Entries) /\ Len(<<>>) = 0
  OBVIOUS
<1>5. r \in Frames
  BY <1>2, <1>3, <1>4 DEF Frames
<1>6. r.bp = sp /\ r.env = <<>> /\ r.map = stack_map /\ r.dest = dest
  OBVIOUS
<1>7. Rec(callee)' = r /\ Active' = Append(frames, r)
  BY <1>1 DEF Rec, Active
<1>8. /\ (callee').args = args /\ (callee').env = <<>> /\ (callee').map = stack_map
  BY <1>1
<1> HIDE DEF r
<1>9. Layout(Append(frames, r), sp)
  BY <1>2, <1>3, <1>5, <1>6, PushLayout
<1>10. args \in Seq(Args) /\ Len(args) \in Nat
  BY ArgsAssumption DEF Args
<1>11. CallInv'
  <2>1. callee' \in [args : Seq(Args), bp : Nat, map : Maps, env : Seq(Entries), dest : Int]
    BY <1>1, <1>2, <1>3, <1>4, <1>10
  <2>2. Usable' = Usable
    BY <1>1 DEF Usable, Run
  <2>3. Len((callee').env) + Len((callee').args) <= MaxSyms
    BY <1>1, <1>4, <1>8, <1>10
  <2> QED BY <1>1, <1>8, <2>1, <2>2, <2>3 DEF CallInv
<1>12. LayoutInv'
  BY <1>1, <1>2, <1>7, <1>9, <1>11 DEF LayoutInv
<1>13. ASSUME InOrder, ValueInv PROVE ValueInv'
  <2>1. Mapped(frames, stack_map) /\ Held(frames, stack) /\ sp <= MaxSp
    BY <1>2, <1>13 DEF ValueInv
  <2>2. Mapped(Append(frames, r), stack_map) /\ Held(Append(frames, r), stack)
    BY <1>2, <1>6, <2>1, PushKeeps
  <2>3. OrderInv'
    <3>1. \A n \in DOMAIN args : args[n].kind = "sym" => args[n].x >= 0 + n - 1
      BY <1>10, <1>13 DEF InOrder
    <3> QED BY <1>1, <1>4, <1>8, <3>1 DEF OrderInv
  <2> QED BY <1>1, <1>7, <2>1, <2>2, <2>3 DEF ValueInv
<1> QED BY <1>12, <1>13

(* push_call_arg. *)
LEMMA ArgKeeps ==
  ASSUME LayoutInv, push_call_arg
  PROVE  LayoutInv' /\ (InByte /\ ValueInv => ValueInv')
<1> DEFINE L == Len(frames)
           F == Append(frames, Rec(callee))
           a == Head(callee.args)
           K == Len(callee.env)
           e == Entry(ArgMeant(a), ArgSize(a), sp)
<1>1. /\ pc = "args" /\ callee.args # <<>> /\ sp + ArgSize(a) <= MaxSp
      /\ stack_map' = [stack_map EXCEPT ![K] = to_char(sp)] /\ sp' = sp + ArgSize(a)
      /\ stack' = Write(stack, stack_map'[K], ArgSize(a), ArgEval(a))
      /\ callee' = [callee EXCEPT !.args = Tail(@), !.env = Append(@, e)]
      /\ UNCHANGED <<frames, pc>>
  BY DEF push_call_arg, push
<1>2. /\ frames \in Seq(Frames) /\ frames # <<>> /\ stack_map \in Maps /\ sp \in Nat
      /\ Active = F /\ Layout(F, sp) /\ CallInv
  BY <1>1 DEF LayoutInv, Active
<1>3. /\ callee \in [args : Seq(Args), bp : Nat, map : Maps, env : Seq(Entries), dest : Int]
      /\ callee.args \in Seq(Args) /\ callee.env \in Seq(Entries) /\ K \in Nat
      /\ K + Len(callee.args) <= MaxSyms /\ Len(callee.args) \in Nat \ {0} /\ MaxSyms \in Nat
  BY <1>1, <1>2, BoundsAssumption DEF CallInv
<1>4. a \in Args /\ a = callee.args[1] /\ 1 \in DOMAIN callee.args
  BY <1>1, <1>3
<1>5. K < MaxSyms /\ K \in 0 .. MaxSyms - 1
  <2>1. PICK c \in Nat \ {0} : c = Len(callee.args)
    BY <1>3
  <2> QED BY <1>3, <2>1
<1>6. /\ L \in Nat \ {0} /\ Len(F) = L + 1 /\ DOMAIN F = 1 .. L + 1 /\ F[L + 1] = Rec(callee)
      /\ \A f \in 1 .. L : F[f] = frames[f]
  BY <1>2
<1>7. L \in DOMAIN F /\ F[L] = Run /\ L + 1 \in DOMAIN F
  <2> HIDE DEF F, L
  <2>1. L \in 1 .. L /\ L \in 1 .. L + 1 /\ L + 1 \in 1 .. L + 1
    BY <1>6
  <2> QED BY <1>6, <2>1 DEF Run, L
<1>8. F[L + 1].env = callee.env /\ F[L + 1].map = callee.map
  BY <1>6 DEF Rec
<1> HIDE DEF F, L
<1>9. ASSUME a.kind = "sym"
      PROVE  /\ a.x \in 0 .. Len(Run.env) - 1 /\ Len(Run.env) \in Nat /\ a.x + 1 \in DOMAIN Run.env
             /\ Run.env[a.x + 1] \in Entries /\ Run.env[a.x + 1].val # Undef
             /\ Var(Run.env, a.x) = Run.env[a.x + 1] /\ Len(Run.env) <= MaxSyms
  <2>1. a.x \in Usable
    BY <1>2, <1>4, <1>9 DEF CallInv
  <2>2. Run.env \in Seq(Entries) /\ Len(Run.env) \in Nat /\ DOMAIN Run.env = 1 .. Len(Run.env)
    BY <1>2, <1>7, LayoutTyped
  <2>3. a.x \in 0 .. Len(Run.env) - 1 /\ Var(Run.env, a.x).val # Undef
    BY <2>1 DEF Usable, Vars
  <2>4. a.x + 1 \in DOMAIN Run.env
    BY <2>2, <2>3
  <2>5. Len(Run.env) <= MaxSyms
    BY <1>2, <1>7 DEF Layout, EnvOK
  <2> QED BY <2>2, <2>3, <2>4, <2>5 DEF Var
<1>10. ArgSize(a) \in Nat \ {0} /\ ArgMeant(a) \in Vals
  <2>1. CASE a.kind = "imm"
    BY <1>4, <2>1 DEF Args, ArgSize, ArgMeant
  <2>2. CASE a.kind = "sym"
    <3>1. PICK d \in Entries : d = Run.env[a.x + 1]
      BY <1>9, <2>2
    <3>2. d.val # Undef /\ ArgSize(a) = d.size /\ ArgMeant(a) = d.val
      BY <1>9, <2>2, <3>1 DEF ArgSize, ArgMeant
    <3>3. d.size \in Nat \ {0} /\ d.val \in Vals
      BY <3>2 DEF Entries
    <3> QED BY <3>2, <3>3
  <2> QED BY <1>4, <2>1, <2>2 DEF Args
<1>11. e \in Entries /\ e.at = sp /\ e.size = ArgSize(a) /\ e.val = ArgMeant(a)
  BY <1>2, <1>10 DEF Entry, Entries
<1> HIDE DEF e, a
<1>12. /\ (callee').args = Tail(callee.args) /\ (callee').env = Append(callee.env, e)
       /\ (callee').bp = callee.bp /\ (callee').map = callee.map /\ (callee').dest = callee.dest
       /\ callee' \in [args : Seq(Args), bp : Nat, map : Maps, env : Seq(Entries), dest : Int]
  <2>1. Tail(callee.args) \in Seq(Args)
    BY <1>1, <1>3
  <2>2. Append(callee.env, e) \in Seq(Entries)
    BY <1>3, <1>11
  <2>3. PICK T \in Seq(Args) : T = Tail(callee.args)
    BY <2>1
  <2>4. PICK E \in Seq(Entries) : E = Append(callee.env, e)
    BY <2>2
  <2>5. callee' = [callee EXCEPT !.args = T, !.env = E]
    BY <1>1, <2>3, <2>4
  <2>6. PICK c \in [args : Seq(Args), bp : Nat, map : Maps, env : Seq(Entries), dest : Int] : c = callee
    BY <1>3
  <2>7. callee' = [c EXCEPT !.args = T, !.env = E]
    BY <2>5, <2>6
  <2>8. callee' \in [args : Seq(Args), bp : Nat, map : Maps, env : Seq(Entries), dest : Int]
    BY <2>7
  <2>9. /\ (callee').args = T /\ (callee').env = E
        /\ (callee').bp = c.bp /\ (callee').map = c.map /\ (callee').dest = c.dest
    BY <2>7
  <2> QED BY <2>3, <2>4, <2>6, <2>8, <2>9
<1> DEFINE G == Append(frames, Rec(callee'))
<1>13. Active' = G
  BY <1>1 DEF Active, Rec
<1>14. SameBut(F, G, Append(F[Len(F)].env, e))
  <2>1. Rec(callee') \in Frames
    BY <1>12 DEF Rec, Frames
  <2>2. /\ G \in Seq(Frames) /\ Len(G) = L + 1 /\ G[L + 1] = Rec(callee')
        /\ \A f \in 1 .. L : G[f] = frames[f]
    BY <1>2, <2>1 DEF L
  <2>3. /\ G[L + 1].bp = F[L + 1].bp /\ G[L + 1].map = F[L + 1].map /\ G[L + 1].dest = F[L + 1].dest
        /\ G[L + 1].env = Append(F[L + 1].env, e)
    BY <1>6, <1>12, <2>2 DEF Rec
  <2>4. \A f \in 1 .. (L + 1) - 1 : G[f] = F[f]
    <3>1. \A f \in 1 .. (L + 1) - 1 : f \in 1 .. L
      BY <1>6
    <3> QED BY <1>6, <2>2, <3>1
  <2> HIDE DEF G
  <2> QED BY <1>6, <2>2, <2>3, <2>4 DEF SameBut
<1> HIDE DEF G
<1>15. Len(F[Len(F)].env) = K
  BY <1>6, <1>8
<1>16. Layout(G, sp')
  BY <1>1, <1>2, <1>5, <1>11, <1>14, <1>15, GrowKeeps
<1>17. stack_map' \in Maps /\ sp' \in Nat
  <2>1. to_char(sp) \in Int
    BY <1>2, CharKeeps
  <2>2. PICK i \in Int : i = to_char(sp)
    BY <2>1
  <2>3. stack_map' = [stack_map EXCEPT ![K] = i]
    BY <1>1, <2>2
  <2>4. stack_map' \in Maps
    BY <1>2, <2>3 DEF Maps
  <2>5. PICK z \in Nat : z = ArgSize(a)
    BY <1>10
  <2>6. sp' \in Nat
    BY <1>1, <1>2, <2>5
  <2> QED BY <2>4, <2>6
<1>18. /\ Len((callee').env) = K + 1
       /\ Len((callee').args) = Len(callee.args) - 1 /\ DOMAIN (callee').args = 1 .. Len(callee.args) - 1
       /\ \A n \in DOMAIN (callee').args : (callee').args[n] = callee.args[n + 1] /\ n + 1 \in DOMAIN callee.args
  BY <1>1, <1>3, <1>12
<1>19. CallInv'
  <2>1. Usable' = Usable
    BY <1>1 DEF Usable, Run
  <2>2. Len((callee').env) + Len((callee').args) <= MaxSyms
    <3>1. PICK c \in Nat \ {0} : c = Len(callee.args)
      BY <1>3
    <3> QED BY <1>3, <1>18, <3>1
  <2>3. ASSUME NEW n \in DOMAIN (callee').args, (callee').args[n].kind = "sym"
        PROVE  (callee').args[n].x \in Usable'
    <3>1. (callee').args[n] = callee.args[n + 1] /\ n + 1 \in DOMAIN callee.args
      BY <1>18, <2>3
    <3>2. CallInv
      BY <1>2
    <3> QED BY <2>1, <2>3, <3>1, <3>2 DEF CallInv
  <2>4. callee' \in [args : Seq(Args), bp : Nat, map : Maps, env : Seq(Entries), dest : Int]
    BY <1>12
  <2> QED BY <2>2, <2>3, <2>4, Zenon DEF CallInv
<1>20. LayoutInv'
  BY <1>1, <1>2, <1>13, <1>16, <1>17, <1>19 DEF LayoutInv
<1>21. ASSUME InByte, ValueInv PROVE ValueInv'
  <2>1. sp \in 0 .. 127 /\ sp' <= MaxSp
    <3>1. sp + ArgSize(a) <= MaxSp /\ MaxSp \in Nat /\ MaxSp <= 128 /\ sp \in Nat /\ ArgSize(a) \in Nat \ {0}
      BY <1>1, <1>2, <1>10, <1>21, BoundsAssumption DEF InByte
    <3>2. sp \in 0 .. 127
      BY <3>1
    <3> QED BY <1>1, <3>2
  <2>2. stack_map' = [stack_map EXCEPT ![K] = sp]
    BY <1>1, <2>1, CharKeeps
  <2>3. /\ stack_map'[K] = sp /\ DOMAIN stack_map = 0 .. MaxSyms - 1
        /\ \A x \in 0 .. MaxSyms - 1 : x # K => stack_map'[x] = stack_map[x]
    BY <1>2, <1>5, <2>2 DEF Maps
  <2>4. Mapped(F, stack_map) /\ Held(F, stack) /\ OrderInv
    BY <1>1, <1>2, <1>21 DEF ValueInv
  <2>5. ArgEval(a) = ArgMeant(a)
    <3>1. CASE a.kind = "imm"
      BY <3>1 DEF ArgEval, ArgMeant
    <3>2. CASE a.kind = "sym"
      <4>1. PICK d \in Entries : d = Run.env[a.x + 1]
        BY <1>9, <3>2
      <4>2. d.val # Undef /\ ArgSize(a) = d.size /\ ArgMeant(a) = d.val
        BY <1>9, <3>2, <4>1 DEF ArgSize, ArgMeant
      <4>3. a.x \in K .. MaxSyms - 1
        <5>1. a.x >= K + 1 - 1
          BY <1>4, <2>4, <3>2 DEF OrderInv, a
        <5> QED BY <1>3, <1>9, <3>2, <5>1
      <4>4. stack_map[a.x] = callee.map[a.x]
        BY <2>4, <4>3 DEF OrderInv
      <4>5. L < Len(F) /\ MapAt(F, stack_map, L) = callee.map
        BY <1>6, <1>8 DEF MapAt
      <4>6. (a.x + 1) - 1 = a.x
        BY <1>9, <3>2
      <4>7. callee.map[a.x] = d.at
        BY <1>7, <1>9, <2>4, <3>2, <4>1, <4>5, <4>6 DEF Mapped
      <4>8. Holds(stack, d)
        BY <1>7, <1>9, <2>4, <3>2, <4>1 DEF Held
      <4>9. get(stack, d.at, d.size) = d.val
        BY <4>2, <4>8, GetHeld
      <4> QED BY <3>2, <4>2, <4>4, <4>7, <4>9 DEF ArgEval
    <3> QED BY <1>4, <3>1, <3>2 DEF Args
  <2>6. Mapped(G, stack_map')
    BY <1>2, <1>5, <1>11, <1>14, <1>15, <2>2, <2>4, MappedGrow
  <2>7. Held(G, stack')
    <3>1. stack' = Write(stack, sp, e.size, e.val)
      BY <1>1, <1>11, <2>3, <2>5
    <3> QED BY <1>2, <1>11, <1>14, <2>4, <3>1, HeldGrow
  <2>8. OrderInv'
    <3>1. ASSUME NEW x \in K + 1 .. MaxSyms - 1 PROVE stack_map'[x] = callee.map[x]
      <4>1. x \in K .. MaxSyms - 1 /\ x \in 0 .. MaxSyms - 1 /\ x # K
        BY <1>3
      <4> QED BY <2>3, <2>4, <4>1 DEF OrderInv
    <3>2. ASSUME NEW n \in DOMAIN (callee').args, (callee').args[n].kind = "sym"
          PROVE  (callee').args[n].x >= (K + 1) + n - 1
      <4>1. /\ (callee').args[n] = callee.args[n + 1] /\ n + 1 \in DOMAIN callee.args /\ n \in Nat
            /\ callee.args[n + 1].x >= K + (n + 1) - 1
        BY SMTT(30), <1>3, <1>18, <2>4, <3>2 DEF OrderInv
      <4>2. K + (n + 1) - 1 = (K + 1) + n - 1
        BY <1>3, <4>1
      <4> QED BY <4>1, <4>2
    <3> QED BY <1>12, <1>18, <3>1, <3>2 DEF OrderInv
  <2> QED BY <1>13, <2>1, <2>6, <2>7, <2>8 DEF ValueInv
<1> QED BY <1>20, <1>21

(* The body of the callee begins: the same frames. *)
LEMMA BodyKeeps ==
  ASSUME LayoutInv, fun_eval
  PROVE  LayoutInv' /\ (ValueInv => ValueInv')
<1>1. /\ pc = "args" /\ pc' = "run" /\ frames' = Append(frames, Rec(callee))
      /\ UNCHANGED <<stack, stack_map, sp>>
  BY DEF fun_eval, Rec
<1>2. Active = Append(frames, Rec(callee)) /\ Active' = frames'
  BY <1>1 DEF Active
<1>3. Layout(frames', sp) /\ sp \in Nat /\ stack_map \in Maps
  BY <1>1, <1>2 DEF LayoutInv
<1>4. frames' \in Seq(Frames) /\ frames' # <<>>
  BY <1>3 DEF Layout
<1>5. LayoutInv'
  BY <1>1, <1>2, <1>3, <1>4 DEF LayoutInv
<1>6. ASSUME ValueInv PROVE ValueInv'
  BY <1>1, <1>2, <1>6 DEF ValueInv
<1> QED BY <1>5, <1>6

(* eval_ret, and the store of the value it returns. *)
LEMMA RetKeeps ==
  ASSUME LayoutInv, NEW v \in Vals, eval_ret(v)
  PROVE  LayoutInv' /\ (ValueInv => ValueInv')
<1> DEFINE L == Len(frames)
<1>1. /\ pc = "run" /\ L > 1 /\ sp' = Run.bp /\ stack_map' = Run.map /\ UNCHANGED <<pc, callee>>
  BY DEF eval_ret
<1>2. /\ Active = frames /\ Layout(frames, sp) /\ sp \in Nat /\ Run = frames[L]
      /\ L \in Nat \ {0} /\ L \in DOMAIN frames
  BY <1>1, Running
<1>3. Run.bp \in Nat /\ Run.map \in Maps /\ Run.dest \in Int /\ DOMAIN frames = 1 .. L /\ Run.bp <= sp
  BY <1>2, LayoutTyped DEF Layout, EnvOK
<1>4. Layout(Caller, Run.bp)
  BY <1>1, <1>2, PopLayout DEF Caller
<1>5. Mapped(frames, stack_map) /\ Held(frames, stack) => Mapped(Caller, Run.map) /\ Held(Caller, stack)
  BY <1>1, <1>2, PopKeeps DEF Caller
<1>6. /\ Len(Caller) = L - 1 /\ L - 1 \in 1 .. L - 1 /\ Caller[L - 1] = frames[L - 1]
      /\ L - 1 \in DOMAIN frames /\ (L - 1) + 1 = L
  <2>1. frames \in Seq(Frames) /\ frames # <<>>
    BY DEF LayoutInv
  <2>2. Len(Caller) = L - 1 /\ \A f \in 1 .. L - 1 : Caller[f] = frames[f]
    BY <2>1, FrontFacts DEF Caller
  <2> HIDE DEF L
  <2>3. L - 1 \in 1 .. L - 1 /\ L - 1 \in 1 .. L /\ (L - 1) + 1 = L
    BY <1>1, <1>2
  <2> QED BY <1>3, <2>2, <2>3
<1>7. Active' = frames' /\ pc' = "run"
  BY <1>1 DEF Active
<1>8. CASE Run.dest = NoDest
  <2>1. frames' = Caller /\ stack' = stack
    BY <1>8 DEF eval_ret
  <2>2. frames' \in Seq(Frames) /\ frames' # <<>>
    BY <1>4, <2>1 DEF Layout
  <2>3. LayoutInv'
    BY <1>1, <1>3, <1>4, <1>7, <2>1, <2>2 DEF LayoutInv
  <2>4. ASSUME ValueInv PROVE ValueInv'
    <3>1. sp' <= MaxSp
      <4>1. sp <= MaxSp /\ MaxSp \in Nat
        BY <2>4, BoundsAssumption DEF ValueInv
      <4> QED BY <1>1, <1>2, <1>3, <4>1
    <3> QED BY <1>1, <1>2, <1>5, <1>7, <2>1, <2>4, <3>1 DEF ValueInv
  <2> QED BY <2>3, <2>4
<1>9. CASE Run.dest # NoDest
  <2> DEFINE n == Run.dest + 1
             C == Len(Caller)
  <2>1. Run.dest \in Vars(frames[L - 1].env)
    BY <1>2, <1>6, <1>9 DEF Layout
  <2>2. n \in DOMAIN Caller[C].env /\ n - 1 = Run.dest
    <3>1. frames[L - 1].env \in Seq(Entries)
      BY <1>2, <1>6, LayoutTyped
    <3> QED BY <1>3, <1>6, <2>1, <3>1 DEF Vars
  <2>3. /\ frames' = [Caller EXCEPT ![C].env[n].val = v]
        /\ stack' = Write(stack, Run.map[Run.dest], Caller[C].env[n].size, v)
    BY <1>9 DEF eval_ret, set, Var
  <2> HIDE DEF n, C
  <2>4. /\ frames' \in Seq(Frames) /\ frames' # <<>> /\ Layout(frames', Run.bp)
        /\ Mapped(Caller, Run.map) =>
             /\ Mapped(frames', Run.map)
             /\ Held(Caller, stack) => Held(frames', Write(stack, Run.map[n - 1], Caller[C].env[n].size, v))
    <3>1. PICK F : F = Caller
      OBVIOUS
    <3>2. PICK top \in Nat : top = Run.bp
      BY <1>3
    <3>3. PICK map : map = Run.map
      OBVIOUS
    <3>4. PICK m : m = n
      OBVIOUS
    <3>5. Layout(F, top) /\ m \in DOMAIN F[Len(F)].env
      BY <1>4, <2>2, <3>1, <3>2, <3>4 DEF C
    <3>6. PICK mem : mem = stack
      OBVIOUS
    <3> DEFINE G == [F EXCEPT ![Len(F)].env[m].val = v]
    <3>7. /\ G \in Seq(Frames) /\ G # <<>> /\ Layout(G, top)
          /\ Mapped(F, map) =>
               /\ Mapped(G, map) /\ map[m - 1] = F[Len(F)].env[m].at
               /\ Held(F, mem) => Held(G, Write(mem, map[m - 1], F[Len(F)].env[m].size, v))
      BY ONLY <3>5, v \in Vals, top \in Nat, AssignKeeps, Zenon
    <3>8. frames' = G
      BY <2>3, <3>1, <3>4 DEF C
    <3> HIDE DEF G
    <3> QED BY <3>1, <3>2, <3>3, <3>4, <3>6, <3>7, <3>8 DEF C
  <2>5. LayoutInv'
    BY <1>1, <1>3, <1>7, <2>4 DEF LayoutInv
  <2>6. ASSUME ValueInv PROVE ValueInv'
    <3>1. sp' <= MaxSp
      <4>1. sp <= MaxSp /\ MaxSp \in Nat
        BY <2>6, BoundsAssumption DEF ValueInv
      <4> QED BY <1>1, <1>2, <1>3, <4>1
    <3>2. Mapped(frames, stack_map) /\ Held(frames, stack)
      BY <1>2, <2>6 DEF ValueInv
    <3>3. Mapped(frames', stack_map') /\ Held(frames', stack')
      BY <1>1, <1>5, <2>2, <2>3, <2>4, <3>2
    <3> QED BY <1>1, <1>7, <3>1, <3>3 DEF ValueInv
  <2> QED BY <2>5, <2>6
<1> QED BY <1>8, <1>9

(* The return of main, and steps that change nothing. *)
LEMMA EndKeeps ==
  ASSUME LayoutInv, MainRet \/ UNCHANGED vars
  PROVE  LayoutInv' /\ (ValueInv => ValueInv')
<1>1. CASE MainRet
  <2>1. /\ pc = "run" /\ pc' = "done" /\ UNCHANGED <<stack, stack_map, sp, frames, callee>>
    BY <1>1 DEF MainRet
  <2>2. Active = frames /\ Active' = frames
    BY <2>1 DEF Active
  <2>3. LayoutInv'
    BY <2>1, <2>2 DEF LayoutInv
  <2>4. ASSUME ValueInv PROVE ValueInv'
    BY <2>1, <2>2, <2>4 DEF ValueInv
  <2> QED BY <2>3, <2>4
<1>2. CASE UNCHANGED vars
  <2>1. /\ stack' = stack /\ stack_map' = stack_map /\ sp' = sp /\ frames' = frames
        /\ pc' = pc /\ callee' = callee
    BY <1>2 DEF vars
  <2>2. Active' = Active /\ (CallInv <=> CallInv') /\ (OrderInv <=> OrderInv')
    BY <2>1 DEF Active, CallInv, OrderInv, Usable, Run
  <2>3. LayoutInv'
    BY <2>1, <2>2 DEF LayoutInv
  <2>4. ASSUME ValueInv PROVE ValueInv'
    BY <2>1, <2>2, <2>4 DEF ValueInv
  <2> QED BY <2>3, <2>4
<1> QED BY <1>1, <1>2

(* Both invariants hold before main starts. *)
LEMMA InitKeeps ==
  ASSUME Init
  PROVE  LayoutInv /\ ValueInv
<1> DEFINE r == [bp |-> 0, map |-> ZeroMap, env |-> <<>>, dest |-> NoDest]
<1>1. stack_map = ZeroMap /\ sp = 0 /\ frames = <<r>> /\ pc = "run"
  BY DEF Init
<1>2. ZeroMap \in Maps
  BY DEF ZeroMap, Maps
<1>3. <<>> \in Seq(Entries) /\ Len(<<>>) = 0 /\ NoDest \in Int
  BY DEF NoDest
<1>4. r \in Frames
  BY <1>2, <1>3 DEF Frames
<1>5. r.bp = 0 /\ r.env = <<>>
  OBVIOUS
<1> HIDE DEF r
<1>6. frames \in Seq(Frames) /\ frames # <<>> /\ DOMAIN frames = {1} /\ frames[1] = r
  BY <1>1, <1>4
<1>7. EnvOK(r.env, r.bp, 0)
  BY <1>3, <1>5, BoundsAssumption DEF EnvOK
<1>8. Layout(frames, 0)
  BY <1>6, <1>7 DEF Layout
<1>9. Active = frames
  BY <1>1 DEF Active
<1>10. LayoutInv
  BY <1>1, <1>2, <1>6, <1>8, <1>9 DEF LayoutInv
<1>11. Mapped(frames, stack_map) /\ Held(frames, stack)
  BY <1>3, <1>5, <1>6 DEF Mapped, Held
<1> QED BY <1>1, <1>9, <1>10, <1>11, BoundsAssumption DEF ValueInv

(* Every step of the evaluator keeps the layout, and the values where no   *)
(* address leaves a char and no argument is overwritten before its turn.   *)
LEMMA NextKeeps ==
  ASSUME LayoutInv, [Next]_vars
  PROVE  LayoutInv' /\ (InByte /\ InOrder /\ ValueInv => ValueInv')
<1>1. ASSUME NEW size \in Sizes, eval_alloca(size)
      PROVE  LayoutInv' /\ (InByte /\ ValueInv => ValueInv')
  BY <1>1, AllocaKeeps
<1>2. ASSUME NEW s \in Vars(Run.env), NEW v \in Vals, eval_store_imm(s, v)
      PROVE  LayoutInv' /\ (ValueInv => ValueInv')
  BY <1>2, StoreKeeps
<1>3. ASSUME NEW to \in Vars(Run.env), NEW from \in Usable, eval_store_sym(to, from)
      PROVE  LayoutInv' /\ (ValueInv => ValueInv')
  BY <1>3, StoreKeeps
<1>4. ASSUME NEW args \in ArgLists, NEW dest \in Vars(Run.env) \union {NoDest}, CallStart(args, dest)
      PROVE  LayoutInv' /\ (InOrder /\ ValueInv => ValueInv')
  BY <1>4, CallKeeps
<1>5. ASSUME push_call_arg PROVE LayoutInv' /\ (InByte /\ ValueInv => ValueInv')
  BY <1>5, ArgKeeps
<1>6. ASSUME fun_eval PROVE LayoutInv' /\ (ValueInv => ValueInv')
  BY <1>6, BodyKeeps
<1>7. ASSUME NEW v \in Vals, eval_ret(v) PROVE LayoutInv' /\ (ValueInv => ValueInv')
  BY <1>7, RetKeeps
<1>8. ASSUME MainRet \/ UNCHANGED vars PROVE LayoutInv' /\ (ValueInv => ValueInv')
  BY <1>8, EndKeeps
<1> QED BY <1>1, <1>2, <1>3, <1>4, <1>5, <1>6, <1>7, <1>8 DEF Next

------------------------------------------------------------------------------

(* eval.c: the variables of the active functions, and the arguments being  *)
(* pushed, follow one another in the stack from bottom to sp, each frame's *)
(* above its bp, whatever sequence of allocations, calls and returns led   *)
(* there.                                                                  *)
THEOREM LayoutInvariance == Spec => []LayoutInv
<1>1. Init => LayoutInv
  BY InitKeeps
<1>2. LayoutInv /\ [Next]_vars => LayoutInv'
  BY NextKeeps
<1> QED BY <1>1, <1>2, PTL DEF Spec

(* push, eval_ret: no two variables of active functions share a byte, and   *)
(* all of them lie below sp.                                               *)
THEOREM Placement == Spec => []PlacesDisjoint
<1>1. LayoutInv => PlacesDisjoint
  <2> SUFFICES ASSUME LayoutInv, NEW f \in DOMAIN frames, NEW g \in DOMAIN frames,
                      NEW s \in Vars(frames[f].env), NEW t \in Vars(frames[g].env)
               PROVE  /\ Var(frames[f].env, s).at + Var(frames[f].env, s).size <= sp
                      /\ <<f, s>> # <<g, t>> =>
                           \/ Var(frames[f].env, s).at + Var(frames[f].env, s).size <= Var(frames[g].env, t).at
                           \/ Var(frames[g].env, t).at + Var(frames[g].env, t).size <= Var(frames[f].env, s).at
    BY DEF PlacesDisjoint
  <2>1. PICK A : A = Active
    OBVIOUS
  <2>2. Layout(A, sp) /\ sp \in Nat
    BY <2>1 DEF LayoutInv
  <2>3. f \in DOMAIN A /\ A[f] = frames[f] /\ g \in DOMAIN A /\ A[g] = frames[g]
    BY <2>1, ActiveFrames
  <2>4. s + 1 \in DOMAIN A[f].env /\ t + 1 \in DOMAIN A[g].env /\ s \in Int /\ t \in Int
    <3>1. A[f].env \in Seq(Entries) /\ A[g].env \in Seq(Entries)
      BY <2>2, <2>3, LayoutTyped
    <3> QED BY <2>3, <3>1 DEF Vars
  <2>5. End(A[f].env[s + 1]) <= sp
    BY <2>2, <2>3, <2>4 DEF Layout, EnvOK
  <2>6. ASSUME <<f, s>> # <<g, t>>
        PROVE  \/ End(A[f].env[s + 1]) <= A[g].env[t + 1].at
               \/ End(A[g].env[t + 1]) <= A[f].env[s + 1].at
    <3>1. ~(f = g /\ s + 1 = t + 1)
      BY <2>4, <2>6
    <3> QED BY <2>2, <2>3, <2>4, <3>1, Apart
  <2> QED BY <2>3, <2>5, <2>6 DEF End, Var
<1> QED BY <1>1, LayoutInvariance, PTL

(* eval_store, eval_call, eval_ret: where no address leaves a char and no  *)
(* argument is overwritten before its turn, every active function reads    *)
(* from a variable what it last assigned to it.                            *)
THEOREM ReadBack ==
  ASSUME InByte, InOrder
  PROVE  Spec => []ReadsLastWrite
<1>1. Init => LayoutInv /\ ValueInv
  BY InitKeeps
<1>2. LayoutInv /\ ValueInv /\ [Next]_vars => LayoutInv' /\ ValueInv'
  BY NextKeeps
<1>3. LayoutInv /\ ValueInv => ReadsLastWrite
  <2> SUFFICES ASSUME LayoutInv, ValueInv, NEW f \in DOMAIN frames, NEW s \in Vars(frames[f].env),
                      Var(frames[f].env, s).val # Undef
               PROVE  get(stack, MapOf(f)[s], Var(frames[f].env, s).size) = Var(frames[f].env, s).val
    BY DEF ReadsLastWrite
  <2>1. PICK A : A = Active
    OBVIOUS
  <2>2. Layout(A, sp) /\ sp \in Nat /\ Mapped(A, stack_map) /\ Held(A, stack)
    BY <2>1 DEF LayoutInv, ValueInv
  <2>3. f \in DOMAIN A /\ A[f] = frames[f] /\ MapAt(A, stack_map, f) = MapOf(f)
    BY <2>1, ActiveFrames
  <2>4. s + 1 \in DOMAIN A[f].env /\ s \in Int /\ (s + 1) - 1 = s
    <3>1. A[f].env \in Seq(Entries)
      BY <2>2, <2>3, LayoutTyped
    <3> QED BY <2>3, <3>1 DEF Vars
  <2>5. PICK e \in Entries : e = A[f].env[s + 1]
    BY <2>2, <2>3, <2>4, LayoutTyped
  <2>6. Holds(stack, e) /\ MapOf(f)[s] = e.at /\ Var(frames[f].env, s) = e
    BY <2>2, <2>3, <2>4, <2>5 DEF Held, Mapped, Var
  <2> QED BY <2>6, GetHeld
<1> QED BY <1>1, <1>2, <1>3, PTL DEF Spec

====
