---- MODULE AnalProofs ----
(***************************************************************************)
(* Theorems about Anal: for programs of any size the storages of the       *)
(* analyses see the scopes of the language, and warnings and type errors   *)
(* are exact.                                                              *)
(*                                                                         *)
(* ana_var_usage.  Sees(var, env): the one map holds exactly the           *)
(* declarations of all open scopes, a name in one scope at most, each      *)
(* record with its scope's depth and a count of reads that is 0 if nothing *)
(* read it.  Frames says how many scopes stand for each open block, so     *)
(* that closing a block leaves as many as opening it entered.              *)
(*                                                                         *)
(* ana_type has fewer scopes (none around a for) and more records          *)
(* (parameters of callees, variables of loops that have ended), so its     *)
(* storage does not see scopes in this sense.  Typing says what it has: a  *)
(* record of every name in scope, with its type, no deeper than Level(k)   *)
(* if the name was declared with k blocks open, which is why end_scope     *)
(* does not remove it too early.  Due accounts for what ana_type judges    *)
(* late: as long as it has found no error the only wrong types are those   *)
(* of conditions of do-whiles that are still open.                         *)
(***************************************************************************)
EXTENDS Anal, SequenceTheorems, FiniteSetTheorems, WellFoundedInduction, TLAPS

------------------------------------------------------------------------------
(* A storage and the scopes it stands for.                                 *)

IsRecord(r) ==
  /\ r = [kind |-> r.kind, dt |-> r.dt, depth |-> r.depth, reads |-> r.reads, writes |-> r.writes]
  /\ r.depth \in Int /\ r.reads \in Nat /\ r.writes \in Nat

IsDecls(f) == f = [m \in DOMAIN f |-> f[m]] /\ \A m \in DOMAIN f : IsRecord(f[m])

IsStore(s) ==
  s = [depth |-> s.depth, decls |-> s.decls] /\ s.depth \in Int /\ IsDecls(s.decls)

IsMark(r) == r = [kind |-> r.kind, dt |-> r.dt, read |-> r.read] /\ r.read \in BOOLEAN

IsScope(h) == h = [m \in DOMAIN h |-> h[m]] /\ \A m \in DOMAIN h : IsMark(h[m])

IsSeq(e) == \E S : e \in Seq(S)

IsEnv(e) == IsSeq(e) /\ \A d \in 1 .. Len(e) : IsScope(e[d])

(* A record and the language's view of the same declaration, in scope d.   *)
Alike(r, x, d) == r.depth = d /\ r.kind = x.kind /\ (r.reads = 0 <=> ~x.read)

(* Every record belongs to a scope, and every declaration has its record.  *)
Placed(f, e) == \A m \in DOMAIN f : f[m].depth \in 1 .. Len(e) /\ m \in DOMAIN e[f[m].depth]
Recorded(f, h, d) == \A m \in DOMAIN h : m \in DOMAIN f /\ Alike(f[m], h[m], d)

Sees(s, e) ==
  /\ IsStore(s) /\ IsEnv(e) /\ s.depth = Len(e)
  /\ Placed(s.decls, e)
  /\ \A d \in 1 .. Len(e) : Recorded(s.decls, e[d], d)

------------------------------------------------------------------------------
(* What the operations do to storages and scopes, point by point.          *)

LEMMA Domains ==
  ASSUME NEW e, IsSeq(e)
  PROVE  Len(e) \in Nat /\ DOMAIN e = 1 .. Len(e)
BY DEF IsSeq

LEMMA MakeSeq ==
  ASSUME NEW w \in Nat, NEW f, f = [d \in 1 .. w |-> f[d]]
  PROVE  IsSeq(f) /\ Len(f) = w
<1> DEFINE S == {f[d] : d \in 1 .. w}
<1>1. f \in [1 .. w -> S]
  OBVIOUS
<1> HIDE DEF S
<1>2. f \in Seq(S) /\ Len(f) = w
  BY <1>1, SeqDef, LenProperties
<1> QED BY <1>2 DEF IsSeq

(* A name of a storage is in one scope, the one its record says. *)
LEMMA OneScope ==
  ASSUME NEW s, NEW e, Sees(s, e), NEW m
  PROVE  /\ declared(s, m) <=> m \in DOMAIN s.decls
         /\ m \in DOMAIN s.decls =>
              /\ s.decls[m].depth \in 1 .. Len(e)
              /\ {d \in DOMAIN e : m \in DOMAIN e[d]} = {s.decls[m].depth}
              /\ Max({d \in DOMAIN e : m \in DOMAIN e[d]}) = s.decls[m].depth
         /\ m \notin DOMAIN s.decls => {d \in DOMAIN e : m \in DOMAIN e[d]} = {}
<1>1. Len(e) \in Nat /\ DOMAIN e = 1 .. Len(e)
  BY Domains DEF Sees, IsEnv
<1>2. s.depth = Len(e)
  BY DEF Sees
<1>3. m \in DOMAIN s.decls => s.decls[m].depth \in 1 .. Len(e) /\ m \in DOMAIN e[s.decls[m].depth]
  BY DEF Sees, Placed
<1>4. \A d \in 1 .. Len(e) : m \in DOMAIN e[d] => m \in DOMAIN s.decls /\ s.decls[m].depth = d
  BY DEF Sees, Recorded, Alike
<1>5. declared(s, m) <=> m \in DOMAIN s.decls
  BY <1>1, <1>2, <1>3 DEF declared
<1>6. m \in DOMAIN s.decls => {d \in DOMAIN e : m \in DOMAIN e[d]} = {s.decls[m].depth}
  BY <1>1, <1>3, <1>4
<1>7. m \in DOMAIN s.decls => Max({d \in DOMAIN e : m \in DOMAIN e[d]}) = s.decls[m].depth
  BY <1>1, <1>3, <1>6 DEF Max
<1> QED BY <1>1, <1>3, <1>4, <1>5, <1>6, <1>7

LEMMA SeesThen ==
  ASSUME NEW s, NEW e, IsStore(s), IsEnv(e), s.depth = Len(e), Placed(s.decls, e),
         \A d \in 1 .. Len(e) : Recorded(s.decls, e[d], d)
  PROVE  Sees(s, e)
BY DEF Sees

LEMMA StoreThen ==
  ASSUME NEW s, NEW w \in Int, NEW f, IsDecls(f), s = [depth |-> w, decls |-> f]
  PROVE  IsStore(s) /\ s.depth = w /\ s.decls = f
<1>1. s.depth = w /\ s.decls = f
  OBVIOUS
<1> QED BY <1>1 DEF IsStore

(* e with its scope d replaced. *)
LEMMA Replaced ==
  ASSUME NEW e, IsEnv(e), NEW d \in 1 .. Len(e), NEW h, IsScope(h)
  PROVE  /\ IsEnv([e EXCEPT ![d] = h]) /\ Len([e EXCEPT ![d] = h]) = Len(e)
         /\ [e EXCEPT ![d] = h][d] = h
         /\ \A k \in 1 .. Len(e) : k # d => [e EXCEPT ![d] = h][k] = e[k]
<1> DEFINE g == [e EXCEPT ![d] = h]
<1>1. Len(e) \in Nat /\ DOMAIN e = 1 .. Len(e)
  BY Domains DEF IsEnv
<1>2. g = [k \in 1 .. Len(e) |-> g[k]]
  BY <1>1
<1>3. g[d] = h /\ \A k \in 1 .. Len(e) : k # d => g[k] = e[k]
  BY <1>1
<1> HIDE DEF g
<1>4. IsSeq(g) /\ Len(g) = Len(e)
  BY <1>1, <1>2, MakeSeq
<1>5. IsEnv(g)
  BY <1>3, <1>4 DEF IsEnv
<1> QED BY <1>3, <1>4, <1>5 DEF g

------------------------------------------------------------------------------
(* The storage goes on seeing the scopes, operation by operation.          *)

(* A declaration in the innermost scope. *)
LEMMA Pushed ==
  ASSUME NEW s, NEW e, Sees(s, e), Len(e) > 0, NEW m, NEW kind, NEW dt, NEW dt2,
         m \in DOMAIN s.decls => s.decls[m].depth = s.depth
  PROVE  Sees(push(s, m, kind, dt), Bind(e, m, kind, dt2))
<1> DEFINE r == record(s, kind, dt)
           f == Put(s.decls, m, r)
           x == [kind |-> kind, dt |-> dt2, read |-> FALSE]
           w == Len(e)
           h == Put(e[w], m, x)
           g == [e EXCEPT ![w] = h]
<1>1. w \in Nat /\ w \in 1 .. w /\ s.depth = w /\ IsStore(s) /\ IsEnv(e)
  BY Domains DEF Sees, IsEnv
<1>2. IsRecord(r) /\ IsMark(x) /\ Alike(r, x, w) /\ r.depth = w
  BY <1>1 DEF record, IsRecord, IsMark, Alike
<1>3. /\ DOMAIN f = DOMAIN s.decls \union {m} /\ f[m] = r /\ f = [y \in DOMAIN f |-> f[y]]
      /\ \A y \in DOMAIN s.decls : y # m => f[y] = s.decls[y]
  <2> HIDE DEF r, x, h, g
  <2> QED BY DEF Put
<1>4. /\ DOMAIN h = DOMAIN e[w] \union {m} /\ h[m] = x /\ h = [y \in DOMAIN h |-> h[y]]
      /\ \A y \in DOMAIN e[w] : y # m => h[y] = e[w][y]
  <2> HIDE DEF r, x, f, g
  <2> QED BY DEF Put
<1>5. push(s, m, kind, dt) = [depth |-> w, decls |-> f] /\ Bind(e, m, kind, dt2) = g
  BY <1>1 DEF push, Bind, IsStore
<1> HIDE DEF r, x, f, h
<1>6. IsDecls(f)
  BY <1>1, <1>2, <1>3 DEF IsStore, IsDecls
<1>7. IsScope(h)
  BY <1>1, <1>2, <1>4 DEF IsEnv, IsScope
<1>8. IsEnv(g) /\ Len(g) = w /\ g[w] = h /\ \A k \in 1 .. w : k # w => g[k] = e[k]
  BY <1>1, <1>7, Replaced
<1> HIDE DEF g
<1>9. \A k \in 1 .. w : DOMAIN e[k] \subseteq DOMAIN g[k]
  BY <1>4, <1>8
<1>10. Placed(f, g)
  <2> SUFFICES ASSUME NEW y \in DOMAIN f
               PROVE  f[y].depth \in 1 .. w /\ y \in DOMAIN g[f[y].depth]
    BY <1>8 DEF Placed
  <2>1. CASE y = m
    BY <2>1, <1>1, <1>2, <1>3, <1>4, <1>8
  <2>2. CASE y # m
    <3>1. y \in DOMAIN s.decls /\ f[y] = s.decls[y]
      BY <2>2, <1>3
    <3>2. s.decls[y].depth \in 1 .. w /\ y \in DOMAIN e[s.decls[y].depth]
      BY <3>1 DEF Sees, Placed
    <3> QED BY <3>1, <3>2, <1>9
  <2> QED BY <2>1, <2>2
<1>11. ASSUME NEW d \in 1 .. w
       PROVE  Recorded(f, g[d], d)
  <2> SUFFICES ASSUME NEW y \in DOMAIN g[d]
               PROVE  y \in DOMAIN f /\ Alike(f[y], g[d][y], d)
    BY DEF Recorded
  <2>1. CASE y = m
    <3>1. d = w
      <4> SUFFICES ASSUME d # w PROVE FALSE
        OBVIOUS
      <4>1. y \in DOMAIN e[d]
        BY <1>8
      <4>2. y \in DOMAIN s.decls /\ s.decls[y].depth = d
        BY <4>1 DEF Sees, Recorded, Alike
      <4> QED BY <2>1, <4>2, <1>1
    <3> QED BY <2>1, <3>1, <1>2, <1>3, <1>4, <1>8
  <2>2. CASE y # m
    <3>1. y \in DOMAIN e[d] /\ g[d][y] = e[d][y]
      BY <2>2, <1>4, <1>8
    <3>2. y \in DOMAIN s.decls /\ Alike(s.decls[y], e[d][y], d)
      BY <3>1 DEF Sees, Recorded
    <3> QED BY <2>2, <3>1, <3>2, <1>3
  <2> QED BY <2>1, <2>2
<1>12. /\ IsStore(push(s, m, kind, dt)) /\ push(s, m, kind, dt).depth = w
       /\ push(s, m, kind, dt).decls = f
  <2>1. w \in Int
    BY <1>1
  <2> QED BY <1>5, <1>6, <2>1, StoreThen
<1> QED BY <1>5, <1>8, <1>10, <1>11, <1>12, SeesThen

(* The records are the same but for what a read counts, and the scopes the *)
(* same but for what was read.                                             *)
Counted(f2, f, g, e) ==
  /\ IsDecls(f2) /\ DOMAIN f2 = DOMAIN f
  /\ IsEnv(g) /\ Len(g) = Len(e)
  /\ \A d \in 1 .. Len(e) : DOMAIN g[d] = DOMAIN e[d]
  /\ \A y \in DOMAIN f : f2[y].depth = f[y].depth
  /\ \A d \in 1 .. Len(e) : \A y \in DOMAIN e[d] : Alike(f[y], e[d][y], d) => Alike(f2[y], g[d][y], d)

LEMMA Recounted ==
  ASSUME NEW s, NEW e, Sees(s, e), NEW s2, NEW f, NEW g, Counted(f, s.decls, g, e),
         s2 = [depth |-> s.depth, decls |-> f]
  PROVE  Sees(s2, g)
<1>1. IsEnv(g) /\ Len(g) = Len(e) /\ s.depth = Len(e) /\ s.depth \in Int /\ IsDecls(f)
  BY DEF Counted, Sees, IsStore
<1>2. IsStore(s2) /\ s2.depth = s.depth /\ s2.decls = f
  BY <1>1, StoreThen
<1>3. Placed(f, g)
  <2>1. \A y \in DOMAIN f : y \in DOMAIN s.decls /\ f[y].depth = s.decls[y].depth
    BY DEF Counted
  <2>2. \A y \in DOMAIN s.decls : s.decls[y].depth \in 1 .. Len(e) /\ y \in DOMAIN e[s.decls[y].depth]
    BY DEF Sees, Placed
  <2>3. \A d \in 1 .. Len(e) : DOMAIN g[d] = DOMAIN e[d]
    BY DEF Counted
  <2> QED BY <2>1, <2>2, <2>3, <1>1 DEF Placed
<1>4. ASSUME NEW d \in 1 .. Len(e), NEW y \in DOMAIN g[d]
      PROVE  y \in DOMAIN f /\ Alike(f[y], g[d][y], d)
  <2>1. y \in DOMAIN e[d]
    BY DEF Counted
  <2>2. y \in DOMAIN s.decls /\ Alike(s.decls[y], e[d][y], d)
    BY <2>1 DEF Sees, Recorded
  <2> QED BY <2>1, <2>2 DEF Counted
<1>5. \A d \in 1 .. Len(e) : Recorded(f, g[d], d)
  BY <1>4 DEF Recorded
<1> QED BY <1>1, <1>2, <1>3, <1>5, SeesThen

LEMMA SameScopes ==
  ASSUME NEW s, NEW e, Sees(s, e), NEW m \in DOMAIN s.decls
  PROVE  Sees(add_write_use(s, m), e)
<1> DEFINE f == [s.decls EXCEPT ![m].writes = @ + 1]
<1>1. IsDecls(s.decls) /\ IsEnv(e) /\ s = [depth |-> s.depth, decls |-> s.decls]
  BY DEF Sees, IsStore
<1>2. /\ DOMAIN f = DOMAIN s.decls /\ f = [y \in DOMAIN f |-> f[y]]
      /\ \A y \in DOMAIN f : y # m => f[y] = s.decls[y]
      /\ f[m] = [s.decls[m] EXCEPT !.writes = @ + 1]
  BY <1>1 DEF IsDecls
<1>3. add_write_use(s, m) = [depth |-> s.depth, decls |-> f]
  BY <1>1 DEF add_write_use
<1> HIDE DEF f
<1>4. IsRecord(s.decls[m])
  BY <1>1 DEF IsDecls
<1>5. /\ IsRecord(f[m]) /\ f[m].depth = s.decls[m].depth
      /\ f[m].reads = s.decls[m].reads /\ f[m].kind = s.decls[m].kind
  BY <1>4, <1>2 DEF IsRecord
<1>6. \A y \in DOMAIN f : IsRecord(f[y])
  BY <1>1, <1>2, <1>5 DEF IsDecls
<1>7. ASSUME NEW d \in 1 .. Len(e), NEW y \in DOMAIN e[d], Alike(s.decls[y], e[d][y], d)
      PROVE  Alike(f[y], e[d][y], d)
  <2>1. y \in DOMAIN f
    BY <1>2 DEF Sees, Recorded
  <2> QED BY <1>2, <1>5, <1>7, <2>1 DEF Alike
<1>8. IsDecls(f)
  BY <1>2, <1>6 DEF IsDecls
<1>9. \A y \in DOMAIN s.decls : f[y].depth = s.decls[y].depth
  BY <1>2, <1>5
<1>10. Counted(f, s.decls, e, e)
  BY <1>1, <1>2, <1>7, <1>8, <1>9 DEF Counted
<1> QED BY <1>3, <1>10, Recounted

LEMMA UsesIs ==
  ASSUME NEW args, IsSeq(args), NEW m
  PROVE  Uses(args, m) \in Nat /\ (Uses(args, m) = 0 <=> m \notin Range(args))
<1> DEFINE K == {k \in DOMAIN args : args[k] = m}
<1>1. DOMAIN args = 1 .. Len(args) /\ Len(args) \in Nat
  BY Domains
<1>2. IsFiniteSet(1 .. Len(args))
  BY <1>1, FS_Interval
<1>3. IsFiniteSet(K)
  BY <1>1, <1>2, FS_Subset
<1>4. Cardinality(K) \in Nat /\ (Cardinality(K) = 0 <=> K = {})
  BY <1>3, FS_CardinalityType, FS_EmptySet
<1>5. K = {} <=> m \notin Range(args)
  BY DEF Range
<1> QED BY <1>4, <1>5 DEF Uses

(* The name m counts as read once more, wherever it is declared. *)
ReadMore(f2, f, g, e, used) ==
  /\ IsDecls(f2) /\ DOMAIN f2 = DOMAIN f
  /\ IsEnv(g) /\ Len(g) = Len(e)
  /\ \A d \in 1 .. Len(e) : DOMAIN g[d] = DOMAIN e[d]
  /\ \A y \in DOMAIN f : f2[y].depth = f[y].depth /\ f2[y].kind = f[y].kind
                         /\ (f2[y].reads = 0 <=> f[y].reads = 0 /\ y \notin used)
  /\ \A d \in 1 .. Len(e) : \A y \in DOMAIN e[d] : f[y].depth = d =>
       g[d][y].kind = e[d][y].kind /\ (g[d][y].read <=> e[d][y].read \/ y \in used)

LEMMA ReadsMore ==
  ASSUME NEW s, NEW e, Sees(s, e), NEW s2, NEW f, NEW g, NEW used,
         ReadMore(f, s.decls, g, e, used), s2 = [depth |-> s.depth, decls |-> f]
  PROVE  Sees(s2, g)
<1>1. ASSUME NEW d \in 1 .. Len(e), NEW y \in DOMAIN e[d], Alike(s.decls[y], e[d][y], d)
      PROVE  Alike(f[y], g[d][y], d)
  <2>1. y \in DOMAIN s.decls /\ s.decls[y].depth = d /\ s.decls[y].kind = e[d][y].kind
    BY <1>1 DEF Sees, Recorded, Alike
  <2>2. s.decls[y].reads = 0 <=> ~e[d][y].read
    BY <1>1 DEF Alike
  <2>3. f[y].depth = d /\ f[y].kind = g[d][y].kind
    BY <2>1 DEF ReadMore
  <2>4. f[y].reads = 0 <=> s.decls[y].reads = 0 /\ y \notin used
    BY <2>1 DEF ReadMore
  <2>5. g[d][y].read <=> e[d][y].read \/ y \in used
    BY <2>1 DEF ReadMore
  <2> QED BY <2>2, <2>3, <2>4, <2>5 DEF Alike
<1>2. Counted(f, s.decls, g, e)
  BY <1>1 DEF Counted, ReadMore
<1> QED BY <1>2, Recounted

LEMMA Used ==
  ASSUME NEW s, NEW e, Sees(s, e), NEW m \in DOMAIN s.decls
  PROVE  Sees(add_read_use(s, m), Read(e, m))
<1> DEFINE f == [s.decls EXCEPT ![m].reads = @ + 1]
           d == s.decls[m].depth
           h == [e[d] EXCEPT ![m].read = TRUE]
           g == [e EXCEPT ![d] = h]
<1>1. IsDecls(s.decls) /\ IsEnv(e) /\ s = [depth |-> s.depth, decls |-> s.decls]
  BY DEF Sees, IsStore
<1>2. d \in 1 .. Len(e) /\ m \in DOMAIN e[d]
  BY DEF Sees, Placed
<1>3. IsRecord(s.decls[m]) /\ IsScope(e[d]) /\ IsMark(e[d][m])
  BY <1>1, <1>2 DEF IsDecls, IsEnv, IsScope
<1>4. DOMAIN e = 1 .. Len(e)
  BY <1>1, Domains DEF IsEnv
<1>5. Read(e, m) = g
  <2>1. Max({k \in DOMAIN e : m \in DOMAIN e[k]}) = d
    BY OneScope, ZenonT(30)
  <2> HIDE DEF d, h
  <2>2. Read(e, m) = [e EXCEPT ![d][m].read = TRUE]
    BY <2>1 DEF Read
  <2> QED BY <2>2 DEF h
<1>6. add_read_use(s, m) = [depth |-> s.depth, decls |-> f]
  BY <1>1 DEF add_read_use
<1>7. /\ DOMAIN f = DOMAIN s.decls /\ f = [y \in DOMAIN f |-> f[y]]
      /\ \A y \in DOMAIN f : y # m => f[y] = s.decls[y]
      /\ f[m] = [s.decls[m] EXCEPT !.reads = @ + 1]
  BY <1>1 DEF IsDecls
<1>8. /\ DOMAIN h = DOMAIN e[d] /\ h = [y \in DOMAIN h |-> h[y]]
      /\ \A y \in DOMAIN h : y # m => h[y] = e[d][y]
      /\ h[m] = [e[d][m] EXCEPT !.read = TRUE]
  <2> HIDE DEF d
  <2> QED BY <1>2, <1>3 DEF IsScope
<1> HIDE DEF f, h
<1>9. /\ IsRecord(f[m]) /\ f[m].depth = s.decls[m].depth
      /\ f[m].reads # 0 /\ f[m].kind = s.decls[m].kind
  BY <1>3, <1>7 DEF IsRecord
<1>10. IsMark(h[m]) /\ h[m].read /\ h[m].kind = e[d][m].kind
  <2> HIDE DEF d
  <2> QED BY <1>3, <1>8 DEF IsMark
<1>11. IsScope(h)
  <2> HIDE DEF d
  <2> QED BY <1>3, <1>8, <1>10 DEF IsScope
<1>12. IsDecls(f)
  BY <1>1, <1>7, <1>9 DEF IsDecls
<1>13. IsEnv(g) /\ Len(g) = Len(e) /\ g[d] = h /\ \A k \in 1 .. Len(e) : k # d => g[k] = e[k]
  <2> HIDE DEF d
  <2> QED BY <1>1, <1>2, <1>11, Replaced
<1>14. /\ \A y \in DOMAIN s.decls : f[y].depth = s.decls[y].depth
       /\ \A y \in DOMAIN s.decls : f[y].kind = s.decls[y].kind
       /\ \A y \in DOMAIN s.decls : f[y].reads = 0 <=> s.decls[y].reads = 0 /\ y \notin {m}
  BY <1>7, <1>9
<1> HIDE DEF g
<1>15. ASSUME NEW k \in 1 .. Len(e), NEW y \in DOMAIN e[k], s.decls[y].depth = k
       PROVE  g[k][y].kind = e[k][y].kind /\ (g[k][y].read <=> e[k][y].read \/ y \in {m})
  <2>1. CASE y = m
    <3>1. k = d
      BY <2>1, <1>15
    <3> HIDE DEF d
    <3> QED BY <2>1, <3>1, <1>10, <1>13
  <2>2. CASE y # m
    <3> HIDE DEF d
    <3> QED BY <2>2, <1>8, <1>13
  <2> QED BY <2>1, <2>2
<1>16. \A k \in 1 .. Len(e) : DOMAIN g[k] = DOMAIN e[k]
  <2> HIDE DEF d
  <2> QED BY <1>8, <1>13
<1>17. ReadMore(f, s.decls, g, e, {m})
  BY <1>7, <1>12, <1>13, <1>14, <1>15, <1>16 DEF ReadMore
<1> QED BY <1>5, <1>6, <1>17, ReadsMore

(* A call reads its function and its arguments. *)
LEMMA ArgsUsed ==
  ASSUME NEW s, NEW e, Sees(s, e), NEW f, NEW args, IsSeq(args),
         f \in Builtins => args = <<>>, f \notin Builtins => f \in DOMAIN s.decls
  PROVE  Sees(var_fn_call(s, f, args), MarkRead(e, f, args))
<1> DEFINE used == Range(args) \union ({f} \ Builtins)
           last(m) == Max({d \in DOMAIN e : m \in DOMAIN e[d]})
           g == MarkRead(e, f, args)
           h == var_fn_call(s, f, args).decls
           u == add_read_use(s, f).decls
<1>1. /\ IsDecls(s.decls) /\ IsEnv(e) /\ s = [depth |-> s.depth, decls |-> s.decls]
      /\ DOMAIN e = 1 .. Len(e) /\ Len(e) \in Nat
  BY Domains DEF Sees, IsStore, IsEnv
<1>2. g = [d \in 1 .. Len(e) |-> [m \in DOMAIN e[d] |->
             IF m \in used /\ d = last(m) THEN [e[d][m] EXCEPT !.read = TRUE] ELSE e[d][m]]]
  BY <1>1 DEF MarkRead
<1>3. \A d \in 1 .. Len(e) : \A m \in DOMAIN e[d] : IsMark(e[d][m])
  BY <1>1 DEF IsEnv, IsScope
<1> HIDE DEF used, last, g
<1>4. ASSUME NEW d \in 1 .. Len(e)
      PROVE  /\ DOMAIN g[d] = DOMAIN e[d] /\ g[d] = [m \in DOMAIN g[d] |-> g[d][m]]
             /\ \A m \in DOMAIN e[d] : g[d][m] =
                  IF m \in used /\ d = last(m) THEN [e[d][m] EXCEPT !.read = TRUE] ELSE e[d][m]
  BY <1>2
<1>5. ASSUME NEW d \in 1 .. Len(e), NEW m \in DOMAIN e[d]
      PROVE  /\ IsMark(g[d][m]) /\ g[d][m].kind = e[d][m].kind
             /\ g[d][m].read <=> e[d][m].read \/ (m \in used /\ d = last(m))
  <2>1. IsMark(e[d][m])
    BY <1>3
  <2>2. g[d][m] = IF m \in used /\ d = last(m) THEN [e[d][m] EXCEPT !.read = TRUE] ELSE e[d][m]
    BY <1>4
  <2> QED BY <2>1, <2>2 DEF IsMark
<1>6. \A d \in 1 .. Len(e) : IsScope(g[d])
  BY <1>4, <1>5 DEF IsScope
<1>7. IsSeq(g) /\ Len(g) = Len(e)
  <2>1. g = [d \in 1 .. Len(e) |-> g[d]]
    BY <1>2
  <2> QED BY <2>1, <1>1, MakeSeq
<1>8. IsEnv(g)
  BY <1>6, <1>7 DEF IsEnv
<1>9. ASSUME NEW d \in 1 .. Len(e), NEW m \in DOMAIN e[d], s.decls[m].depth = d
      PROVE  g[d][m].kind = e[d][m].kind /\ (g[d][m].read <=> e[d][m].read \/ m \in used)
  <2>1. m \in DOMAIN s.decls
    BY DEF Sees, Recorded
  <2>2. last(m) = d
    <3>1. Max({k \in DOMAIN e : m \in DOMAIN e[k]}) = s.decls[m].depth
      BY <2>1, OneScope
    <3> QED BY <1>9, <3>1 DEF last
  <2> QED BY <2>2, <1>5
<1>10. \A m : Uses(args, m) \in Nat /\ (Uses(args, m) = 0 <=> m \notin Range(args))
  BY UsesIs
<1>11. \A m \in DOMAIN s.decls : IsRecord(s.decls[m])
  BY <1>1 DEF IsDecls
<1>12. CASE f \notin Builtins
  <2>1. add_read_use(s, f) = [depth |-> s.depth, decls |-> u] /\ u = [s.decls EXCEPT ![f].reads = @ + 1]
    BY <1>1 DEF add_read_use
  <2>2. f \in DOMAIN s.decls
    BY <1>12
  <2> HIDE DEF u
  <2>3. /\ DOMAIN u = DOMAIN s.decls /\ u[f] = [s.decls[f] EXCEPT !.reads = @ + 1]
        /\ \A m \in DOMAIN u : m # f => u[m] = s.decls[m]
    BY <2>1, <2>2, <1>1 DEF IsDecls
  <2>4. IsRecord(s.decls[f])
    BY <2>2, <1>11
  <2>5. /\ IsRecord(u[f]) /\ u[f].depth = s.decls[f].depth /\ u[f].kind = s.decls[f].kind
        /\ u[f].reads # 0
    BY <2>3, <2>4 DEF IsRecord
  <2>6. /\ var_fn_call(s, f, args) = [depth |-> s.depth, decls |-> h]
        /\ h = [m \in DOMAIN u |-> [u[m] EXCEPT !.reads = @ + Uses(args, m)]]
    <3>1. var_fn_call(s, f, args) = ReadArgs([depth |-> s.depth, decls |-> u], args)
      BY <2>1, <1>12 DEF var_fn_call
    <3> QED BY <3>1 DEF ReadArgs
  <2> HIDE DEF h
  <2>7. /\ DOMAIN h = DOMAIN s.decls /\ h = [m \in DOMAIN h |-> h[m]]
        /\ \A m \in DOMAIN h : h[m] = [u[m] EXCEPT !.reads = @ + Uses(args, m)]
    BY <2>3, <2>6
  <2>8. used = Range(args) \union {f}
    BY <1>12 DEF used
  <2>9. ASSUME NEW m \in DOMAIN s.decls
        PROVE  /\ IsRecord(h[m]) /\ h[m].depth = s.decls[m].depth /\ h[m].kind = s.decls[m].kind
               /\ h[m].reads = 0 <=> s.decls[m].reads = 0 /\ m \notin used
    <3>1. /\ IsRecord(u[m]) /\ u[m].depth = s.decls[m].depth /\ u[m].kind = s.decls[m].kind
          /\ u[m].reads = 0 <=> s.decls[m].reads = 0 /\ m # f
      BY <2>3, <2>5, <1>11
    <3>2. h[m] = [u[m] EXCEPT !.reads = @ + Uses(args, m)]
      BY <2>7
    <3>3. Uses(args, m) \in Nat /\ (Uses(args, m) = 0 <=> m \notin Range(args))
      BY <1>10
    <3>4. IsRecord(h[m]) /\ h[m].depth = u[m].depth /\ h[m].kind = u[m].kind /\ h[m].reads = u[m].reads + Uses(args, m)
      BY <3>1, <3>2, <3>3 DEF IsRecord
    <3>5. u[m].reads \in Nat
      BY <3>1 DEF IsRecord
    <3>6. h[m].reads = 0 <=> u[m].reads = 0 /\ Uses(args, m) = 0
      BY <3>3, <3>4, <3>5
    <3> QED BY <3>1, <3>3, <3>4, <3>6, <2>8
  <2>10. IsDecls(h)
    BY <2>7, <2>9 DEF IsDecls
  <2>11. ReadMore(h, s.decls, g, e, used)
    BY <2>7, <2>9, <2>10, <1>4, <1>7, <1>8, <1>9 DEF ReadMore
  <2> QED BY <2>6, <2>11, ReadsMore DEF g
<1>13. CASE f \in Builtins
  <2>1. used = {}
    <3>1. args = <<>>
      BY <1>13
    <3>2. Range(args) = {}
      BY <3>1 DEF Range
    <3> QED BY <3>2, <1>13 DEF used
  <2>2. var_fn_call(s, f, args) = s
    BY <1>13 DEF var_fn_call
  <2>3. ReadMore(s.decls, s.decls, g, e, used)
    BY <2>1, <1>1, <1>4, <1>7, <1>8, <1>9 DEF ReadMore
  <2> QED BY <2>2, <2>3, <1>1, ReadsMore DEF g
<1> QED BY <1>12, <1>13

(* A scope more. *)
LEMMA Entered ==
  ASSUME NEW s, NEW e, Sees(s, e)
  PROVE  Sees(start_scope(s), Append(e, <<>>))
<1> DEFINE w == Len(e)
           g == Append(e, <<>>)
<1>1. /\ IsDecls(s.decls) /\ IsEnv(e) /\ s = [depth |-> s.depth, decls |-> s.decls]
      /\ DOMAIN e = 1 .. w /\ w \in Nat /\ s.depth = w
  BY Domains DEF Sees, IsStore, IsEnv
<1>2. /\ Len(g) = w + 1 /\ g[w + 1] = <<>> /\ IsSeq(g)
      /\ \A d \in 1 .. w : g[d] = e[d]
  <2>1. PICK S : e \in Seq(S)
    BY <1>1 DEF IsEnv, IsSeq
  <2>2. e \in Seq(S \union {<<>>})
    BY <2>1
  <2>3. g \in Seq(S \union {<<>>})
    BY <2>2
  <2>4. IsSeq(g)
    BY <2>3 DEF IsSeq
  <2> QED BY <2>2, <2>4
<1> HIDE DEF g
<1>3. IsScope(<<>>) /\ DOMAIN <<>> = {}
  BY DEF IsScope
<1>4. IsEnv(g)
  <2> SUFFICES ASSUME NEW d \in 1 .. w + 1 PROVE IsScope(g[d])
    BY <1>2 DEF IsEnv
  <2>1. CASE d = w + 1
    BY <2>1, <1>2, <1>3
  <2>2. CASE d # w + 1
    <3>1. d \in 1 .. w
      BY <2>2, <1>1
    <3> QED BY <3>1, <1>1, <1>2 DEF IsEnv
  <2> QED BY <2>1, <2>2
<1>5. start_scope(s) = [depth |-> w + 1, decls |-> s.decls]
  BY <1>1 DEF start_scope
<1>6. Placed(s.decls, g)
  <2> SUFFICES ASSUME NEW y \in DOMAIN s.decls
               PROVE  s.decls[y].depth \in 1 .. w + 1 /\ y \in DOMAIN g[s.decls[y].depth]
    BY <1>2 DEF Placed
  <2>1. s.decls[y].depth \in 1 .. w /\ y \in DOMAIN e[s.decls[y].depth]
    BY DEF Sees, Placed
  <2>2. s.decls[y].depth \in 1 .. w + 1
    BY <2>1, <1>1
  <2> QED BY <2>1, <2>2, <1>2
<1>7. ASSUME NEW d \in 1 .. w + 1
      PROVE  Recorded(s.decls, g[d], d)
  <2>1. CASE d = w + 1
    BY <2>1, <1>2, <1>3 DEF Recorded
  <2>2. CASE d # w + 1
    <3>1. d \in 1 .. w
      BY <2>2, <1>1
    <3> QED BY <3>1, <1>2 DEF Sees
  <2> QED BY <2>1, <2>2
<1>8. w + 1 \in Int
  BY <1>1
<1>9. IsStore(start_scope(s)) /\ start_scope(s).depth = w + 1 /\ start_scope(s).decls = s.decls
  BY <1>1, <1>5, <1>8, StoreThen
<1> QED BY <1>2, <1>4, <1>6, <1>7, <1>9, SeesThen DEF g

(* A scope less: its declarations go, and nothing else. *)
LEMMA Left ==
  ASSUME NEW s, NEW e, Sees(s, e), Len(e) > 0
  PROVE  Sees(end_scope(s), Front(e)) /\ Len(Front(e)) = Len(e) - 1
         /\ \A d \in 1 .. Len(e) - 1 : Front(e)[d] = e[d]
<1> DEFINE w == Len(e)
           g == Front(e)
           f == Restrict(s.decls, DOMAIN s.decls \ current_scope(s))
<1>1. /\ IsDecls(s.decls) /\ IsEnv(e) /\ s = [depth |-> s.depth, decls |-> s.decls]
      /\ DOMAIN e = 1 .. w /\ w \in Nat /\ s.depth = w /\ IsSeq(e)
  BY Domains DEF Sees, IsStore, IsEnv
<1>2. /\ Len(g) = w - 1 /\ IsSeq(g)
      /\ \A d \in 1 .. w - 1 : g[d] = e[d]
  <2>1. PICK S : e \in Seq(S)
    BY <1>1 DEF IsSeq
  <2>2. e # <<>>
    BY <2>1
  <2>3. g \in Seq(S) /\ Len(g) = w - 1 /\ \A d \in 1 .. w - 1 : g[d] = e[d]
    <3>1. 1 \in 1 .. w + 1 /\ w - 1 \in 0 .. w /\ \A d \in 1 .. w - 1 : 1 + d - 1 = d
      BY <1>1
    <3>2. g = SubSeq(e, 1, w - 1)
      BY DEF Front
    <3>3. g \in Seq(S) /\ Len(g) = (IF 1 <= w - 1 THEN w - 1 - 1 + 1 ELSE 0)
          /\ \A d \in 1 .. w - 1 - 1 + 1 : g[d] = e[1 + d - 1]
      BY <2>1, <3>1, <3>2, SubSeqProperties
    <3> QED BY <3>3, <3>1, <1>1
  <2> QED BY <2>3 DEF IsSeq
<1> HIDE DEF g
<1>3. IsEnv(g)
  <2> SUFFICES ASSUME NEW d \in 1 .. w - 1 PROVE IsScope(g[d])
    BY <1>2 DEF IsEnv
  <2>1. d \in 1 .. w
    BY <1>1
  <2> QED BY <2>1, <1>1, <1>2 DEF IsEnv
<1>4. end_scope(s) = [depth |-> w - 1, decls |-> f]
  BY <1>1 DEF end_scope
<1>5. /\ DOMAIN f = {m \in DOMAIN s.decls : s.decls[m].depth # w}
      /\ f = [m \in DOMAIN f |-> f[m]] /\ \A m \in DOMAIN f : f[m] = s.decls[m]
  BY <1>1 DEF Restrict, current_scope
<1> HIDE DEF f
<1>6. IsDecls(f)
  BY <1>1, <1>5 DEF IsDecls
<1>7. Placed(f, g)
  <2> SUFFICES ASSUME NEW y \in DOMAIN f
               PROVE  f[y].depth \in 1 .. w - 1 /\ y \in DOMAIN g[f[y].depth]
    BY <1>2 DEF Placed
  <2>1. y \in DOMAIN s.decls /\ f[y] = s.decls[y] /\ s.decls[y].depth # w
    BY <1>5
  <2>2. s.decls[y].depth \in 1 .. w /\ y \in DOMAIN e[s.decls[y].depth]
    BY <2>1 DEF Sees, Placed
  <2>3. s.decls[y].depth \in 1 .. w - 1
    BY <2>1, <2>2, <1>1
  <2> QED BY <2>1, <2>2, <2>3, <1>2
<1>8. ASSUME NEW d \in 1 .. w - 1
      PROVE  Recorded(f, g[d], d)
  <2>1. d \in 1 .. w /\ d # w
    BY <1>1
  <2>2. Recorded(s.decls, e[d], d)
    BY <2>1 DEF Sees
  <2> QED BY <2>1, <2>2, <1>2, <1>5 DEF Recorded, Alike
<1>9. w - 1 \in Int
  BY <1>1
<1>10. IsStore(end_scope(s)) /\ end_scope(s).depth = w - 1 /\ end_scope(s).decls = f
  BY <1>4, <1>6, <1>9, StoreThen
<1> QED BY <1>2, <1>3, <1>7, <1>8, <1>10, SeesThen DEF g

(* The parameters, all in the innermost scope. *)
LEMMA ParamsPushed ==
  ASSUME NEW s, NEW e, Sees(s, e), Len(e) > 0, NEW params,
         \A m \in ParamNames(params) : m \in DOMAIN s.decls => s.decls[m].depth = s.depth
  PROVE  Sees(PushParams(s, params), BindParams(e, params))
<1> DEFINE P == ParamNames(params)
           w == Len(e)
           r(m) == record(s, "var", ParamType(params, m))
           x(m) == [kind |-> "var", dt |-> ParamType(params, m), read |-> FALSE]
           f == [m \in DOMAIN s.decls \union P |-> IF m \in P THEN r(m) ELSE s.decls[m]]
           h == [m \in DOMAIN e[w] \union P |-> IF m \in P THEN x(m) ELSE e[w][m]]
           g == [e EXCEPT ![w] = h]
<1>1. w \in Nat /\ w \in 1 .. w /\ s.depth = w /\ IsStore(s) /\ IsEnv(e)
  BY Domains DEF Sees, IsEnv
<1>2. \A m : IsRecord(r(m)) /\ IsMark(x(m)) /\ Alike(r(m), x(m), w) /\ r(m).depth = w
  BY <1>1 DEF record, IsRecord, IsMark, Alike
<1>3. PushParams(s, params) = [depth |-> w, decls |-> f] /\ BindParams(e, params) = g
  BY <1>1 DEF PushParams, BindParams, IsStore
<1> HIDE DEF r, x, P
<1>4. /\ DOMAIN f = DOMAIN s.decls \union P /\ f = [m \in DOMAIN f |-> f[m]]
      /\ \A m \in P : f[m] = r(m)
      /\ \A m \in DOMAIN s.decls : m \notin P => f[m] = s.decls[m]
  OBVIOUS
<1>5. /\ DOMAIN h = DOMAIN e[w] \union P /\ h = [m \in DOMAIN h |-> h[m]]
      /\ \A m \in P : h[m] = x(m)
      /\ \A m \in DOMAIN e[w] : m \notin P => h[m] = e[w][m]
  OBVIOUS
<1> HIDE DEF f, h
<1>6. IsDecls(f)
  BY <1>1, <1>2, <1>4 DEF IsStore, IsDecls
<1>7. IsScope(h)
  BY <1>1, <1>2, <1>5 DEF IsEnv, IsScope
<1>8. IsEnv(g) /\ Len(g) = w /\ g[w] = h /\ \A k \in 1 .. w : k # w => g[k] = e[k]
  BY <1>1, <1>7, Replaced
<1> HIDE DEF g
<1>9. \A k \in 1 .. w : DOMAIN e[k] \subseteq DOMAIN g[k]
  BY <1>5, <1>8
<1>10. Placed(f, g)
  <2> SUFFICES ASSUME NEW y \in DOMAIN f
               PROVE  f[y].depth \in 1 .. w /\ y \in DOMAIN g[f[y].depth]
    BY <1>8 DEF Placed
  <2>1. CASE y \in P
    BY <2>1, <1>1, <1>2, <1>4, <1>5, <1>8
  <2>2. CASE y \notin P
    <3>1. y \in DOMAIN s.decls /\ f[y] = s.decls[y]
      BY <2>2, <1>4
    <3>2. s.decls[y].depth \in 1 .. w /\ y \in DOMAIN e[s.decls[y].depth]
      BY <3>1 DEF Sees, Placed
    <3> QED BY <3>1, <3>2, <1>9
  <2> QED BY <2>1, <2>2
<1>11. ASSUME NEW d \in 1 .. w
       PROVE  Recorded(f, g[d], d)
  <2> SUFFICES ASSUME NEW y \in DOMAIN g[d]
               PROVE  y \in DOMAIN f /\ Alike(f[y], g[d][y], d)
    BY DEF Recorded
  <2>1. CASE y \in P
    <3>1. d = w
      <4> SUFFICES ASSUME d # w PROVE FALSE
        OBVIOUS
      <4>1. y \in DOMAIN e[d]
        BY <1>8
      <4>2. y \in DOMAIN s.decls /\ s.decls[y].depth = d
        BY <4>1 DEF Sees, Recorded, Alike
      <4> QED BY <2>1, <4>2, <1>1 DEF P
    <3> QED BY <2>1, <3>1, <1>2, <1>4, <1>5, <1>8
  <2>2. CASE y \notin P
    <3>1. y \in DOMAIN e[d] /\ g[d][y] = e[d][y]
      BY <2>2, <1>5, <1>8
    <3>2. y \in DOMAIN s.decls /\ Alike(s.decls[y], e[d][y], d)
      BY <3>1 DEF Sees, Recorded
    <3> QED BY <2>2, <3>1, <3>2, <1>4
  <2> QED BY <2>1, <2>2
<1>12. /\ IsStore(PushParams(s, params)) /\ PushParams(s, params).depth = w
       /\ PushParams(s, params).decls = f
  <2>1. w \in Int
    BY <1>1
  <2> QED BY <1>3, <1>6, <2>1, StoreThen
<1> QED BY <1>3, <1>8, <1>10, <1>11, <1>12, SeesThen

(* The innermost scope is warned of what was not read. *)
Exact(rep) == \A r \in rep : r.warned = ~r.read

LEMMA Reported ==
  ASSUME NEW s, NEW e, Sees(s, e), Len(e) > 0, NEW funs \in BOOLEAN
  PROVE  Exact(Report(s, Last(e), funs))
<1> DEFINE w == Len(e)
           h == Last(e)
<1>1. w \in Nat /\ w \in 1 .. w /\ s.depth = w /\ IsStore(s) /\ IsEnv(e) /\ h = e[w]
  BY Domains DEF Sees, IsEnv, Last
<1>2. Recorded(s.decls, h, w) /\ IsScope(h)
  BY <1>1 DEF Sees, IsEnv
<1> HIDE DEF h
<1>3. ASSUME NEW m \in DOMAIN h, m # "main" /\ (funs \/ h[m].kind = "var")
      PROVE  (m \in unused(s, funs)) = ~h[m].read
  <2>1. m \in DOMAIN s.decls /\ Alike(s.decls[m], h[m], w)
    BY <1>2 DEF Recorded
  <2>2. m \in current_scope(s)
    BY <2>1, <1>1 DEF current_scope, Alike
  <2>3. m \in unused(s, funs) <=> s.decls[m].reads = 0
    BY <1>3, <2>1, <2>2 DEF unused, lookup, Alike
  <2>4. h[m].read \in BOOLEAN
    BY <1>2 DEF IsScope, IsMark
  <2>5. m \in unused(s, funs) <=> ~h[m].read
    BY <2>1, <2>3 DEF Alike
  <2> QED BY <2>4, <2>5
<1>4. ASSUME NEW r \in Report(s, h, funs)
      PROVE  r.warned = ~r.read
  <2>1. PICK m \in DOMAIN h :
          /\ m # "main" /\ (funs \/ h[m].kind = "var")
          /\ r = [name |-> m, warned |-> m \in unused(s, funs), read |-> h[m].read]
    BY DEF Report
  <2>2. r.warned = (m \in unused(s, funs)) /\ r.read = h[m].read
    BY <2>1
  <2> QED BY <2>1, <2>2, <1>3
<1> QED BY <1>4 DEF Exact, h

------------------------------------------------------------------------------
(* Open blocks and scopes.  With k blocks open ana_var_usage and the       *)
(* language have p[k] scopes, ana_type has Level(k).                       *)

Level(k) == IF k = 0 THEN 1 ELSE k + 2

Width(b) == IF b.kind = "for" THEN 2 ELSE 1

Frames(p, op, len) ==
  /\ IsSeq(op) /\ p \in [0 .. Len(op) -> Nat] /\ p[0] = 1 /\ p[Len(op)] = len
  /\ 1 \in 1 .. Len(op) => p[1] = 3
  /\ \A k \in 2 .. Len(op) : p[k] = p[k - 1] + Width(op[k])
  /\ \A j, k \in 0 .. Len(op) : j < k => p[j] < p[k]

Opened(p, k, len) == [j \in 0 .. k |-> IF j = k THEN len ELSE p[j]]
Closed(p, k)      == [j \in 0 .. k |-> p[j]]

LEMMA SeqAppend ==
  ASSUME NEW e, IsSeq(e), NEW x
  PROVE  /\ IsSeq(Append(e, x)) /\ Len(Append(e, x)) = Len(e) + 1
         /\ Append(e, x)[Len(e) + 1] = x
         /\ \A d \in 1 .. Len(e) : Append(e, x)[d] = e[d]
<1>1. PICK S : e \in Seq(S)
  BY DEF IsSeq
<1>2. e \in Seq(S \union {x})
  BY <1>1
<1>3. Append(e, x) \in Seq(S \union {x})
  BY <1>2
<1>4. IsSeq(Append(e, x))
  BY <1>3 DEF IsSeq
<1> QED BY <1>2, <1>4

LEMMA SeqFront ==
  ASSUME NEW e, IsSeq(e), Len(e) > 0
  PROVE  /\ IsSeq(Front(e)) /\ Len(Front(e)) = Len(e) - 1
         /\ \A d \in 1 .. Len(e) - 1 : Front(e)[d] = e[d]
<1> DEFINE w == Len(e)
<1>1. PICK S : e \in Seq(S)
  BY DEF IsSeq
<1>2. w \in Nat
  BY <1>1
<1>3. 1 \in 1 .. w + 1 /\ w - 1 \in 0 .. w /\ \A d \in 1 .. w - 1 : 1 + d - 1 = d
  BY <1>2
<1>4. Front(e) = SubSeq(e, 1, w - 1)
  BY DEF Front
<1>5. Front(e) \in Seq(S) /\ Len(Front(e)) = (IF 1 <= w - 1 THEN w - 1 - 1 + 1 ELSE 0)
      /\ \A d \in 1 .. w - 1 - 1 + 1 : Front(e)[d] = e[1 + d - 1]
  BY <1>1, <1>3, <1>4, SubSeqProperties
<1>6. Len(Front(e)) = w - 1 /\ \A d \in 1 .. w - 1 : Front(e)[d] = e[d]
  <2> HIDE DEF w
  <2>1. w > 0
    BY DEF w
  <2>2. Len(Front(e)) = w - 1
    <3>1. Len(Front(e)) = IF 1 <= w - 1 THEN w - 1 - 1 + 1 ELSE 0
      BY <1>5
    <3> QED BY <3>1, <1>2, <2>1
  <2>3. w - 1 - 1 + 1 = w - 1
    BY <1>2
  <2>4. \A d \in 1 .. w - 1 - 1 + 1 : Front(e)[d] = e[1 + d - 1]
    BY <1>5
  <2> QED BY <2>2, <2>3, <2>4, <1>3
<1>7. IsSeq(Front(e))
  BY <1>5 DEF IsSeq
<1> QED BY <1>6, <1>7

LEMMA FrameAround ==
  ASSUME NEW p, NEW op, NEW len, Frames(p, op, len), op # <<>>, NEW b
  PROVE  Frames(Opened(p, Len(op) + 1, len + Width(b)), Append(op, b), len + Width(b))
<1> DEFINE w == Len(op)
           o == Append(op, b)
           q == Opened(p, w + 1, len + Width(b))
<1>1. IsSeq(op) /\ w \in Nat /\ w > 0
  <2>1. PICK S : op \in Seq(S)
    BY DEF Frames, IsSeq
  <2> QED BY <2>1 DEF Frames
<1>2. IsSeq(o) /\ Len(o) = w + 1 /\ o[w + 1] = b /\ \A d \in 1 .. w : o[d] = op[d]
  BY <1>1, SeqAppend
<1>3. p \in [0 .. w -> Nat] /\ len = p[w] /\ Width(b) \in {1, 2}
  BY DEF Frames, Width
<1>4. len \in Nat /\ len + Width(b) \in Nat
  BY <1>1, <1>3
<1>5. q \in [0 .. w + 1 -> Nat] /\ q[w + 1] = len + Width(b) /\ \A j \in 0 .. w : q[j] = p[j]
  BY <1>1, <1>3, <1>4 DEF Opened
<1> HIDE DEF o, q
<1>6. q[0] = 1 /\ q[1] = 3
  BY <1>1, <1>5 DEF Frames
<1>7. ASSUME NEW k \in 2 .. w + 1
      PROVE  q[k] = q[k - 1] + Width(o[k])
  <2>1. CASE k = w + 1
    BY <2>1, <1>1, <1>2, <1>3, <1>5
  <2>2. CASE k # w + 1
    <3>1. k \in 2 .. w /\ k \in 1 .. w /\ k \in 0 .. w /\ k - 1 \in 0 .. w
      BY <2>2, <1>1
    <3>2. p[k] = p[k - 1] + Width(op[k])
      BY <3>1 DEF Frames
    <3> QED BY <3>1, <3>2, <1>2, <1>5
  <2> QED BY <2>1, <2>2
<1>8. ASSUME NEW j \in 0 .. w + 1, NEW k \in 0 .. w + 1, j < k
      PROVE  q[j] < q[k]
  <2>1. j \in 0 .. w /\ q[j] = p[j] /\ p[j] \in Nat
    BY <1>1, <1>3, <1>5, <1>8
  <2>2. CASE k = w + 1
    <3>1. p[j] <= p[w]
      BY <2>1, <1>1, <1>3 DEF Frames
    <3> QED BY <2>1, <2>2, <3>1, <1>3, <1>4, <1>5
  <2>3. CASE k # w + 1
    <3>1. k \in 0 .. w
      BY <2>3, <1>1
    <3> QED BY <2>1, <3>1, <1>5, <1>8 DEF Frames
  <2> QED BY <2>2, <2>3
<1>9. Frames(q, o, len + Width(b))
  BY <1>2, <1>5, <1>6, <1>7, <1>8 DEF Frames
<1> QED BY <1>9 DEF q, o

LEMMA FrameClosed ==
  ASSUME NEW p, NEW op, NEW len, Frames(p, op, len), Len(op) > 1
  PROVE  /\ Frames(Closed(p, Len(op) - 1), Front(op), p[Len(op) - 1])
         /\ len = p[Len(op) - 1] + Width(Last(op)) /\ p[Len(op) - 1] \in Nat /\ p[Len(op) - 1] > 0
<1> DEFINE w == Len(op)
           o == Front(op)
           q == Closed(p, w - 1)
<1>1. IsSeq(op) /\ w \in Nat /\ w > 1
  BY Domains DEF Frames
<1>2. IsSeq(o) /\ Len(o) = w - 1 /\ \A d \in 1 .. w - 1 : o[d] = op[d]
  BY <1>1, SeqFront
<1>3. p \in [0 .. w -> Nat] /\ len = p[w] /\ p[0] = 1
  BY DEF Frames
<1>4. q \in [0 .. w - 1 -> Nat] /\ \A j \in 0 .. w - 1 : q[j] = p[j]
  BY <1>1, <1>3 DEF Closed
<1> HIDE DEF o, q
<1>5. q[0] = 1 /\ q[1] = 3 /\ q[w - 1] = p[w - 1]
  BY <1>1, <1>4 DEF Frames
<1>6. ASSUME NEW k \in 2 .. w - 1
      PROVE  q[k] = q[k - 1] + Width(o[k])
  <2>1. k \in 2 .. w /\ k \in 1 .. w - 1 /\ k \in 0 .. w - 1 /\ k - 1 \in 0 .. w - 1
    BY <1>1
  <2>2. p[k] = p[k - 1] + Width(op[k])
    BY <2>1 DEF Frames
  <2> QED BY <2>1, <2>2, <1>2, <1>4
<1>7. \A j, k \in 0 .. w - 1 : j < k => q[j] < q[k]
  <2>1. \A j, k \in 0 .. w : j < k => p[j] < p[k]
    BY DEF Frames
  <2>2. \A j \in 0 .. w - 1 : j \in 0 .. w
    BY <1>1
  <2> QED BY <2>1, <2>2, <1>4
<1>8. Frames(q, o, p[w - 1])
  BY <1>2, <1>4, <1>5, <1>6, <1>7 DEF Frames
<1>9. len = p[w - 1] + Width(Last(op)) /\ p[w - 1] \in Nat /\ p[w - 1] > 0
  <2>1. w \in 2 .. w /\ w - 1 \in 0 .. w /\ 0 \in 0 .. w
    BY <1>1
  <2>2. p[w] = p[w - 1] + Width(op[w])
    BY <2>1 DEF Frames
  <2>3. p[0] < p[w - 1]
    BY <2>1, <1>1 DEF Frames
  <2> QED BY <2>1, <2>2, <2>3, <1>3 DEF Last
<1> QED BY <1>8, <1>9 DEF q, o

LEMMA FrameOfFn ==
  ASSUME NEW b
  PROVE  Frames([j \in 0 .. 1 |-> IF j = 0 THEN 1 ELSE 3], <<b>>, 3)
<1>1. IsSeq(<<b>>) /\ Len(<<b>>) = 1
  <2>1. <<b>> \in Seq({b})
    OBVIOUS
  <2> QED BY <2>1 DEF IsSeq
<1> QED BY <1>1 DEF Frames

LEMMA FrameOfNone == Frames([j \in 0 .. 0 |-> 1], <<>>, 1)
<1>1. IsSeq(<<>>) /\ Len(<<>>) = 0
  <2>1. <<>> \in Seq({1})
    OBVIOUS
  <2> QED BY <2>1 DEF IsSeq
<1> QED BY <1>1 DEF Frames

LEMMA FrameEnds ==
  ASSUME NEW p, NEW op, NEW len, Frames(p, op, len)
  PROVE  /\ op = <<>> <=> Len(op) = 0
         /\ op = <<>> => len = 1
         /\ Len(op) = 1 => len = 3
         /\ Len(op) \in Nat /\ len \in Nat
<1>1. PICK S : op \in Seq(S)
  BY DEF Frames, IsSeq
<1>2. Len(op) \in Nat /\ (op = <<>> <=> Len(op) = 0)
  BY <1>1
<1>3. p \in [0 .. Len(op) -> Nat] /\ p[0] = 1 /\ p[Len(op)] = len /\ (1 \in 1 .. Len(op) => p[1] = 3)
  BY DEF Frames
<1>4. len \in Nat
  BY <1>2, <1>3
<1>5. Len(op) = 0 => len = 1
  BY <1>3
<1>6. Len(op) = 1 => len = 3
  BY <1>3
<1> QED BY <1>2, <1>4, <1>5, <1>6

(* A return changes what is noted of the function, no frame. *)
LEMMA FrameReturns ==
  ASSUME NEW p, NEW op, NEW len, Frames(p, op, len), op # <<>>, NEW x
  PROVE  Frames(p, [op EXCEPT ![1].ret = x], len) /\ Len([op EXCEPT ![1].ret = x]) = Len(op)
         /\ \A k \in 2 .. Len(op) : [op EXCEPT ![1].ret = x][k] = op[k]
<1> DEFINE o == [op EXCEPT ![1].ret = x]
           w == Len(op)
<1>1. IsSeq(op) /\ w \in Nat /\ DOMAIN op = 1 .. w
  BY Domains DEF Frames
<1>2. o = [k \in 1 .. w |-> o[k]] /\ \A k \in 2 .. w : o[k] = op[k]
  <2> DEFINE b == [op[1] EXCEPT !.ret = x]
  <2>1. o = [op EXCEPT ![1] = b]
    OBVIOUS
  <2> HIDE DEF b, o
  <2>2. o = [k \in 1 .. w |-> IF k = 1 THEN b ELSE op[k]]
    BY <1>1, <2>1
  <2> QED BY <2>2
<1> HIDE DEF o
<1>3. IsSeq(o) /\ Len(o) = w
  BY <1>1, <1>2, MakeSeq
<1>4. Frames(p, o, len)
  BY <1>2, <1>3 DEF Frames
<1> QED BY <1>2, <1>3, <1>4 DEF o

------------------------------------------------------------------------------
(* ana_var_usage sees what is in scope.                                    *)

LEMMA Depths ==
  ASSUME NEW s, IsStore(s), NEW m, NEW kind, NEW dt
  PROVE  /\ push(s, m, kind, dt).depth = s.depth
         /\ push(s, m, kind, dt).decls = Put(s.decls, m, record(s, kind, dt))
         /\ add_read_use(s, m).depth = s.depth /\ add_write_use(s, m).depth = s.depth
         /\ start_scope(s).depth = s.depth + 1 /\ start_scope(s).decls = s.decls
         /\ end_scope(s).depth = s.depth - 1
BY DEF IsStore, push, add_read_use, add_write_use, start_scope, end_scope

LEMMA ManyDepths ==
  ASSUME NEW s, IsStore(s), NEW f, NEW args
  PROVE  PushParams(s, args).depth = s.depth /\ var_fn_call(s, f, args).depth = s.depth
BY DEF IsStore, PushParams, var_fn_call, ReadArgs, add_read_use

LEMMA Lengths ==
  ASSUME NEW s, NEW e, Sees(s, e)
  PROVE  IsStore(s) /\ IsSeq(e) /\ Len(e) = s.depth /\ Len(e) \in Nat
BY Domains DEF Sees, IsEnv

Framed == \E p : Frames(p, open, Len(env))

(* The inductive invariant of ana_var_usage. *)
Seen == phase = "run" => Sees(var, env) /\ Framed

LEMMA GoesOn ==
  ASSUME NEW t, TypeStep(t)
  PROVE  /\ ty' = t
         /\ t.res = "ok" => phase' = "run"
         /\ t.res # "ok" => phase' \in {"fn_error", t.res}
<1>1. ty' = t /\ phase' = IF Ok(t) THEN "run" ELSE IF Doomed THEN "fn_error" ELSE t.res
  BY DEF TypeStep
<1>2. CASE Ok(t)
  BY <1>1, <1>2 DEF Ok
<1>3. CASE ~Ok(t) /\ Doomed
  BY <1>1, <1>3 DEF Ok
<1>4. CASE ~Ok(t) /\ ~Doomed
  BY <1>1, <1>4 DEF Ok
<1> QED BY <1>2, <1>3, <1>4

LEMMA SeenInit == Init => Seen /\ WarnsIffUnread
<1> SUFFICES ASSUME Init PROVE Sees(var, env) /\ Framed /\ WarnsIffUnread
  BY DEF Seen
<1>1. Sees(ast_storage_init, <<>>)
  <2>1. IsSeq(<<>>) /\ Len(<<>>) = 0 /\ DOMAIN <<>> = {}
    <3>1. <<>> \in Seq({1})
      OBVIOUS
    <3> QED BY <3>1 DEF IsSeq
  <2> QED BY <2>1 DEF ast_storage_init, Sees, IsStore, IsDecls, IsEnv, Placed
<1>2. var = start_scope(ast_storage_init) /\ env = Append(<<>>, <<>>)
  BY DEF Init
<1>3. Sees(var, env)
  BY <1>1, <1>2, Entered
<1>4. Len(env) = 1 /\ open = <<>> /\ report = {}
  BY DEF Init
<1>5. Framed
  BY <1>4, FrameOfNone DEF Framed
<1> QED BY <1>3, <1>4, <1>5 DEF WarnsIffUnread

(* The names of functions and of builtins are apart, as those of variables *)
(* are (NamesAssumption): builtins are not defined.                        *)
BuiltinsApart == FnNames \intersect Builtins = {}

LEMMA ArgsAre == \A args \in ArgLists : IsSeq(args)
BY ArgsAssumption DEF IsSeq

LEMMA StmtIs ==
  ASSUME NEW s, Stmt(s)
  PROVE  phase = "run" /\ open # <<>>
BY DEF Stmt, Room

LEMMA SeenNow ==
  ASSUME Seen, phase = "run"
  PROVE  /\ Sees(var, env) /\ Framed
         /\ IsStore(var) /\ Len(env) = var.depth /\ Len(env) \in Nat /\ Len(env) > 0
<1>1. Sees(var, env) /\ Framed
  BY DEF Seen
<1>2. PICK p : Frames(p, open, Len(env))
  BY <1>1 DEF Framed
<1>3. Len(env) > 0
  <2>1. Len(open) \in Nat
    BY <1>2, FrameEnds
  <2>2. p \in [0 .. Len(open) -> Nat] /\ p[0] = 1 /\ p[Len(open)] = Len(env)
    BY <1>2 DEF Frames
  <2>3. 0 < Len(open) => p[0] < p[Len(open)]
    BY <1>2, <2>1 DEF Frames
  <2> QED BY <2>1, <2>2, <2>3
<1> QED BY <1>1, <1>3, Lengths

LEMMA SeenThen ==
  ASSUME Sees(var', env'), NEW p, Frames(p, open', Len(env'))
  PROVE  Seen'
BY DEF Seen, Framed

(* No scope more, no scope less. *)
LEMMA SeenStays ==
  ASSUME Seen, phase = "run", Sees(var', env'), var'.depth = var.depth,
         \/ open' = open
         \/ open # <<>> /\ \E x : open' = [open EXCEPT ![1].ret = x]
  PROVE  Seen'
<1>1. Len(env) = var.depth /\ Framed
  BY SeenNow
<1>2. Len(env') = Len(env)
  BY <1>1, Lengths
<1>3. PICK p : Frames(p, open, Len(env))
  BY <1>1 DEF Framed
<1>4. Frames(p, open', Len(env'))
  <2>1. CASE open' = open
    BY <2>1, <1>2, <1>3
  <2>2. CASE open # <<>> /\ \E x : open' = [open EXCEPT ![1].ret = x]
    <3>1. PICK x : open' = [open EXCEPT ![1].ret = x]
      BY <2>2
    <3>2. Frames(p, [open EXCEPT ![1].ret = x], Len(env))
      BY <2>2, <1>3, FrameReturns
    <3> QED BY <3>1, <3>2, <1>2
  <2> QED BY <2>1, <2>2
<1> QED BY <1>4, SeenThen

(* A block more. *)
LEMMA SeenOpens ==
  ASSUME Seen, phase = "run", open # <<>>, NEW b, open' = Append(open, b),
         Sees(var', env'), var'.depth = var.depth + Width(b)
  PROVE  Seen'
<1>1. Len(env) = var.depth /\ Framed
  BY SeenNow
<1>2. Len(env') = Len(env) + Width(b)
  BY <1>1, Lengths
<1>3. PICK p : Frames(p, open, Len(env))
  BY <1>1 DEF Framed
<1>4. Frames(Opened(p, Len(open) + 1, Len(env) + Width(b)), open', Len(env'))
  BY <1>2, <1>3, FrameAround
<1> QED BY <1>4, SeenThen

LEMMA SeenDecl ==
  ASSUME Seen, NEW m, NEW dt, visit_var_decl(m, dt)
  PROVE  Seen' /\ report' = report
<1>1. phase = "run" /\ ~declared(var, m)
  BY StmtIs DEF visit_var_decl
<1>2. Sees(var, env) /\ IsStore(var) /\ Len(env) > 0
  BY <1>1, SeenNow
<1>3. m \notin DOMAIN var.decls
  BY <1>1, <1>2, OneScope
<1>4. var' = push(var, m, "var", dt) /\ env' = Bind(env, m, "var", dt)
  BY DEF visit_var_decl
<1>5. Sees(var', env')
  BY <1>2, <1>3, <1>4, Pushed
<1>6. var'.depth = var.depth
  BY <1>2, <1>4, Depths
<1>7. open' = open /\ report' = report
  BY DEF visit_var_decl
<1> QED BY <1>1, <1>5, <1>6, <1>7, SeenStays

LEMMA SeenAssign ==
  ASSUME Seen, NEW l, NEW r, visit_binary(l, r)
  PROVE  Seen' /\ report' = report
<1> DEFINE s == add_write_use(var, l)
<1>1. phase = "run" /\ declared(var, l) /\ declared(var, r)
  BY StmtIs DEF visit_binary
<1>2. Sees(var, env) /\ IsStore(var)
  BY <1>1, SeenNow
<1>3. l \in DOMAIN var.decls /\ r \in DOMAIN var.decls
  BY <1>1, <1>2, OneScope
<1>4. Sees(s, env) /\ s.depth = var.depth
  BY <1>2, <1>3, SameScopes, Depths
<1> HIDE DEF s
<1>5. r \in DOMAIN s.decls
  <2>1. DOMAIN s.decls = DOMAIN var.decls
    BY <1>2 DEF s, add_write_use, IsStore
  <2> QED BY <2>1, <1>3
<1>6. var' = add_read_use(s, r) /\ env' = Read(env, r)
  BY DEF visit_binary, s
<1>7. Sees(var', env')
  BY <1>4, <1>5, <1>6, Used
<1>8. var'.depth = var.depth
  <2>1. IsStore(s)
    BY <1>4, Lengths
  <2> QED BY <2>1, <1>4, <1>6, Depths
<1>9. open' = open /\ report' = report
  BY DEF visit_binary
<1> QED BY <1>1, <1>7, <1>8, <1>9, SeenStays

LEMMA SeenReturn ==
  ASSUME Seen, NEW m, visit_return(m)
  PROVE  Seen' /\ report' = report
<1>1. phase = "run" /\ open # <<>> /\ declared(var, m)
  BY StmtIs DEF visit_return
<1>2. Sees(var, env) /\ IsStore(var)
  BY <1>1, SeenNow
<1>3. m \in DOMAIN var.decls
  BY <1>1, <1>2, OneScope
<1>4. var' = add_read_use(var, m) /\ env' = Read(env, m)
  BY DEF visit_return
<1>5. Sees(var', env') /\ var'.depth = var.depth
  BY <1>2, <1>3, <1>4, Used, Depths
<1>6. open' = [open EXCEPT ![1].ret = Meaning(m).dt] /\ report' = report
  BY DEF visit_return
<1>7. \E x : open' = [open EXCEPT ![1].ret = x]
  BY <1>6
<1> QED BY <1>1, <1>5, <1>6, <1>7, SeenStays

LEMMA SeenReturnVoid ==
  ASSUME Seen, visit_return_void
  PROVE  Seen' /\ report' = report
<1>1. phase = "run" /\ open # <<>>
  BY StmtIs DEF visit_return_void
<1>2. Sees(var, env)
  BY <1>1, SeenNow
<1>3. var' = var /\ env' = env /\ report' = report
  BY DEF visit_return_void
<1>4. open' = [open EXCEPT ![1].ret = "void"]
  BY DEF visit_return_void
<1>5. \E x : open' = [open EXCEPT ![1].ret = x]
  BY <1>4
<1> QED BY <1>1, <1>2, <1>3, <1>5, SeenStays

LEMMA SeenCall ==
  ASSUME Seen, NEW f, NEW args \in ArgLists, visit_fn_call(f, args)
  PROVE  Seen' /\ report' = report
<1>1. phase = "run" /\ report' = report /\ Callable(f, args)
  BY StmtIs DEF visit_fn_call
<1>2. SUFFICES ASSUME phase' = "run" PROVE Seen'
  BY <1>1 DEF Seen
<1>3. fn_check(f, args) = "run"
  BY <1>2 DEF visit_fn_call
<1>4. f \in Builtins => args = <<>>
  BY <1>3 DEF fn_check
<1>5. Sees(var, env) /\ IsStore(var)
  BY <1>1, SeenNow
<1>6. f \notin Builtins => f \in DOMAIN var.decls
  BY <1>1, <1>5, OneScope DEF Callable
<1>7. var' = var_fn_call(var, f, args) /\ env' = MarkRead(env, f, args) /\ open' = open
  BY DEF visit_fn_call
<1>8. IsSeq(args)
  BY ArgsAre
<1>9. Sees(var', env') /\ var'.depth = var.depth
  BY <1>4, <1>5, <1>6, <1>7, <1>8, ArgsUsed, ManyDepths
<1> QED BY <1>1, <1>7, <1>9, SeenStays

LEMMA SeenDeclCall ==
  ASSUME BuiltinsApart, Seen, NEW m, NEW dt, NEW f, NEW args \in ArgLists,
         visit_var_decl_call(m, dt, f, args)
  PROVE  Seen' /\ report' = report
<1> DEFINE s == push(var, m, "var", dt)
           e == Bind(env, m, "var", dt)
<1>1. phase = "run" /\ ~declared(var, m) /\ f \notin Builtins /\ declared(var, f)
  BY StmtIs DEF visit_var_decl_call, Callable, BuiltinsApart
<1>2. Sees(var, env) /\ IsStore(var) /\ Len(env) > 0
  BY <1>1, SeenNow
<1>3. m \notin DOMAIN var.decls /\ f \in DOMAIN var.decls
  BY <1>1, <1>2, OneScope
<1>4. Sees(s, e)
  BY <1>2, <1>3, Pushed
<1>5. s.depth = var.depth /\ s.decls = Put(var.decls, m, record(var, "var", dt))
  BY <1>2, Depths
<1>6. f \in DOMAIN s.decls
  BY <1>3, <1>5 DEF Put
<1>7. var' = var_fn_call(s, f, args) /\ env' = MarkRead(e, f, args) /\ open' = open /\ report' = report
  BY DEF visit_var_decl_call
<1> HIDE DEF s, e
<1>8. IsSeq(args) /\ IsStore(s)
  BY <1>4, ArgsAre, Lengths
<1>9. Sees(var', env') /\ var'.depth = var.depth
  BY <1>1, <1>4, <1>5, <1>6, <1>7, <1>8, ArgsUsed, ManyDepths
<1> QED BY <1>1, <1>7, <1>9, SeenStays

(* Steps that open a block. *)
LEMMA OpenIs ==
  ASSUME NEW s, CanOpen(s)
  PROVE  phase = "run" /\ open # <<>>
BY StmtIs DEF CanOpen

LEMMA SeenBlock ==
  ASSUME Seen, NEW m, visit_if(m) \/ visit_while(m) \/ visit_do_while(m)
  PROVE  Seen' /\ report' = report
<1>1. phase = "run" /\ open # <<>> /\ declared(var, m) /\ report' = report
  BY OpenIs DEF visit_if, visit_while, visit_do_while
<1>2. Sees(var, env) /\ IsStore(var)
  BY <1>1, SeenNow
<1>3. m \in DOMAIN var.decls
  BY <1>1, <1>2, OneScope
<1>4. PICK b : open' = Append(open, b) /\ Width(b) = 1
  BY DEF visit_if, visit_while, visit_do_while, Block, Width
<1>5. Sees(add_read_use(var, m), Read(env, m)) /\ add_read_use(var, m).depth = var.depth
  BY <1>2, <1>3, Used, Depths
<1>6. \/ var' = start_scope(var) /\ env' = Append(env, <<>>)
      \/ var' = start_scope(add_read_use(var, m)) /\ env' = Append(Read(env, m), <<>>)
  BY DEF visit_if, visit_while, visit_do_while
<1>7. Sees(var', env') /\ var'.depth = var.depth + 1
  <2>1. CASE var' = start_scope(var) /\ env' = Append(env, <<>>)
    BY <2>1, <1>2, Entered, Depths
  <2>2. CASE var' = start_scope(add_read_use(var, m)) /\ env' = Append(Read(env, m), <<>>)
    <3>1. IsStore(add_read_use(var, m))
      BY <1>5, Lengths
    <3> QED BY <2>2, <3>1, <1>5, Entered, Depths
  <2> QED BY <2>1, <2>2, <1>6
<1> QED BY <1>1, <1>4, <1>7, SeenOpens

LEMMA SeenFor ==
  ASSUME Seen, NEW m, visit_for(m)
  PROVE  Seen' /\ report' = report
<1> DEFINE s1 == start_scope(var)
           e1 == Append(env, <<>>)
           s2 == push(s1, m, "var", "int")
           e2 == Bind(e1, m, "var", "int")
           s3 == add_read_use(s2, m)
           e3 == Read(e2, m)
           s4 == add_write_use(s3, m)
<1>1. phase = "run" /\ open # <<>> /\ ~declared(var, m) /\ report' = report
  BY OpenIs DEF visit_for
<1>2. Sees(var, env) /\ IsStore(var) /\ Len(env) \in Nat
  BY <1>1, SeenNow
<1>3. m \notin DOMAIN var.decls
  BY <1>1, <1>2, OneScope
<1>4. Sees(s1, e1) /\ s1.depth = var.depth + 1 /\ s1.decls = var.decls
  BY <1>2, Entered, Depths
<1>5. IsStore(s1) /\ Len(e1) > 0
  <2>1. IsStore(s1) /\ Len(e1) = var.depth + 1 /\ Len(env) = var.depth
    BY <1>2, <1>4, Lengths
  <2> QED BY <2>1, <1>2
<1>6. var' = start_scope(s4) /\ env' = Append(e3, <<>>)
  BY DEF visit_for
<1> HIDE DEF s1, e1
<1>7. Sees(s2, e2) /\ s2.depth = s1.depth /\ s2.decls = Put(s1.decls, m, record(s1, "var", "int"))
  BY <1>3, <1>4, <1>5, Pushed, Depths
<1>8. m \in DOMAIN s2.decls /\ IsStore(s2)
  BY <1>7, Lengths DEF Put
<1> HIDE DEF s2, e2
<1>9. Sees(s3, e3) /\ s3.depth = s2.depth
  BY <1>7, <1>8, Used, Depths
<1>10. m \in DOMAIN s3.decls /\ IsStore(s3)
  <2>1. DOMAIN s3.decls = DOMAIN s2.decls
    BY <1>8 DEF s3, add_read_use, IsStore
  <2> QED BY <2>1, <1>8, <1>9, Lengths
<1> HIDE DEF s3, e3
<1>11. Sees(s4, e3) /\ s4.depth = s3.depth
  BY <1>9, <1>10, SameScopes, Depths
<1>12. IsStore(s4)
  BY <1>11, Lengths
<1> HIDE DEF s4
<1>13. Sees(var', env') /\ var'.depth = s4.depth + 1
  BY <1>6, <1>11, <1>12, Entered, Depths
<1>14. open' = Append(open, Block("for", m)) /\ Width(Block("for", m)) = 2
  BY DEF visit_for, Block, Width
<1>15. var'.depth = var.depth + 2
  BY <1>2, <1>4, <1>7, <1>9, <1>11, <1>13 DEF IsStore
<1> QED BY <1>1, <1>13, <1>14, <1>15, SeenOpens

(* Steps that close a block. *)
LEMMA SeenBlockEnd ==
  ASSUME Seen, BlockEnd
  PROVE  Seen' /\ Exact(report')
<1> DEFINE b == Last(open)
           s == end_scope(var)
           e == Front(env)
<1>1. phase = "run" /\ Len(open) > 1
  BY DEF BlockEnd
<1>2. Sees(var, env) /\ Framed /\ Len(env) > 0 /\ IsStore(var) /\ Len(env) \in Nat
  BY <1>1, SeenNow
<1>3. PICK p : Frames(p, open, Len(env))
  BY <1>2 DEF Framed
<1>4. /\ Frames(Closed(p, Len(open) - 1), Front(open), p[Len(open) - 1])
      /\ Len(env) = p[Len(open) - 1] + Width(b)
      /\ p[Len(open) - 1] \in Nat /\ p[Len(open) - 1] > 0
  BY <1>1, <1>3, FrameClosed
<1>5. Sees(s, e) /\ Len(e) = Len(env) - 1
  BY <1>2, Left
<1>6. Exact(Report(var, Last(env), TRUE))
  BY <1>2, Reported
<1>7. /\ report' = Report(var, Last(env), TRUE) /\ open' = Front(open)
      /\ var' = IF b.kind = "for" THEN end_scope(s) ELSE s
      /\ env' = IF b.kind = "for" THEN Front(e) ELSE e
  BY DEF BlockEnd
<1> HIDE DEF b, s, e
<1>8. Sees(var', env') /\ Len(env') = p[Len(open) - 1]
  <2>1. CASE b.kind = "for"
    <3>1. Width(b) = 2 /\ Len(e) > 0
      BY <2>1, <1>4, <1>5 DEF Width
    <3>2. Sees(end_scope(s), Front(e)) /\ Len(Front(e)) = Len(e) - 1
      BY <1>5, <3>1, Left
    <3> QED BY <2>1, <3>1, <3>2, <1>2, <1>4, <1>5, <1>7
  <2>2. CASE b.kind # "for"
    <3>1. Width(b) = 1
      BY <2>2 DEF Width
    <3> QED BY <2>2, <3>1, <1>2, <1>4, <1>5, <1>7
  <2> QED BY <2>1, <2>2
<1>9. Seen'
  BY <1>4, <1>7, <1>8, SeenThen
<1> QED BY <1>6, <1>7, <1>9

(* A name that is not declared is in no scope. *)
LEMMA NoScope ==
  ASSUME NEW s, NEW e, Sees(s, e), NEW m, ~declared(s, m)
  PROVE  m \notin DOMAIN s.decls /\ \A d \in 1 .. Len(e) : m \notin DOMAIN e[d]
<1>1. m \notin DOMAIN s.decls
  BY OneScope
<1> QED BY <1>1 DEF Sees, Recorded

(* The scope of a function's name and parameters. *)
LEMMA FnScopes ==
  ASSUME Seen, NEW f, NEW rt, NEW params, FnStart(f, rt, params)
  PROVE  LET s1 == start_scope(var)
             e1 == Append(env, <<>>)
             s2 == push(s1, f, "fn", "unknown")
             e2 == Bind(e1, f, "fn", rt)
             s3 == PushParams(s2, params)
             e3 == BindParams(e2, params)
         IN  /\ Len(env) = 1 /\ f \notin DOMAIN env[1]
             /\ \A m \in ParamNames(params) : m \notin DOMAIN env[1]
             /\ Sees(s1, e1) /\ Len(e1) = 2
             /\ Sees(s2, e2) /\ Len(e2) = 2
             /\ Sees(s3, e3) /\ Len(e3) = 2 /\ s3.depth = 2
<1> DEFINE s1 == start_scope(var)
           e1 == Append(env, <<>>)
           s2 == push(s1, f, "fn", "unknown")
           e2 == Bind(e1, f, "fn", rt)
           s3 == PushParams(s2, params)
           e3 == BindParams(e2, params)
<1>1. phase = "run" /\ open = <<>> /\ ~declared(var, f)
      /\ \A k \in DOMAIN params : ~declared(var, params[k].name)
  BY DEF FnStart, Room
<1>2. Sees(var, env) /\ IsStore(var) /\ Len(env) \in Nat /\ Len(env) = var.depth /\ Framed
  BY <1>1, SeenNow
<1>3. Len(env) = 1
  <2>1. PICK p : Frames(p, open, Len(env))
    BY <1>2 DEF Framed
  <2> QED BY <1>1, <2>1, FrameEnds
<1>4. f \notin DOMAIN var.decls /\ \A k \in DOMAIN params : params[k].name \notin DOMAIN var.decls
  <2>1. \A m : declared(var, m) <=> m \in DOMAIN var.decls
    BY <1>2, OneScope
  <2> QED BY <2>1, <1>1
<1>5. f \notin DOMAIN env[1] /\ \A m \in ParamNames(params) : m \notin DOMAIN env[1]
  <2>1. 1 \in 1 .. Len(env)
    BY <1>3
  <2> QED BY <2>1, <1>1, <1>2, NoScope DEF ParamNames
<1>6. Sees(s1, e1) /\ s1.depth = 2 /\ s1.decls = var.decls
  <2>1. Sees(s1, e1)
    BY <1>2, Entered
  <2>2. s1.depth = var.depth + 1 /\ s1.decls = var.decls
    BY <1>2, Depths
  <2>3. var.depth = 1
    BY <1>2, <1>3
  <2> HIDE DEF s1
  <2> QED BY <2>1, <2>2, <2>3
<1>7. IsStore(s1) /\ Len(e1) > 0
  <2>1. IsStore(s1) /\ Len(e1) = s1.depth
    BY <1>6, Lengths
  <2> QED BY <2>1, <1>6
<1> HIDE DEF s1, e1
<1>8. Sees(s2, e2) /\ s2.depth = 2 /\ s2.decls = Put(s1.decls, f, record(s1, "fn", "unknown"))
  BY <1>4, <1>6, <1>7, Pushed, Depths
<1>9. IsStore(s2) /\ Len(e2) > 0
  <2>1. IsStore(s2) /\ Len(e2) = s2.depth
    BY <1>8, Lengths
  <2> QED BY <2>1, <1>8
<1>10. ASSUME NEW m \in ParamNames(params), m \in DOMAIN s2.decls
       PROVE  s2.decls[m].depth = s2.depth
  <2>1. m \notin DOMAIN s1.decls
    BY <1>4, <1>6 DEF ParamNames
  <2>2. m = f /\ s2.decls[f] = record(s1, "fn", "unknown")
    BY <2>1, <1>8, <1>10 DEF Put
  <2> QED BY <2>2, <1>6, <1>8 DEF record
<1> HIDE DEF s2, e2
<1>11. Sees(s3, e3) /\ s3.depth = 2
  BY <1>8, <1>9, <1>10, ParamsPushed, ManyDepths
<1>12. Len(e1) = 2 /\ Len(e2) = 2 /\ Len(e3) = 2
  <2> HIDE DEF s3, e3
  <2> QED BY <1>6, <1>8, <1>11, Lengths
<1> QED BY <1>3, <1>5, <1>6, <1>8, <1>11, <1>12 DEF s1, e1, s2, e2

LEMMA SeenFnStart ==
  ASSUME Seen, NEW f, NEW rt, NEW params, FnStart(f, rt, params)
  PROVE  Seen' /\ report' = report
<1> DEFINE s3 == PushParams(push(start_scope(var), f, "fn", "unknown"), params)
           e3 == BindParams(Bind(Append(env, <<>>), f, "fn", rt), params)
<1>1. Sees(s3, e3) /\ s3.depth = 2
  BY FnScopes
<1>2. var' = start_scope(s3) /\ env' = Append(e3, <<>>) /\ report' = report
  BY DEF FnStart
<1> HIDE DEF s3, e3
<1>3. IsStore(s3)
  BY <1>1, Lengths
<1>4. Sees(var', env') /\ var'.depth = 3
  BY <1>1, <1>2, <1>3, Entered, Depths
<1>5. Len(env') = 3
  BY <1>4, Lengths
<1>6. PICK b : open' = <<b>>
  BY DEF FnStart
<1>7. Frames([j \in 0 .. 1 |-> IF j = 0 THEN 1 ELSE 3], open', Len(env'))
  BY <1>5, <1>6, FrameOfFn
<1> QED BY <1>2, <1>4, <1>7, SeenThen

LEMMA SeenFnEnd ==
  ASSUME Seen, FnEnd
  PROVE  Seen' /\ Exact(report')
<1> DEFINE f == Head(open).fn
           s == end_scope(var)
           e == Front(env)
           s2 == end_scope(s)
           e2 == Front(e)
<1>1. phase = "run" /\ Len(open) = 1
  BY DEF FnEnd
<1>2. Sees(var, env) /\ Framed
  BY <1>1, SeenNow
<1>3. Len(env) = 3
  <2>1. PICK p : Frames(p, open, Len(env))
    BY <1>2 DEF Framed
  <2> QED BY <1>1, <2>1, FrameEnds
<1>4. Sees(s, e) /\ Len(e) = 2
  <2>1. Len(env) > 0
    BY <1>3
  <2>2. Sees(s, e) /\ Len(e) = Len(env) - 1
    BY <1>2, <2>1, Left
  <2> QED BY <2>2, <1>3
<1>5. Exact(Report(var, Last(env), TRUE)) /\ Exact(Report(s, Last(e), FALSE))
  <2>1. Len(env) > 0 /\ Len(e) > 0
    BY <1>3, <1>4
  <2>2. Exact(Report(var, Last(env), TRUE))
    BY <1>2, <2>1, Reported
  <2> HIDE DEF s, e
  <2>3. Exact(Report(s, Last(e), FALSE))
    BY <1>4, <2>1, Reported
  <2> QED BY <2>2, <2>3
<1>6. /\ report' = Report(var, Last(env), TRUE) \union Report(s, Last(e), FALSE) /\ open' = <<>>
      /\ var' = push(s2, f, "fn", "unknown") /\ \E rt : env' = Bind(e2, f, "fn", rt)
  BY DEF FnEnd
<1>7. Sees(s2, e2) /\ Len(e2) = 1
  <2> HIDE DEF s, e
  <2>1. Len(e) > 0
    BY <1>4
  <2>2. Sees(s2, e2) /\ Len(e2) = Len(e) - 1
    BY <1>4, <2>1, Left
  <2> QED BY <2>2, <1>4
<1> HIDE DEF s2, e2, f
<1>8. IsStore(s2) /\ s2.depth = 1
  BY <1>7, Lengths
<1>9. ASSUME f \in DOMAIN s2.decls PROVE s2.decls[f].depth = s2.depth
  <2>1. s2.decls[f].depth \in 1 .. 1
    BY <1>7, <1>9, OneScope
  <2> QED BY <2>1, <1>8
<1>10. PICK rt : env' = Bind(e2, f, "fn", rt)
  BY <1>6
<1>11. Sees(var', env') /\ var'.depth = 1
  BY <1>6, <1>7, <1>8, <1>9, <1>10, Pushed, Depths
<1>12. Len(env') = 1
  BY <1>11, Lengths
<1>13. Seen'
  BY <1>6, <1>11, <1>12, FrameOfNone, SeenThen
<1>14. Exact(report')
  BY <1>5, <1>6 DEF Exact
<1> QED BY <1>13, <1>14

LEMMA SeenStep ==
  ASSUME BuiltinsApart, Seen, WarnsIffUnread, [Next]_vars
  PROVE  Seen' /\ WarnsIffUnread'
<1>1. WarnsIffUnread <=> Exact(report)
  BY DEF WarnsIffUnread, Exact
<1>2. WarnsIffUnread' <=> Exact(report')
  BY DEF WarnsIffUnread, Exact
<1>3. SUFFICES Seen' /\ (report' = report \/ Exact(report'))
  BY <1>1, <1>2
<1>4. CASE UNCHANGED vars
  BY <1>4 DEF vars, Seen, Framed
<1>5. ASSUME NEW m \in Names
      PROVE  /\ (\/ assert_is_declared(m) \/ assert_is_not_declared(m)) => Seen' /\ report' = report
             /\ visit_return(m) => Seen' /\ report' = report
             /\ (visit_if(m) \/ visit_while(m) \/ visit_do_while(m)) => Seen' /\ report' = report
             /\ visit_for(m) => Seen' /\ report' = report
             /\ \A dt \in DataTypes : visit_var_decl(m, dt) => Seen' /\ report' = report
             /\ \A r \in Names : visit_binary(m, r) => Seen' /\ report' = report
             /\ \A dt \in DataTypes, f \in FnNames, args \in ArgLists :
                  visit_var_decl_call(m, dt, f, args) => Seen' /\ report' = report
  <2>1. (assert_is_declared(m) \/ assert_is_not_declared(m)) => Seen' /\ report' = report
    BY DEF assert_is_declared, assert_is_not_declared, Seen
  <2> QED BY <2>1, SeenReturn, SeenBlock, SeenFor, SeenDecl, SeenAssign, SeenDeclCall
<1>6. ASSUME NEW f, NEW args \in ArgLists, visit_fn_call(f, args)
      PROVE  Seen' /\ report' = report
  BY <1>6, SeenCall
<1>7. ASSUME NEW f, NEW rt, NEW params, FnStart(f, rt, params)
      PROVE  Seen' /\ report' = report
  BY <1>7, SeenFnStart
<1>8. ASSUME NEW f, FnRedeclared(f)
      PROVE  Seen' /\ report' = report
  BY <1>8 DEF FnRedeclared, Seen
<1>9. visit_return_void => Seen' /\ report' = report
  BY SeenReturnVoid
<1>10. BlockEnd \/ FnEnd => Seen' /\ Exact(report')
  BY SeenBlockEnd, SeenFnEnd
<1>11. ProgramEnd => Seen' /\ Exact(report')
  <2> SUFFICES ASSUME ProgramEnd PROVE Seen' /\ Exact(report')
    OBVIOUS
  <2>1. phase = "run" /\ phase' = "done" /\ report' = Report(var, Last(env), TRUE)
    BY DEF ProgramEnd
  <2>2. Sees(var, env) /\ Len(env) > 0
    BY <2>1, SeenNow
  <2>3. Exact(report')
    BY <2>1, <2>2, Reported
  <2> QED BY <2>1, <2>3 DEF Seen
<1>12. CASE Next
  <2> USE DEF Next
  <2>1. CASE \E m \in Names :
                \/ assert_is_declared(m) \/ assert_is_not_declared(m)
                \/ visit_return(m) \/ visit_if(m) \/ visit_while(m)
                \/ visit_do_while(m) \/ visit_for(m)
                \/ \E dt \in DataTypes : visit_var_decl(m, dt)
                \/ \E r \in Names : visit_binary(m, r)
                \/ \E dt \in DataTypes, f \in FnNames, args \in ArgLists :
                     visit_var_decl_call(m, dt, f, args)
    BY <2>1, <1>5
  <2>2. CASE \E f \in FnNames \union Builtins \union Names, args \in ArgLists : visit_fn_call(f, args)
    BY <2>2, <1>6
  <2>3. CASE \E f \in FnNames, rt \in RetTypes, params \in ParamLists : FnStart(f, rt, params)
    BY <2>3, <1>7
  <2>4. CASE \E f \in FnNames : FnRedeclared(f)
    BY <2>4, <1>8
  <2> QED BY <2>1, <2>2, <2>3, <2>4, <1>9, <1>10, <1>11, <1>12
<1> QED BY <1>4, <1>12

(* WarnsIffUnread, for programs of any size, any names and any parameters: *)
(* at the end of every scope a variable or function is warned of exactly   *)
(* if nothing read it.                                                     *)
THEOREM Warnings ==
  ASSUME BuiltinsApart
  PROVE  Spec => []WarnsIffUnread
<1>1. Init => Seen /\ WarnsIffUnread
  BY SeenInit
<1>2. Seen /\ WarnsIffUnread /\ [Next]_vars => Seen' /\ WarnsIffUnread'
  BY SeenStep
<1> QED BY <1>1, <1>2, PTL DEF Spec

------------------------------------------------------------------------------
(* ana_type knows the types of what is in scope.                           *)

IsType(t) ==
  /\ t = [st |-> t.st, dt |-> t.dt, ret |-> t.ret, res |-> t.res]
  /\ t.st = [depth |-> t.st.depth, decls |-> t.st.decls]

(* With k blocks open a record is not deeper than Level(k), so that it is  *)
(* there until the block is closed.                                        *)
Bounded(r, k) == r.depth \in Int /\ r.depth <= Level(k)

Fits(r, x, m, F) == (m \in Names => r.dt = x.dt) /\ (m \in FnNames => r.kind = "fn" /\ m \in F)

Named(st, x, m, k, F) ==
  m \in DOMAIN st.decls /\ Bounded(st.decls[m], k) /\ Fits(st.decls[m], x, m, F)

TypedScope(st, h, k, F) == \A m \in DOMAIN h : m \in Known => Named(st, h[m], m, k, F)

Typing(st, e, p, w, F) == \A k \in 0 .. w : \A d \in 1 .. p[k] : TypedScope(st, e[d], k, F)

(* The types of a scope stay. *)
Kept(h2, h) == DOMAIN h2 = DOMAIN h /\ \A m \in DOMAIN h : h2[m].dt = h[m].dt
Keeps(e2, e, l) == \A d \in 1 .. l : Kept(e2[d], e[d])

SameOn(st2, st, X) ==
  \A m \in X : m \in DOMAIN st.decls => m \in DOMAIN st2.decls /\ st2.decls[m] = st.decls[m]

(* The storage of ana_type and the scope h, to which m was added. *)
Added(h2, h, m, dt) ==
  /\ DOMAIN h2 = DOMAIN h \union {m} /\ h2[m].dt = dt
  /\ \A y \in DOMAIN h : y # m => h2[y].dt = h[y].dt

LEMMA KeepsRead ==
  ASSUME NEW s, NEW e, Sees(s, e), NEW m \in DOMAIN s.decls
  PROVE  Keeps(Read(e, m), e, Len(e))
<1> DEFINE d == s.decls[m].depth
           h == [e[d] EXCEPT ![m].read = TRUE]
           g == [e EXCEPT ![d] = h]
<1>1. IsEnv(e) /\ d \in 1 .. Len(e) /\ m \in DOMAIN e[d] /\ DOMAIN e = 1 .. Len(e)
  <2>1. IsEnv(e) /\ d \in 1 .. Len(e) /\ m \in DOMAIN e[d]
    BY DEF Sees, Placed
  <2> QED BY <2>1, Domains DEF IsEnv
<1>2. Max({k \in DOMAIN e : m \in DOMAIN e[k]}) = d
  BY OneScope, ZenonT(30)
<1> HIDE DEF d
<1>3. IsScope(e[d]) /\ IsMark(e[d][m])
  BY <1>1 DEF IsEnv, IsScope
<1>4. Read(e, m) = g
  BY <1>1, <1>2 DEF Read
<1>5. /\ DOMAIN h = DOMAIN e[d] /\ h[m] = [e[d][m] EXCEPT !.read = TRUE]
      /\ \A y \in DOMAIN h : y # m => h[y] = e[d][y]
  BY <1>1, <1>3 DEF IsScope
<1> HIDE DEF h
<1>6. h[m].dt = e[d][m].dt
  BY <1>3, <1>5 DEF IsMark
<1>7. Kept(h, e[d])
  BY <1>5, <1>6 DEF Kept
<1>8. g[d] = h /\ \A k \in 1 .. Len(e) : k # d => g[k] = e[k]
  BY <1>1
<1> HIDE DEF g
<1>9. \A k \in 1 .. Len(e) : Kept(e[k], e[k])
  BY DEF Kept
<1> QED BY <1>4, <1>7, <1>8, <1>9 DEF Keeps

LEMMA KeepsMark ==
  ASSUME NEW e, IsEnv(e), NEW f, NEW args
  PROVE  Keeps(MarkRead(e, f, args), e, Len(e))
<1> DEFINE used == Range(args) \union ({f} \ Builtins)
           last(m) == Max({d \in DOMAIN e : m \in DOMAIN e[d]})
           g == MarkRead(e, f, args)
<1>1. DOMAIN e = 1 .. Len(e)
  BY Domains DEF IsEnv
<1>2. g = [d \in 1 .. Len(e) |-> [m \in DOMAIN e[d] |->
             IF m \in used /\ d = last(m) THEN [e[d][m] EXCEPT !.read = TRUE] ELSE e[d][m]]]
  BY <1>1 DEF MarkRead
<1> HIDE DEF used, last, g
<1>3. ASSUME NEW d \in 1 .. Len(e)
      PROVE  Kept(g[d], e[d])
  <2>1. g[d] = [m \in DOMAIN e[d] |->
             IF m \in used /\ d = last(m) THEN [e[d][m] EXCEPT !.read = TRUE] ELSE e[d][m]]
    BY <1>2
  <2>2. DOMAIN g[d] = DOMAIN e[d]
    BY <2>1
  <2>3. ASSUME NEW m \in DOMAIN e[d]
        PROVE  g[d][m].dt = e[d][m].dt
    <3>1. IsMark(e[d][m])
      BY DEF IsEnv, IsScope
    <3>2. g[d][m] = IF m \in used /\ d = last(m) THEN [e[d][m] EXCEPT !.read = TRUE] ELSE e[d][m]
      BY <2>1
    <3> QED BY <3>1, <3>2 DEF IsMark
  <2> QED BY <2>2, <2>3 DEF Kept
<1> QED BY <1>3 DEF Keeps, g

LEMMA KeepsBind ==
  ASSUME NEW e, IsEnv(e), Len(e) > 0, NEW m, NEW kind, NEW dt
  PROVE  /\ Keeps(Bind(e, m, kind, dt), e, Len(e) - 1)
         /\ Added(Bind(e, m, kind, dt)[Len(e)], e[Len(e)], m, dt)
<1> DEFINE w == Len(e)
           x == [kind |-> kind, dt |-> dt, read |-> FALSE]
           h == Put(e[w], m, x)
           g == [e EXCEPT ![w] = h]
<1>1. DOMAIN e = 1 .. w /\ w \in Nat
  BY Domains DEF IsEnv
<1>2. Bind(e, m, kind, dt) = g
  BY DEF Bind
<1>3. DOMAIN h = DOMAIN e[w] \union {m} /\ h[m] = x /\ \A y \in DOMAIN e[w] : y # m => h[y] = e[w][y]
  <2> HIDE DEF x
  <2> QED BY DEF Put
<1>4. x.dt = dt
  OBVIOUS
<1> HIDE DEF x, h
<1>5. g[w] = h /\ \A k \in 1 .. w - 1 : g[k] = e[k]
  BY <1>1
<1> HIDE DEF g
<1>6. Added(g[w], e[w], m, dt)
  BY <1>3, <1>4, <1>5 DEF Added
<1>7. Keeps(g, e, w - 1)
  BY <1>5 DEF Keeps, Kept
<1> QED BY <1>2, <1>6, <1>7

LEMMA KeepsParams ==
  ASSUME NEW e, IsEnv(e), Len(e) > 0, NEW params
  PROVE  /\ Keeps(BindParams(e, params), e, Len(e) - 1)
         /\ DOMAIN BindParams(e, params)[Len(e)] = DOMAIN e[Len(e)] \union ParamNames(params)
         /\ \A y \in ParamNames(params) : BindParams(e, params)[Len(e)][y].dt = ParamType(params, y)
<1> DEFINE w == Len(e)
           P == ParamNames(params)
           x(m) == [kind |-> "var", dt |-> ParamType(params, m), read |-> FALSE]
           h == [m \in DOMAIN e[w] \union P |-> IF m \in P THEN x(m) ELSE e[w][m]]
           g == [e EXCEPT ![w] = h]
<1>1. DOMAIN e = 1 .. w /\ w \in Nat
  BY Domains DEF IsEnv
<1>2. BindParams(e, params) = g
  BY DEF BindParams
<1> HIDE DEF x, P
<1>3. DOMAIN h = DOMAIN e[w] \union P /\ \A y \in P : h[y] = x(y)
  OBVIOUS
<1> HIDE DEF h
<1>4. \A y : x(y).dt = ParamType(params, y)
  BY DEF x
<1>5. g[w] = h /\ \A k \in 1 .. w - 1 : g[k] = e[k]
  BY <1>1
<1> HIDE DEF g
<1>7. Keeps(g, e, w - 1)
  BY <1>5 DEF Keeps, Kept
<1> QED BY <1>2, <1>3, <1>4, <1>5, <1>7 DEF P

LEMMA NamedSame ==
  ASSUME NEW X, NEW st, NEW st2, NEW x, NEW x2, NEW m \in X, NEW k, NEW F, Named(st, x, m, k, F),
         SameOn(st2, st, X), x2.dt = x.dt
  PROVE  Named(st2, x2, m, k, F)
BY DEF Named, SameOn, Fits

LEMMA ScopeSame ==
  ASSUME NEW X, NEW st, NEW st2, NEW h, NEW h2, NEW k, NEW F, TypedScope(st, h, k, F),
         SameOn(st2, st, X), Kept(h2, h), DOMAIN h \intersect Known \subseteq X
  PROVE  TypedScope(st2, h2, k, F)
BY NamedSame DEF TypedScope, Kept

LEMMA FrameRange ==
  ASSUME NEW p, NEW op, NEW len, Frames(p, op, len), NEW k \in 0 .. Len(op)
  PROVE  /\ p[k] \in Nat /\ p[k] <= len /\ p[k] > 0 /\ len \in Nat /\ Len(op) \in Nat
         /\ k < Len(op) => p[k] <= len - 1
<1>1. Len(op) \in Nat /\ len \in Nat
  BY FrameEnds
<1>2. p \in [0 .. Len(op) -> Nat] /\ p[0] = 1 /\ p[Len(op)] = len
  BY DEF Frames
<1>3. k < Len(op) => p[k] < len
  BY <1>1, <1>2 DEF Frames
<1>4. 0 < k => p[0] < p[k]
  BY <1>1, <1>2 DEF Frames
<1>5. p[k] \in Nat
  BY <1>2
<1>6. k = Len(op) \/ k < Len(op)
  BY <1>1
<1>7. k = 0 \/ 0 < k
  BY <1>1
<1> QED BY <1>1, <1>2, <1>3, <1>4, <1>5, <1>6, <1>7

LEMMA TypingSame ==
  ASSUME NEW X, NEW st, NEW st2, NEW e, NEW e2, NEW p, NEW op, NEW F,
         Frames(p, op, Len(e)), Typing(st, e, p, Len(op), F),
         SameOn(st2, st, X), Keeps(e2, e, Len(e)),
         \A d \in 1 .. Len(e) : DOMAIN e[d] \intersect Known \subseteq X
  PROVE  Typing(st2, e2, p, Len(op), F)
<1> SUFFICES ASSUME NEW k \in 0 .. Len(op), NEW d \in 1 .. p[k]
             PROVE  TypedScope(st2, e2[d], k, F)
  BY DEF Typing
<1>1. TypedScope(st, e[d], k, F)
  BY DEF Typing
<1>2. d \in 1 .. Len(e)
  BY FrameRange
<1>3. Kept(e2[d], e[d]) /\ DOMAIN e[d] \intersect Known \subseteq X
  BY <1>2 DEF Keeps
<1> QED BY <1>1, <1>3, ScopeSame

(* A declaration that ana_type makes in its innermost scope, of a name     *)
(* that is in no other scope of the language.                              *)
LEMMA TypingPush ==
  ASSUME NEW st, NEW e, NEW e2, NEW p, NEW op, NEW F, NEW m \in Known, NEW kind, NEW dt, NEW dt2,
         Frames(p, op, Len(e)), Typing(st, e, p, Len(op), F),
         st = [depth |-> st.depth, decls |-> st.decls], st.depth = Level(Len(op)),
         \A d \in 1 .. Len(e) : d # Len(e) => m \notin DOMAIN e[d],
         m \in Names => dt = dt2, m \in FnNames => kind = "fn" /\ m \in F,
         Keeps(e2, e, Len(e) - 1), Added(e2[Len(e)], e[Len(e)], m, dt2)
  PROVE  Typing(push(st, m, kind, dt), e2, p, Len(op), F)
<1> DEFINE s2 == push(st, m, kind, dt)
           w == Len(op)
           r == record(st, kind, dt)
<1>1. w \in Nat /\ p[w] = Len(e) /\ Len(e) \in Nat
  BY FrameEnds DEF Frames
<1>2. /\ s2.decls[m] = r /\ DOMAIN s2.decls = DOMAIN st.decls \union {m}
      /\ \A y \in DOMAIN st.decls : y # m => s2.decls[y] = st.decls[y]
  <2>1. s2.decls = Put(st.decls, m, r)
    BY DEF push
  <2> HIDE DEF r, s2
  <2> QED BY <2>1 DEF Put
<1>3. r.dt = dt /\ r.kind = kind /\ r.depth = Level(w)
  BY DEF record
<1> HIDE DEF r, s2
<1>4. ASSUME NEW y \in Known, y # m, NEW x, NEW x2, NEW k, Named(st, x, y, k, F), x2.dt = x.dt
      PROVE  Named(s2, x2, y, k, F)
  BY <1>2, <1>4 DEF Named, Fits
<1>5. ASSUME NEW k \in 0 .. w, NEW d \in 1 .. p[k]
      PROVE  TypedScope(s2, e2[d], k, F)
  <2>1. TypedScope(st, e[d], k, F)
    BY <1>5 DEF Typing
  <2>2. d \in 1 .. Len(e)
    BY <1>5, FrameRange
  <2>3. CASE d # Len(e)
    <3>1. d \in 1 .. Len(e) - 1
      BY <2>2, <2>3, <1>1
    <3>2. Kept(e2[d], e[d])
      BY <3>1 DEF Keeps
    <3>3. m \notin DOMAIN e[d]
      BY <2>2, <2>3
    <3> QED BY <2>1, <3>2, <3>3, <1>4 DEF TypedScope, Kept
  <2>4. CASE d = Len(e)
    <3>1. k = w
      <4>1. k < w => p[k] <= Len(e) - 1 /\ p[k] \in Nat
        BY FrameRange
      <4> QED BY <4>1, <2>4, <1>1
    <3>2. SUFFICES ASSUME NEW y \in DOMAIN e2[d], y \in Known
                   PROVE  Named(s2, e2[d][y], y, k, F)
      BY DEF TypedScope
    <3>3. CASE y = m
      <4>1. e2[d][m].dt = dt2
        BY <2>4 DEF Added
      <4>2. Level(w) \in Int
        BY <1>1 DEF Level
      <4> QED BY <3>1, <3>3, <4>1, <4>2, <1>2, <1>3 DEF Named, Bounded, Fits
    <3>4. CASE y # m
      <4>1. y \in DOMAIN e[d] /\ e2[d][y].dt = e[d][y].dt
        BY <2>4, <3>4, <3>2 DEF Added
      <4>2. Named(st, e[d][y], y, k, F)
        BY <2>1, <4>1, <3>2 DEF TypedScope
      <4> QED BY <3>2, <3>4, <4>1, <4>2, <1>4
    <3> QED BY <3>3, <3>4
  <2> QED BY <2>3, <2>4
<1> QED BY <1>5 DEF Typing, s2

(* The condition of an open do-while was in scope before its body.  It was *)
(* judged then, and ana_type looks at it at the end.                       *)
WrongDo(p, op, e, k) ==
  /\ op[k].kind = "do"
  /\ \E d \in 1 .. p[k - 1] : op[k].cond \in DOMAIN e[d] /\ e[d][op[k].cond].dt # "int"

Judged(p, op, e, k, il) ==
  op[k].kind = "do" =>
    /\ op[k].cond \in Names
    /\ \E d \in 1 .. p[k - 1] :
         op[k].cond \in DOMAIN e[d] /\ (e[d][op[k].cond].dt = "int" \/ "type" \in il)

Due(p, op, e, il) ==
  /\ \A k \in 2 .. Len(op) : Judged(p, op, e, k, il)
  /\ "type" \in il => \E k \in 2 .. Len(op) : WrongDo(p, op, e, k)

IsBlock(b) == b = [kind |-> b.kind, cond |-> b.cond, fn |-> b.fn, ret |-> b.ret]

Current(op, t, F) ==
  op # <<>> => /\ IsBlock(op[1]) /\ op[1].fn \in F
               /\ op[1].ret \in DataTypes => t.ret = op[1].ret

NoBuiltin(st) == DOMAIN st.decls \intersect Builtins = {}

(* The inductive invariant of ana_type. *)
TypesOf(p, op, e, t, il, F) ==
  /\ Frames(p, op, Len(e))
  /\ IsType(t) /\ t.res = "ok" /\ t.st.depth = Level(Len(op))
  /\ Typing(t.st, e, p, Len(op), F)
  /\ Due(p, op, e, il)
  /\ Current(op, t, F) /\ F \subseteq FnNames
  /\ NoBuiltin(t.st)

LEMMA DueKept ==
  ASSUME NEW p, NEW op, NEW op2, NEW e, NEW e2, NEW il, NEW il2,
         Frames(p, op, Len(e)), Due(p, op, e, il), Keeps(e2, e, Len(e) - 1),
         Len(op2) = Len(op), \A k \in 2 .. Len(op) : op2[k] = op[k],
         "type" \in il2 <=> "type" \in il
  PROVE  Due(p, op2, e2, il2)
<1>1. ASSUME NEW k \in 2 .. Len(op), NEW d \in 1 .. p[k - 1]
      PROVE  Kept(e2[d], e[d])
  <2>1. k - 1 \in 0 .. Len(op) /\ k - 1 < Len(op)
    BY FrameEnds
  <2>2. p[k - 1] \in Nat /\ p[k - 1] <= Len(e) - 1 /\ Len(e) \in Nat
    BY <2>1, FrameRange
  <2>3. d \in 1 .. Len(e) - 1
    BY <2>2
  <2> QED BY <2>3 DEF Keeps
<1>2. ASSUME NEW k \in 2 .. Len(op)
      PROVE  Judged(p, op2, e2, k, il2) /\ (WrongDo(p, op, e, k) => WrongDo(p, op2, e2, k))
  <2>1. op2[k] = op[k] /\ Judged(p, op, e, k, il)
    BY DEF Due
  <2>2. Judged(p, op2, e2, k, il2)
    BY <1>1, <2>1 DEF Judged, Kept
  <2>3. WrongDo(p, op, e, k) => WrongDo(p, op2, e2, k)
    BY <1>1, <2>1 DEF WrongDo, Kept
  <2> QED BY <2>2, <2>3
<1>3. "type" \in il => \E k \in 2 .. Len(op) : WrongDo(p, op, e, k)
  BY DEF Due
<1>4. "type" \in il2 => \E k \in 2 .. Len(op) : WrongDo(p, op2, e2, k)
  BY <1>2, <1>3
<1> QED BY <1>2, <1>4 DEF Due

LEMMA TypesStay ==
  ASSUME NEW p, NEW op, NEW op2, NEW e, NEW e2, NEW t, NEW t2, NEW il, NEW il2, NEW F,
         TypesOf(p, op, e, t, il, F),
         Len(e2) = Len(e), Keeps(e2, e, Len(e) - 1),
         Frames(p, op2, Len(e)), Len(op2) = Len(op), \A k \in 2 .. Len(op) : op2[k] = op[k],
         IsType(t2), t2.res = "ok", t2.st.depth = t.st.depth,
         Typing(t2.st, e2, p, Len(op), F), Current(op2, t2, F), NoBuiltin(t2.st),
         "type" \in il2 <=> "type" \in il
  PROVE  TypesOf(p, op2, e2, t2, il2, F)
<1>1. Frames(p, op, Len(e)) /\ Due(p, op, e, il)
  BY DEF TypesOf
<1>2. Due(p, op2, e2, il2)
  BY <1>1, DueKept
<1> QED BY <1>2 DEF TypesOf

(* What ana_type finds of a declared name. *)
mean(e, m) == e[Max({d \in DOMAIN e : m \in DOMAIN e[d]})][m]

LEMMA Looks ==
  ASSUME NEW s, NEW e, Sees(s, e), NEW p, NEW op, NEW t, NEW il, NEW F,
         TypesOf(p, op, e, t, il, F), NEW m \in Known, declared(s, m)
  PROVE  /\ declared(t.st, m)
         /\ m \in Names => lookup(t.st, m).dt = mean(e, m).dt
         /\ m \in FnNames => lookup(t.st, m).kind = "fn" /\ m \in F
         /\ s.decls[m].depth \in 1 .. Len(e) /\ m \in DOMAIN e[s.decls[m].depth]
         /\ mean(e, m) = e[s.decls[m].depth][m]
<1> DEFINE d == s.decls[m].depth
           w == Len(op)
<1>1. m \in DOMAIN s.decls
  BY OneScope
<1>2. d \in 1 .. Len(e) /\ Max({k \in DOMAIN e : m \in DOMAIN e[k]}) = d
  BY <1>1, OneScope
<1>3. m \in DOMAIN e[d]
  BY <1>1 DEF Sees, Placed
<1> HIDE DEF d
<1>4. mean(e, m) = e[d][m]
  BY <1>2 DEF mean
<1>5. w \in 0 .. w /\ p[w] = Len(e) /\ w \in Nat
  BY FrameEnds DEF TypesOf, Frames
<1>6. TypedScope(t.st, e[d], w, F)
  BY <1>2, <1>5 DEF TypesOf, Typing
<1>7. Named(t.st, e[d][m], m, w, F)
  BY <1>3, <1>6 DEF TypedScope
<1>8. declared(t.st, m)
  BY <1>7 DEF TypesOf, Named, Bounded, declared
<1> QED BY <1>2, <1>3, <1>4, <1>7, <1>8 DEF Named, Fits, lookup, d

Typed == phase = "run" => \E p : TypesOf(p, open, env, ty, ill, DOMAIN fns)

Verdict ==
  /\ phase = "type_error" => ill # {}
  /\ phase = "done" => "type" \notin ill
  /\ phase = "crash" => Builtins # {}

LEMMA TypedNow ==
  ASSUME Typed, phase = "run"
  PROVE  \E p : TypesOf(p, open, env, ty, ill, DOMAIN fns)
BY DEF Typed

LEMMA TypedThen ==
  ASSUME NEW p, TypesOf(p, open', env', ty', ill', DOMAIN fns')
  PROVE  Typed'
BY DEF Typed

(* What follows from the result of a walk. *)
LEMMA Outcome ==
  ASSUME NEW t, TypeStep(t), t.res \in {"ok", "type_error", "abort", "crash"},
         t.res = "ok" => Typed', t.res = "type_error" => ill' # {},
         t.res = "crash" => Builtins # {}
  PROVE  Typed' /\ Verdict'
<1>1. t.res = "ok" => phase' = "run"
  BY GoesOn
<1>2. t.res # "ok" => phase' \in {"fn_error", t.res}
  BY GoesOn
<1>3. Verdict'
  BY <1>1, <1>2 DEF Verdict
<1>4. Typed'
  BY <1>2 DEF Typed
<1> QED BY <1>3, <1>4

LEMMA Stopped ==
  ASSUME phase' \in {"fn_error", "fn_crash", "var_error"}
  PROVE  Typed' /\ Verdict'
BY DEF Typed, Verdict

LEMMA LenExcept ==
  ASSUME NEW e, IsSeq(e), NEW k, NEW h
  PROVE  Len([e EXCEPT ![k] = h]) = Len(e)
<1> DEFINE g == [e EXCEPT ![k] = h]
<1>1. DOMAIN e = 1 .. Len(e) /\ Len(e) \in Nat
  BY Domains
<1>2. g = [d \in 1 .. Len(e) |-> IF d = k THEN h ELSE e[d]]
  BY <1>1
<1> HIDE DEF g
<1>3. g = [d \in 1 .. Len(e) |-> g[d]]
  BY <1>2
<1>4. Len(g) = Len(e)
  BY <1>1, <1>3, MakeSeq
<1> QED BY <1>4 DEF g

LEMMA EnvLengths ==
  ASSUME NEW e, IsSeq(e), NEW m, NEW kind, NEW dt, NEW f, NEW args
  PROVE  /\ Len(Bind(e, m, kind, dt)) = Len(e) /\ Len(Read(e, m)) = Len(e)
         /\ Len(MarkRead(e, f, args)) = Len(e) /\ Len(BindParams(e, args)) = Len(e)
<1>1. Len(Bind(e, m, kind, dt)) = Len(e)
  BY LenExcept DEF Bind
<1>2. Len(Read(e, m)) = Len(e)
  <2> DEFINE d == Max({k \in DOMAIN e : m \in DOMAIN e[k]})
             h == [e[d] EXCEPT ![m].read = TRUE]
  <2>1. Read(e, m) = [e EXCEPT ![d] = h]
    BY DEF Read
  <2> HIDE DEF d, h
  <2> QED BY <2>1, LenExcept
<1>3. Len(BindParams(e, args)) = Len(e)
  BY LenExcept DEF BindParams
<1>4. Len(MarkRead(e, f, args)) = Len(e)
  <2> DEFINE g == MarkRead(e, f, args)
  <2>1. DOMAIN e = 1 .. Len(e) /\ Len(e) \in Nat
    BY Domains
  <2>2. g = [d \in 1 .. Len(e) |-> g[d]]
    BY <2>1 DEF MarkRead
  <2> HIDE DEF g
  <2>3. Len(g) = Len(e)
    BY <2>1, <2>2, MakeSeq
  <2> QED BY <2>3 DEF g
<1> QED BY <1>1, <1>2, <1>3, <1>4

LEMMA KeepsLess ==
  ASSUME NEW e, NEW e2, IsSeq(e), Keeps(e2, e, Len(e))
  PROVE  Keeps(e2, e, Len(e) - 1)
<1>1. Len(e) \in Nat
  BY Domains
<1> QED BY <1>1 DEF Keeps

LEMMA TypePush ==
  ASSUME NEW t, IsType(t), NEW m, NEW kind, NEW dt
  PROVE  /\ IsType(type_push(t, m, kind, dt)) /\ type_push(t, m, kind, dt).st = push(t.st, m, kind, dt)
         /\ type_push(t, m, kind, dt).st.depth = t.st.depth
         /\ type_push(t, m, kind, dt).res = t.res /\ type_push(t, m, kind, dt).ret = t.ret
         /\ type_push(t, m, kind, dt).dt = dt
<1> DEFINE f == Put(t.st.decls, m, record(t.st, kind, dt))
<1>1. push(t.st, m, kind, dt) = [t.st EXCEPT !.decls = f]
  BY DEF push
<1> HIDE DEF f
<1>2. push(t.st, m, kind, dt) = [depth |-> t.st.depth, decls |-> f]
  BY <1>1 DEF IsType
<1>3. type_push(t, m, kind, dt) = [t EXCEPT !.st = push(t.st, m, kind, dt), !.dt = dt]
  BY DEF type_push
<1>4. type_push(t, m, kind, dt) =
        [st |-> push(t.st, m, kind, dt), dt |-> dt, ret |-> t.ret, res |-> t.res]
  BY <1>3 DEF IsType
<1> QED BY <1>2, <1>4 DEF IsType

LEMMA TypeSymbol ==
  ASSUME NEW t, IsType(t), NEW m, declared(t.st, m)
  PROVE  /\ IsType(type_symbol(t, m)) /\ type_symbol(t, m).st = t.st
         /\ type_symbol(t, m).res = t.res /\ type_symbol(t, m).ret = t.ret
         /\ type_symbol(t, m).dt = lookup(t.st, m).dt
BY DEF IsType, type_symbol

LEMMA TypeRequire ==
  ASSUME NEW t, IsType(t), NEW holds \in BOOLEAN
  PROVE  /\ IsType(type_require(t, holds)) /\ type_require(t, holds).st = t.st
         /\ type_require(t, holds).ret = t.ret /\ type_require(t, holds).dt = t.dt
         /\ type_require(t, holds).res = IF holds \/ t.res # "ok" THEN t.res ELSE "type_error"
BY DEF IsType, type_require, fail, Ok

LEMMA TypedNames == Names \subseteq Known /\ FnNames \subseteq Known /\ Names \intersect FnNames = {}
BY NamesAssumption DEF Known

LEMMA TypedDecl ==
  ASSUME Seen, Typed, NEW m \in Names, NEW dt, visit_var_decl(m, dt)
  PROVE  Typed' /\ Verdict'
<1> DEFINE F == DOMAIN fns
           t == type_push(ty, m, "var", dt)
<1>1. phase = "run" /\ ~declared(var, m)
  BY StmtIs DEF visit_var_decl
<1>2. Sees(var, env) /\ IsSeq(env) /\ IsEnv(env) /\ Len(env) > 0
  BY <1>1, SeenNow, Lengths DEF Sees
<1>3. PICK p : TypesOf(p, open, env, ty, ill, F)
  BY <1>1, TypedNow
<1>4. IsType(ty) /\ ty.res = "ok" /\ ty.st.depth = Level(Len(open)) /\ Frames(p, open, Len(env))
      /\ Typing(ty.st, env, p, Len(open), F) /\ Current(open, ty, F)
  BY <1>3 DEF TypesOf
<1>5. IsType(t) /\ t.st = push(ty.st, m, "var", dt) /\ t.st.depth = ty.st.depth /\ t.res = "ok" /\ t.ret = ty.ret
  BY <1>4, TypePush
<1>6. TypeStep(t) /\ env' = Bind(env, m, "var", dt) /\ fns' = fns /\ open' = open /\ ill' = ill
  BY DEF visit_var_decl
<1> HIDE DEF t
<1>7. Keeps(env', env, Len(env) - 1) /\ Added(env'[Len(env)], env[Len(env)], m, dt) /\ Len(env') = Len(env)
  BY <1>2, <1>6, KeepsBind, EnvLengths
<1>8. \A d \in 1 .. Len(env) : m \notin DOMAIN env[d]
  BY <1>1, <1>2, NoScope
<1>9. m \in Known /\ m \notin FnNames
  BY TypedNames
<1>10. ty.st = [depth |-> ty.st.depth, decls |-> ty.st.decls]
  BY <1>4 DEF IsType
<1>11. Typing(push(ty.st, m, "var", dt), env', p, Len(open), F)
  BY <1>4, <1>7, <1>8, <1>9, <1>10, TypingPush
<1>12. Current(open, t, F)
  BY <1>4, <1>5 DEF Current
<1>13. NoBuiltin(t.st)
  <2>1. NoBuiltin(ty.st) /\ m \notin Builtins
    BY <1>3, NamesAssumption DEF TypesOf
  <2>2. t.st.decls = Put(ty.st.decls, m, record(ty.st, "var", dt))
    BY <1>5, <1>10 DEF push
  <2> QED BY <2>1, <2>2 DEF NoBuiltin, Put
<1>16. TypesOf(p, open, env', t, ill, F)
  BY <1>3, <1>4, <1>5, <1>7, <1>11, <1>12, <1>13, TypesStay
<1>14. ty' = t
  BY <1>6, GoesOn
<1>15. Typed'
  BY <1>6, <1>16, <1>14, TypedThen
<1> QED BY <1>5, <1>6, <1>15, Outcome

(* m is declared: what ana_type reads is what the language means. *)
LEMMA TypedLooks ==
  ASSUME Seen, phase = "run", NEW p, TypesOf(p, open, env, ty, ill, DOMAIN fns), NEW m \in Names,
         declared(var, m)
  PROVE  /\ declared(ty.st, m) /\ lookup(ty.st, m).dt = Meaning(m).dt
         /\ m \in DOMAIN var.decls
         /\ \E d \in 1 .. Len(env) : m \in DOMAIN env[d] /\ env[d][m].dt = Meaning(m).dt
<1>1. Sees(var, env) /\ m \in Known
  BY SeenNow, TypedNames
<1>2. /\ declared(ty.st, m) /\ lookup(ty.st, m).dt = mean(env, m).dt
      /\ var.decls[m].depth \in 1 .. Len(env) /\ m \in DOMAIN env[var.decls[m].depth]
      /\ mean(env, m) = env[var.decls[m].depth][m]
  BY <1>1, Looks
<1>3. mean(env, m) = Meaning(m)
  BY DEF mean, Meaning, Scopes
<1>4. m \in DOMAIN var.decls
  BY <1>1, OneScope
<1> QED BY <1>2, <1>3, <1>4

(* Steps that read one name in the frame they find. *)
LEMMA TypedReads ==
  ASSUME Seen, phase = "run", NEW p, TypesOf(p, open, env, ty, ill, DOMAIN fns), NEW m \in DOMAIN var.decls,
         env' = Read(env, m), fns' = fns, NEW t, ty' = t, IsType(t), t.res = "ok", t.st = ty.st,
         Frames(p, open', Len(env)), Len(open') = Len(open), \A k \in 2 .. Len(open) : open'[k] = open[k],
         Current(open', t, DOMAIN fns), "type" \in ill' <=> "type" \in ill
  PROVE  Typed'
<1> DEFINE F == DOMAIN fns
<1>1. Sees(var, env) /\ IsSeq(env)
  BY SeenNow, Lengths
<1>2. Keeps(env', env, Len(env)) /\ Len(env') = Len(env)
  BY <1>1, KeepsRead, EnvLengths
<1>3. Keeps(env', env, Len(env) - 1)
  BY <1>1, <1>2, KeepsLess
<1>4. Frames(p, open, Len(env)) /\ Typing(ty.st, env, p, Len(open), F)
  BY DEF TypesOf
<1>5. SameOn(ty.st, ty.st, Known) /\ \A d \in 1 .. Len(env) : DOMAIN env[d] \intersect Known \subseteq Known
  BY DEF SameOn
<1>6. Typing(ty.st, env', p, Len(open), F)
  BY <1>2, <1>4, <1>5, TypingSame
<1>8. NoBuiltin(t.st)
  BY DEF TypesOf
<1>7. TypesOf(p, open', env', t, ill', F)
  BY <1>2, <1>3, <1>6, <1>8, TypesStay
<1> QED BY <1>7, TypedThen

LEMMA TypedAssign ==
  ASSUME Seen, Typed, NEW l \in Names, NEW r \in Names, visit_binary(l, r)
  PROVE  Typed' /\ Verdict'
<1> DEFINE tl == type_symbol(ty, l)
           tr == type_symbol(tl, r)
           same == Meaning(l).dt = Meaning(r).dt
           t == type_require(tr, tl.dt = tr.dt)
<1>1. phase = "run" /\ declared(var, l) /\ declared(var, r)
  BY StmtIs DEF visit_binary
<1>2. PICK p : TypesOf(p, open, env, ty, ill, DOMAIN fns)
  BY <1>1, TypedNow
<1>3. /\ declared(ty.st, l) /\ lookup(ty.st, l).dt = Meaning(l).dt
      /\ declared(ty.st, r) /\ lookup(ty.st, r).dt = Meaning(r).dt /\ r \in DOMAIN var.decls
  BY <1>1, <1>2, TypedLooks
<1>4. IsType(ty) /\ ty.res = "ok" /\ Frames(p, open, Len(env)) /\ Current(open, ty, DOMAIN fns)
  BY <1>2 DEF TypesOf
<1>5. IsType(tl) /\ tl.st = ty.st /\ tl.res = "ok" /\ tl.ret = ty.ret /\ tl.dt = Meaning(l).dt
  BY <1>3, <1>4, TypeSymbol
<1>6. TypeStep(t) /\ env' = Read(env, r) /\ fns' = fns /\ open' = open /\ ill' = Judge("type", ~same)
  BY DEF visit_binary, type_assign
<1> HIDE DEF tl
<1>7. IsType(tr) /\ tr.st = ty.st /\ tr.res = "ok" /\ tr.ret = ty.ret /\ tr.dt = Meaning(r).dt
  BY <1>3, <1>5, TypeSymbol
<1> HIDE DEF tr
<1>8. /\ IsType(t) /\ t.st = ty.st /\ t.ret = ty.ret
      /\ t.res = IF same THEN "ok" ELSE "type_error"
  BY <1>5, <1>7, TypeRequire
<1> HIDE DEF t, same
<1>9. ty' = t
  BY <1>6, GoesOn
<1>10. ASSUME same PROVE Typed'
  <2>1. ill' = ill
    BY <1>6, <1>10 DEF Judge
  <2>2. Current(open', t, DOMAIN fns)
    BY <1>4, <1>6, <1>8 DEF Current
  <2> QED BY <2>1, <2>2, <1>1, <1>2, <1>3, <1>4, <1>6, <1>8, <1>9, <1>10, TypedReads
<1>11. ~same => ill' # {}
  BY <1>6 DEF Judge
<1> QED BY <1>6, <1>8, <1>10, <1>11, Outcome

LEMMA TypedReturn ==
  ASSUME Seen, Typed, NEW m \in Names, visit_return(m)
  PROVE  Typed' /\ Verdict'
<1> DEFINE tm == type_symbol(ty, m)
           t == [tm EXCEPT !.ret = tm.dt]
           x == Meaning(m).dt
<1>1. phase = "run" /\ declared(var, m) /\ open # <<>>
  BY StmtIs DEF visit_return
<1>2. PICK p : TypesOf(p, open, env, ty, ill, DOMAIN fns)
  BY <1>1, TypedNow
<1>3. declared(ty.st, m) /\ lookup(ty.st, m).dt = Meaning(m).dt /\ m \in DOMAIN var.decls
  BY <1>1, <1>2, TypedLooks
<1>4. IsType(ty) /\ ty.res = "ok" /\ Frames(p, open, Len(env)) /\ Current(open, ty, DOMAIN fns)
  BY <1>2 DEF TypesOf
<1>5. IsType(tm) /\ tm.st = ty.st /\ tm.res = "ok" /\ tm.dt = x
  BY <1>3, <1>4, TypeSymbol
<1>6. TypeStep(t) /\ env' = Read(env, m) /\ fns' = fns /\ open' = [open EXCEPT ![1].ret = x]
      /\ ill' = Judge("return", x # CurrentRt)
  BY DEF visit_return
<1> HIDE DEF tm, x
<1>7. IsType(t) /\ t.st = ty.st /\ t.res = "ok" /\ t.ret = x
  BY <1>5 DEF IsType
<1> HIDE DEF t
<1>8. ty' = t
  BY <1>6, GoesOn
<1>9. /\ Frames(p, open', Len(env)) /\ Len(open') = Len(open)
      /\ \A k \in 2 .. Len(open) : open'[k] = open[k]
  <2> DEFINE o == [open EXCEPT ![1].ret = x]
  <2>1. Frames(p, o, Len(env)) /\ Len(o) = Len(open) /\ \A k \in 2 .. Len(open) : o[k] = open[k]
    BY <1>1, <1>4, FrameReturns
  <2>2. open' = o
    BY <1>6
  <2> HIDE DEF o
  <2> QED BY <2>1, <2>2
<1>10. "type" \in ill' <=> "type" \in ill
  BY <1>6 DEF Judge
<1>11. Current(open', t, DOMAIN fns)
  <2>1. 1 \in DOMAIN open
    <3>1. Len(open) \in Nat /\ Len(open) # 0 /\ IsSeq(open)
      BY <1>1, <1>4, FrameEnds DEF Frames
    <3> QED BY <3>1, Domains
  <2>2. open'[1] = [open[1] EXCEPT !.ret = x]
    BY <2>1, <1>6
  <2>3. IsBlock(open[1]) /\ open[1].fn \in DOMAIN fns
    BY <1>1, <1>4 DEF Current
  <2>4. IsBlock(open'[1]) /\ open'[1].fn = open[1].fn /\ open'[1].ret = x
    BY <2>2, <2>3 DEF IsBlock
  <2> QED BY <2>3, <2>4, <1>7 DEF Current
<1>12. Typed'
  BY <1>1, <1>2, <1>3, <1>6, <1>7, <1>8, <1>9, <1>10, <1>11, TypedReads
<1> QED BY <1>6, <1>7, <1>12, Outcome

LEMMA TypedReturnVoid ==
  ASSUME Seen, Typed, visit_return_void
  PROVE  Typed' /\ Verdict'
<1> DEFINE t == [ty EXCEPT !.ret = ty.dt]
<1>1. phase = "run" /\ open # <<>>
  BY StmtIs DEF visit_return_void
<1>2. PICK p : TypesOf(p, open, env, ty, ill, DOMAIN fns)
  BY <1>1, TypedNow
<1>4. IsType(ty) /\ ty.res = "ok" /\ Frames(p, open, Len(env)) /\ Current(open, ty, DOMAIN fns)
      /\ Typing(ty.st, env, p, Len(open), DOMAIN fns) /\ NoBuiltin(ty.st)
  BY <1>2 DEF TypesOf
<1>6. TypeStep(t) /\ env' = env /\ fns' = fns /\ open' = [open EXCEPT ![1].ret = "void"]
      /\ ill' = Judge("return", CurrentRt # "void")
  BY DEF visit_return_void
<1>7. IsType(t) /\ t.st = ty.st /\ t.res = "ok"
  BY <1>4 DEF IsType
<1> HIDE DEF t
<1>8. ty' = t
  BY <1>6, GoesOn
<1>9. /\ Frames(p, open', Len(env)) /\ Len(open') = Len(open)
      /\ \A k \in 2 .. Len(open) : open'[k] = open[k]
  <2> DEFINE o == [open EXCEPT ![1].ret = "void"]
  <2>1. Frames(p, o, Len(env)) /\ Len(o) = Len(open) /\ \A k \in 2 .. Len(open) : o[k] = open[k]
    BY <1>1, <1>4, FrameReturns
  <2>2. open' = o
    BY <1>6
  <2> HIDE DEF o
  <2> QED BY <2>1, <2>2
<1>10. "type" \in ill' <=> "type" \in ill
  BY <1>6 DEF Judge
<1>11. Current(open', t, DOMAIN fns)
  <2>1. 1 \in DOMAIN open
    <3>1. Len(open) \in Nat /\ Len(open) # 0 /\ IsSeq(open)
      BY <1>1, <1>4, FrameEnds DEF Frames
    <3> QED BY <3>1, Domains
  <2>2. open'[1] = [open[1] EXCEPT !.ret = "void"]
    BY <2>1, <1>6
  <2>3. IsBlock(open[1]) /\ open[1].fn \in DOMAIN fns
    BY <1>1, <1>4 DEF Current
  <2>4. IsBlock(open'[1]) /\ open'[1].fn = open[1].fn /\ open'[1].ret = "void"
    BY <2>2, <2>3 DEF IsBlock
  <2> QED BY <2>3, <2>4, TypesAssumption DEF Current
<1>12. Keeps(env, env, Len(env) - 1)
  BY DEF Keeps, Kept
<1>13. TypesOf(p, open', env, t, ill', DOMAIN fns)
  BY <1>2, <1>4, <1>7, <1>9, <1>10, <1>11, <1>12, TypesStay
<1>14. Typed'
  BY <1>6, <1>8, <1>13, TypedThen
<1> QED BY <1>6, <1>7, <1>14, Outcome

(* A block more: the scopes there were keep their types, those that come   *)
(* are typed, and the condition of a do-while was judged.                  *)
LEMMA TypesOpen ==
  ASSUME NEW p, NEW op, NEW e, NEW t, NEW il, NEW F, TypesOf(p, op, e, t, il, F), op # <<>>,
         NEW b, NEW e2, Len(e2) = Len(e) + Width(b), Keeps(e2, e, Len(e)),
         NEW t2, IsType(t2), t2.res = "ok", t2.ret = t.ret, t2.st.depth = t.st.depth + 1,
         Typing(t2.st, e2, p, Len(op), F), NoBuiltin(t2.st),
         \A d \in 1 .. Len(e2) : d > Len(e) => TypedScope(t2.st, e2[d], Len(op) + 1, F),
         NEW il2, "type" \in il => "type" \in il2,
         b.kind # "do" => ("type" \in il2 <=> "type" \in il),
         b.kind = "do" =>
           /\ b.cond \in Names
           /\ \E d \in 1 .. Len(e) : /\ b.cond \in DOMAIN e[d]
                                     /\ IF e[d][b.cond].dt = "int"
                                        THEN "type" \in il2 <=> "type" \in il ELSE "type" \in il2
  PROVE  TypesOf(Opened(p, Len(op) + 1, Len(e) + Width(b)), Append(op, b), e2, t2, il2, F)
<1> DEFINE w == Len(op)
           o == Append(op, b)
           q == Opened(p, w + 1, Len(e) + Width(b))
<1>1. Frames(p, op, Len(e)) /\ Due(p, op, e, il) /\ Current(op, t, F) /\ F \subseteq FnNames
      /\ t.st.depth = Level(w)
  BY DEF TypesOf
<1>2. w \in Nat /\ w # 0 /\ Len(e) \in Nat /\ IsSeq(op) /\ p[w] = Len(e)
  BY <1>1, FrameEnds DEF Frames
<1>3. Frames(q, o, Len(e2))
  BY <1>1, FrameAround
<1>4. Len(o) = w + 1 /\ o[w + 1] = b /\ \A k \in 1 .. w : o[k] = op[k]
  BY <1>2, SeqAppend
<1>5. q[w + 1] = Len(e2) /\ \A k \in 0 .. w : q[k] = p[k]
  BY <1>2 DEF Opened
<1> HIDE DEF q, o
<1>6. t2.st.depth = Level(Len(o))
  BY <1>1, <1>2, <1>4 DEF Level
<1>7. ASSUME NEW d, TypedScope(t2.st, e2[d], w, F)
      PROVE  TypedScope(t2.st, e2[d], w + 1, F)
  <2>1. Level(w) \in Int /\ Level(w + 1) \in Int /\ Level(w) <= Level(w + 1)
    BY <1>2 DEF Level
  <2>2. \A r : Bounded(r, w) => Bounded(r, w + 1)
    BY <2>1 DEF Bounded
  <2> QED BY <1>7, <2>2 DEF TypedScope, Named
<1>8. ASSUME NEW k \in 0 .. w + 1, NEW d \in 1 .. q[k]
      PROVE  TypedScope(t2.st, e2[d], k, F)
  <2>1. CASE k = w + 1
    <3>1. d \in 1 .. Len(e2)
      BY <2>1, <1>5
    <3>2. CASE d > Len(e)
      BY <2>1, <3>1, <3>2
    <3>3. CASE ~(d > Len(e))
      <4>1. w \in 0 .. w /\ d \in 1 .. p[w]
        BY <3>1, <3>3, <1>2
      <4>2. TypedScope(t2.st, e2[d], w, F)
        BY <4>1 DEF Typing
      <4> QED BY <2>1, <4>2, <1>7
    <3> QED BY <3>2, <3>3
  <2>2. CASE k # w + 1
    <3>1. k \in 0 .. w
      BY <2>2, <1>2
    <3> QED BY <3>1, <1>5 DEF Typing
  <2> QED BY <2>1, <2>2
<1>9. Typing(t2.st, e2, q, Len(o), F)
  BY <1>4, <1>8 DEF Typing
<1>10. ASSUME NEW k \in 2 .. w + 1, NEW d \in 1 .. q[k - 1]
       PROVE  Kept(e2[d], e[d])
  <2>1. k - 1 \in 0 .. w /\ q[k - 1] = p[k - 1]
    BY <1>2, <1>5
  <2>2. p[k - 1] \in Nat /\ p[k - 1] <= Len(e)
    BY <2>1, <1>1, FrameRange
  <2>3. d \in 1 .. Len(e)
    BY <2>1, <2>2, <1>2
  <2> QED BY <2>3 DEF Keeps
<1>11. ASSUME NEW k \in 2 .. w
       PROVE  Judged(q, o, e2, k, il2) /\ (WrongDo(p, op, e, k) => WrongDo(q, o, e2, k))
  <2>1. k \in 2 .. w + 1 /\ k - 1 \in 0 .. w /\ k \in 1 .. w
    BY <1>2
  <2>2. o[k] = op[k] /\ q[k - 1] = p[k - 1] /\ Judged(p, op, e, k, il)
    BY <2>1, <1>1, <1>4, <1>5 DEF Due
  <2>3. \A d \in 1 .. p[k - 1] : Kept(e2[d], e[d])
    BY <2>1, <2>2, <1>10
  <2>4. Judged(q, o, e2, k, il2)
    BY <2>2, <2>3 DEF Judged, Kept
  <2>5. WrongDo(p, op, e, k) => WrongDo(q, o, e2, k)
    BY <2>2, <2>3 DEF WrongDo, Kept
  <2> QED BY <2>4, <2>5
<1>12. /\ Judged(q, o, e2, w + 1, il2)
       /\ WrongDo(q, o, e2, w + 1) \/ ("type" \in il2 => "type" \in il)
  <2>1. w + 1 \in 2 .. w + 1 /\ w + 1 - 1 = w /\ q[w] = Len(e) /\ o[w + 1] = b
    BY <1>2, <1>4, <1>5
  <2>2. \A d \in 1 .. Len(e) : Kept(e2[d], e[d])
    BY DEF Keeps
  <2>3. CASE b.kind = "do"
    <3>1. PICK d \in 1 .. Len(e) :
            /\ b.cond \in DOMAIN e[d]
            /\ IF e[d][b.cond].dt = "int" THEN "type" \in il2 <=> "type" \in il ELSE "type" \in il2
      BY <2>3
    <3>2. b.cond \in DOMAIN e2[d] /\ e2[d][b.cond].dt = e[d][b.cond].dt /\ d \in 1 .. q[w + 1 - 1]
      BY <2>1, <2>2, <3>1 DEF Kept
    <3> QED BY <2>1, <2>3, <3>1, <3>2 DEF Judged, WrongDo
  <2>4. CASE b.kind # "do"
    BY <2>1, <2>4 DEF Judged
  <2> QED BY <2>3, <2>4
<1>13. Due(q, o, e2, il2)
  <2>1. \A k \in 2 .. w + 1 : k = w + 1 \/ k \in 2 .. w
    BY <1>2
  <2>2. \A k \in 2 .. w + 1 : Judged(q, o, e2, k, il2)
    BY <2>1, <1>11, <1>12
  <2>3. ASSUME "type" \in il2 PROVE \E k \in 2 .. w + 1 : WrongDo(q, o, e2, k)
    <3>1. CASE WrongDo(q, o, e2, w + 1)
      <4>1. w + 1 \in 2 .. w + 1
        BY <1>2
      <4> QED BY <3>1, <4>1
    <3>2. CASE ~WrongDo(q, o, e2, w + 1)
      <4>1. PICK k \in 2 .. w : WrongDo(p, op, e, k)
        BY <2>3, <3>2, <1>1, <1>12 DEF Due
      <4>2. k \in 2 .. w + 1
        BY <1>2
      <4> QED BY <4>1, <4>2, <1>11
    <3> QED BY <3>1, <3>2
  <2> QED BY <2>2, <2>3, <1>4 DEF Due
<1>14. Current(o, t2, F)
  <2>1. o[1] = op[1]
    BY <1>2, <1>4
  <2> QED BY <2>1, <1>1 DEF Current
<1>15. TypesOf(q, o, e2, t2, il2, F)
  BY <1>1, <1>3, <1>6, <1>9, <1>13, <1>14 DEF TypesOf
<1> QED BY <1>15 DEF q, o

LEMMA TypeEnter ==
  ASSUME NEW t, IsType(t), t.st.depth \in Int
  PROVE  /\ IsType(type_enter(t)) /\ type_enter(t).st.depth = t.st.depth + 1
         /\ type_enter(t).st.decls = t.st.decls
         /\ type_enter(t).res = t.res /\ type_enter(t).ret = t.ret
<1>1. start_scope(t.st) = [depth |-> t.st.depth + 1, decls |-> t.st.decls]
  BY DEF start_scope, IsType
<1>2. type_enter(t) = [t EXCEPT !.st = start_scope(t.st)]
  BY DEF type_enter
<1>3. type_enter(t) = [st |-> start_scope(t.st), dt |-> t.dt, ret |-> t.ret, res |-> t.res]
  BY <1>2 DEF IsType
<1> QED BY <1>1, <1>3 DEF IsType

LEMMA TypeLeave ==
  ASSUME NEW t, IsType(t), t.st.depth \in Int
  PROVE  /\ IsType(type_leave(t)) /\ type_leave(t).st.depth = t.st.depth - 1
         /\ type_leave(t).res = t.res /\ type_leave(t).ret = t.ret
         /\ \A m : m \in DOMAIN type_leave(t).st.decls <=>
                     m \in DOMAIN t.st.decls /\ t.st.decls[m].depth # t.st.depth
         /\ \A m \in DOMAIN type_leave(t).st.decls : type_leave(t).st.decls[m] = t.st.decls[m]
<1> DEFINE f == Restrict(t.st.decls, DOMAIN t.st.decls \ current_scope(t.st))
<1>1. end_scope(t.st) = [depth |-> t.st.depth - 1, decls |-> f]
  BY DEF end_scope
<1>2. /\ \A m : m \in DOMAIN f <=> m \in DOMAIN t.st.decls /\ t.st.decls[m].depth # t.st.depth
      /\ \A m \in DOMAIN f : f[m] = t.st.decls[m]
  BY DEF Restrict, current_scope
<1> HIDE DEF f
<1>3. type_leave(t) = [t EXCEPT !.st = end_scope(t.st)]
  BY DEF type_leave
<1>4. type_leave(t) = [st |-> end_scope(t.st), dt |-> t.dt, ret |-> t.ret, res |-> t.res]
  BY <1>3 DEF IsType
<1> QED BY <1>1, <1>2, <1>4 DEF IsType

LEMMA SameDecls ==
  ASSUME NEW st, NEW st2, st2.decls = st.decls, NEW e, NEW p, NEW w, NEW F, Typing(st, e, p, w, F)
  PROVE  Typing(st2, e, p, w, F)
BY DEF Typing, TypedScope, Named

LEMMA LevelIs == \A k \in Nat : Level(k) \in Int
BY DEF Level

LEMMA TypedOpens ==
  ASSUME Seen, phase = "run", open # <<>>, NEW p, TypesOf(p, open, env, ty, ill, DOMAIN fns),
         NEW e1, IsSeq(e1), Len(e1) = Len(env), Keeps(e1, env, Len(env)), env' = Append(e1, <<>>),
         NEW b, open' = Append(open, b), Width(b) = 1, fns' = fns,
         NEW t, ty' = t, IsType(t), t.res = "ok", t.ret = ty.ret, t.st.depth = ty.st.depth + 1,
         t.st.decls = ty.st.decls,
         "type" \in ill => "type" \in ill',
         b.kind # "do" => ("type" \in ill' <=> "type" \in ill),
         b.kind = "do" =>
           /\ b.cond \in Names
           /\ \E d \in 1 .. Len(env) : /\ b.cond \in DOMAIN env[d]
                                       /\ IF env[d][b.cond].dt = "int"
                                          THEN "type" \in ill' <=> "type" \in ill ELSE "type" \in ill'
  PROVE  Typed'
<1> DEFINE F == DOMAIN fns
           w == Len(open)
           e2 == Append(e1, <<>>)
<1>1. Frames(p, open, Len(env)) /\ Typing(ty.st, env, p, w, F)
  BY DEF TypesOf
<1>2. Len(env) \in Nat
  BY SeenNow
<1>3. Len(e2) = Len(env) + 1 /\ e2[Len(env) + 1] = <<>> /\ \A d \in 1 .. Len(env) : e2[d] = e1[d]
  BY SeqAppend
<1> HIDE DEF e2
<1>4. Keeps(e2, env, Len(env))
  BY <1>3 DEF Keeps
<1>5. SameOn(ty.st, ty.st, Known) /\ \A d \in 1 .. Len(env) : DOMAIN env[d] \intersect Known \subseteq Known
  BY DEF SameOn
<1>6. Typing(ty.st, e2, p, w, F)
  BY <1>1, <1>4, <1>5, TypingSame
<1>7. Typing(t.st, e2, p, w, F)
  BY <1>6, SameDecls
<1>8. ASSUME NEW d \in 1 .. Len(e2), d > Len(env)
      PROVE  TypedScope(t.st, e2[d], w + 1, F)
  <2>1. d = Len(env) + 1
    BY <1>2, <1>3, <1>8
  <2>2. DOMAIN e2[d] = {}
    BY <2>1, <1>3
  <2> QED BY <2>2 DEF TypedScope
<1>11. NoBuiltin(t.st)
  BY DEF TypesOf, NoBuiltin
<1>9. TypesOf(Opened(p, w + 1, Len(env) + Width(b)), Append(open, b), e2, t, ill', F)
  BY <1>3, <1>4, <1>7, <1>8, <1>11, TypesOpen
<1>10. TypesOf(Opened(p, w + 1, Len(env) + Width(b)), open', env', ty', ill', DOMAIN fns')
  BY <1>9 DEF e2
<1> QED BY <1>10, TypedThen

LEMMA TypedBlock ==
  ASSUME Seen, Typed, NEW m \in Names, visit_if(m) \/ visit_while(m) \/ visit_do_while(m)
  PROVE  Typed' /\ Verdict'
<1> DEFINE tm == type_symbol(ty, m)
           tr == require_last_dt_convertible_to_bool(tm)
           int == Meaning(m).dt = "int"
<1>1. phase = "run" /\ open # <<>> /\ declared(var, m)
  BY OpenIs DEF visit_if, visit_while, visit_do_while
<1>2. PICK p : TypesOf(p, open, env, ty, ill, DOMAIN fns)
  BY <1>1, TypedNow
<1>3. /\ declared(ty.st, m) /\ lookup(ty.st, m).dt = Meaning(m).dt /\ m \in DOMAIN var.decls
      /\ \E d \in 1 .. Len(env) : m \in DOMAIN env[d] /\ env[d][m].dt = Meaning(m).dt
  BY <1>1, <1>2, TypedLooks
<1>4. IsType(ty) /\ ty.res = "ok" /\ ty.st.depth = Level(Len(open)) /\ Len(open) \in Nat
  BY <1>2, FrameEnds DEF TypesOf
<1>5. ty.st.depth \in Int
  BY <1>4, LevelIs
<1>6. IsType(tm) /\ tm.st = ty.st /\ tm.res = "ok" /\ tm.ret = ty.ret /\ tm.dt = Meaning(m).dt
  BY <1>3, <1>4, TypeSymbol
<1> HIDE DEF tm
<1>7. IsType(tr) /\ tr.st = ty.st /\ tr.ret = ty.ret /\ tr.res = IF int THEN "ok" ELSE "type_error"
  BY <1>6, TypeRequire DEF require_last_dt_convertible_to_bool
<1>8. fns' = fns /\ ill' = Judge("type", ~int)
  BY DEF visit_if, visit_while, visit_do_while
<1>9. /\ "type" \in ill => "type" \in ill'
      /\ int => ("type" \in ill' <=> "type" \in ill)
      /\ ~int => "type" \in ill'
  BY <1>8 DEF Judge
<1>10. Sees(var, env) /\ IsSeq(env) /\ Sees(add_read_use(var, m), Read(env, m))
  BY <1>1, <1>3, SeenNow, Lengths, Used
<1>11. /\ IsSeq(Read(env, m)) /\ Len(Read(env, m)) = Len(env) /\ Keeps(Read(env, m), env, Len(env))
       /\ Keeps(env, env, Len(env))
  <2>1. IsSeq(Read(env, m))
    BY <1>10, Lengths
  <2>2. Len(Read(env, m)) = Len(env)
    BY <1>10, EnvLengths
  <2>3. Keeps(Read(env, m), env, Len(env))
    BY <1>3, <1>10, KeepsRead
  <2>4. Keeps(env, env, Len(env))
    BY DEF Keeps, Kept
  <2> QED BY <2>1, <2>2, <2>3, <2>4
<1>12. PICK e1 : IsSeq(e1) /\ Len(e1) = Len(env) /\ Keeps(e1, env, Len(env)) /\ env' = Append(e1, <<>>)
  BY <1>10, <1>11 DEF visit_if, visit_while, visit_do_while
<1>13. CASE visit_if(m) \/ visit_while(m)
  <2>1. PICK b : open' = Append(open, b) /\ Width(b) = 1 /\ b.kind # "do"
    BY <1>13 DEF visit_if, visit_while, Block, Width
  <2>2. TypeStep(type_enter(tr))
    BY <1>13 DEF visit_if, visit_while, tm
  <2> HIDE DEF tr, int
  <2>3. /\ IsType(type_enter(tr)) /\ type_enter(tr).st.depth = ty.st.depth + 1
        /\ type_enter(tr).st.decls = ty.st.decls
        /\ type_enter(tr).res = tr.res /\ type_enter(tr).ret = ty.ret
    BY <1>5, <1>7, TypeEnter
  <2>4. ty' = type_enter(tr)
    BY <2>2, GoesOn
  <2>5. ASSUME int PROVE Typed'
    <3>1. type_enter(tr).res = "ok"
      BY <2>3, <2>5, <1>7
    <3> QED BY <1>1, <1>2, <1>8, <1>9, <1>12, <2>1, <2>3, <2>4, <2>5, <3>1, TypedOpens
  <2>6. ~int => ill' # {}
    BY <1>9
  <2> QED BY <1>7, <2>2, <2>3, <2>5, <2>6, Outcome
<1>14. CASE visit_do_while(m)
  <2> DEFINE b == Block("do", m)
             t == type_enter(ty)
  <2>1. open' = Append(open, b) /\ TypeStep(t)
    BY <1>14 DEF visit_do_while
  <2>2. Width(b) = 1 /\ b.kind = "do" /\ b.cond = m
    BY DEF Block, Width
  <2>3. /\ IsType(t) /\ t.st.depth = ty.st.depth + 1 /\ t.st.decls = ty.st.decls
        /\ t.res = "ok" /\ t.ret = ty.ret
    BY <1>4, <1>5, TypeEnter
  <2> HIDE DEF b, t
  <2>4. ty' = t
    BY <2>1, GoesOn
  <2>5. /\ b.cond \in Names
        /\ \E d \in 1 .. Len(env) : /\ b.cond \in DOMAIN env[d]
                                    /\ IF env[d][b.cond].dt = "int"
                                       THEN "type" \in ill' <=> "type" \in ill ELSE "type" \in ill'
    BY <1>3, <1>9, <2>2
  <2>6. Typed'
    BY <1>1, <1>2, <1>8, <1>9, <1>12, <2>1, <2>2, <2>3, <2>4, <2>5, TypedOpens
  <2> QED BY <2>1, <2>3, <2>6, Outcome
<1> QED BY <1>13, <1>14

LEMMA TypedFor ==
  ASSUME Seen, Typed, NEW m \in Names, visit_for(m)
  PROVE  Typed' /\ Verdict'
<1> DEFINE F == DOMAIN fns
           w == Len(open)
           l == Len(env)
           s1 == start_scope(var)
           e1 == Append(env, <<>>)
           s2 == push(s1, m, "var", "int")
           e2 == Bind(e1, m, "var", "int")
           e3 == Read(e2, m)
           e4 == Append(e3, <<>>)
           t1 == type_push(ty, m, "var", "int")
           t2 == type_symbol(t1, m)
           t == type_enter(t2)
           b == Block("for", m)
<1>1. phase = "run" /\ open # <<>> /\ ~declared(var, m)
  BY OpenIs DEF visit_for
<1>2. Sees(var, env) /\ IsStore(var) /\ IsSeq(env) /\ IsEnv(env) /\ l \in Nat /\ l > 0
  BY <1>1, SeenNow, Lengths DEF Sees
<1>3. PICK p : TypesOf(p, open, env, ty, ill, F)
  BY <1>1, TypedNow
<1>4. IsType(ty) /\ ty.res = "ok" /\ ty.st.depth = Level(w) /\ Frames(p, open, l)
      /\ Typing(ty.st, env, p, w, F) /\ w \in Nat
  BY <1>3, FrameEnds DEF TypesOf
<1>5. \A d \in 1 .. l : m \notin DOMAIN env[d]
  BY <1>1, <1>2, NoScope
<1>6. m \notin DOMAIN var.decls
  BY <1>1, <1>2, NoScope
<1>7. Sees(s1, e1) /\ s1.decls = var.decls
  BY <1>2, Entered, Depths
<1>8. IsEnv(e1) /\ IsSeq(e1) /\ Len(e1) = l + 1 /\ e1[l + 1] = <<>> /\ \A d \in 1 .. l : e1[d] = env[d]
  BY <1>2, <1>7, SeqAppend DEF Sees
<1>9. TypeStep(t) /\ env' = e4 /\ fns' = fns /\ open' = Append(open, b) /\ ill' = ill
  BY DEF visit_for
<1> HIDE DEF s1, e1
<1>10. Len(e1) > 0
  BY <1>2, <1>8
<1>11. Keeps(e2, e1, l) /\ Added(e2[l + 1], e1[l + 1], m, "int") /\ Len(e2) = l + 1
  <2>1. Len(e1) - 1 = l
    BY <1>2, <1>8
  <2> QED BY <1>8, <1>10, <2>1, KeepsBind, EnvLengths
<1>12. Sees(s2, e2) /\ m \in DOMAIN s2.decls
  <2>1. Sees(s2, e2)
    BY <1>6, <1>7, <1>10, Pushed
  <2>2. IsStore(s1)
    BY <1>7, Lengths
  <2>3. s2.decls = Put(s1.decls, m, record(s1, "var", "int"))
    BY <2>2, Depths
  <2> QED BY <2>1, <2>3 DEF Put
<1> HIDE DEF s2, e2
<1>13. IsSeq(e2) /\ Keeps(e3, e2, l + 1) /\ Len(e3) = l + 1
  <2>1. IsSeq(e2) /\ Len(e3) = Len(e2)
    BY <1>12, Lengths, EnvLengths
  <2>2. Keeps(e3, e2, Len(e2))
    BY <1>12, KeepsRead
  <2> QED BY <2>1, <2>2, <1>11
<1>14. IsSeq(e3)
  <2>1. Sees(add_read_use(s2, m), e3)
    BY <1>12, Used
  <2> QED BY <2>1, Lengths
<1> HIDE DEF e3
<1>15. Len(e4) = l + 2 /\ e4[l + 2] = <<>> /\ \A d \in 1 .. l + 1 : e4[d] = e3[d]
  <2>1. Len(e4) = Len(e3) + 1 /\ e4[Len(e3) + 1] = <<>> /\ \A d \in 1 .. Len(e3) : e4[d] = e3[d]
    BY <1>14, SeqAppend
  <2>2. l + 1 + 1 = l + 2
    BY <1>2
  <2> QED BY <2>1, <2>2, <1>13
<1> HIDE DEF e4
<1>16. Keeps(e4, env, l)
  <2> SUFFICES ASSUME NEW d \in 1 .. l PROVE Kept(e4[d], env[d])
    BY DEF Keeps
  <2>1. d \in 1 .. l + 1
    BY <1>2
  <2>2. Kept(e3[d], e2[d]) /\ Kept(e2[d], e1[d]) /\ e1[d] = env[d] /\ e4[d] = e3[d]
    BY <2>1, <1>8, <1>11, <1>13, <1>15 DEF Keeps
  <2> QED BY <2>2 DEF Kept
<1>17. DOMAIN e4[l + 1] = {m} /\ e4[l + 1][m].dt = "int"
  <2>1. l + 1 \in 1 .. l + 1
    BY <1>2
  <2>2. Kept(e3[l + 1], e2[l + 1]) /\ e4[l + 1] = e3[l + 1]
    BY <2>1, <1>13, <1>15 DEF Keeps
  <2>3. DOMAIN e2[l + 1] = {m} /\ e2[l + 1][m].dt = "int"
    BY <1>8, <1>11 DEF Added
  <2> QED BY <2>2, <2>3 DEF Kept
<1>18. /\ IsType(t1) /\ t1.st = push(ty.st, m, "var", "int") /\ t1.st.depth = ty.st.depth
       /\ t1.res = "ok" /\ t1.ret = ty.ret
  BY <1>4, TypePush
<1> DEFINE r == record(ty.st, "var", "int")
<1>19. /\ t1.st.decls[m] = r /\ m \in DOMAIN t1.st.decls
       /\ \A y \in DOMAIN ty.st.decls : y # m => y \in DOMAIN t1.st.decls /\ t1.st.decls[y] = ty.st.decls[y]
       /\ DOMAIN t1.st.decls = DOMAIN ty.st.decls \union {m}
  <2>1. t1.st.decls = Put(ty.st.decls, m, r)
    BY <1>18, <1>4 DEF push, IsType
  <2> HIDE DEF r, t1
  <2> QED BY <2>1 DEF Put
<1>20. r.dt = "int" /\ r.depth = Level(w)
  BY <1>4 DEF record
<1> HIDE DEF r, t1
<1>21. ty.st.depth \in Int
  BY <1>4, LevelIs
<1>22. declared(t1.st, m)
  BY <1>4, <1>18, <1>19, <1>20, <1>21 DEF declared
<1>23. IsType(t2) /\ t2.st = t1.st /\ t2.res = "ok" /\ t2.ret = ty.ret
  BY <1>18, <1>22, TypeSymbol
<1> HIDE DEF t2
<1>24. /\ IsType(t) /\ t.st.depth = ty.st.depth + 1 /\ t.st.decls = t1.st.decls
       /\ t.res = "ok" /\ t.ret = ty.ret
  BY <1>18, <1>21, <1>23, TypeEnter
<1> HIDE DEF t
<1>25. SameOn(t.st, ty.st, Known \ {m})
  BY <1>19, <1>24 DEF SameOn
<1>26. \A d \in 1 .. l : DOMAIN env[d] \intersect Known \subseteq Known \ {m}
  BY <1>5
<1>27. Typing(t.st, e4, p, w, F)
  BY <1>4, <1>16, <1>25, <1>26, TypingSame
<1>28. ASSUME NEW d \in 1 .. Len(e4), d > l
       PROVE  TypedScope(t.st, e4[d], w + 1, F)
  <2>1. CASE d = l + 1
    <3>1. Level(w) \in Int /\ Level(w) <= Level(w + 1)
      BY <1>4 DEF Level
    <3>2. m \notin FnNames
      BY TypedNames
    <3>3. Named(t.st, e4[l + 1][m], m, w + 1, F)
      BY <3>1, <3>2, <1>17, <1>19, <1>20, <1>24 DEF Named, Bounded, Fits
    <3> QED BY <2>1, <3>3, <1>17 DEF TypedScope
  <2>2. CASE d # l + 1
    <3>1. d = l + 2
      BY <2>2, <1>2, <1>15, <1>28
    <3>2. DOMAIN e4[d] = {}
      BY <3>1, <1>15
    <3> QED BY <3>2 DEF TypedScope
  <2> QED BY <2>1, <2>2
<1>29. Width(b) = 2 /\ b.kind # "do"
  BY DEF Block, Width
<1> HIDE DEF b
<1>34. NoBuiltin(t.st)
  BY <1>3, <1>19, <1>24, NamesAssumption DEF TypesOf, NoBuiltin
<1>30. TypesOf(Opened(p, w + 1, l + Width(b)), Append(open, b), e4, t, ill, F)
  BY <1>1, <1>3, <1>15, <1>16, <1>24, <1>27, <1>28, <1>29, <1>34, TypesOpen
<1>31. ty' = t
  BY <1>9, GoesOn
<1>32. TypesOf(Opened(p, w + 1, l + Width(b)), open', env', ty', ill', DOMAIN fns')
  BY <1>9, <1>30, <1>31
<1>33. Typed'
  BY <1>32, TypedThen
<1> QED BY <1>9, <1>24, <1>33, Outcome

------------------------------------------------------------------------------
(* Calls.                                                                  *)

(* Induction over a set of numbers. *)
LEMMA AllNumbers ==
  ASSUME NEW T, 0 \in T, \A k \in Nat : k \in T => k + 1 \in T
  PROVE  \A k \in Nat : k \in T
<1> DEFINE U == {k \in Nat : k \notin T}
<1>1. SUFFICES ASSUME U # {} PROVE FALSE
  OBVIOUS
<1>2. U \subseteq Nat
  OBVIOUS
<1>3. IsWellFoundedOn(OpToRel(<, Nat), Nat)
  BY NatLessThanWellFounded
<1>4. PICK x \in U : \A y \in U : ~(<<y, x>> \in OpToRel(<, Nat))
  BY <1>1, <1>2, <1>3, WFMin, Zenon
<1>5. \A y \in U : ~(y < x)
  BY <1>4 DEF OpToRel
<1>6. x # 0 /\ x \in Nat
  OBVIOUS
<1>7. x - 1 \in Nat /\ x - 1 < x /\ (x - 1) + 1 = x
  BY <1>6
<1>8. x - 1 \in T
  BY <1>5, <1>7
<1> QED BY <1>7, <1>8

(* The walk over the arguments, up to k. *)
ArgWalk(u, t, params, args, w) ==
  u = [k \in 0 .. w |-> IF k = 0 THEN t ELSE type_arg(u[k - 1], params[k], args[k])]

LEMMA WalkExists ==
  ASSUME NEW t, NEW params, NEW args, NEW w \in Nat
  PROVE  \E u : ArgWalk(u, t, params, args, w)
<1> DEFINE T == {k \in Nat : \E u : ArgWalk(u, t, params, args, k)}
<1>1. 0 \in T
  <2> DEFINE u == [k \in 0 .. 0 |-> t]
  <2>1. u = [k \in 0 .. 0 |-> IF k = 0 THEN t ELSE type_arg(u[k - 1], params[k], args[k])]
    OBVIOUS
  <2>2. ArgWalk(u, t, params, args, 0)
    BY <2>1 DEF ArgWalk
  <2> QED BY <2>2
<1>2. ASSUME NEW l \in Nat, l \in T
      PROVE  l + 1 \in T
  <2>1. PICK u : ArgWalk(u, t, params, args, l)
    BY <1>2
  <2> DEFINE x == type_arg(u[l], params[l + 1], args[l + 1])
             g == [k \in 0 .. l + 1 |-> IF k = l + 1 THEN x ELSE u[k]]
             s(h, k) == IF k = 0 THEN t ELSE type_arg(h[k - 1], params[k], args[k])
  <2>2. \A k \in 0 .. l : u[k] = s(u, k)
    <3>1. u = [k \in 0 .. l |-> s(u, k)]
      BY <2>1 DEF ArgWalk
    <3> HIDE DEF s
    <3> QED BY <3>1
  <2>3. /\ g = [k \in 0 .. l + 1 |-> g[k]] /\ \A k \in 0 .. l : g[k] = u[k]
        /\ g[l + 1] = x
    <3> HIDE DEF x
    <3> QED OBVIOUS
  <2> HIDE DEF g
  <2>4. ASSUME NEW k \in 0 .. l + 1
        PROVE  g[k] = s(g, k)
    <3>1. CASE k = l + 1
      <4>1. k # 0 /\ k - 1 = l /\ l \in 0 .. l
        BY <3>1
      <4>2. g[k - 1] = u[l]
        BY <4>1, <2>3
      <4> QED BY <3>1, <4>1, <4>2, <2>3
    <3>2. CASE k = 0
      <4>1. 0 \in 0 .. l
        OBVIOUS
      <4> QED BY <3>2, <4>1, <2>2, <2>3
    <3>3. CASE k # 0 /\ k # l + 1
      <4>1. k \in 0 .. l /\ k - 1 \in 0 .. l
        BY <3>3
      <4>2. g[k] = u[k] /\ g[k - 1] = u[k - 1] /\ u[k] = s(u, k)
        BY <4>1, <2>2, <2>3
      <4> QED BY <3>3, <4>2
    <3> QED BY <3>1, <3>2, <3>3
  <2>5. g = [k \in 0 .. l + 1 |-> s(g, k)]
    <3> HIDE DEF s
    <3> QED BY <2>3, <2>4
  <2>6. ArgWalk(g, t, params, args, l + 1)
    BY <2>5 DEF ArgWalk
  <2> QED BY <2>6
<1> HIDE DEF T
<1>3. \A k \in Nat : k \in T
  BY <1>1, <1>2, AllNumbers
<1> QED BY <1>3 DEF T

(* The names the parameters of a callee do not replace. *)
Others(params) == Known \ ParamNames(params)

(* After k arguments: the storage knows what it knew of the other names,   *)
(* and the result is an error if one of the arguments has a wrong type.    *)
Walked(v, t, params, args, k) ==
  /\ IsType(v) /\ v.st.depth = t.st.depth /\ v.ret = t.ret
  /\ SameOn(v.st, t.st, Others(params)) /\ NoBuiltin(v.st)
  /\ v.res = IF \A j \in 1 .. k : lookup(t.st, args[j]).dt = params[j].dt
             THEN "ok" ELSE "type_error"

LEMMA ArgWalked ==
  ASSUME NEW t, IsType(t), t.st.depth \in Int, NEW params, NEW args, NEW k \in Nat, NEW v,
         Walked(v, t, params, args, k), args[k + 1] \in Others(params), declared(t.st, args[k + 1]),
         params[k + 1].name \in ParamNames(params) \ Builtins
  PROVE  Walked(type_arg(v, params[k + 1], args[k + 1]), t, params, args, k + 1)
<1> DEFINE a == args[k + 1]
           c == params[k + 1]
           p == type_push(v, c.name, "var", c.dt)
           q == type_symbol(p, a)
           z == type_require(q, q.dt = c.dt)
           good(i) == \A j \in 1 .. i : lookup(t.st, args[j]).dt = params[j].dt
<1>1. /\ IsType(v) /\ v.st.depth = t.st.depth /\ v.ret = t.ret
      /\ SameOn(v.st, t.st, Others(params)) /\ NoBuiltin(v.st) /\ v.res = IF good(k) THEN "ok" ELSE "type_error"
  BY DEF Walked
<1>2. type_arg(v, c, a) = z
  BY DEF type_arg
<1>3. a \in Others(params) /\ declared(t.st, a) /\ c.name \notin Others(params) /\ c.name \notin Builtins
  BY DEF Others
<1>4. good(k + 1) <=> good(k) /\ lookup(t.st, a).dt = c.dt
  <2>1. \A j \in 1 .. k + 1 : j = k + 1 \/ j \in 1 .. k
    OBVIOUS
  <2>2. k + 1 \in 1 .. k + 1 /\ \A j \in 1 .. k : j \in 1 .. k + 1
    OBVIOUS
  <2> QED BY <2>1, <2>2
<1>5. IsType(p) /\ p.st = push(v.st, c.name, "var", c.dt) /\ p.st.depth = t.st.depth /\ p.res = v.res /\ p.ret = t.ret
  <2> HIDE DEF c
  <2> QED BY <1>1, TypePush
<1> HIDE DEF a, c, p
<1>6. /\ DOMAIN p.st.decls = DOMAIN v.st.decls \union {c.name}
      /\ \A y \in DOMAIN v.st.decls : y # c.name => p.st.decls[y] = v.st.decls[y]
  <2>1. p.st.decls = Put(v.st.decls, c.name, record(v.st, "var", c.dt))
    BY <1>1, <1>5 DEF push, IsType
  <2> QED BY <2>1 DEF Put
<1>7. SameOn(p.st, t.st, Others(params)) /\ NoBuiltin(p.st)
  BY <1>1, <1>3, <1>6 DEF SameOn, NoBuiltin
<1>8. declared(p.st, a) /\ lookup(p.st, a) = lookup(t.st, a)
  BY <1>3, <1>5, <1>7 DEF declared, lookup, SameOn
<1>9. IsType(q) /\ q.st = p.st /\ q.res = v.res /\ q.ret = t.ret /\ q.dt = lookup(t.st, a).dt
  BY <1>5, <1>8, TypeSymbol
<1> HIDE DEF q
<1>10. /\ IsType(z) /\ z.st = p.st /\ z.ret = t.ret
       /\ z.res = IF q.dt = c.dt \/ v.res # "ok" THEN v.res ELSE "type_error"
  <2> DEFINE same == q.dt = c.dt
  <2>1. same \in BOOLEAN /\ z = type_require(q, same)
    OBVIOUS
  <2>2. z.res = IF same \/ v.res # "ok" THEN v.res ELSE "type_error"
    <3> HIDE DEF same, z
    <3> QED BY <2>1, <1>9, TypeRequire
  <2>3. IsType(z) /\ z.st = p.st /\ z.ret = t.ret
    <3> HIDE DEF same, z
    <3> QED BY <2>1, <1>9, TypeRequire
  <2> QED BY <2>2, <2>3
<1> HIDE DEF z, good
<1>11. z.res = IF good(k + 1) THEN "ok" ELSE "type_error"
  BY <1>1, <1>4, <1>9, <1>10
<1>12. Walked(z, t, params, args, k + 1)
  BY <1>5, <1>7, <1>10, <1>11 DEF Walked, good
<1> QED BY <1>2, <1>12 DEF a, c

LEMMA ArgsTyped ==
  ASSUME NEW t, IsType(t), t.st.depth \in Int, t.res = "ok", NoBuiltin(t.st),
         NEW params, NEW args, Len(args) \in Nat,
         \A k \in 1 .. Len(args) : args[k] \in Others(params) /\ declared(t.st, args[k]),
         \A k \in 1 .. Len(args) : params[k].name \in ParamNames(params) \ Builtins
  PROVE  Walked(type_args(t, params, args), t, params, args, Len(args))
<1> DEFINE w == Len(args)
           u == CHOOSE u : ArgWalk(u, t, params, args, w)
           T == {k \in Nat : k \in 0 .. w => Walked(u[k], t, params, args, k)}
           s(h, k) == IF k = 0 THEN t ELSE type_arg(h[k - 1], params[k], args[k])
<1>1. type_args(t, params, args) = u[w]
  BY DEF type_args, ArgWalk
<1>2. ArgWalk(u, t, params, args, w)
  BY WalkExists
<1> HIDE DEF u
<1>3. \A k \in 0 .. w : u[k] = s(u, k)
  <2>1. u = [k \in 0 .. w |-> s(u, k)]
    BY <1>2 DEF ArgWalk
  <2> HIDE DEF s
  <2> QED BY <2>1
<1>4. 0 \in T
  <2>1. u[0] = t
    BY <1>3
  <2>2. Walked(t, t, params, args, 0)
    BY DEF Walked, SameOn
  <2> QED BY <2>1, <2>2
<1>5. ASSUME NEW k \in Nat, k \in T
      PROVE  k + 1 \in T
  <2> SUFFICES ASSUME k + 1 \in 0 .. w PROVE Walked(u[k + 1], t, params, args, k + 1)
    OBVIOUS
  <2>1. k \in 0 .. w /\ k + 1 \in 1 .. w /\ k + 1 # 0 /\ k + 1 - 1 = k
    OBVIOUS
  <2>2. Walked(u[k], t, params, args, k)
    BY <1>5, <2>1
  <2>3. u[k + 1] = type_arg(u[k], params[k + 1], args[k + 1])
    BY <2>1, <1>3
  <2>4. Walked(type_arg(u[k], params[k + 1], args[k + 1]), t, params, args, k + 1)
    BY <2>1, <2>2, ArgWalked
  <2> QED BY <2>3, <2>4
<1> HIDE DEF T
<1>6. w \in T
  BY <1>4, <1>5, AllNumbers
<1>7. Walked(u[w], t, params, args, w)
  BY <1>6 DEF T
<1> QED BY <1>1, <1>7

(* Parameters are not names of functions or builtins. *)
ParamsApart ==
  \A params \in ParamLists : \A k \in DOMAIN params : params[k].name \notin FnNames \union Builtins

(* No parameter of the callee has the name of a variable that the caller   *)
(* has in scope (of those that statements use): the call would replace the *)
(* caller's record by the parameter's (type_anal.c:422).                   *)
Apart(f) == \A m \in ParamNames(fns[f].params) \intersect Names : ~Visible(m)

CallsApart ==
  \A f \in FnNames \intersect DOMAIN fns, args \in ArgLists :
    visit_fn_call(f, args) \/ (\E m \in Names, dt \in DataTypes : visit_var_decl_call(m, dt, f, args))
      => Apart(f)

(* Functions have the parameter lists there are. *)
Signed == \A f \in DOMAIN fns : fns[f].params \in ParamLists

LEMMA SignedInit == Init => Signed
BY DEF Init, Signed

LEMMA SignedStep ==
  ASSUME Signed, [Next]_vars
  PROVE  Signed'
<1>1. CASE fns' = fns
  BY <1>1 DEF Signed
<1>2. ASSUME NEW f \in FnNames, NEW rt \in RetTypes, NEW params \in ParamLists, FnStart(f, rt, params)
      PROVE  Signed'
  <2> DEFINE r == [params |-> params, rt |-> rt]
  <2>1. fns' = Put(fns, f, r) /\ r.params = params
    BY <1>2 DEF FnStart
  <2> HIDE DEF r
  <2>2. DOMAIN fns' = DOMAIN fns \union {f} /\ fns'[f] = r /\ \A y \in DOMAIN fns : y # f => fns'[y] = fns[y]
    BY <2>1 DEF Put
  <2> QED BY <2>1, <2>2 DEF Signed
<1>3. CASE UNCHANGED vars
  BY <1>1, <1>3 DEF vars
<1>4. CASE Next
  <2>1. ASSUME NEW m \in Names,
               \/ assert_is_declared(m) \/ assert_is_not_declared(m)
               \/ visit_return(m) \/ visit_if(m) \/ visit_while(m)
               \/ visit_do_while(m) \/ visit_for(m)
               \/ \E dt \in DataTypes : visit_var_decl(m, dt)
               \/ \E r \in Names : visit_binary(m, r)
        PROVE  fns' = fns
    BY <2>1 DEF assert_is_declared, assert_is_not_declared, visit_return, visit_if, visit_while,
         visit_do_while, visit_for, visit_var_decl, visit_binary
  <2>2. ASSUME NEW m \in Names, NEW dt \in DataTypes, NEW f \in FnNames, NEW args \in ArgLists,
               visit_var_decl_call(m, dt, f, args)
        PROVE  fns' = fns
    BY <2>2 DEF visit_var_decl_call
  <2>3. ASSUME NEW f, NEW args, visit_fn_call(f, args)
        PROVE  fns' = fns
    BY <2>3 DEF visit_fn_call
  <2>4. ASSUME visit_return_void \/ BlockEnd \/ (\E f \in FnNames : FnRedeclared(f)) \/ FnEnd \/ ProgramEnd
        PROVE  fns' = fns
    BY <2>4 DEF visit_return_void, BlockEnd, FnRedeclared, FnEnd, ProgramEnd
  <2> QED BY <1>1, <1>2, <1>4, <2>1, <2>2, <2>3, <2>4 DEF Next
<1> QED BY <1>3, <1>4

(* What ana_type makes of a call of a declared function. *)
Called(v, f, args) ==
  /\ v.res \in {"ok", "type_error", "abort"}
  /\ v.res = "type_error" => WrongArgs(f, args)
  /\ v.res = "ok" =>
       /\ ~WrongArgs(f, args) /\ IsType(v) /\ v.st.depth = ty.st.depth /\ v.ret = ty.ret
       /\ SameOn(v.st, ty.st, Others(fns[f].params)) /\ NoBuiltin(v.st) /\ v.dt = fns[f].rt

LEMMA CallTyped ==
  ASSUME ParamsApart, Signed, Seen, phase = "run",
         NEW p, TypesOf(p, open, env, ty, ill, DOMAIN fns),
         NEW f \in FnNames, f \notin Builtins, NEW args \in ArgLists, Callable(f, args),
         f \in DOMAIN fns => Apart(f)
  PROVE  /\ Called(type_fn_call(ty, f, args), f, args) /\ f \in DOMAIN fns
         /\ \A d \in 1 .. Len(env) : DOMAIN env[d] \intersect Known \subseteq Others(fns[f].params)
<1> DEFINE params == fns[f].params
           t == type_args(ty, params, args)
           v == type_fn_call(ty, f, args)
           right == \A k \in 1 .. Len(args) : lookup(ty.st, args[k]).dt = params[k].dt
<1>1. declared(var, f) /\ Sees(var, env) /\ f \in Known
  BY SeenNow, TypedNames DEF Callable
<1>2. declared(ty.st, f) /\ lookup(ty.st, f).kind = "fn" /\ f \in DOMAIN fns
  BY <1>1, Looks
<1>3. IsType(ty) /\ ty.res = "ok" /\ NoBuiltin(ty.st) /\ ty.st.depth = Level(Len(open)) /\ Len(open) \in Nat
  BY FrameEnds DEF TypesOf
<1>4. ty.st.depth \in Int
  BY <1>3, LevelIs
<1>5. Len(args) \in Nat /\ DOMAIN args = 1 .. Len(args)
  BY ArgsAre, Domains
<1>6. ASSUME NEW k \in 1 .. Len(args)
      PROVE  args[k] \in Names /\ declared(ty.st, args[k]) /\ lookup(ty.st, args[k]).dt = Meaning(args[k]).dt
  <2>1. args[k] \in Names
    <3>1. args \in Seq(Names)
      BY ArgsAssumption
    <3> QED BY <3>1
  <2>2. declared(var, args[k])
    BY <1>5 DEF Callable
  <2> QED BY <2>1, <2>2, TypedLooks
<1>11. ASSUME NEW d \in 1 .. Len(env), NEW m \in DOMAIN env[d], m \in Known
       PROVE  m \in Others(params)
  <2>1. DOMAIN env = 1 .. Len(env)
    BY SeenNow, Lengths, Domains
  <2>2. Visible(m)
    BY <2>1 DEF Visible, Scopes
  <2>3. m \in ParamNames(params) => m \in Names
    BY <1>2, <1>11 DEF ParamNames, ParamsApart, Signed, Known
  <2> QED BY <2>2, <2>3, <1>2, <1>11 DEF Apart, Others
<1>7. params \in ParamLists
  BY <1>2 DEF Signed
<1>8. DOMAIN params = 1 .. Len(params)
  <2>1. params \in Seq({params[k] : k \in DOMAIN params})
    BY <1>7, ParamsAssumption
  <2> HIDE DEF params
  <2> QED BY <2>1
<1>9. CASE Len(params) # Len(args)
  <2>1. v = fail(ty, "abort")
    BY <1>2, <1>9 DEF type_fn_call
  <2>2. v.res = "abort"
    BY <2>1, <1>3 DEF fail, Ok, IsType
  <2> QED BY <2>2, <1>2, <1>11 DEF Called
<1>10. CASE Len(params) = Len(args)
  <2>1. \A k \in 1 .. Len(args) : params[k].name \in ParamNames(params) \ Builtins
    BY <1>7, <1>8, <1>10 DEF ParamsApart, ParamNames
  <2>2. ASSUME NEW k \in 1 .. Len(args)
        PROVE  args[k] \in Others(params) /\ declared(ty.st, args[k])
    <3>1. declared(var, args[k]) /\ args[k] \in Names /\ declared(ty.st, args[k])
      BY <1>5, <1>6 DEF Callable
    <3>2. \E d \in 1 .. Len(env) : args[k] \in DOMAIN env[d]
      BY <3>1, TypedLooks
    <3> QED BY <3>1, <3>2, <1>11, TypedNames
  <2> HIDE DEF params
  <2>3. Walked(t, ty, params, args, Len(args))
    BY <1>3, <1>4, <1>5, <2>1, <2>2, ArgsTyped
  <2>4. v = [t EXCEPT !.dt = fns[f].rt]
    BY <1>2, <1>10 DEF type_fn_call, params
  <2> HIDE DEF t, v
  <2>5. /\ IsType(t) /\ t.st.depth = ty.st.depth /\ t.ret = ty.ret
        /\ SameOn(t.st, ty.st, Others(params)) /\ NoBuiltin(t.st)
        /\ t.res = IF right THEN "ok" ELSE "type_error"
    BY <2>3 DEF Walked
  <2>6. IsType(v) /\ v.st = t.st /\ v.ret = t.ret /\ v.res = t.res /\ v.dt = fns[f].rt
    BY <2>4, <2>5 DEF IsType
  <2>7. right <=> ~WrongArgs(f, args)
    BY <1>2, <1>5, <1>6, <1>10 DEF WrongArgs, params
  <2> HIDE DEF right
  <2>8. Called(v, f, args)
    BY <2>5, <2>6, <2>7 DEF Called, params
  <2> QED BY <2>8, <1>2, <1>11 DEF v, params
<1> QED BY <1>9, <1>10

LEMMA TypedCall ==
  ASSUME BuiltinsApart, ParamsApart, Signed, Seen, Typed, NEW f \in FnNames \union Builtins \union Names,
         NEW args \in ArgLists, visit_fn_call(f, args), CallsApart
  PROVE  Typed' /\ Verdict'
<1> DEFINE v == type_fn_call(ty, f, args)
           F == DOMAIN fns
<1>1. phase = "run" /\ Callable(f, args)
  BY StmtIs DEF visit_fn_call
<1>2. PICK p : TypesOf(p, open, env, ty, ill, F)
  BY <1>1, TypedNow
<1>3. CASE fn_check(f, args) # "run"
  <2>1. phase' = fn_check(f, args)
    BY <1>3 DEF visit_fn_call
  <2>2. fn_check(f, args) \in {"run", "fn_error", "fn_crash"}
    BY DEF fn_check
  <2>3. phase' \in {"fn_error", "fn_crash", "var_error"}
    BY <2>1, <2>2, <1>3
  <2> QED BY <2>3, Stopped
<1>4. CASE fn_check(f, args) = "run"
  <2>1. TypeStep(v) /\ env' = MarkRead(env, f, args) /\ fns' = fns /\ open' = open
        /\ ill' = Judge("type", WrongArgs(f, args))
    BY <1>4 DEF visit_fn_call
  <2>2. CASE f \in Builtins
    <3>1. NoBuiltin(ty.st) /\ ty.res = "ok" /\ IsType(ty)
      BY <1>2 DEF TypesOf
    <3>2. ~declared(ty.st, f)
      BY <2>2, <3>1 DEF NoBuiltin, declared
    <3>3. v = fail(ty, "crash")
      BY <3>2 DEF type_fn_call
    <3>4. v.res = "crash"
      BY <3>1, <3>3 DEF fail, Ok, IsType
    <3> QED BY <2>1, <2>2, <3>4, Outcome
  <2>3. CASE f \notin Builtins
    <3>1. f \in FnNames
      BY <2>3, <1>2, <1>4 DEF fn_check, TypesOf
    <3>7. f \in DOMAIN fns => Apart(f)
      BY <3>1 DEF CallsApart
    <3>2. /\ Called(v, f, args)
          /\ \A d \in 1 .. Len(env) : DOMAIN env[d] \intersect Known \subseteq Others(fns[f].params)
      BY <1>1, <1>2, <2>3, <3>1, <3>7, CallTyped
    <3> HIDE DEF v
    <3>3. ty' = v
      BY <2>1, GoesOn
    <3>4. ASSUME v.res = "ok" PROVE Typed'
      <4>1. /\ ~WrongArgs(f, args) /\ IsType(v) /\ v.st.depth = ty.st.depth /\ v.ret = ty.ret
            /\ SameOn(v.st, ty.st, Others(fns[f].params)) /\ NoBuiltin(v.st)
        BY <3>2, <3>4 DEF Called
      <4>2. ill' = ill
        BY <2>1, <4>1 DEF Judge
      <4>3. IsSeq(env) /\ IsEnv(env)
        BY <1>1, SeenNow, Lengths DEF Sees
      <4>4. Keeps(env', env, Len(env)) /\ Len(env') = Len(env)
        BY <2>1, <4>3, KeepsMark, EnvLengths
      <4>5. Keeps(env', env, Len(env) - 1)
        BY <4>3, <4>4, KeepsLess
      <4>6. Frames(p, open, Len(env)) /\ Typing(ty.st, env, p, Len(open), F) /\ Current(open, ty, F)
        BY <1>2 DEF TypesOf
      <4>8. Typing(v.st, env', p, Len(open), F)
        BY <3>2, <4>1, <4>4, <4>6, TypingSame
      <4>9. Current(open, v, F)
        BY <4>1, <4>6 DEF Current
      <4>10. TypesOf(p, open, env', v, ill, F)
        BY <1>2, <3>4, <4>1, <4>4, <4>5, <4>6, <4>8, <4>9, TypesStay
      <4> QED BY <2>1, <3>3, <4>2, <4>10, TypedThen
    <3>5. v.res = "type_error" => ill' # {}
      BY <2>1, <3>2 DEF Called, Judge
    <3>6. v.res \in {"ok", "type_error", "abort"}
      BY <3>2 DEF Called
    <3> QED BY <2>1, <3>4, <3>5, <3>6, Outcome
  <2> QED BY <2>2, <2>3
<1> QED BY <1>3, <1>4

LEMMA TypedDeclCall ==
  ASSUME BuiltinsApart, ParamsApart, Signed, Seen, Typed, NEW m \in Names, NEW dt \in DataTypes,
         NEW f \in FnNames, NEW args \in ArgLists, visit_var_decl_call(m, dt, f, args), CallsApart
  PROVE  Typed' /\ Verdict'
<1> DEFINE v == type_fn_call(ty, f, args)
           r == type_require(v, v.dt = dt)
           t == type_push(r, m, "var", dt)
           e1 == Bind(env, m, "var", dt)
           F == DOMAIN fns
           w == Len(open)
<1>1. phase = "run" /\ ~declared(var, m) /\ Callable(f, args) /\ f \notin Builtins
  BY StmtIs DEF visit_var_decl_call, BuiltinsApart
<1>2. PICK p : TypesOf(p, open, env, ty, ill, F)
  BY <1>1, TypedNow
<1>3. TypeStep(t) /\ env' = MarkRead(e1, f, args) /\ fns' = fns /\ open' = open
      /\ ill' = Judge("type", WrongArgs(f, args) \/ fns[f].rt # dt)
  BY DEF visit_var_decl_call
<1>14. f \in DOMAIN fns => Apart(f)
  BY DEF CallsApart
<1>4. /\ Called(v, f, args)
      /\ \A d \in 1 .. Len(env) : DOMAIN env[d] \intersect Known \subseteq Others(fns[f].params)
  BY <1>1, <1>2, <1>14, CallTyped
<1> HIDE DEF v
<1>5. ty' = t
  BY <1>3, GoesOn
<1>6. Sees(var, env) /\ IsSeq(env) /\ IsEnv(env) /\ Len(env) > 0 /\ Len(env) \in Nat
  BY <1>1, SeenNow, Lengths DEF Sees
<1>7. Frames(p, open, Len(env)) /\ Typing(ty.st, env, p, w, F) /\ Current(open, ty, F)
      /\ ty.st.depth = Level(w)
  BY <1>2 DEF TypesOf
<1>8. t.res = r.res
  BY DEF type_push
<1>9. r.res = IF v.dt = dt \/ v.res # "ok" THEN v.res ELSE "type_error"
  BY <1>4 DEF type_require, fail, Ok, Called, IsType
<1>10. ASSUME v.res = "ok", v.dt = dt PROVE Typed'
  <2>1. /\ ~WrongArgs(f, args) /\ IsType(v) /\ v.st.depth = ty.st.depth /\ v.ret = ty.ret
        /\ SameOn(v.st, ty.st, Others(fns[f].params)) /\ NoBuiltin(v.st) /\ fns[f].rt = dt
    BY <1>4, <1>10 DEF Called
  <2>2. ill' = ill
    BY <1>3, <2>1 DEF Judge
  <2>3. IsType(r) /\ r.st = v.st /\ r.ret = ty.ret /\ r.res = "ok"
    BY <1>10, <2>1, TypeRequire
  <2> HIDE DEF r
  <2>4. IsType(t) /\ t.st = push(v.st, m, "var", dt) /\ t.st.depth = ty.st.depth /\ t.res = "ok" /\ t.ret = ty.ret
    BY <2>1, <2>3, TypePush
  <2> HIDE DEF t
  <2>5. Keeps(e1, env, Len(env) - 1) /\ Added(e1[Len(env)], env[Len(env)], m, dt) /\ Len(e1) = Len(env)
    BY <1>6, KeepsBind, EnvLengths
  <2>6. \A d \in 1 .. Len(env) : m \notin DOMAIN env[d]
    BY <1>1, <1>6, NoScope
  <2>7. m \in Known /\ m \notin FnNames /\ m \notin Builtins
    BY TypedNames, NamesAssumption
  <2>8. v.st = [depth |-> v.st.depth, decls |-> v.st.decls] /\ v.st.depth = Level(w)
    BY <1>7, <2>1 DEF IsType
  <2>9. Keeps(env, env, Len(env))
    BY DEF Keeps, Kept
  <2>10. Typing(v.st, env, p, w, F)
    BY <1>4, <1>7, <2>1, <2>9, TypingSame
  <2>11. Typing(push(v.st, m, "var", dt), e1, p, w, F)
    BY <1>7, <2>5, <2>6, <2>7, <2>8, <2>10, TypingPush
  <2>12. Sees(push(var, m, "var", dt), e1)
    <3>1. m \notin DOMAIN var.decls
      BY <1>1, <1>6, NoScope
    <3> QED BY <1>6, <3>1, Pushed
  <2>13. IsSeq(e1) /\ IsEnv(e1)
    BY <2>12, Lengths DEF Sees
  <2> HIDE DEF e1
  <2>14. Keeps(env', e1, Len(e1)) /\ Len(env') = Len(e1)
    BY <1>3, <2>13, KeepsMark, EnvLengths
  <2>15. Keeps(env', env, Len(env) - 1)
    <3> SUFFICES ASSUME NEW d \in 1 .. Len(env) - 1 PROVE Kept(env'[d], env[d])
      BY DEF Keeps
    <3>1. d \in 1 .. Len(env)
      BY <1>6
    <3>2. Kept(env'[d], e1[d]) /\ Kept(e1[d], env[d])
      BY <3>1, <2>5, <2>14 DEF Keeps
    <3> QED BY <3>2 DEF Kept
  <2>16. \A d \in 1 .. Len(e1) : DOMAIN e1[d] \intersect Known \subseteq Known
    OBVIOUS
  <2>17. SameOn(t.st, push(v.st, m, "var", dt), Known)
    BY <2>4 DEF SameOn
  <2>18. Frames(p, open, Len(e1))
    BY <1>7, <2>5
  <2>19. Typing(t.st, env', p, w, F)
    BY <2>11, <2>14, <2>16, <2>17, <2>18, TypingSame
  <2>20. Current(open, t, F)
    BY <1>7, <2>4 DEF Current
  <2>21. NoBuiltin(t.st)
    <3>1. t.st.decls = Put(v.st.decls, m, record(v.st, "var", dt))
      BY <2>4, <2>8 DEF push
    <3> QED BY <3>1, <2>1, <2>7 DEF NoBuiltin, Put
  <2>22. TypesOf(p, open, env', t, ill, F)
    BY <1>2, <1>7, <2>4, <2>5, <2>14, <2>15, <2>19, <2>20, <2>21, TypesStay
  <2> QED BY <1>3, <1>5, <2>2, <2>22, TypedThen
<1> HIDE DEF r, t
<1>11. ASSUME t.res = "type_error" PROVE ill' # {}
  <2>1. CASE v.res = "type_error"
    BY <2>1, <1>3, <1>4 DEF Called, Judge
  <2>2. CASE v.res = "ok"
    <3>1. v.dt # dt
      BY <1>8, <1>9, <1>11, <2>2
    <3>2. fns[f].rt # dt
      BY <1>4, <2>2, <3>1 DEF Called
    <3> QED BY <1>3, <3>2 DEF Judge
  <2> QED BY <1>4, <1>8, <1>9, <1>11, <2>1, <2>2 DEF Called
<1>12. v.res \in {"ok", "type_error", "abort"}
  BY <1>4 DEF Called
<1>13. t.res \in {"ok", "type_error", "abort"} /\ (t.res = "ok" => v.res = "ok" /\ v.dt = dt)
  BY <1>8, <1>9, <1>12
<1> QED BY <1>3, <1>10, <1>11, <1>13, Outcome

------------------------------------------------------------------------------
(* Ends of blocks and functions.                                           *)

LEMMA LevelLess == \A j, k \in Nat : j < k => Level(j) < Level(k)
BY DEF Level

(* A record of an outer level is there when a scope of ana_type is left. *)
LEMMA NamedLeaves ==
  ASSUME NEW t, IsType(t), t.st.depth \in Int, NEW k, Level(k) \in Int, Level(k) < t.st.depth,
         NEW x, NEW m, NEW F, Named(t.st, x, m, k, F)
  PROVE  Named(type_leave(t).st, x, m, k, F)
<1> DEFINE u == type_leave(t)
<1>1. /\ \A y : y \in DOMAIN u.st.decls <=> y \in DOMAIN t.st.decls /\ t.st.decls[y].depth # t.st.depth
      /\ \A y \in DOMAIN u.st.decls : u.st.decls[y] = t.st.decls[y]
  BY TypeLeave
<1> HIDE DEF u
<1>2. m \in DOMAIN t.st.decls /\ Bounded(t.st.decls[m], k) /\ Fits(t.st.decls[m], x, m, F)
  BY DEF Named
<1>3. t.st.decls[m].depth # t.st.depth
  BY <1>2 DEF Bounded
<1>4. m \in DOMAIN u.st.decls /\ u.st.decls[m] = t.st.decls[m]
  BY <1>1, <1>2, <1>3
<1>5. Named(u.st, x, m, k, F)
  BY <1>2, <1>4 DEF Named
<1> QED BY <1>5 DEF u

(* A block less. *)
LEMMA TypesClose ==
  ASSUME NEW p, NEW op, NEW e, NEW t, NEW il, NEW F, TypesOf(p, op, e, t, il, F), Len(op) > 1,
         NEW e2, Len(e2) = p[Len(op) - 1], \A d \in 1 .. Len(e2) : e2[d] = e[d],
         NEW t2, IsType(t2), t2.res = "ok", t2.ret = t.ret, t2.st = type_leave(t).st,
         ~WrongDo(p, op, e, Len(op))
  PROVE  TypesOf(Closed(p, Len(op) - 1), Front(op), e2, t2, il, F)
<1> DEFINE w == Len(op)
           o == Front(op)
           q == Closed(p, w - 1)
<1>1. Frames(p, op, Len(e)) /\ Due(p, op, e, il) /\ Current(op, t, F) /\ F \subseteq FnNames
      /\ t.st.depth = Level(w) /\ IsType(t) /\ Typing(t.st, e, p, w, F) /\ NoBuiltin(t.st)
  BY DEF TypesOf
<1>2. w \in Nat /\ w > 1 /\ IsSeq(op) /\ w - 1 \in Nat
  BY <1>1, FrameEnds DEF Frames
<1>3. Frames(q, o, Len(e2))
  BY <1>1, FrameClosed
<1>4. IsSeq(o) /\ Len(o) = w - 1 /\ \A k \in 1 .. w - 1 : o[k] = op[k]
  BY <1>2, SeqFront
<1>5. \A k \in 0 .. w - 1 : q[k] = p[k]
  BY DEF Closed
<1> HIDE DEF q, o
<1>6. Level(w) \in Int /\ t.st.depth \in Int
  BY <1>1, <1>2, LevelIs
<1>7. t2.st.depth = Level(Len(o))
  <2>1. t2.st.depth = t.st.depth - 1
    BY <1>1, <1>6, TypeLeave
  <2> QED BY <2>1, <1>1, <1>2, <1>4 DEF Level
<1>8. ASSUME NEW k \in 0 .. w - 1, NEW d \in 1 .. q[k]
      PROVE  TypedScope(t2.st, e2[d], k, F)
  <2>1. k \in 0 .. w /\ k \in Nat /\ k < w
    BY <1>2
  <2>2. q[k] = p[k]
    BY <1>5
  <2>3. q[k] \in Nat /\ q[k] <= Len(e2) /\ Len(e2) \in Nat
    <3>1. k \in 0 .. Len(o)
      BY <1>4
    <3> QED BY <3>1, <1>3, FrameRange
  <2>4. d \in 1 .. Len(e2)
    BY <2>3
  <2>5. e2[d] = e[d]
    BY <2>4
  <2>6. TypedScope(t.st, e[d], k, F)
    BY <1>1, <2>1, <2>2 DEF Typing
  <2>7. Level(k) \in Int /\ Level(k) < t.st.depth
    BY <1>1, <1>2, <2>1, LevelLess, LevelIs
  <2>8. \A m \in DOMAIN e[d] : m \in Known => Named(type_leave(t).st, e[d][m], m, k, F)
    BY <1>1, <1>6, <2>6, <2>7, NamedLeaves DEF TypedScope
  <2> QED BY <2>5, <2>8 DEF TypedScope
<1>9. Typing(t2.st, e2, q, Len(o), F)
  BY <1>4, <1>8 DEF Typing
<1>10. ASSUME NEW k \in 2 .. w - 1
       PROVE  Judged(q, o, e2, k, il) /\ (WrongDo(p, op, e, k) => WrongDo(q, o, e2, k))
  <2>1. k \in 2 .. w /\ k \in 1 .. w - 1 /\ k - 1 \in 0 .. w - 1 /\ k - 1 \in 0 .. Len(o)
    BY <1>2, <1>4
  <2>2. o[k] = op[k] /\ q[k - 1] = p[k - 1] /\ Judged(p, op, e, k, il)
    BY <2>1, <1>1, <1>4, <1>5 DEF Due
  <2>3. q[k - 1] \in Nat /\ q[k - 1] <= Len(e2) /\ Len(e2) \in Nat
    BY <2>1, <1>3, FrameRange
  <2>4. \A d \in 1 .. p[k - 1] : d \in 1 .. Len(e2)
    BY <2>2, <2>3
  <2>5. \A d \in 1 .. p[k - 1] : e2[d] = e[d]
    BY <2>4
  <2>6. Judged(q, o, e2, k, il)
    BY <2>2, <2>5 DEF Judged
  <2>7. WrongDo(p, op, e, k) => WrongDo(q, o, e2, k)
    BY <2>2, <2>5 DEF WrongDo
  <2> QED BY <2>6, <2>7
<1>11. Due(q, o, e2, il)
  <2>1. ASSUME "type" \in il PROVE \E k \in 2 .. w - 1 : WrongDo(q, o, e2, k)
    <3>1. PICK k \in 2 .. w : WrongDo(p, op, e, k)
      BY <2>1, <1>1 DEF Due
    <3>2. k # w
      BY <3>1
    <3>3. k \in 2 .. w - 1
      BY <3>2, <1>2
    <3> QED BY <3>1, <3>3, <1>10
  <2> QED BY <2>1, <1>4, <1>10 DEF Due
<1>12. Current(o, t2, F)
  <2>1. o[1] = op[1] /\ op # <<>>
    <3>1. 1 \in 1 .. w - 1
      BY <1>2
    <3>2. op # <<>>
      BY <1>1, <1>2, FrameEnds
    <3> QED BY <3>1, <3>2, <1>4
  <2> QED BY <2>1, <1>1 DEF Current
<1>13. NoBuiltin(t2.st)
  <2>1. \A m : m \in DOMAIN t2.st.decls => m \in DOMAIN t.st.decls
    BY <1>1, <1>6, TypeLeave
  <2> QED BY <2>1, <1>1 DEF NoBuiltin
<1>14. TypesOf(q, o, e2, t2, il, F)
  BY <1>1, <1>3, <1>7, <1>9, <1>11, <1>12, <1>13 DEF TypesOf
<1> QED BY <1>14 DEF q, o

LEMMA TypedBlockEnd ==
  ASSUME Seen, Typed, BlockEnd
  PROVE  Typed' /\ Verdict'
<1> DEFINE b == Last(open)
           c == b.cond
           e == Front(env)
           F == DOMAIN fns
           w == Len(open)
           t == type_leave(ty)
           v == IF b.kind = "do" THEN require_last_dt_convertible_to_bool(type_symbol(t, c)) ELSE t
<1>1. phase = "run" /\ w > 1
  BY DEF BlockEnd
<1>2. PICK p : TypesOf(p, open, env, ty, ill, F)
  BY <1>1, TypedNow
<1>3. IsType(ty) /\ ty.res = "ok" /\ ty.st.depth = Level(w) /\ Frames(p, open, Len(env))
      /\ Typing(ty.st, env, p, w, F) /\ Due(p, open, env, ill)
  BY <1>2 DEF TypesOf
<1>4. w \in Nat /\ w - 1 \in Nat /\ w \in 2 .. w /\ w - 1 \in 0 .. w /\ w - 1 < w /\ IsSeq(env)
      /\ IsSeq(open) /\ b = open[w]
  BY <1>1, <1>3, FrameEnds, SeenNow, Lengths DEF Frames, Last
<1>5. Len(env) = p[w - 1] + Width(b) /\ p[w - 1] \in Nat /\ p[w - 1] > 0
  BY <1>1, <1>3, FrameClosed
<1>6. /\ TypeStep(v) /\ open' = Front(open) /\ fns' = fns /\ ill' = ill
      /\ env' = IF b.kind = "for" THEN Front(e) ELSE e
  BY DEF BlockEnd
<1>7. ty.st.depth \in Int /\ Level(w - 1) \in Int /\ Level(w - 1) < ty.st.depth
      /\ ty.st.depth - 1 = Level(w - 1)
  <2>1. Level(w) \in Int /\ Level(w - 1) \in Int /\ Level(w - 1) < Level(w)
    BY <1>4, LevelIs, LevelLess
  <2>2. Level(w) - 1 = Level(w - 1)
    BY <1>1, <1>4 DEF Level
  <2> QED BY <2>1, <2>2, <1>3
<1>8. IsType(t) /\ t.st.depth = Level(w - 1) /\ t.res = "ok" /\ t.ret = ty.ret
  BY <1>3, <1>7, TypeLeave
<1> HIDE DEF b, e
<1>9. Len(env') = p[w - 1] /\ \A d \in 1 .. p[w - 1] : env'[d] = env[d]
  <2>1. Len(env) \in Nat /\ Len(env) > 0 /\ Width(b) = IF b.kind = "for" THEN 2 ELSE 1
    BY <1>4, <1>5, Domains DEF Width
  <2>2. IsSeq(e) /\ Len(e) = Len(env) - 1 /\ \A d \in 1 .. Len(env) - 1 : e[d] = env[d]
    BY <1>4, <2>1, SeqFront DEF e
  <2>3. CASE b.kind # "for"
    <3>1. Len(env) - 1 = p[w - 1] /\ env' = e
      BY <2>1, <2>3, <1>5, <1>6
    <3> QED BY <3>1, <2>2
  <2>4. CASE b.kind = "for"
    <3>1. Len(e) - 1 = p[w - 1] /\ Len(e) > 0 /\ env' = Front(e)
      BY <2>1, <2>2, <2>4, <1>5, <1>6
    <3>2. Len(Front(e)) = Len(e) - 1 /\ \A d \in 1 .. Len(e) - 1 : Front(e)[d] = e[d]
      BY <2>2, <3>1, SeqFront
    <3>3. \A d \in 1 .. p[w - 1] : d \in 1 .. Len(env) - 1
      BY <2>1, <2>4, <1>5
    <3> QED BY <3>1, <3>2, <3>3, <2>2
  <2> QED BY <2>3, <2>4
<1>10. ASSUME NEW d \in 1 .. p[w - 1], c \in DOMAIN env[d], c \in Names
       PROVE  declared(t.st, c) /\ lookup(t.st, c).dt = env[d][c].dt
  <2>1. TypedScope(ty.st, env[d], w - 1, F)
    BY <1>3, <1>4 DEF Typing
  <2>2. Named(ty.st, env[d][c], c, w - 1, F)
    BY <2>1, <1>10, TypedNames DEF TypedScope
  <2>3. Named(t.st, env[d][c], c, w - 1, F)
    BY <2>2, <1>3, <1>7, NamedLeaves
  <2> QED BY <2>3, <1>8, <1>10 DEF Named, Bounded, Fits, declared, lookup
<1> HIDE DEF t, c
<1>11. /\ IsType(v) /\ v.st = t.st /\ v.ret = ty.ret /\ v.res \in {"ok", "type_error"}
       /\ v.res = "type_error" => "type" \in ill
       /\ v.res = "ok" => ~WrongDo(p, open, env, w)
  <2>1. CASE b.kind = "do"
    <3>1. Judged(p, open, env, w, ill) /\ open[w].kind = "do"
      BY <2>1, <1>3, <1>4 DEF Due
    <3>2. c \in Names
      BY <3>1, <1>4 DEF Judged, c
    <3>3. PICK d \in 1 .. p[w - 1] : c \in DOMAIN env[d] /\ (env[d][c].dt = "int" \/ "type" \in ill)
      BY <3>1, <1>4 DEF Judged, c
    <3>4. declared(t.st, c) /\ lookup(t.st, c).dt = env[d][c].dt
      BY <3>2, <3>3, <1>10
    <3> DEFINE y == type_symbol(t, c)
    <3>5. IsType(y) /\ y.st = t.st /\ y.res = "ok" /\ y.ret = ty.ret /\ y.dt = env[d][c].dt
      BY <3>4, <1>8, TypeSymbol
    <3> HIDE DEF y
    <3> DEFINE int == y.dt = "int"
    <3>6. v = type_require(y, int)
      BY <2>1 DEF require_last_dt_convertible_to_bool, y
    <3>7. IsType(v) /\ v.st = t.st /\ v.ret = ty.ret /\ v.res = IF int THEN "ok" ELSE "type_error"
      <4>1. int \in BOOLEAN
        OBVIOUS
      <4> HIDE DEF int, v
      <4> QED BY <3>5, <3>6, <4>1, TypeRequire
    <3>8. int => ~WrongDo(p, open, env, w)
      <4> SUFFICES ASSUME int, NEW k \in 1 .. p[w - 1], c \in DOMAIN env[k], env[k][c].dt # "int"
                   PROVE  FALSE
        BY <1>4 DEF WrongDo, c
      <4>1. lookup(t.st, c).dt = env[k][c].dt
        BY <3>2, <1>10
      <4> QED BY <4>1, <3>4, <3>5
    <3>9. ~int => "type" \in ill
      BY <3>3, <3>5
    <3> HIDE DEF int, v
    <3> QED BY <3>7, <3>8, <3>9
  <2>2. CASE b.kind # "do"
    <3>1. v = t
      BY <2>2
    <3>2. ~WrongDo(p, open, env, w)
      BY <2>2, <1>4 DEF WrongDo
    <3> QED BY <3>1, <3>2, <1>8
  <2> QED BY <2>1, <2>2
<1> HIDE DEF v
<1>12. ASSUME v.res = "ok" PROVE Typed'
  <2>1. ty' = v
    BY <1>6, GoesOn
  <2>2. TypesOf(Closed(p, w - 1), Front(open), env', v, ill, F)
    BY <1>1, <1>2, <1>9, <1>11, <1>12, TypesClose DEF t
  <2>3. TypesOf(Closed(p, w - 1), open', env', ty', ill', DOMAIN fns')
    BY <2>1, <2>2, <1>6
  <2> QED BY <2>3, TypedThen
<1> QED BY <1>6, <1>11, <1>12, Outcome

(* The storage at the start of a function: its name and its parameters.    *)
LEMMA FnStorage ==
  ASSUME ParamsApart, BuiltinsApart, NEW t, IsType(t), t.st.depth = 1, NoBuiltin(t.st),
         NEW f \in FnNames, NEW params \in ParamLists
  PROVE  LET u == type_enter(TypeParams([t EXCEPT !.st = push(start_scope(@), f, "fn", "func")], params))
         IN  /\ IsType(u) /\ u.st.depth = 3 /\ u.res = t.res /\ u.ret = t.ret /\ NoBuiltin(u.st)
             /\ f \in DOMAIN u.st.decls /\ u.st.decls[f].kind = "fn" /\ u.st.decls[f].depth = 2
             /\ \A m \in ParamNames(params) : /\ m \in DOMAIN u.st.decls /\ u.st.decls[m].depth = 2
                                             /\ u.st.decls[m].dt = ParamType(params, m)
             /\ SameOn(u.st, t.st, Others(params) \ {f})
<1> DEFINE P == ParamNames(params)
           s1 == start_scope(t.st)
           r == record(s1, "fn", "func")
           g == Put(t.st.decls, f, r)
           s2 == push(s1, f, "fn", "func")
           x(m) == record(s2, "var", ParamType(params, m))
           h == [m \in DOMAIN g \union P |-> IF m \in P THEN x(m) ELSE g[m]]
           t2 == [t EXCEPT !.st = push(start_scope(@), f, "fn", "func")]
           t3 == TypeParams(t2, params)
           z == IF params = <<>> THEN t2.dt ELSE params[Len(params)].dt
           u == type_enter(t3)
<1>1. s1 = [depth |-> 2, decls |-> t.st.decls]
  BY DEF start_scope, IsType
<1>2. s2 = [depth |-> 2, decls |-> g] /\ r.kind = "fn" /\ r.depth = 2
  BY <1>1 DEF push, record
<1>3. t2 = [st |-> s2, dt |-> t.dt, ret |-> t.ret, res |-> t.res]
  BY DEF IsType
<1>16. \A m : x(m).depth = 2 /\ x(m).dt = ParamType(params, m)
  BY <1>2 DEF record
<1> HIDE DEF s1, r, P, x
<1>4. DOMAIN g = DOMAIN t.st.decls \union {f} /\ g[f] = r /\ \A y \in DOMAIN t.st.decls : y # f => g[y] = t.st.decls[y]
  BY DEF Put
<1> HIDE DEF g
<1>5. /\ DOMAIN h = DOMAIN g \union P /\ \A y \in P : h[y] = x(y)
      /\ \A y \in DOMAIN g : y \notin P => h[y] = g[y]
  OBVIOUS
<1>6. PushParams(s2, params) = [s2 EXCEPT !.decls = h]
  BY <1>2 DEF PushParams, P, x
<1> HIDE DEF h, s2, t2
<1>7. PushParams(s2, params) = [depth |-> 2, decls |-> h]
  BY <1>2, <1>6
<1>8. t3 = [t2 EXCEPT !.st = PushParams(s2, params), !.dt = z]
  BY <1>3 DEF TypeParams
<1> HIDE DEF z, t3
<1>9. t3 = [st |-> PushParams(s2, params), dt |-> z, ret |-> t.ret, res |-> t.res]
  BY <1>3, <1>8
<1>10. IsType(t3) /\ t3.st.depth = 2 /\ t3.st.decls = h /\ t3.ret = t.ret /\ t3.res = t.res
  BY <1>7, <1>9 DEF IsType
<1>11. IsType(u) /\ u.st.depth = 3 /\ u.st.decls = h /\ u.ret = t.ret /\ u.res = t.res
  BY <1>10, TypeEnter
<1> HIDE DEF u
<1>12. P \intersect (FnNames \union Builtins) = {}
  BY DEF P, ParamNames, ParamsApart
<1>13. f \in DOMAIN u.st.decls /\ u.st.decls[f] = r
  BY <1>4, <1>5, <1>11, <1>12
<1>17. \A m \in P : m \in DOMAIN u.st.decls /\ u.st.decls[m].depth = 2 /\ u.st.decls[m].dt = ParamType(params, m)
  BY <1>5, <1>11, <1>16
<1>14. SameOn(u.st, t.st, Others(params) \ {f})
  BY <1>4, <1>5, <1>11 DEF SameOn, Others, P
<1>15. NoBuiltin(u.st)
  BY <1>4, <1>5, <1>11, <1>12 DEF NoBuiltin, BuiltinsApart
<1> QED BY <1>2, <1>11, <1>13, <1>14, <1>15, <1>17 DEF u, t3, t2, P

LEMMA TypedFnStart ==
  ASSUME BuiltinsApart, ParamsApart, Seen, Typed, NEW f \in FnNames, NEW rt, NEW params \in ParamLists,
         FnStart(f, rt, params)
  PROVE  Typed' /\ Verdict'
<1> DEFINE F == DOMAIN fns
           G == F \union {f}
           P == ParamNames(params)
           e1 == Append(env, <<>>)
           e2 == Bind(e1, f, "fn", rt)
           e3 == BindParams(e2, params)
           e4 == Append(e3, <<>>)
           t == type_enter(TypeParams([ty EXCEPT !.st = push(start_scope(@), f, "fn", "func")], params))
           b == [Block("fn", "none") EXCEPT !.fn = f]
           q == [j \in 0 .. 1 |-> IF j = 0 THEN 1 ELSE 3]
           w == Len(<<b>>)
<1>1. phase = "run" /\ open = <<>>
  BY DEF FnStart, Room
<1>2. /\ TypeStep(t) /\ open' = <<b>> /\ ill' = ill /\ env' = e4
  BY DEF FnStart
<1>3. DOMAIN fns' = G
  <2> DEFINE r == [params |-> params, rt |-> rt]
  <2>1. fns' = Put(fns, f, r)
    BY DEF FnStart
  <2> HIDE DEF r
  <2> QED BY <2>1 DEF Put
<1>4. PICK p : TypesOf(p, open, env, ty, ill, F)
  BY <1>1, TypedNow
<1>5. IsType(ty) /\ ty.res = "ok" /\ ty.st.depth = 1 /\ Frames(p, open, Len(env)) /\ p[0] = 1
      /\ Typing(ty.st, env, p, 0, F) /\ Due(p, open, env, ill) /\ F \subseteq FnNames /\ NoBuiltin(ty.st)
  <2>1. Len(open) = 0
    BY <1>1
  <2> QED BY <1>4, <2>1 DEF TypesOf, Frames, Level
<1>6. "type" \notin ill
  <2>1. ~\E k \in 2 .. Len(open) : TRUE
    BY <1>1
  <2> QED BY <2>1, <1>5 DEF Due
<1>7. /\ IsType(t) /\ t.st.depth = 3 /\ t.res = "ok" /\ t.ret = ty.ret /\ NoBuiltin(t.st)
      /\ f \in DOMAIN t.st.decls /\ t.st.decls[f].kind = "fn" /\ t.st.decls[f].depth = 2
      /\ \A m \in P : /\ m \in DOMAIN t.st.decls /\ t.st.decls[m].depth = 2
                      /\ t.st.decls[m].dt = ParamType(params, m)
      /\ SameOn(t.st, ty.st, Others(params) \ {f})
  BY <1>5, FnStorage
<1> HIDE DEF t, P
<1>8. Len(env) = 1 /\ f \notin DOMAIN env[1] /\ (\A m \in P : m \notin DOMAIN env[1]) /\ IsEnv(e1) /\ IsEnv(e2) /\ IsEnv(e3) /\ IsSeq(env)
      /\ Len(e1) = 2 /\ Len(e2) = 2 /\ Len(e3) = 2
  BY <1>1, FnScopes, SeenNow, Lengths DEF Sees, P
<1>9. e1[1] = env[1] /\ DOMAIN e1[2] = {}
  BY <1>8, SeqAppend
<1> HIDE DEF e1
<1>10. Kept(e2[1], e1[1]) /\ DOMAIN e2[2] = {f}
  <2>1. Keeps(e2, e1, Len(e1) - 1) /\ Added(e2[Len(e1)], e1[Len(e1)], f, rt)
    BY <1>8, KeepsBind
  <2>2. Kept(e2[1], e1[1])
    <3>1. 1 \in 1 .. Len(e1) - 1
      BY <1>8
    <3> QED BY <2>1, <3>1 DEF Keeps
  <2> QED BY <2>1, <2>2, <1>8, <1>9 DEF Added
<1> HIDE DEF e2
<1>11. /\ Kept(e3[1], e2[1]) /\ DOMAIN e3[2] = {f} \union P
       /\ \A m \in P : e3[2][m].dt = ParamType(params, m)
  <2>1. Len(e2) > 0
    BY <1>8
  <2>2. /\ Keeps(e3, e2, Len(e2) - 1) /\ DOMAIN e3[Len(e2)] = DOMAIN e2[Len(e2)] \union P
        /\ \A m \in P : e3[Len(e2)][m].dt = ParamType(params, m)
    BY <1>8, <2>1, KeepsParams DEF P
  <2>3. Kept(e3[1], e2[1])
    <3>1. 1 \in 1 .. Len(e2) - 1
      BY <1>8
    <3> QED BY <2>2, <3>1 DEF Keeps
  <2> QED BY <2>2, <2>3, <1>8, <1>10
<1> HIDE DEF e3
<1>12. Len(e4) = 3 /\ DOMAIN e4[3] = {} /\ e4[1] = e3[1] /\ e4[2] = e3[2]
  <2>1. IsSeq(e3)
    BY <1>8 DEF IsEnv
  <2>2. Len(e4) = Len(e3) + 1 /\ e4[Len(e3) + 1] = <<>> /\ \A d \in 1 .. Len(e3) : e4[d] = e3[d]
    BY <2>1, SeqAppend
  <2> HIDE DEF e4
  <2>3. 1 \in 1 .. Len(e3) /\ 2 \in 1 .. Len(e3) /\ Len(e3) + 1 = 3
    BY <1>8
  <2> QED BY <2>2, <2>3
<1> HIDE DEF e4
<1>13. Frames(q, <<b>>, 3) /\ w = 1
  BY FrameOfFn
<1>14. Kept(e4[1], env[1])
  BY <1>9, <1>10, <1>11, <1>12 DEF Kept
<1>15. ASSUME NEW k \in 0 .. 1
       PROVE  TypedScope(t.st, e4[1], k, G)
  <2>1. TypedScope(ty.st, env[1], 0, F)
    BY <1>5 DEF Typing
  <2>2. TypedScope(t.st, e4[1], 0, F)
    <3>1. DOMAIN env[1] \intersect Known \subseteq Others(params) \ {f}
      BY <1>8 DEF Others, P
    <3> QED BY <2>1, <3>1, <1>7, <1>14, ScopeSame
  <2>3. \A r : Bounded(r, 0) => Bounded(r, k)
    BY DEF Bounded, Level
  <2> QED BY <2>2, <2>3 DEF TypedScope, Named, Fits
<1>16. TypedScope(t.st, e4[2], 1, G)
  <2> SUFFICES ASSUME NEW m \in DOMAIN e4[2], m \in Known
               PROVE  Named(t.st, e4[2][m], m, 1, G)
    BY DEF TypedScope
  <2>1. CASE m = f
    <3>1. Bounded(t.st.decls[f], 1)
      BY <1>7 DEF Bounded, Level
    <3> QED BY <2>1, <3>1, <1>7, TypedNames DEF Named, Fits
  <2>2. CASE m # f
    <3>1. m \in P
      BY <2>2, <1>11, <1>12
    <3>2. m \notin FnNames
      BY <3>1 DEF P, ParamNames, ParamsApart
    <3>3. Bounded(t.st.decls[m], 1)
      BY <3>1, <1>7 DEF Bounded, Level
    <3> QED BY <3>1, <3>2, <3>3, <1>7, <1>11, <1>12 DEF Named, Fits
  <2> QED BY <2>1, <2>2
<1>17. TypedScope(t.st, e4[3], 1, G)
  BY <1>12 DEF TypedScope
<1>18. Typing(t.st, e4, q, 1, G)
  <2> SUFFICES ASSUME NEW k \in 0 .. 1, NEW d \in 1 .. q[k] PROVE TypedScope(t.st, e4[d], k, G)
    BY DEF Typing
  <2>1. (k = 0 /\ d = 1) \/ (k = 1 /\ d \in {1, 2, 3})
    OBVIOUS
  <2> QED BY <2>1, <1>15, <1>16, <1>17
<1> HIDE DEF q
<1>19. Due(q, <<b>>, e4, ill)
  <2>1. ~\E k \in 2 .. w : TRUE
    BY <1>13
  <2> QED BY <2>1, <1>6 DEF Due
<1>20. Current(<<b>>, t, G)
  <2>1. <<b>>[1] = b /\ IsBlock(b) /\ b.fn = f /\ b.ret = "none"
    BY DEF Block, IsBlock
  <2> HIDE DEF b
  <2> QED BY <2>1, TypesAssumption DEF Current
<1>21. t.st.depth = Level(w)
  BY <1>7, <1>13 DEF Level
<1>22. TypesOf(q, <<b>>, e4, t, ill, G)
  <2>1. Typing(t.st, e4, q, w, G) /\ Frames(q, <<b>>, Len(e4)) /\ G \subseteq FnNames
    BY <1>5, <1>12, <1>13, <1>18
  <2> HIDE DEF b, w
  <2> QED BY <2>1, <1>7, <1>19, <1>20, <1>21 DEF TypesOf, w
<1>23. ty' = t
  BY <1>2, GoesOn
<1>24. Typed'
  BY <1>2, <1>3, <1>22, <1>23, TypedThen
<1> QED BY <1>2, <1>7, <1>24, Outcome

LEMMA TypedFnEnd ==
  ASSUME BuiltinsApart, Seen, Typed, FnEnd
  PROVE  Typed' /\ Verdict'
<1> DEFINE F == DOMAIN fns
           b == Head(open)
           f == b.fn
           rt == fns[f].rt
           e1 == Front(env)
           e2 == Front(e1)
           t == type_leave(ty)
           right == rt = "void" \/ rt = t.ret
           r == type_require(t, right)
           u == type_leave(r)
           v == [u EXCEPT !.st = push(@, f, "fn", "func")]
           q == [j \in 0 .. 0 |-> 1]
<1>1. phase = "run" /\ Len(open) = 1
  BY DEF FnEnd
<1>2. CASE ~ret_check(rt)
  <2>1. phase' = "fn_error"
    BY <1>2 DEF FnEnd
  <2> QED BY <2>1, Stopped
<1>3. CASE ret_check(rt)
  <2>1. /\ TypeStep(v) /\ env' = Bind(e2, f, "fn", rt) /\ open' = <<>> /\ fns' = fns
        /\ ill' = IF rt = "void" THEN ill
                  ELSE IF b.ret \in DataTypes THEN Judge("type", b.ret # rt) ELSE Judge("return", TRUE)
    BY <1>3 DEF FnEnd, CurrentRt
  <2>2. PICK p : TypesOf(p, open, env, ty, ill, F)
    BY <1>1, TypedNow
  <2>3. /\ IsType(ty) /\ ty.res = "ok" /\ ty.st.depth = 3 /\ Frames(p, open, Len(env)) /\ p[0] = 1
        /\ Typing(ty.st, env, p, 1, F) /\ Due(p, open, env, ill) /\ F \subseteq FnNames /\ NoBuiltin(ty.st)
    BY <1>1, <2>2 DEF TypesOf, Frames, Level
  <2>4. f \in F /\ (b.ret \in DataTypes => ty.ret = b.ret)
    <3>1. open # <<>> /\ b = open[1]
      BY <1>1, <2>3, FrameEnds
    <3> QED BY <2>2, <3>1 DEF TypesOf, Current
  <2>5. "type" \notin ill
    <3>1. ~\E k \in 2 .. Len(open) : TRUE
      BY <1>1
    <3> QED BY <2>3, <3>1 DEF Due
  <2>6. Len(env) = 3 /\ Sees(var, env)
    BY <1>1, <2>3, FrameEnds, SeenNow
  <2>7. Len(e2) = 1 /\ e2[1] = env[1] /\ IsEnv(e2)
    <3>1. Len(env) > 0
      BY <2>6
    <3>2. Sees(end_scope(var), e1) /\ Len(e1) = Len(env) - 1
      BY <2>6, <3>1, Left
    <3>3. IsSeq(env) /\ IsSeq(e1)
      BY <2>6, <3>2, Lengths
    <3>4. \A d \in 1 .. Len(env) - 1 : e1[d] = env[d]
      BY <3>1, <3>3, SeqFront
    <3> HIDE DEF e1
    <3>5. Len(e1) = 2 /\ Len(e1) > 0
      BY <2>6, <3>2
    <3>6. IsEnv(e2) /\ Len(e2) = Len(e1) - 1
      BY <3>2, <3>5, Left DEF Sees
    <3>7. \A d \in 1 .. Len(e1) - 1 : e2[d] = e1[d]
      BY <3>3, <3>5, SeqFront
    <3> HIDE DEF e2
    <3>8. 1 \in 1 .. Len(e1) - 1 /\ 1 \in 1 .. Len(env) - 1
      BY <2>6, <3>5
    <3> QED BY <3>4, <3>5, <3>6, <3>7, <3>8
  <2> HIDE DEF e2, f, b
  <2>8. IsType(t) /\ t.st.depth = 2 /\ t.res = "ok" /\ t.ret = ty.ret
        /\ \A m : m \in DOMAIN t.st.decls => m \in DOMAIN ty.st.decls
    BY <2>3, TypeLeave
  <2>9. ASSUME NEW x, NEW m, Named(ty.st, x, m, 0, F)
        PROVE  Named(type_leave(ty).st, x, m, 0, F)
    <3>1. Level(0) \in Int /\ Level(0) < ty.st.depth /\ ty.st.depth \in Int
      BY <2>3 DEF Level
    <3> QED BY <2>3, <2>9, <3>1, NamedLeaves
  <2> HIDE DEF t
  <2>10. IsType(r) /\ r.st = t.st /\ r.ret = ty.ret /\ r.res = IF right THEN "ok" ELSE "type_error"
    <3>1. right \in BOOLEAN
      OBVIOUS
    <3> HIDE DEF right
    <3> QED BY <2>8, <3>1, TypeRequire
  <2> HIDE DEF r
  <2>11. IsType(u) /\ u.st.depth = 1 /\ u.res = r.res /\ u.ret = ty.ret
        /\ \A m : m \in DOMAIN u.st.decls => m \in DOMAIN ty.st.decls
    BY <2>8, <2>10, TypeLeave
  <2> HIDE DEF u
  <2>12. ASSUME NEW x, NEW m, Named(ty.st, x, m, 0, F)
         PROVE  Named(u.st, x, m, 0, F)
    <3>1. Level(0) \in Int /\ Level(0) < r.st.depth /\ r.st.depth \in Int
      BY <2>8, <2>10 DEF Level
    <3>2. Named(r.st, x, m, 0, F)
      BY <2>9, <2>10, <2>12 DEF t
    <3>3. Named(type_leave(r).st, x, m, 0, F)
      BY <2>10, <3>1, <3>2, NamedLeaves
    <3> QED BY <3>3 DEF u
  <2> DEFINE g == Put(u.st.decls, f, record(u.st, "fn", "func"))
  <2>13. push(u.st, f, "fn", "func") = [depth |-> 1, decls |-> g]
    BY <2>11 DEF push, IsType
  <2>14. DOMAIN g = DOMAIN u.st.decls \union {f}
    BY DEF Put
  <2> HIDE DEF g
  <2>15. /\ IsType(v) /\ v.st = push(u.st, f, "fn", "func") /\ v.st.depth = 1 /\ v.st.decls = g
         /\ v.res = u.res /\ v.ret = ty.ret
    <3>1. v = [st |-> push(u.st, f, "fn", "func"), dt |-> u.dt, ret |-> u.ret, res |-> u.res]
      BY <2>11 DEF IsType
    <3> HIDE DEF v
    <3> QED BY <2>11, <2>13, <3>1 DEF IsType
  <2> HIDE DEF v
  <2>16. NoBuiltin(v.st)
    BY <2>3, <2>4, <2>11, <2>14, <2>15 DEF NoBuiltin, BuiltinsApart
  <2>17. Frames(q, <<>>, Len(e2)) /\ Len(<<>>) = 0
    BY <2>7, FrameOfNone
  <2>18. Typing(u.st, e2, q, 0, F)
    <3>1. TypedScope(ty.st, env[1], 0, F)
      <4>1. 0 \in 0 .. 1 /\ 1 \in 1 .. p[0]
        BY <2>3
      <4> QED BY <2>3, <4>1 DEF Typing
    <3>2. TypedScope(u.st, e2[1], 0, F)
      BY <2>7, <2>12, <3>1 DEF TypedScope
    <3>3. \A k \in 0 .. 0 : \A d \in 1 .. q[k] : k = 0 /\ d = 1
      OBVIOUS
    <3> HIDE DEF q
    <3> QED BY <3>2, <3>3 DEF Typing
  <2> HIDE DEF q
  <2>19. Keeps(env', e2, Len(e2) - 1) /\ Added(env'[Len(e2)], e2[Len(e2)], f, rt) /\ Len(env') = Len(e2)
    <3>1. Len(e2) > 0 /\ IsSeq(e2)
      BY <2>7 DEF IsEnv
    <3> QED BY <2>1, <2>7, <3>1, KeepsBind, EnvLengths
  <2>20. Typing(push(u.st, f, "fn", "func"), env', q, Len(<<>>), F)
    <3>1. f \in Known /\ f \notin Names /\ f \in FnNames
      BY <2>3, <2>4, TypedNames
    <3>2. u.st = [depth |-> u.st.depth, decls |-> u.st.decls] /\ u.st.depth = Level(Len(<<>>))
      BY <2>11, <2>17 DEF IsType, Level
    <3>3. \A d \in 1 .. Len(e2) : d # Len(e2) => f \notin DOMAIN e2[d]
      BY <2>7
    <3>4. Typing(u.st, e2, q, Len(<<>>), F)
      BY <2>17, <2>18
    <3> QED BY <2>4, <2>17, <2>19, <3>1, <3>2, <3>3, <3>4, TypingPush
  <2>21. ASSUME right PROVE Typed'
    <3>1. "type" \notin ill'
      BY <2>1, <2>4, <2>5, <2>8, <2>21 DEF Judge
    <3>2. Due(q, <<>>, env', ill')
      <4>1. ~\E k \in 2 .. Len(<<>>) : TRUE
        BY <2>17
      <4> QED BY <3>1, <4>1 DEF Due
    <3>3. Current(<<>>, v, F)
      BY DEF Current
    <3>4. v.res = "ok" /\ v.st.depth = Level(Len(<<>>)) /\ Frames(q, <<>>, Len(env'))
          /\ Typing(v.st, env', q, Len(<<>>), F)
      BY <2>7, <2>10, <2>11, <2>15, <2>17, <2>19, <2>20, <2>21 DEF Level
    <3>5. TypesOf(q, <<>>, env', v, ill', F)
      BY <2>3, <2>15, <2>16, <3>2, <3>3, <3>4 DEF TypesOf
    <3>6. ty' = v
      BY <2>1, GoesOn
    <3> QED BY <2>1, <3>5, <3>6, TypedThen
  <2>22. ASSUME ~right PROVE ill' # {}
    BY <2>1, <2>4, <2>8, <2>22 DEF Judge
  <2> QED BY <2>1, <2>10, <2>11, <2>15, <2>21, <2>22, Outcome
<1> QED BY <1>2, <1>3

LEMMA TypedProgramEnd ==
  ASSUME Typed, ProgramEnd
  PROVE  Typed' /\ Verdict'
<1>1. phase = "run" /\ open = <<>> /\ phase' = "done" /\ ill' = ill
  BY DEF ProgramEnd
<1>2. PICK p : TypesOf(p, open, env, ty, ill, DOMAIN fns)
  BY <1>1, TypedNow
<1>3. "type" \notin ill
  <2>1. ~\E k \in 2 .. Len(open) : TRUE
    BY <1>1
  <2> QED BY <1>2, <2>1 DEF TypesOf, Due
<1> QED BY <1>1, <1>3 DEF Typed, Verdict

LEMMA TypedInit == Init => Typed /\ Verdict
<1> SUFFICES ASSUME Init PROVE Typed /\ Verdict
  OBVIOUS
<1> DEFINE q == [j \in 0 .. 0 |-> 1]
           t == [st |-> start_scope(ast_storage_init), dt |-> "unknown", ret |-> "unknown", res |-> "ok"]
<1>1. phase = "run" /\ open = <<>> /\ ty = t /\ env = <<<<>>>> /\ ill = {} /\ DOMAIN fns = {}
  BY DEF Init
<1>2. IsType(t) /\ t.res = "ok" /\ t.st.depth = 1 /\ DOMAIN t.st.decls = {}
  BY DEF start_scope, ast_storage_init, IsType
<1> HIDE DEF t
<1>3. Len(open) = 0 /\ Len(env) = 1 /\ DOMAIN env[1] = {}
  BY <1>1
<1>4. Frames(q, open, Len(env))
  BY <1>1, <1>3, FrameOfNone
<1>5. \A k \in 0 .. Len(open) : \A d \in 1 .. q[k] : d = 1
  BY <1>3
<1> HIDE DEF q
<1>6. Typing(t.st, env, q, Len(open), {})
  BY <1>3, <1>5 DEF Typing, TypedScope
<1>7. Due(q, open, env, ill)
  <2>1. ~\E k \in 2 .. Len(open) : TRUE
    BY <1>3
  <2> QED BY <2>1, <1>1 DEF Due
<1>8. Current(open, t, {}) /\ NoBuiltin(t.st) /\ t.st.depth = Level(Len(open))
  BY <1>1, <1>2, <1>3 DEF Current, NoBuiltin, Level
<1>9. TypesOf(q, open, env, ty, ill, DOMAIN fns)
  BY <1>1, <1>2, <1>4, <1>6, <1>7, <1>8 DEF TypesOf
<1> QED BY <1>1, <1>9 DEF Typed, Verdict

LEMMA TypedStep ==
  ASSUME BuiltinsApart, ParamsApart, Signed, Seen, Typed, Verdict, [Next]_vars, [CallsApart]_vars
  PROVE  Typed' /\ Verdict'
<1>1. CASE UNCHANGED vars
  BY <1>1 DEF vars, Typed, Verdict
<1>2. ASSUME CallsApart, NEW m \in Names
      PROVE  /\ (assert_is_declared(m) \/ assert_is_not_declared(m)) => Typed' /\ Verdict'
             /\ visit_return(m) => Typed' /\ Verdict'
             /\ (visit_if(m) \/ visit_while(m) \/ visit_do_while(m)) => Typed' /\ Verdict'
             /\ visit_for(m) => Typed' /\ Verdict'
             /\ \A dt \in DataTypes : visit_var_decl(m, dt) => Typed' /\ Verdict'
             /\ \A r \in Names : visit_binary(m, r) => Typed' /\ Verdict'
             /\ \A dt \in DataTypes, f \in FnNames, args \in ArgLists :
                  visit_var_decl_call(m, dt, f, args) => Typed' /\ Verdict'
  <2>1. (assert_is_declared(m) \/ assert_is_not_declared(m)) => phase' = "var_error"
    BY DEF assert_is_declared, assert_is_not_declared
  <2> QED BY <2>1, <1>2, Stopped, TypedReturn, TypedBlock, TypedFor, TypedDecl, TypedAssign, TypedDeclCall
<1>3. ASSUME CallsApart, NEW f \in FnNames \union Builtins \union Names, NEW args \in ArgLists,
             visit_fn_call(f, args)
      PROVE  Typed' /\ Verdict'
  BY <1>3, TypedCall
<1>4. ASSUME NEW f \in FnNames, NEW rt, NEW params \in ParamLists, FnStart(f, rt, params)
      PROVE  Typed' /\ Verdict'
  BY <1>4, TypedFnStart
<1>5. ASSUME NEW f, FnRedeclared(f)
      PROVE  Typed' /\ Verdict'
  <2>1. phase' = "var_error"
    BY <1>5 DEF FnRedeclared
  <2> QED BY <2>1, Stopped
<1>6. visit_return_void \/ BlockEnd \/ FnEnd \/ ProgramEnd => Typed' /\ Verdict'
  BY TypedReturnVoid, TypedBlockEnd, TypedFnEnd, TypedProgramEnd
<1>7. CASE Next /\ CallsApart
  <2> USE DEF Next
  <2>1. CASE \E m \in Names :
                \/ assert_is_declared(m) \/ assert_is_not_declared(m)
                \/ visit_return(m) \/ visit_if(m) \/ visit_while(m)
                \/ visit_do_while(m) \/ visit_for(m)
                \/ \E dt \in DataTypes : visit_var_decl(m, dt)
                \/ \E r \in Names : visit_binary(m, r)
                \/ \E dt \in DataTypes, f \in FnNames, args \in ArgLists :
                     visit_var_decl_call(m, dt, f, args)
    BY <2>1, <1>2, <1>7
  <2>2. CASE \E f \in FnNames \union Builtins \union Names, args \in ArgLists : visit_fn_call(f, args)
    BY <2>2, <1>3, <1>7
  <2>3. CASE \E f \in FnNames, rt \in RetTypes, params \in ParamLists : FnStart(f, rt, params)
    BY <2>3, <1>4
  <2>4. CASE \E f \in FnNames : FnRedeclared(f)
    BY <2>4, <1>5
  <2> QED BY <2>1, <2>2, <2>3, <2>4, <1>6, <1>7
<1> QED BY <1>1, <1>7

LEMMA LookupThen ==
  ASSUME Seen, Typed
  PROVE  LookupSeesScopes
<1> SUFFICES ASSUME phase = "run", NEW m \in Known
             PROVE  /\ declared(var, m) <=> Visible(m)
                    /\ Visible(m) => /\ lookup(var, m).depth = Max(Scopes(m))
                                     /\ lookup(var, m).kind = Meaning(m).kind
                    /\ m \in Names /\ Visible(m) =>
                         declared(ty.st, m) /\ lookup(ty.st, m).dt = Meaning(m).dt
  BY DEF LookupSeesScopes
<1>1. Sees(var, env)
  BY SeenNow
<1>2. /\ declared(var, m) <=> m \in DOMAIN var.decls
      /\ m \in DOMAIN var.decls =>
           /\ var.decls[m].depth \in 1 .. Len(env)
           /\ Scopes(m) = {var.decls[m].depth} /\ Max(Scopes(m)) = var.decls[m].depth
      /\ m \notin DOMAIN var.decls => Scopes(m) = {}
  BY <1>1, OneScope DEF Scopes
<1>3. declared(var, m) <=> Visible(m)
  BY <1>2 DEF Visible
<1>4. ASSUME Visible(m)
      PROVE  lookup(var, m).depth = Max(Scopes(m)) /\ lookup(var, m).kind = Meaning(m).kind
  <2> DEFINE d == var.decls[m].depth
  <2>1. m \in DOMAIN var.decls /\ d \in 1 .. Len(env) /\ Max(Scopes(m)) = d
    BY <1>2, <1>3, <1>4
  <2>2. m \in DOMAIN env[d]
    BY <1>1, <2>1 DEF Sees, Placed
  <2>3. Recorded(var.decls, env[d], d)
    BY <1>1, <2>1 DEF Sees
  <2>4. var.decls[m].kind = env[d][m].kind
    BY <2>2, <2>3 DEF Recorded, Alike
  <2> QED BY <2>1, <2>4 DEF lookup, Meaning
<1>5. ASSUME m \in Names, Visible(m)
      PROVE  declared(ty.st, m) /\ lookup(ty.st, m).dt = Meaning(m).dt
  <2>1. PICK p : TypesOf(p, open, env, ty, ill, DOMAIN fns)
    BY TypedNow
  <2> QED BY <2>1, <1>3, <1>5, TypedLooks
<1> QED BY <1>3, <1>4, <1>5

------------------------------------------------------------------------------

(* All that is kept by every step. *)
Inv == Seen /\ WarnsIffUnread /\ Signed /\ Typed /\ Verdict

LEMMA Invariance ==
  ASSUME BuiltinsApart, ParamsApart
  PROVE  Spec /\ [][CallsApart]_vars => []Inv
<1>1. Init => Inv
  BY SeenInit, SignedInit, TypedInit DEF Inv
<1>2. Inv /\ [Next]_vars /\ [CallsApart]_vars => Inv'
  <2> SUFFICES ASSUME Inv, [Next]_vars, [CallsApart]_vars PROVE Inv'
    OBVIOUS
  <2>1. Seen' /\ WarnsIffUnread'
    BY SeenStep DEF Inv
  <2>2. Signed'
    BY SignedStep DEF Inv
  <2>3. Typed' /\ Verdict'
    BY TypedStep DEF Inv
  <2> QED BY <2>1, <2>2, <2>3 DEF Inv
<1> QED BY <1>1, <1>2, PTL DEF Spec

(* LookupSeesScopes, for programs of any size: ana_var_usage, with one map *)
(* from names to records, finds exactly the names in scope, each with the  *)
(* record of its scope, and ana_type finds the declared type of each, as   *)
(* long as no call replaces a record of its caller.                        *)
THEOREM Lookups ==
  ASSUME BuiltinsApart, ParamsApart
  PROVE  Spec /\ [][CallsApart]_vars => []LookupSeesScopes
<1>1. Inv => LookupSeesScopes
  BY LookupThen DEF Inv
<1> QED BY <1>1, Invariance, PTL

(* TypeErrorsExact, for programs of any size: ana_type reports an error    *)
(* only where there is one, and a program all analyses accept has none, as *)
(* long as no call replaces a record of its caller.                        *)
THEOREM TypeErrors ==
  ASSUME BuiltinsApart, ParamsApart
  PROVE  Spec /\ [][CallsApart]_vars => []TypeErrorsExact
<1>1. Inv => TypeErrorsExact
  BY DEF Inv, Verdict, TypeErrorsExact
<1> QED BY <1>1, Invariance, PTL

(* LookupsSucceed, for programs of any size that call no builtin and in    *)
(* which no call replaces a record of its caller: no record ana_type uses  *)
(* without a test is NULL.  With builtins it is not so: no storage of      *)
(* ana_type has them, and it looks for every callee.                       *)
THEOREM NoNullLookup ==
  ASSUME Builtins = {}, ParamsApart
  PROVE  Spec /\ [][CallsApart]_vars => []LookupsSucceed
<1>1. BuiltinsApart
  BY DEF BuiltinsApart
<1>2. Inv => LookupsSucceed
  BY DEF Inv, Verdict, LookupsSucceed
<1>3. Spec /\ [][CallsApart]_vars => []Inv
  BY <1>1, Invariance
<1> QED BY <1>2, <1>3, PTL

====
