---- MODULE AstStorage ----
(***************************************************************************)
(* front_end/anal/ast_storage.c: the declarations a tree walk has seen,    *)
(* kept in ONE map from names to records whatever their scope; a record's  *)
(* depth says which scope it belongs to.  Names stand for their CRC32.     *)
(***************************************************************************)
EXTENDS Integers, Functions

(* hashmap_put. *)
Put(f, x, v) == [y \in DOMAIN f \union {x} |-> IF y = x THEN v ELSE f[y]]

ast_storage_init == [depth |-> 0, decls |-> <<>>]

start_scope(s) == [s EXCEPT !.depth = @ + 1]

current_scope(s) == {n \in DOMAIN s.decls : s.decls[n].depth = s.depth}

(* Mutant: records are hidden, not removed. *)
end_scope_Hide(s) == [s EXCEPT !.depth = @ - 1]

(* Every record of the innermost scope goes. *)
end_scope(s) ==
  [depth |-> s.depth - 1, decls |-> Restrict(s.decls, DOMAIN s.decls \ current_scope(s))]

record(s, kind, dt) == [kind |-> kind, dt |-> dt, depth |-> s.depth, reads |-> 0, writes |-> 0]

(* A record of the same name is replaced. *)
push(s, name, kind, dt) == [s EXCEPT !.decls = Put(s.decls, name, record(s, kind, dt))]

(* lookup returns a record, not NULL. *)
declared(s, name) == name \in DOMAIN s.decls /\ s.decls[name].depth <= s.depth

lookup(s, name) == s.decls[name]

add_read_use(s, name)  == [s EXCEPT !.decls[name].reads = @ + 1]
add_write_use(s, name) == [s EXCEPT !.decls[name].writes = @ + 1]
====
