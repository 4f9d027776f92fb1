---- MODULE IrBin ----
(***************************************************************************)
(* Binary IR files: middle_end/ir/ir_bin.c.  Writing and reading are two   *)
(* sets of functions that must agree on every field and its order, with    *)
(* nothing in the file to say which field comes next.  One operator per C  *)
(* function gives what it does in order; `todo` is the work the active     *)
(* functions still have before them.  A file is a sequence of fields, and  *)
(* a field carries a value only where the code branches on it.             *)
(*                                                                         *)
(* The writer ignores what fwrite returns, so a full disk or a crash can   *)
(* leave any prefix of the file behind: the reader is started on each one. *)
(***************************************************************************)
EXTENDS Integers, Sequences

CONSTANTS MaxFns,     \* bound: functions of a unit
          MaxArgs,    \* bound: parameters of a function, arguments of a call
          MaxBody,    \* bound: instructions of a function
          MaxFields   \* bound: fields of a file

VARIABLES phase,   \* "write", "read", "done", "fatal" (weak_fatal_errno), "crash"
          todo,
          file,    \* the fields written
          pos,     \* how many of them have been read
          val,     \* the value of the field read last
          wrote,   \* history: the nodes of the function written last
          whole,   \* history: nothing was lost when the file was written
          got      \* the nodes of the function that unit.fn_decls holds

vars == <<phase, todo, file, pos, val, wrote, whole, got>>

ASSUME BoundsAssumption == /\ MaxFns \in Nat /\ MaxArgs \in Nat
                           /\ MaxBody \in Nat /\ MaxFields \in Nat

Item(op, arg, n) == [op |-> op, arg |-> arg, n |-> n]
Put(field, v) == Item("put", field, v)     \* ir_fwrite, ir_fwrite_ptr, ir_fwrite_bytes
Get(field)    == Item("get", field, 0)     \* ir_fread, ir_fread_ptr
GetBytes      == Item("bytes", "bytes", 0) \* ir_fread_bytes: val bytes
Call(f)       == Item("call", f, 0)
Node(slot)    == Item("node", slot, 0)     \* write_node, read_node
Then(f)       == Item("then", f, 0)        \* the rest of f, which looks at val
Times(item, n) == [i \in 1..n |-> item]

(* Node types that generated IR holds in each place.                       *)
Accepted(slot) ==
  CASE slot = "stmt" -> {"alloca", "array", "store", "cond", "jump", "ret", "call"}
    [] slot = "store.idx"  -> {"sym"}
    [] slot = "store.body" -> {"imm", "sym", "bin", "string", "call"}
    [] slot = "cond"       -> {"bin"}
    [] OTHER               -> {"imm", "sym"}    \* operands, arguments, ret

------------------------------------------------------------------------------
(* Writing.  Each function gives the set of item sequences it may run,     *)
(* one for every shape of the node it is handed.                           *)

write_alloca       == {<<Put("alloca", 0)>>}
write_alloca_array == {<<Put("array", 0)>>}
write_imm          == {<<Put("imm", 0)>>}
write_sym          == {<<Put("sym", 0)>>}

(* len bytes follow len: none at all for the empty string.                 *)
Bytes(n) == IF n = 0 THEN <<>> ELSE <<Put("bytes", n)>>
write_string == {<<Put("len", n)>> \o Bytes(n) : n \in 0..1}

write_store == {<<Node("store.idx"), Node("store.body")>>}
write_bin   == {<<Put("op", 0), Node("lhs"), Node("rhs")>>}
write_jump  == {<<Put("idx", 0)>>}
write_cond  == {<<Node("cond"), Put("goto_label", 0)>>}

(* Mutant: the body is written whether there is one or not.                *)
write_ret_Always == {<<Put("is_void", v), Node("ret")>> : v \in 0..1}
write_ret == {<<Put("is_void", 1)>>, <<Put("is_void", 0), Node("ret")>>}

write_fn_call == {<<Put("len", 1), Put("bytes", 1), Put("args", n)>> \o Times(Node("arg"), n) :
                    n \in 0..MaxArgs}

write_fn_decl_header ==
  {<<Put("len", 1), Put("bytes", 1), Put("ret_type", 0), Put("ptr_depth", 0)>>}
write_fn_decl_args == {<<Put("num", n)>> \o Times(Call("alloca"), n) : n \in 0..MaxArgs}

(* The body of int f() {} is empty.                                        *)
write_fn_decl_body == {<<Put("num", n)>> \o Times(Node("stmt"), n) : n \in 0..MaxBody}
write_fn_decl == {<<Call("header"), Call("args"), Call("body")>>}

write_unit == {<<Put("num_fns", n)>> \o Times(Call("fn_decl"), n) : n \in 0..MaxFns}

write(f) ==
  CASE f = "alloca" -> write_alloca    [] f = "array"   -> write_alloca_array
    [] f = "imm"    -> write_imm       [] f = "string"  -> write_string
    [] f = "sym"    -> write_sym       [] f = "store"   -> write_store
    [] f = "bin"    -> write_bin       [] f = "jump"    -> write_jump
    [] f = "cond"   -> write_cond      [] f = "ret"     -> write_ret
    [] f = "call"   -> write_fn_call   [] f = "header"  -> write_fn_decl_header
    [] f = "args"   -> write_fn_decl_args
    [] f = "body"   -> write_fn_decl_body
    [] f = "fn_decl" -> write_fn_decl  [] f = "unit"    -> write_unit

write_node_meta(t) == <<Put("type", t), Put("instr_idx", 0), Put("cfg_block_no", 0),
                        Put("meta", 0), Put("claimed_reg", 0)>>
write_node(t) == write_node_meta(t) \o <<Call(t)>>

------------------------------------------------------------------------------
(* Reading.                                                                *)

read_alloca       == <<Get("alloca")>>
read_alloca_array == <<Get("array")>>
read_imm          == <<Get("imm")>>
read_sym          == <<Get("sym")>>
read_string       == <<Get("len"), GetBytes>>
read_store        == <<Node("store.idx"), Node("store.body")>>
read_bin          == <<Get("op"), Node("lhs"), Node("rhs")>>
read_jump         == <<Get("idx")>>

(* Mutant: the label is read before the condition.                         *)
read_cond_Swapped == <<Get("goto_label"), Node("cond")>>
read_cond         == <<Node("cond"), Get("goto_label")>>

read_ret          == <<Get("is_void"), Then("ret")>>
ret_body          == IF val = 0 THEN <<Node("ret")>> ELSE <<>>

read_fn_call      == <<Get("len"), GetBytes, Get("args"), Then("call")>>
(* Mutant: the loop over the arguments stops one short.                    *)
call_args_Short   == Times(Node("arg"), val - 1)
call_args         == Times(Node("arg"), val)

read_fn_decl_header == <<Get("len"), GetBytes, Get("ret_type"), Get("ptr_depth")>>
read_fn_decl_args == <<Get("num"), Then("args")>>
decl_args         == Times(Call("alloca"), val)

read_fn_decl_body == <<Get("num"), Then("body")>>
decl_body         == Times(Node("stmt"), val)

(* Every function is read into the same node: it replaces the one before.  *)
read_fn_decl == <<Item("new_fn", "", 0), Call("header"), Call("args"), Call("body")>>
read_unit    == <<Get("num_fns"), Then("unit")>>
unit_fns     == Times(Call("fn_decl"), val)

read(f) ==
  CASE f = "alloca" -> read_alloca     [] f = "array"   -> read_alloca_array
    [] f = "imm"    -> read_imm        [] f = "string"  -> read_string
    [] f = "sym"    -> read_sym        [] f = "store"   -> read_store
    [] f = "bin"    -> read_bin        [] f = "jump"    -> read_jump
    [] f = "cond"   -> read_cond       [] f = "ret"     -> read_ret
    [] f = "call"   -> read_fn_call    [] f = "header"  -> read_fn_decl_header
    [] f = "args"   -> read_fn_decl_args
    [] f = "body"   -> read_fn_decl_body
    [] f = "fn_decl" -> read_fn_decl   [] f = "unit"    -> read_unit

Rest(f) == CASE f = "ret"  -> ret_body  [] f = "call" -> call_args
             [] f = "args" -> decl_args [] f = "body" -> decl_body
             [] f = "unit" -> unit_fns

(* The type read first decides which function reads the payload.           *)
read_node_meta == <<Get("instr_idx"), Get("cfg_block_no"), Get("meta"), Get("claimed_reg")>>
read_node(t)   == read_node_meta \o <<Call(t)>>

------------------------------------------------------------------------------

Init ==
  /\ phase = "write" /\ todo = <<Call("unit")>> /\ file = <<>> /\ pos = 0 /\ val = 0
  /\ wrote = <<>> /\ whole = TRUE /\ got = <<>>

Top == Head(todo)
Busy(p) == phase = p /\ todo # <<>>
Do(items) == todo' = items \o Tail(todo)

Write ==
  /\ Busy("write") /\ Top.op = "put"
  /\ file' = Append(file, [field |-> Top.arg, v |-> Top.n])
  /\ Do(<<>>)
  /\ UNCHANGED <<phase, pos, val, wrote, whole, got>>

WriteCall ==
  /\ Busy("write") /\ Top.op = "call"
  /\ \E items \in write(Top.arg) : Len(file) + Len(items) <= MaxFields /\ Do(items)
  /\ wrote' = IF Top.arg = "fn_decl" THEN <<>> ELSE wrote
  /\ UNCHANGED <<phase, file, pos, val, whole, got>>

WriteNode(t) ==
  /\ Busy("write") /\ Top.op = "node" /\ t \in Accepted(Top.arg)
  /\ Len(file) <= MaxFields
  /\ Do(write_node(t))
  /\ wrote' = Append(wrote, <<Top.arg, t>>)
  /\ UNCHANGED <<phase, file, pos, val, whole, got>>

(* ir_write_binary returns, or the process dies in it; ir_read_binary      *)
(* opens what is on the disk.                                              *)
Reopen(n) ==
  /\ phase = "write" /\ todo = <<>> /\ n <= Len(file)
  /\ file' = SubSeq(file, 1, n) /\ whole' = (n = Len(file))
  /\ phase' = "read" /\ todo' = <<Call("unit")>>
  /\ UNCHANGED <<pos, val, wrote, got>>

Missing == pos = Len(file)

Read ==
  /\ Busy("read") /\ ~Missing
  /\ \/ Top.op = "get"
     \/ Top.op = "bytes" /\ val > 0
  /\ pos' = pos + 1 /\ val' = file[pos + 1].v
  /\ Do(<<>>)
  /\ UNCHANGED <<phase, file, wrote, whole, got>>

(* Mutant: the end of the file goes unnoticed, the field keeps its value.  *)
ReadFails_Ignored ==
  /\ Busy("read") /\ Missing /\ Top.op \in {"get", "bytes"}
  /\ Do(<<>>)
  /\ UNCHANGED <<phase, file, pos, val, wrote, whole, got>>

(* fread gives 0 at the end of the file, and also when 0 bytes are asked.  *)
ReadFails ==
  /\ Busy("read")
  /\ \/ Top.op \in {"get", "bytes"} /\ Missing
     \/ Top.op = "bytes" /\ val = 0
  /\ phase' = "fatal"
  /\ UNCHANGED <<todo, file, pos, val, wrote, whole, got>>

ReadCall ==
  /\ Busy("read") /\ Top.op \in {"call", "then"}
  /\ Top = Then("body") => val > 0
  /\ Do(IF Top.op = "call" THEN read(Top.arg) ELSE Rest(Top.arg))
  /\ UNCHANGED <<phase, file, pos, val, wrote, whole, got>>

(* vector_at(stmts, 0) of a vector without elements follows NULL.          *)
EmptyBody ==
  /\ Busy("read") /\ Top = Then("body") /\ val = 0
  /\ phase' = "crash"
  /\ UNCHANGED <<todo, file, pos, val, wrote, whole, got>>

ReadNode ==
  /\ Busy("read") /\ Top.op = "node"
  /\ Do(<<Get("type"), Item("switch", Top.arg, 0)>>)
  /\ UNCHANGED <<phase, file, pos, val, wrote, whole, got>>

ReadSwitch ==
  /\ Busy("read") /\ Top.op = "switch"
  /\ Do(read_node(val))
  /\ got' = Append(got, <<Top.arg, val>>)
  /\ UNCHANGED <<phase, file, pos, val, wrote, whole>>

NewFn ==
  /\ Busy("read") /\ Top.op = "new_fn"
  /\ got' = <<>> /\ Do(<<>>)
  /\ UNCHANGED <<phase, file, pos, val, wrote, whole>>

Return ==
  /\ phase = "read" /\ todo = <<>>
  /\ phase' = "done"
  /\ UNCHANGED <<todo, file, pos, val, wrote, whole, got>>

Next == \/ Write \/ WriteCall \/ Read \/ ReadFails \/ ReadCall \/ EmptyBody \/ ReadNode \/ ReadSwitch
        \/ NewFn \/ Return
        \/ \E t \in Accepted("stmt") \cup Accepted("store.body") : WriteNode(t)
        \/ \E n \in 0..MaxFields : Reopen(n)

Spec == Init /\ [][Next]_vars

------------------------------------------------------------------------------
(* Properties.                                                             *)

(* A whole file without an empty string or an empty body is read to its    *)
(* end, and unit then holds the nodes of the last function that was        *)
(* written, each in its place (it replaces the functions before it).  All  *)
(* along every file the reader is in step with the writer: the field it    *)
(* reads is the field that was written at this place.                      *)
ReadsBack ==
  /\ phase = "done" => got = wrote /\ pos = Len(file)
  /\ phase = "fatal" /\ whole => Top.op = "bytes" /\ val = 0
  /\ phase = "read" /\ todo # <<>> /\ Top.op \in {"get", "bytes"} /\ ~Missing
       /\ ~(Top.op = "bytes" /\ val = 0) => file[pos + 1].field = Top.arg

(* No file that lost its end is taken for a unit: reading it stops with    *)
(* the error message.                                                      *)
TruncatedRejected == phase = "done" => whole
====
