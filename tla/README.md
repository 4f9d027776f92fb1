# weak_compiler: a TLA+ verification project

`weak_compiler` compiles a small C-like language. This directory holds TLA+
modules translated from its C sources, TLC configurations that check them on
small instances, and TLAPS proofs of the properties that matter most. `PROJECT.json`
maps every definition to the lines it models and lists runs, mutants, findings,
hazards and theorems.

## 1. The system

The driver (`compiler/compiler.c`) runs one stage after the other, in one thread:

    lex -> parse -> analyze (ana_var_usage, ana_fn, ana_type) -> ir_gen
        -> opt (ir_type_pass, ir_opt_reorder, ir_opt_arith, ir_cfg_build) -> eval

Other passes (dominators, SSA, folding, dead code, register allocation, binary
IR, RISC-V and ELF output) are called by the tests.

| Component | State it keeps | Operations | What makes it correct |
|---|---|---|---|
| hash table `util/hashmap.c` | buckets with occupied/deleted marks, size, capacity | init, reset, destroy, put, get, has, remove, resize | it is a map; every call returns; size is never below the number of entries |
| parser `parse/parse.c` | token cursor, `loops_depth`, error `jmp_buf` | one function per grammar rule | operators bind by level; brackets match; break and continue only in loops; it ends, and stays within its tokens |
| declaration storage `anal/ast_storage.c` | one hash table of records with a scope depth | start/end scope, push, lookup, count uses | lookup gives the innermost visible declaration |
| analyses `anal/*_anal.c` | a storage each, `last_ret`, `last_dt` and other globals | one visitor per AST node | report exactly the programs and variables they describe; later walks can rely on earlier ones |
| sema `sema/*.c` | storages of array and structure types | lowering visitors | the lowered tree means the same |
| IR generation `ir/gen.c` | instruction list, index counters, stacks of breaks and loop headers | one visitor per AST node | jumps go where the source says |
| CFG `ir/gen.c: link` | succs and preds vectors | `ir_cfg_build` | edges are the control transfers, in both directions |
| reordering `opt/reorder.c` | next and prev pointers, jump targets | `reindex`, `swap` | allocas come first, control is unchanged |
| dominators `ir/dom.c` | static arrays by visit time, `idom`, `df` | tree, frontiers, dominance test | the definition of dominance |
| SSA, DDG `ir/ssa.c, ddg.c` | tables by instruction | whole-function passes | one definition per name |
| IR types and optimisations `ir/type.c, opt/*.c` | `type_info` of nodes, the list | whole-function passes | the program computes the same |
| register allocation `ir/regalloc.c` | live ranges, interference graph, colours, spill marks | ranges, graph, colouring, assignment walk | overlapping variables have different registers; borrowed registers are saved |
| evaluator `back_end/eval.c` | byte stack, `stack_map`, `sp`, `last` | one function per instruction, call and return | a function reads what it last wrote |
| binary IR `ir/ir_bin.c` | a stream | a writer and a reader per node | reading inverts writing; a cut file is rejected |
| machine code `back_end/emit.c, back_end.c, risc_v.c, elf.c` | text and its cursor, symbols, function offsets, lent registers, a file mapping | code generation, instruction selection, ELF output | calls and symbols have the right addresses; code computes the value; the file can be read |
| lexer, AST, diagnostics, printers, utilities | token vector, tree, streams | generated or formatting | not modelled |

Components interact by calls and by global variables. Nothing runs concurrently;
what is hard here is state that survives where it
should not (globals between functions, tombstones in tables), indices computed
before the code they refer to exists, recursion over shared tables, limits of
integer and array sizes, files that end early, and stages that rely on what an
earlier stage is said to have checked. The hazards in `PROJECT.json` are of these kinds.

## 2. Modules

| Module | Models | Extends / instantiates |
|---|---|---|
| `Map` | what `hashmap.h` promises: a call is registered, then answered with its whole effect | |
| `HashMap` | `util/hashmap.c`, one step per loop iteration | instantiates `Map` |
| `HashMapProofs` | theorems about `HashMap`, the refinement of `Map` among them | `HashMap` |
| `Parser` | `parse/parse.c` | |
| `ParserProofs` | theorems about `Parser` | `Parser` |
| `AstStorage` | `anal/ast_storage.c`, as operators | |
| `Anal` | `var_anal.c`, `fn_anal.c`, `type_anal.c` side by side | `AstStorage` |
| `AnalProofs` | theorems about `Anal` | `Anal` |
| `IrGen` | the control flow of `ir/gen.c` | |
| `IrCfg` | `link` / `ir_cfg_build` on the result of `IrGen` | `IrGen` |
| `Reorder` | `opt/reorder.c` on the list of `IrGen` | `IrCfg` |
| `IrProofs` | theorems about `IrGen`, `IrCfg` and `Reorder` | `Reorder` |
| `Dom` | `ir/dom.c` on the graph of `IrCfg` | `IrCfg` |
| `OptArith` | `ir/type.c`, `opt/arith.c` and the operations of `eval.c`, as the driver runs them | |
| `Eval` | stack, calls and returns of `back_end/eval.c` | |
| `EvalProofs` | theorems about `Eval` | `Eval` |
| `RegAlloc` | `ir/regalloc.c` | |
| `MiddleEndProofs` | theorems about `RegAlloc` and `OptArith` | `RegAlloc`, `OptArith` |
| `IrBin` | `ir/ir_bin.c` | |
| `RiscV` | instruction selection of `risc_v.c`, as operators, and the machine it is for | |
| `CodeGen` | `emit.c` and `back_end.c` | `RiscV` |
| `Elf` | `elf.c` on the text and symbols of `CodeGen` | `CodeGen` |
| `CodeGenProofs` | theorems about `CodeGen`, the code of `RiscV`, and `Elf` | `Elf` |
| `MC*` | argument lists, programs and other constant values for TLC; `MCPasses` composes `IrGen`, `IrCfg`, `Reorder` and `Dom` | the modules named |

Operators named `<definition>_<Variant>` are mutants: plausible slips in that
definition, kept beside it to show that a property would notice them.

### HashMap

`buckets`, `capacity`, `size` are the fields of `hashmap_t`. `pc` says whether the
table is idle, in a probing loop (`probe`), or in the copying loop of
`hashmap_resize` (`rehash`, and `reput` during the put it makes). `index`, `old`
and `i` are the locals of these loops. `hashmap_put`, `hashmap_find` (get, has and
remove share their beginning), `hashmap_reset` and `hashmap_destroy` start calls;
`Advance`, `PutInsert`, `PutOverwrite`, `FindHit`, `RemoveHit`, `Miss`,
`RehashSkip`, `RehashPut` and `RehashDone` are the iterations and ends of loops. Keys
are numbers, so collisions and wrap-around come from `key % capacity` itself.
`MaxCapacity` keeps a client from making a put that doubles the table past it.

### Parser

One operator per C function says, for the tokens the function looks at, what it
does in order: require or skip a token, call another function, make a node,
change `loops_depth` or the cursor. `todo` is what the active functions still have
to do, that is, the call stack. The input is chosen token by token, when it is
first looked at, so a run covers all inputs of its length. `weak_compile_error`
is a longjmp: the stack is gone, the globals stay, and another `parse()` may follow
(`Again`). Reading past the end of the tokens is the phase `overrun`. Of the tree
only the kind of the node returned last is kept (it decides about semicolons) and
its operator level.

### IrGen, IrCfg

The tree is visited in source order, so a function body is a sequence of events:
simple statements, and starts and ends of control statements. `open` holds what
visitors keep in C locals while they visit a body (the exit jump to patch, the
header index). Every visitor's arithmetic on `instr_idx` is kept; expressions are
sequences of opcodes. `closed` and `flow` are histories for the properties: code
extents of finished statements, and each break or continue with its loop.
`MaxLen` and `MaxNest` bound the function. `IrCfg` adds `succs` and `preds` and one
action, the whole of `ir_cfg_build`; an index no instruction has makes it abort.

### Reorder, Dom, MCPasses

`Reorder` keeps the `next` and `prev` pointers of the list (`links`), the jump
targets (`tgt`), the outer cursor `from` and the inner cursor `it`; every turn of the loops of
`ir_opt_reorder_fn_decl` is a step, a write through NULL the stage `crashed`, a
read of the statement vector past its end `undefined`. `ReorderSpec` is the pass after the
generation of a function; `Listed` follows the `next` pointers and gives the list they make. `Dom` has one action per pass;
the static arrays of `dom.c` are fields of a record that depth-first search, path
compression and steps 2 to 4 of the algorithm hand on. `MCPasses` lets every generated
function go either to `Reorder` or to `ir_cfg_build` and then `Dom`.

### OptArith

A store of one operation goes through `ir_type_pass`, `ir_opt_arith` and the
evaluator, in the order of the driver. Operands have all values of their type at a
width of `IntBits` and `CharBits`; a float is one of a few whole numbers, of
which, read as an int, 0.0 is 0, 2.0 a power of two and the others neither. `Abort` is `weak_unreachable`.

### IrBin

A file is a sequence of fields, each with a tag that says what was written. Writer and
reader are stacks of work like the parser's. A unit is chosen while it is
written; `Reopen(n)` then keeps the first n fields, so a file may be whole or cut
anywhere. `got` is what the reader has put into nodes, `wrote` what the writer took out of
the last function.

### RiscV, CodeGen, Elf

Instructions are records whose immediate is cut to the bits of its field;
`Exec` is the machine, external to the repository. `CodeGen` walks functions in any order,
with `main` first, in the middle, last or missing; `put` inserts at `text_seek`, as
`vector_emplace` does. A direct call of the generic instructions, as the tests make
them, is the action `back_end_native`. `Elf` is the sequence of writes of
`elf_init`; a byte of the file is that of the last write over it. Offsets and sizes are
parameters so that a small text reaches the limits the real ones have.

### Eval

`stack` maps addresses to bytes, a byte being the value it is part of; a read
that finds bytes of different values is `Garbage`. `stack_map` entries are reduced
to signed bytes, as the C array does. A call is `CallStart` (bp and stack_map
saved), one `push_call_arg` per argument, `fun_eval`, and `eval_ret` with the store
of the result. Any sequence of allocations, stores, calls and returns can happen,
so the properties hold for every program within the bounds `MaxSp`, `MaxSyms`, `MaxDepth`.

### AstStorage, Anal

The driver runs three walks over the same tree. They share no state, so the
model lets them go side by side: an action is one statement as all three see it.
`var` and `ty.st` are the storages of the usage and the type analysis; `fns` and
`last_ret` belong to the function analysis. `env` is the reference: the scopes of
the language, and which names were read. `ill` says the program is wrongly typed by
the rules the headers describe. An error ends the walk in a phase that names the analysis and
whether it reported (`type_error`), dereferenced NULL (`crash`, `fn_crash`) or
failed an assertion (`abort`). Because an earlier walk covers the whole program
before a later one starts, a failure of the type walk counts only if the function
walk would not reject the current function (`Doomed`).

### RegAlloc

A function is a sequence of instructions with up to three variables. The phases
of `reg_alloc_fn` follow each other: ranges from stores, the graph of overlapping
ranges, colouring in the order of variable numbers, and the walk that gives every
occurrence its register. `claims` records each occurrence with its register and
whether `push`/`pop` were put around it.

## 3. Runs

Passing runs:

| Run | Bounds | Shows |
|---|---|---|
| `HashMapSafety` | keys 3, 4, 7 (colliding in 4 buckets, wrapping), one doubling, all operations | uniqueness, reachability, size, refinement of `Map` |
| `HashMapReturns` | five keys in 4 buckets, one doubling, puts and removals | a call returns if a bucket is free; all calls return if nothing is ever removed |
| `ParserTokens` | twelve beginnings of a program, then any three of 28 token classes, also after an error | precedence, brackets, loop depth, rewinding, reads past the end, termination |
| `AnalScopes` | two names, two functions with or without a parameter, seven statements, blocks two deep | scopes as both storages see them, exact unused warnings, exact type errors, lookups that succeed |
| `IrGenJumps` | void and int functions, all control statements two deep, no statement begins after the fourth instruction | jump targets, lone breaks, continues; agreement of successor and predecessor edges; reordering keeps control, groups allocas, ends; dominators and frontiers against their definitions |
| `OptArithLaws` | ints of 4 bits, chars of 3, all values | every rewriting of `ir_opt_arith` is an identity |
| `EvalFrames` | three active functions, variables of 1 and 4 bytes, 6 bytes of stack | each function reads its last writes; variables do not overlap |
| `RegAllocColor` | every function of three instructions over three variables, two registers | colouring, forced spills, ranges, operands of one store apart |
| `IrBinFiles` | two functions, one parameter, two statements, cut at any field | reader and writer in step, cut files rejected |
| `BackEndLayout` | three functions and three nodes in any order; two units; immediates of all 9-bit values with a 6-bit field | call offsets, symbols, lowering of immediates, lending of registers, the ELF file |

Runs that are expected to find a violation, each against a sentence of the repository:

| Run | Sentence | What TLC finds |
|---|---|---|
| `IrGenBreakDoc` | gen.c:54 | one break per loop end is attached, whichever loop it is in |
| `OptArithDoc` | opt.h:42 "A + 0 = A" | the symbol `ir_opt_arith` makes has no type any more: `b = a + 0` stores 0, `a * 2` aborts |

The properties of the passing runs are stated as strongly as the code allows, and
their exceptions, and the limits of the constants, are behaviours of the code a
reader should know.

Hash table:

* Removed entries stay occupied, are never reused by a put and are not counted: pairs of
  put and remove fill the table, and then a call for an absent key never returns
  (hashmap.c:114, against "Key not found" at line 124). Hence the premises of
  `ReturnsWithoutRemovals` and `ReturnsIfRoom`.
* `ReturnsWithoutRemovals` needs a capacity of at least 4: with 1 to 3 buckets
  the load test comes only after the last bucket is taken.

Parser:

* An error inside a loop body leaves `loops_depth` raised; the next input of the same process may
  then break outside a loop (`base` in `LoopDepthCounts`; Architecture.md says "we
  cannot parse break or continue statements if we are outside any loop").
* Operators group to the right: `a - b - c` is `a - (b - c)` (`PrecedenceKept`).
* Only `parse()` compares the cursor with the end. The functions that look two
  tokens ahead can read past the end of any input, others only of a truncated one
  (`OverrunMeansTruncated`).
* A statement that is a literal in parentheses needs no semicolon (parse.c:613).

Analyses:

* `WarnsIffUnread` does not take the condition of an if for a read, as
  `visit_if` does not (var_anal.c:323): a variable read only there is reported unused.
* `TypeErrorsExact` speaks of the last return with a value: the types of
  earlier ones are not compared (type_anal.c:378), and a function without return
  after one with return is accepted.
* The parameter of the run is not named in any body. A call declares the callee's parameters in
  the scope of the call (type_anal.c:422); in a recursive call within a block they
  replace the caller's own, `end_scope` removes them, and the next use of the
  parameter dereferences NULL.
* A void function after one that returns a value is rejected, because `last_ret`
  is not cleared between functions (fn_anal.c:29).
* Calls of builtins make `ana_type` dereference NULL (type_anal.c:404), calls of
  variables `ana_fn` (fn_anal.c:119), and a wrong number of arguments in an initialiser
  reaches an assertion (type_anal.c:416): `crash`, `fn_crash` and `abort` of `Anal`.

IR generation and passes:

* `TargetsExist` lets an int function jump just past its end: gen.c:518 says every function ends
  with a `ret`, but only void ones get one (gen.c:794), and `link_target` then fails its assertion.
* `FlowLeavesLoop` is about loops with one break, and about the continues of while and for: a
  continue in a do-while goes to the start of the body, not to the condition (gen.c:427 against gen.c:55).
* `EdgesAgree` excepts a ret: the instruction after it lists it as predecessor (gen.c:982).
* `ForCrash` is a step of `IrGen`: a for without init part as the first statement
  finds `ir_last` NULL (gen.c:317). Two loops inside one if share their loop index (gen.c:386 against meta.h:41).
* Reordering a function whose last instruction is an alloca follows a NULL
  pointer (reorder.c:81), and one that jumps past its end reads past the vector (`FailsOnlyAtEnd`).
  The first instruction stays where it is, alloca or not (`AllocasGrouped`).
* An instruction that is never reached, but leads to one that is, makes the
  latter its own dominator: the tests for visit time 0 are commented out
  (dom.c:133, 158). `NoDeadEdges` excludes such functions. The first instruction is never taken for a join.
* `RewriteSound` excepts shifts of chars and floats: `x * 2` becomes a shift of x by
  an int, which `compute()` refuses, and the bits of a float are read as an int.
  A void function aborts the type pass (type.c:29).

Evaluator and register allocation:

* Arguments are evaluated while `stack_map` already describes the callee: in f(b, a) the second
  argument reads the first (eval.c:614 against eval.c:611). The argument lists of the run
  leave this case out. `stack_map` is an array of char: an address past 127 is lost (eval.c:43).
* `OperandsApart` and `ProperColoring` except spilled variables; live ranges do not see
  uses in conditions, returns and calls, nor loops (regalloc.c:135-186).
* `handle_spill` overwrites the spill mark of a variable by the number of the borrowed register; with
  register 0 the mark reads as false, and later occurrences use the register without
  saving it (regalloc.c:259). A spill in a condition follows a NULL pointer (`AssignCrash`).

Binary IR:

* Of several functions only the last is in the unit that was read (ir_bin.c:568).
  The payload of members, type declarations and phi nodes is not written; push and pop are refused.
* An empty string cannot be read (fread of nothing counts as an error), and an
  empty body dereferences NULL (ir_bin.c:436). Names are written without their NUL. `ReadsBack` excepts the first two.

Machine code:

* `risc_v_i_op` is wrong for an immediate of 4095 (its halves do not both fit),
  for the top 2048 ints (the carry overflows) and when the borrowed register is the
  operand: the exceptions of `NativeComputes`. A store whose offset does not fit emits nothing.
* After each of the 27 registers was lent once the head of the list is 0 and the
  next loan aborts (`LentInTurn`); the borrowed register may be live.
* Without `main` all symbols are off by the size of `_start` (`SymbolsPoint`).
* `visit_ret` dereferences NULL before the first integer constant (`crash`).
* `text_seek` and `main_emitted` survive the unit: the next one writes outside its vector
  (`PutOutside`), so `CallsLand` is about the first.
* The capacity of the text, not its length, is copied into the file, and nothing tests that it
  ends before the section headers (`Fits`; elf.c:230 says so).

**Why the bounds are enough.** The hash table's interesting cases need two keys
with one hash, a probe that wraps, a tombstone between a hash and its entry, and
one doubling; all are within four to eight buckets. In `IrGen` every visitor looks at most at the
innermost open statement and the two global stacks, so nesting of two with
something before, inside and after shows each pair of visitors in each order.
The tokens the parser looks at before it decides are at most two, and the beginnings
put it into each of its functions, so three free tokens show every decision, its
error and its end. `Eval` needs a caller, a callee and a callee's callee. The analyses' storages tell
apart only equal and different names and depths. The bounds of `BackEndLayout` keep
the proportions of the real ones: immediates below, at and beyond the field, twice
the field and the word; a text that fits, fills and overruns the space before the
tables; more loans than registers. In `IrBin` every kind of node stands in every
place where a reader accepts it.

**Fairness.** `HashMap`: `WF_vars(Step)`; `Parser`: weak fairness of its work and of
the end of the input; `MCPasses`: of `ReorderStep`. Each is a loop that runs in its caller's
thread until it returns, so a turn that can happen does happen, and an input is
finite. Nothing is assumed of clients, which may stop calling. Deadlock checking is off where
the modelled function simply ends.

## 4. Proofs

Every theorem holds for all values of the constants: inputs of any length, nesting and depth. Each
rests on an inductive invariant, proved to hold initially and to be kept by each action.

**Hash table** (`HashMapProofs`). `LiveKeysUnique` is not inductive: that a put may take a free
bucket without making a second entry follows from what its loop has seen
(`ProbedInVain`: buckets passed are occupied and hold other keys) together
with reachability of existing entries (`LiveReachable`); the two support each
other through `PathStep` and `PathTotal`, the lemmas about walks around the ring.
`NoNestedResize` rests on `CallInv`: while copying, `size <= i < old_capacity`,
so the load test cannot succeed in a table twice as large. `SizeBound` uses the
cardinality theorems of finite sets. `Refinement` shows that the table implements `Map`. The contents of
the map are those of the live buckets, of the old table while it is being copied. `RInv` adds to `IInv` that
the new table holds exactly the entries the copying loop has passed (`CopiedSoFar`), so the step
that drops the old table changes nothing a client sees; the other steps are
stutters, except the one in which a loop ends with the answer.

**Parser** (`ParserProofs`). The pending work of the active functions is annotated: `Need` says what an item
relies on when it is reached (which token is next, of which level the last node is, where the
cursor may be set back to), `Gives` that one item leaves what the next needs. Each function
of `parse.c` expands to a sequence whose neighbours fit, so `StackInv` is kept by replacing a call by its
body. From it follow `PrecedenceKept` and `RewindsToType`. `LoopDepthCounts` uses `DepthInv`: a
height for each item of the stack, 1 more between `++loops_depth` and `--loops_depth`, whose
value at the top is the counter's, up to what earlier errors have left.
The brackets need a second annotation, since they speak of all tokens read so far. Each item changes the
open brackets in one way (`Eff`): a function closes what it opens, except those that close for their caller
(`ClosesParen`, `ClosesBrace`), and the detour of `var_decl` back to the type is undone where it ends. The stack
then spells a path (`Path`) from what the tokens before the cursor leave open to nothing,
on which each item finds as much open as it needs (`Enough`) and the cursor where it looks for it (`Spot`).
`ExpansionSpelled` shows this of each function's body, so `Spans` is kept when a body replaces a call. `parse` takes the
next declaration with nothing open, hence `Balance`; for `Truncation`, once nothing is open after `}` or `;`
no function can ask for another token (`Sealed`).

**Analyses** (`AnalProofs`). The storage of `ana_var_usage` stands for all open scopes at once: `Sees` says that it
holds exactly their declarations, each name in one scope at most, with a read count that is 0 if
nothing read the declaration; `Framed` ties the scopes to the open blocks (a for has two), so that closing a block
takes as many as opening it made. Hence `Warnings`, which needs no more than that functions are not
named like builtins (`BuiltinsApart`). The storage of `ana_type` does not see the scopes in this sense: it has none for a
for, and records of callees' parameters and of ended loops stay in it. `Typing` says what is still true of it:
every name in scope has a record with its type, no deeper than the block that declared it (`Level`), so that
`end_scope` cannot remove it too early; what is left behind belongs to names that are not visible.
`Due` is what `ana_type` has not judged yet: without an error so far the only wrong types are
those of conditions of do-whiles still open. Arguments are checked by a recursive function, whose value
is described place by place (`Walked`). `Lookups`, `TypeErrors` and `NoNullLookup` have two hypotheses more. `ParamsApart`:
parameters are not named like functions or builtins. `CallsApart`, an action property: no call has a parameter
named like a variable its caller has in scope, as then the parameter replaces the caller's record (type_anal.c:422); a
recursive call in a block is the simplest program that breaks it, and for such programs the statements are not true (section 3).
`NoNullLookup` supposes `Builtins = {}`, as a call of a builtin crashes `ana_type`. In the run parameters have names no
statement uses, so `CallsApart` holds there.

**IR generation and the graph** (`IrProofs`). `IInv` describes a function that is half generated:
the exit jump of each open statement stands before its body and has no target yet (`FrameInv`), these
are the only ones without (`TargetInv`), the header stack lists the open loops (`HeaderInv`), finished statements
lie before or inside open ones (`ClosedInv`), and jumps enter an open statement only at its start (`NestInv`), so
that the patch at its end cannot make one jump into the middle of another. `EdgesBothWays` uses only the list's
shape. Break needs more, `BInv`: as long as every finished loop has had one break,
the break stack holds just the breaks of the open loops, inner ones last (`Waiting`), so
the one an ending loop takes is its own. Without that premise it is not, see
`IrGenBreakDoc`.

**Reordering** (`IrProofs`). `ListInv` says that there is an order of all
instructions which the `next` pointers follow, in which those that are no allocas are
sorted, and in which the moved allocas stand behind the first instruction. The `prev` pointers
of moved allocas are NULL (`initial_move` and `swap` leave them so), all others
are right; `swap` reads only the latter. `Walk` is a recursive function; that it lists the order is proved by taking the
least place where it would not (`Least`, `WalkIs`).

**Evaluator** (`EvalProofs`). `LayoutInv`: the frames of active functions follow each other on the stack,
in each the variables in the order of their numbers, and the saved `sp` of a caller is where
its callee begins; hence `PlacesDisjoint`. `ValueInv` adds that `stack_map`, saved or
current, names these places and that the bytes there are the last value stored. `ReadsLastWrite` has two
hypotheses the code needs: addresses fit the char in which `stack_map`
keeps them (`InByte`), and no argument of a call is read after its entry was overwritten by an earlier
argument (`InOrder`). `PlacesDisjoint` needs neither.

**Optimisations** (`MiddleEndProofs`). `Stages` says what the right-hand side is in each phase, so `RewriteSound` is a
statement about arithmetic: a number in range is its own wrapped value (`Wrapped`), `x | 0` is x and `x & 0` is 0 bit by bit
(`ZeroBits`, where the recursive function over bits is compared with what it should be), a literal without
bits is 0 (`NoBits`), and a product with a power of two is the shift by its place. The widths are any with char narrower than int.

**Register allocation** (`MiddleEndProofs`). `IInv` adds
what phases know of each other: during colouring, variables not yet reached have
no colour (`ColorInv`), so a register free of neighbours now stays right; during
the assignment walk only spilled variables without a colour are given one. For `OperandsApart`, `ClaimInv` says that
an occurrence of a variable that is not spilled claims its colour.

**Machine code** (`CodeGenProofs`). `LruInv`: `reg_lru` is its initial order turned by the number of
loans, for which the two calls of `update_lru` per loan make no difference; hence `LentInTurn`. `UnitInv`: before
`main` is reached every recorded offset is 4 ahead of its code, a call computed from two of them is
right, and inserting `_start` moves all code by those 4; calls are relative and move along.
`CallsLand` has the hypothesis `InReach`, a text of less than 1 MiB: beyond it `risc_v_jal` cuts the offset.
`NativeComputes` is proved for the real widths (`RealWidths`: fields of 12 bits, ints of 32), where
the run has a small word: `NativeInv` ties what the caller sees to `risc_v_i_op`, and each of
its four ways is executed on the machine. `BuiltIs` is the heart of it: upper part with carry
plus sign-extended lower part are the immediate, or one word less where the carry
overflows, which an addition of 32 bits does not notice.
`ObjectFile` needs no induction over steps, but over data: sums, string tables and the capacity of a vector are recursive
functions, shown to have a solution (`Recursion`) and then compared at the least place where they would differ.
Each write of `elf_init` is read back because all later ones are apart from it (`ReadsIs`), the exception being the NUL at the end
of one table and the beginning of the next, which no name includes.

**Binary IR files** (`IrBinProofs`). The file a reader gets is not in its state, so the proof brings writer and reader
together. While a file is written, `Good` accompanies it with the run of a reader on what is there so far
(`Trace`: one position, the reader's pending work and what it has built at every point). The
work that reader has left is the mirror of the work the writer has left, item by item (`Aligned`), except
for one item at most that waits for its value (`Pending`: a count, a flag, a type or a length is read
before what depends on it). For each function of the writer a lemma says that what it puts has the shape
its counterpart takes (`Shapes`, `FunctionShape`, `NodeShape`). The run may end early only where the reader fails, before an empty
string or an empty body (`Fails`). While a file is read, `ReadInv` says that the
reader stands on the run over the whole written file, of which its own is a prefix. So it can only end with a
unit when it has had everything (`TruncationDetected`), and then with the unit written
(`ReadingInvertsWriting`). That finished files are not written to (`FileInvariance`) is part of it.

**Assumptions** are the named ones of the modules: keys are naturals, capacities
are positive, the value of a miss is not a stored value; expressions and
statements of `IrGen` are sequences of opcodes without jumps (`OpsAssumption`); argument lists name variables or values;
instructions of `RegAlloc` other than stores and operations have one variable, as those `gen.c` emits
(`ShapesAssumption`); no function of a unit is called `_start` (`NamesAssumption`); registers are naturals. In `Anal`
variables, functions and builtins have different names, no variable is void (`TypesAssumption`), arguments are names
(`ArgsAssumption`), the parameters of a function differ (`ParamsAssumption`). In `Elf` sizes, offsets and lengths
of names are naturals (`SizesAssumption`), and the parts of the file that `elf_init` writes at fixed offsets do not overlap (`LayoutAssumption`).

`TypeCorrect` and `ResizeDoesNotNest` are proved and, being parts of what is proved, in no run.

**Only model-checked.** Liveness (`ReturnsIfRoom`, `ReturnsWithoutRemovals`, `ParseEnds`,
`ReorderEnds`): the prover does not do fairness. `Dom` (`DominatorsRight`, `FrontiersRight`) is written with recursive
operators, which the prover cannot read.
Every other invariant of a run is stated by a theorem.

## 5. Not modelled

* The lexer is generated from regular expressions; the AST constructors and
  printers, the IR printer, diagnostics streams and file helpers have no protocol to check.
* `sema_lower.c`, `sema_type.c`, `const.c` and `dead_anal.c` transform or check trees with
  arrays and structures, which the models of the other stages do not have; the driver does not call them.
* `ssa.c`, `ddg.c`, `fold.c`, `dead.c`, `data_flow.c` and `unreachable.c` are called by tests only.
* Names are assumed to have distinct CRC32 sums. Structures, arrays, pointers and
  strings are in the parser's model only. 16-bit use counters and the array limits of the
  evaluator and the register allocator (512 variables, 32 registers, 1 MiB) are parameters or left open.
* The generic RISC-V instructions that pass their operands to one encoder are
  not repeated; of system calls, the one `emit.c` uses is modelled.

## 6. Plan

1. `Ssa` and `Ddg` on `Dom`; `Unreachable`, `Dead`, `DataFlow` and `Fold` against an evaluator.
2. Argument nodes in `IrGen`; arrays and structures in `Anal`.
