# A verification of the Sooth compiler

Sooth is a concatenative language with linear types. Its compiler (`src/src/`)
parses packages of words, checks the body of every word on a stack of types,
splices the words that take quotations into their callers, and lowers the
result to SSA for QBE. The promise of the language is made by the checker:
*what type-checks uses every linear value exactly once, never reaches a value
that was given away, and never aims a reference at storage that is gone.*
These modules model the parts of the compiler that keep that promise, model-check
them with TLC, and prove the central ones with TLAPS.

## 1. The system

| component | state it keeps | operations | what makes it correct |
|---|---|---|---|
| `lexer.rs`, `parser.rs`, `ast.rs` | token cursor, declarations so far, the table of generic instances | parse a module into `Module`, splice-time renaming of locals | a spliced body never captures a name of its caller |
| `manifest.rs`, `packages.rs` | the package graph | read `sooth.pkg`, resolve `path::` and root packages | one package per identity, no cycle |
| `driver.rs` | modules found, work list, export origins | `discover_closure`, `reject_cycles`, `effective_intrinsics`, `assemble_module` | every import loaded once, each cycle refused, an export leads to one declaration |
| `resolve.rs` | name tables, visibility | mangle, rewrite, `walk_to_origin` | two modules never share a mangled name |
| `check/engine.rs`, `check/terms.rs`, `check.rs` | `Scope` (bindings and `Moves`), the stack of slots, `Provenance` (regions, derivations, captures), `Liveness` | one handler per term, `branch`, eliminators, back-edges, block ends | linear values move once; borrows exclude each other; nothing outlives its storage |
| `check/combinators.rs`, `check/drop_graph.rs` | the index of always-spliced words, the marker of an open loop, the splice counter | cycle rejection, argument probe, splice | splicing ends; a literal is accounted for as often as it runs |
| `check/captures.rs` | surviving capture sets | capture admission, owning closures | a closure never outlives what it captured |
| `check/globals.rs` | one inferred set per word | fixpoint over the call graph | the declared clause is the least set that covers the body |
| `check/declarations.rs`, `check/audits.rs` | none beyond the module | duplicates, infinite sizes, impl coherence, import visibility | later passes may index without looking |
| `check/poly/*` | substitutions, the instantiation work list | unification, grounding, trait resolution | one instance per ground signature, and each is checked |
| `ir/*` | the current block, phis, hoisted slots, loop state, owning environments | lower words, splices, loops, joins, destructors | each value is defined before its use; each destructor runs once |
| `backend/qbe.rs` | output text | canonicalise narrow integers, order types | a narrow value is always in range of its type |
| `driver/toolchain.rs`, `main.rs` | child processes, test reports | build, run, test protocol | a test run is reported as it ended |

The compiler is one thread. What makes it hard is not scheduling but *state that
two walks must agree on*: the checker walks every arm of a conditional where the
program runs one; walks a literal once where the program may run it many times;
clones its scope at a branch and merges it at the join; and hands the lowering a
set of records keyed by counters that both sides must advance in step. The
hazards of `PROJECT.json` are the places where that can go wrong.

How the components interact: the driver loads modules and gives `resolve` their
names; `check` receives one assembled module and calls, in order, the declaration
checks, the graph checks (`check_tail_call_cycles`, `check_combinator_cycles`,
the drop graph), the global sets and then `check_word` for every word. The body
walk calls itself for blocks and splices, threads `Scope` and `Provenance`
through by reference, and records what the lowering will need. `ir::driver`
lowers what was accepted and pulls in instances and destructors on demand.

## 2. The modules

| module | models | run | proved in |
|---|---|---|---|
| `LinearWalk` | the walk of a body as far as ownership goes: `Moves`, `Scope`, `check_term`, `check_branch_join`, `check_eliminator_call`, `check_linear_across_back_edge`, `leave_block`, `check_outputs` | `walks` | `LinearWalkProofs` |
| `Ownership` | abstract: what the linear discipline promises of one execution. `LinearWalk` implements it | `walks` | `LinearWalkProofs` |
| `PolyWalk` | the walk of a generic body: `PolyScope`, its moves and borrows, the literals it gives to conditionals, loops and words (`check/poly.rs`) | `walks` | `PolyWalkProofs` |
| `Captures` | the closures of a body: admission, surviving sets and the values that carry them, joins, owning closures, and the environments they run with (`check/captures.rs`) | `walks` | `CapturesProofs` |
| `BorrowWalk` | the walk of an ordinary body as far as borrows go: `Provenance`, `Deriv`, `Alias`, `Liveness`, `check_reference_word`, `check_field_projection`, the naming of a local, the join of derivations and regions | `accesses` | `BorrowWalkProofs` |
| `Globals` | `infer_sets`, `check_globals`, and an execution of the accepted module | `accesses` | `GlobalsProofs` |
| `Closure` | `discover_closure_configured`, `select_site`, `resolve_import`, `reject_cycles`, `check_package_graph` | `modules` | `ModulesProofs` |
| `Origins` | what one name means across modules: `assemble_module`'s maps, `resolve_type_export_origins`, `check_selective_imports`, `resolve_export_origins`, `walk_to_origin`, and the two resolutions of a reference | `modules` | `ModulesProofs` |
| `Instances` | which instances of generic words a program needs: `discover_transitive_instantiations`, `compose`, `cross_calls_of`, the resolution of bounds | `modules` | `ModulesProofs` |
| `CycleSearch` | the coloured depth-first search that `driver.rs` and `drop_graph.rs` both write out: `dfs_detect`, `find_tail_cycle`; not a specification of its own but the part `Closure` and `TailCycles` extend | `modules`, `after_the_walk` | `CycleSearchProofs` (lemmas) |
| `TailCycles` | `check_tail_call_cycles`: the graph of tail calls by name, then the search | `after_the_walk` | `CallGraphProofs` |
| `DropGraph` | `check_drop_overload_recursion`: the graph of calls and destructors, the search from each destructor, and which words of the accepted module are active at once | `after_the_walk` | `CallGraphProofs` |
| `LoopSplice` | a call of an always-spliced word with two literals: `check_combinator_cycles`, the tail walk, the argument probe (R12), the splice, and the loop it lowers to | `after_the_walk` | `CallGraphProofs` |
| `SpliceCounters` | the numbers that the checker and the lowering give to splices, and the table of instances they index | `after_the_walk` | |
| `LoopBuilder` | `begin_loop`, `finalize_loop`, the saved state of nested loops, phis, staging and hoisted storage (`ir/func_builder`) | `after_the_walk` | |
| `Destructors` | the destructors the compiler writes, run on values (`ir/destructors.rs`) | `after_the_walk` | |
| `NarrowIntegers` | integers in the two register classes of the backend, and the operators on them (`backend/qbe.rs`, `ir/func_builder/calls.rs`) | `after_the_walk` | |

A run is started by a module whose name begins with `MC`. Four such modules each hold
several components, as *parts*: a behaviour is of one part, its variables move and those of the other
parts stay at an idle value. What a theorem is about is extended by such a module, so that the run and the proof are about one
definition; the rest is an instance of it. `MCWalks` has the walks, `MCAccesses` what code may touch, `MCModules`
what a program consists of, and `MCAfterWalk` the graphs and the lowering. `Parts` in a configuration
chooses among them. The `TypeOK` of a module is there for its reader and the proofs; no run repeats it.

### LinearWalk

The checker's state is `stack`, `level` (which block bound a name: the prefix
structure of `Scope.bound`), `moves` (`Moves.states`; `"absent"` is a name that is
not in the map, be it Copy or out of scope), `frames` (the Rust call stack of the
walk: one record for each open `check_branch_join`, eliminator or literal
`call`) and `status`. An action is the handler of one term. The terms are not
fixed in advance: the next action is the next term, so a behaviour is a body
together with the verdict the checker gives of it, and a check over all behaviours
is a check over all bodies up to the bounds.

Beside the checker the module *runs* the body. `vals`, `env`, `alive` and `made`
are an execution over resources (numbers; 0 is a Copy value); it knows nothing
of types or move-states. Where the checker walks all arms, the execution picks one
when the block opens (`pick`) and skips the rest (`mode = "skip"`); after a
self-tail-call it has left the body (`mode = "looped"`). Whatever the
properties say of the checker they say by comparing it with that execution.

Abstractions. A type is `"copy"` or `"linear"`, the only question the discipline
asks of it (`is_copy`, `is_linear`). A word call is `Literal`, `Produce` or `Consume`,
one value at a time: a call with several inputs and outputs does the same to the
move-state and the stack as a sequence of them. A Bind of several names is a
sequence of Binds. A rejection ends the walk, as the `?` of every handler does.

### Ownership

Five variables: the resources that exist, those the execution can reach, those
disposed of, those delivered, and whether it has returned. A resource is created once, is reachable
as long as it exists, is disposed of once and does not come back; a return delivers all that is left.
`LinearWalk` maps its execution to it (`Contract`): what is reachable is what stands on the run-time
stack or in a local, in an execution that has not gone wrong. `KeepsContract` is that every behaviour of the walk is one of
`Ownership`.

### PolyWalk

A generic body is checked once, under rigid variables, by a walk of its own that has
neither regions nor liveness. Its state is the virtual stack, `locals`, `moves`
and `borrows` (`PolyScope`), and one record for each literal being walked. A literal is walked where it is
consumed, and how depends on its consumer: in place for `call`, in clones of the scope
that are joined for the arms of `if` and of an eliminator and for the body of `times`,
in the same scope over a stack of its own for an argument of a word. Beside the checker
the body is run: `exec` is the execution's values, locals and live resources and what it did
wrong. An arm runs once or never, a repeated literal up to twice; for the second turn the terms walked are
replayed, which is why a literal inside a repeated literal is left out. `Exclusive` is judged per place.
`Shapes` names four shapes of body the walk does not look through; the passing run has none of them.

### Captures

A literal on the virtual stack (`slots`) is only interned; it becomes a value at a boundary, and its captures are then judged by
what they are rooted in. `surviving`, on a slot or a binding, is the set of captures of the closures that value
carries, `bound` is `Scope.bound`, `branch` the open conditional with what its arms are to be joined with. The names that
such a set keeps alive (`capture_alive_names_impl`, a loop over the bindings until nothing is added) are the least set that
`KeepsAlive` admits. Which names `Liveness` holds dead depends on the rest of the body; here
a name is alive until a check needs it dead, and cannot be mentioned after that (`Dead`). Beside the checker
the body is run: a closure is an environment of pointers to storages (`held` for the stack, `places` for the locals, `heap` for the
field of a carrier), an owning one has its resources (`owns`), and `gone` are storages of resources disposed of. `taken` says whether the
execution is in the arm being walked. `ClosureShapes` names five shapes of body the checker does not look through.

### BorrowWalk

A slot has a type, a derivation (`place`, owned `root`, whether it reborrows, its
mutability) and a set of regions, as `Slot` has. `done` are the names past their
last mention. Which mention is the last is a fact of the body, and the body is not
fixed in advance, so it is chosen at each mention and at each branch (`last`,
`grant`, `unused`), within what `releasable_into` allows. The execution has
storages and pointers: `vals` and `env` hold values with the storage and the field
they reach and, for a reference, the locals it descends from; `gone` are the
storages that were disposed of. A term the checker refuses is a term that cannot be
the next one: here only accepted prefixes of bodies are of interest.

`Shapes` names five shapes of body that the checker does not look through. A passing
run has those that keep the properties; section 3 says what the others do.

### Globals

`direct` and `callees` are what `direct_of` collects of every body: any sets, any
graph. `Relax` is one turn of the inner loop of `infer_sets`, in place, in source
order; `EndPass` is the end of a pass with its assertion, whose failure is the phase
`"panic"`. `CheckClause` then reads each word's `export` and `global:` clause, which
are chosen there, and `Enter`, `Call`, `Touch` and `Return` run the accepted module.

### CycleSearch, TailCycles, Closure

`path` is the stack of the recursion, `todo` the successors each of its calls still
has to look at, `color` the code's colours. `Closure` and `TailCycles` extend the
module, give it their graph with `Begin`, and take a step of it with `SearchNext`; `SkipSelf`
is the one difference between the two searches.

`Closure`'s state is that of `discover_closure_configured` (`nodes`, `lines`,
`targets`, the index `i`, the `site` of the file the walk is at), the
`ManifestCache` (`manifests`), the deferred errors (`unresolved`) and the work list of
`check_package_graph` (`pending`, `audited`, `auditing`, `j`). What a file or a
manifest contains is chosen when it is first read. What a name *spells* is an input:
an import line says which file its spelling leads to, a `depends:` entry which
package. `Trees` are the builds considered: which package a file lies in, the
`--manifest` flag, the user-level manifest, and what files and manifests may say.

### Origins

The tables are keyed by name and no step relates two names, so the module has one
name and M modules, and every import, declaration and export of them. A module imports only
later ones: `Closure` has rejected cycles. `pass` runs through the passes in the order
`driver.rs` and `resolve.rs` run them. A walk over a hash map is a choice.

### Instances

A generic word has one type variable and an instance is a word at a ground type. The calls that generic
bodies record, the bounds they declare and the impls of a trait are inputs. The state is that of the
discovery: `insts`, `splices` and `monos` as the walk of the concrete bodies left them, then the sets of the
fixpoint (`seen`, `frontier`, `next`, `discovered`), and `transitive`, what is emitted. A type is a base and how often the constructor
Box is applied to it; `MaxDepth` is where the model stops following. What *runs* is computed apart, from the bodies:
the instances reached from the concrete ones by calls at the types they have at run time.

### LoopSplice

One combinator whose body is *line, branch, line*; a line's terms are the two
quotation parameters and the combinator itself. `inline` says whether the parameters
are declared `~`, `lits` what each literal does with the captured local of the
caller: leaves it, consumes it, or consumes it on one path only. The checker's stages are
the values of `status`: `CheckCycles`, `Probe` of each literal, `Splice`, and
from `"run"` on the module executes the accepted splice, whose
self-tail-call is the jump `lower_self_tail_combinator` emits.

### DropGraph

`target`, `visited`, `chain` and `rest` are the search from one destructor for a way
back to it. The descent into the fields of a type, which the code writes with a work list, is a function of the number of
types taken up so far (`Collection`). Then the accepted module runs, as far as which words are active at
once: `active` is the call stack, a `drop` of a type calls the destructors its fields lead to.

### SpliceCounters

A program is a list of words, each a list of items: a generic call at a place, a splice of a
combinator with a literal, a literal that becomes a value, a call of an inline member of a trait. `agenda` is what the
walk has before it. The checker numbers splices as it meets them and records the instance of a generic call under
the number and the place; the lowering walks the same bodies in an order of its own and looks them up. `meant` is
the type of the instance the lowering found beside the type the call is at.

### LoopBuilder

The builder's fields (`cur`, the open loop's header, home block, slots and back-edges,
and the saved ones) and the blocks it has written. Opening a loop, closing one, forking and
taking a back-edge happen in any order the terms of a word allow. When the word is complete its blocks run: `store` is what they
compute, `truth` what each value would be if a back-edge rebound all carried values at once.

### Destructors

A value is a tree and a node the sequence of fields leading to it; which variant a node is comes up when its
tag is read. `frames` are the active destructors, `mem` what is in the hoisted slots, `alive` what is still
to be disposed of. The search for the route round (`find_path` and its kin) is the code's, on
the declarations the run is given.

### NarrowIntegers

The widths are parameters. The run takes them in miniature: 1 and 2 bits below a
word of 4 and a long of 8; nothing in the code's case distinctions knows more of a width than whether it is
below a word, a word or a long. `reg` is what the register holds, `val` the integer the language says it is.
`type` is the checker's type of the value and `lowered` the one it has in the lowering: they differ where a bare
literal stands for a `usize` or an `isize`, beside one as an operand (`unify_pair`) or given to a spliced word that declares
one. The checker goes on with the size type and the lowering with the literal's `I64`, until the value passes through a
field, a conversion or a call. A binary operation takes its two operands in either order, as the lowered type of the left one
chooses the instruction and is that of the result.

## 3. The runs

| run | bounds | shows |
|---|---|---|
| `walks` | ordinary bodies: 2 names, stack 3, depth 1, 2 arms, 2 resources made; generic ones: 2 names, stack 2, one literal open, 6 terms; ones with closures: 2 parameters, 3 names, stack 1, 4 terms, one conditional | linear values move once, on every path; the walk implements `Ownership`; no reference of a generic body dangles or overlaps; what a closure captured is there when it is called, and no closure leaves with a pointer into the frame |
| `accesses` | bodies without a branch: 2 names, 2 fields, stack 3, 4 slots and locals together, 3 of them made by a term; with a branch: stack 2, 2 terms in an arm. Programs of 3 words and a static: every call graph for the inference; the clauses and the execution, 3 calls deep, where two of them do anything | `NoDangling`, `Exclusive`, `NoSharedMutation`; the inference ends in time and finds the least closed sets, and a clause covers what runs |
| `modules` | four builds: three files that import by path; packages with one nested in another; an entry file outside every package with a user-level manifest, or with `--manifest`. Three modules with every kind of import. Two generic words and three members, two recorded calls, types two constructors deep | what an accepted build has had checked; a name means one declaration; what is emitted is what runs; every build is decided |
| `after_the_walk` | modules of 3 words; splices with lines of up to 2 terms, 2 turns; 2 loops and 2 forks; programs of two words and four combinators; types of up to two variants of two fields, values 5 deep; every integer of the miniature widths, operands within 2 of zero or of an end of their type | destructors and tail calls refused for real circles only; every cell disposed of once, in constant stack; loops rebind at once; the instance meant is the one found; registers hold their values |
| `borrow_named` | 1 name, the shape `projectionNamed` | **violation** of `NoDangling` |
| `origins_private` | the shape `privateScan` | **violation** of `ReExportGated` |
| `drop_generic` | the shape `genericHelper` | **violation** of `NoDestructorReenters` |
| `instances_grow` | an operand that the body built (`Slots`) | **violation** of `TypesFromPool` |
| `loop_splice_arms` | the loops that tail-call a literal | **violation** of `ArmRunsAtMostOnce` |
| `poly_variant` | the shape `concreteVariant` | **violation** of `LinearOnce` |
| `value_splices` | literals that become values and hold a splice | **violation** of `RightInstance` |
| `not_on_size` | `not` of a `usize` or an `isize` | **violation** of `RegisterHoldsValue` |

Why the bounds are enough. Two turns suffice to see a literal run twice, and two
resources or places to confuse one with another. Three modules are a
declaration, a hub and a user of it; three files are a cycle the search does not begin at; three
words are the shortest circle with a word off it, and the shortest chain whose relaxation in source order
needs a second pass. A borrow conflict relates two references and one place; two names are needed for a name bound in one arm to meet one bound
outside. Two loops are a loop in a loop and a loop after a loop. Two recorded calls are a
recursion through two words, or a call whose composition must resolve another's bound; a type two constructors deep is
one that grew twice. In a value five levels deep the fused loop has turned twice on the longest route of the
declarations. A splice that is numbered on one side only is seen by the next lookup, so two words with
two items are enough, and the second word shows that the ranges of words do not meet. The bounds of `LinearWalk`, `Captures`,
`Globals`, `TailCycles`, `DropGraph` and `LoopSplice` are lifted by the proofs.

In `Captures` four terms make a closure, move it once or put it in a carrier, and touch what it captured; a literal captures at most two
names, and a scalar only beside a reference of the caller. The branches of its conditional consume the same resources, and the second of a
conditional in tail position binds nothing. In `PolyWalk` a literal inside a repeated one is not walked, and a literal counts as one of `MaxTerms`. In `MCAccesses` a body with a branch closes
it and goes on.

`CHECK_DEADLOCK FALSE`: a walk ends with its verdict, a build with its decision and
an execution with its return; nothing follows.

Fairness. Only `AllSettles` is a liveness property: a build is decided and the work list of instances
empties. `MCModules` assumes weak fairness of its next-state relation: the compiler is one sequential process
that waits for nobody, so while it has a step to take it takes one.

### The disagreements found

`loop_splice_arms` (a bug of the code). `check_literal_against_declared_effect` refuses a literal that
consumes a captured local unless it is an *arm*, called in tail position, "so it runs at most once per
entry". A combinator may tail-call a parameter in its base arm *and* call it before
its self-tail-call in the other arm. The parameter is then in
`tail_called_param_slots`, the refusal is lifted, the splice walks the looping arm once,
and the back-edge exempts the locals below the frame floor. The run
exhibits it with the body `then = <<p>>`, `else = <<p, self>>`.

`borrow_named` (a document and the code). A reference projected off an owned value on
the stack has a region and no derivation; naming a local that holds it gives the
pushed slot a fresh region, and the owned value can then be dropped under it.

`origins_private` (a document and the code). The scan of qualified imports in `resolve_export_origins` asks
what a module declares, not what it exports.

`drop_generic` (a document and the code). The bodies of generic words are walked by a pre-pass that records no
drop sites, so a destructor that hands its receiver to a generic helper reaches itself unseen.

`instances_grow` (a comment and the code). The pool argument of `instantiate.rs` 186-193 rests on the refusal
of compound images at a call; the operands of a trait obligation do not pass that refusal. With an operand the body built, types
grow at each turn of a recursion.

`poly_variant` (a comment and the code). `is_copy` has no case for a variant and answers true: inside the arm of an
eliminator, `dup` of the narrowed variant leaves two owners of its payload. `LinearWalk`'s
eliminator passes no narrowed variant to an arm, so only `PolyWalk` shows it.

`value_splices` (a comment and the code). A literal that becomes a value is walked by the checker in the numbers of
the word around it, and lowered as a function with numbers of its own.

`not_on_size` (a document and the code). `not` of a `usize` or an `isize` is lowered as that of a boolean.

The other shapes have no run of their own. Each can be seen by adding it to `Shapes` (`ClosureShapes` in `Captures`) in a
configuration, or by changing the input named:

- `projectionShared`, `secondName`, `rechain` (`BorrowWalk`): a mutable projection off an owned value that
  a second slot denotes; a mutable borrow while a reference taken under another, dead, name of
  the region is live; a local that holds a reborrow named twice. Each breaks `Exclusive`
  or `NoSharedMutation`.
- `literalOverReference`, `timesConsumes`, `timesBorrows` (`PolyWalk`): a literal given to a word is walked
  over a stack of its own, so a reference below it on the caller's stack does not keep its
  record alive (`poly.rs:424`: "a live borrow is never pruned"); the body of `times` is not asked whether it consumes a local
  of the word (`poly.rs:2168-2171` asks it of a literal that a word may call any number of times), or
  leaves a borrow. They break `ReferencesSound` or `LinearOnce`.
- `readThenConsumed`, `fetchedLate`, `storedInArm`, `capturedInArm`, `storedByCallee` (`Captures`): a resource that a closure reads by its own
  name is consumed while the closure lives (the consumption asks for borrows of the name, `terms.rs:251`, and
  `captures.rs:86-88` says such a reuse is caught); a closure is fetched through a reference to a carrier that is past its own last use; a
  closure is stored, in an arm, into a carrier of the word, and the set rides on the arm's clone of the scope; a closure
  outlives the arm one of its captures is bound in. These break `CapturesIntact`. A word is given a closure together with a reference of the
  caller's that it stores it through: "a parameter is an in-frame boundary" (`terms.rs:1388`), and `NothingEscapes` fails.
- `typeUnderWord`, `exemptBeside` (`Origins`): the early resolution of types does not look at words or
  intrinsics of the name and so differs from the late one; an import line that admits an intrinsic
  is exempt from the collision check whatever the other lines of the name bind.
- `literalFirst` (`NarrowIntegers`): a literal to the left of a `usize`, or given to a spliced word that declares
  one, stays an `I64` in the lowering (`calls.rs:666`), and the left operand's type decides the sign of a comparison, of `max` and `mod`, and of
  what is done with the result. `5 -1 >usize max` leaves 5, though `numbers.md:125` says that `max` "leaves the larger" and
  `numbers.md:174` that the literal is coerced. It breaks `RegisterHoldsValue` in the configuration of `not_on_size`
  with this shape for its own. The passing run has the literal to the right of a `usize`, and on either side of an
  `isize`, where the two types agree on everything but `not`.
- `narrowExtern` (`NarrowIntegers`): the result of a C function narrower than a word is taken as it is
  in the register, though `qbe.rs:566-568` routes every other operation that may leave high bits through `emit_canonicalize`. It breaks `RegisterHoldsValue`.
- `Decls <- MCInterlocked`, `MaxNode = 12` (`Destructors`): of two enums that each contain both, the loop of one calls the
  destructor of the other and that one the first: `ConstantStack` fails, against `destructors.rs:412`.
- `UidSpace = Stride` (`SpliceCounters`): the range of the 4097th word of a program is that of the first
  (`check.rs:28` multiplies in 32 bits), and `RightInstance` fails.
- `DropGraph`: of several words of one name the graph has an edge to the last only (`name_to_idx`); bodies that call an
  overloaded helper are left out of the passing run.
- `Closure`: a file outside every package that imports a package's private module by its path
  (`packages.rs:616`: a quoted path resolves to any file) breaks `PrivateStaysInside`; and an entry file inside a package, built
  with `--manifest`, may import by path (`packages.rs:614` asks for a site of origin
  Ancestor), though `docs/design/modules.md:28` says a path is an error inside a package.

## 4. The proofs

Everything below is proved for every value of the constants, from the `ASSUME`s of the
modules, which fix the types of the constants, that names of different things differ, and that what a program has is finite where a
proof counts it.

**`LinearWalkProofs`**: the safety properties of `LinearWalk` and that it implements `Ownership` (`ContractIsKept`), for
every set of names, effects and bounds. `NoUseAfterMove` is far from inductive. The walk restores, at every `NextArm`, the
state the block was opened with, and throws away at every `Close` all but the
join; so the invariant has to say of *every open frame* that its saved states are in step with
the execution, or were when the execution left. `SafetyInv` is:

- `FramesOK`: the arms count, the saved stacks and states of a frame have their types;
- `RunsInSync` / `SkipsInSync`: while the execution runs, the checker's
  stack and moves describe `vals` and `env` (`Sync`); while it skips an arm, the
  state it will meet again (the frame's joined state when its arm came first, the
  frame's entry state when its arm is yet to come) does;
- `Custody`: held values are alive, alive values are held, no value is held twice;
- `Scoped`: a name with a state has a level, and levels never exceed the depth;
- `Domains`: the joined state of a frame names what the arms' states name;
- `Verdict`: what the status says of the end of the execution.

`Init => SafetyInv`, one lemma per action for the step, `SafetyInv => ` each property. For the refinement each action is shown,
under `SafetyInv`, to create one resource, dispose of one, return, or leave the five abstract variables as they are.

**`GlobalsProofs`**: `TypeOK`, `InferredClosed` (`Complete`), `NothingInvented` (`Exact`) and
`DeclaredCoversExecution`, for every number of words, statics and depth of calls; and `PassesSuffice` (`NoPanic`). `IInv` has three parts
beside the types: `LoopInv` (a pass that has changed nothing so far has left the words it passed closed
under calls), `ClauseInv` (the clauses read so far
hold), `ExecutionInv` (the first active word's
set covers the sets of all active words, so what was touched is within it). `NothingInvented` is inductive
on its own, given the types. That N + 2 passes suffice is a measure: the words that hold a mode of a static are closed under
callers, or they are more than the passes made (`Progress`).

**`CycleSearchProofs`**: the lemmas of the search, one for each of its steps, about `SearchInv`: the path
is the gray nodes, each the successor of the one below; the successors a call
has passed over are done; what is done is closed under edges; and every set of done nodes has a node with no
successor in the set. The
last is how "acyclic" is said without an induction on paths. `SearchMissesNone` turns it into the verdict.

**`ModulesProofs`**, of `Closure`: `FilesOnce`, `AcceptedAcyclic`, `AuditIsComplete`, `LawfulImports`, `PrivateStaysInside` and the types, for every
tree of files and packages. Beside the types, `IInv` relates what discovery has left to what it has read: every import line before
the index leads to a node (`Outcome`), the manifests that an edge or an audit relies on are read, and a manifest that is read is
audited, pending, or being audited with the entries before `j` holding. The cycle search is then that of
`CycleSearchProofs`, on a graph that no longer changes: its lemmas carry over, and `AcceptedAcyclic` is `SearchMissesNone` about
the graph of imports. `LawfulImports` and `PrivateStaysInside` say of each edge what was true when its line was resolved; they
hold at the end since a manifest is read once and its sites do not move.

**`ModulesProofs`**, of `Origins`: `OriginDeclares`, `ReExportGated`, `TypeAndTermAgree` and `OneMeaning`, for closures of any number of modules. Each but
the first excludes, as its only hypothesis, the one shape that breaks it; the first needs none. `NamesInv` says that each pass leaves its table
right for the modules it has been through, and that a walk stands at a module that exports or declares the name and that means by it
the *type* the module it set out from means (`OnTheWay`). For that last part `walk_type_export_origin`, a recursive function, has to be
unfolded: `WalksOn` shows it is defined, by filling it in from the last module back, as a selection names a later module. So the
two walks, which look at different tables in different orders, end at one module.

**`ModulesProofs`**, of `Instances`: `Lowerable` for every program; `TypesFromPool` where no operand of a trait call is built by the body (`Slots` is
empty; `instances_grow` shows why); and, in a form without a bound, that what is emitted is what runs
(`EmittedExactly`) and that no bound fails (`BoundsHoldOfAll`). The invariant is that of a work list: what is found (`FoundSoFar`) lies within every
set closed under calls, and what is in `seen` is composed, with its callees in `seen` and the members they mean in `seen` or
`discovered`, or waits in the frontier, the next layer or the loop at hand. There are no depth and no number of steps in the
proof, so types may nest as they like. `Exact` and `BoundsHold`, which the run checks, compute what an execution reaches by a bounded iteration;
the theorems are about the least closed set instead.

**`BorrowWalkProofs`**: `NoDangling`, `Exclusive` and `NoSharedMutation`, for every set of names and fields, every effect and every
depth of branches. One hypothesis: of the shapes the checker does not look through, bodies have no other than the anonymous projection
(`Shapes \subseteq {"projection"}`, as in the run `accesses`); section 3 shows what the others break. The properties speak of storage and say nothing of
what the checker knows, so none is inductive. `IInv` joins the two sides:

- `CheckerOK`: what a state of the checker is by itself, at each depth. A slot with a reference has a derivation that fits its type and
  has its root in scope, a local is rooted no deeper than its own level, a frame grants only what may be released where it was opened;
- `Agrees`: the execution is where that state says, and what is held is `Good`. The center of it is `Traced`: when a reference and a value
  are in one storage, the derivation's root or one of the regions says so. `SharedSeen` says that two names of one storage have overlapping
  regions, `SoleOwner` that the storage of a mutable reference has one owner left and which, `Apart` and `Suspended` that a
  mutable reference meets another only along a reborrow, whose place the derivation names;
- `Synced`: the state that agrees is the checker's own while the execution runs, and the one its frame saved while it waits for an arm:
  the entry, or what the first arm left.

A term first has its effect on what is held, once and for all: everything is carried from a place to a place (`Transfer`), or one slot is added, which is owned
(`AddOwned`), borrowed or borrowed again (`AddReference`). Each term is then an instance (`...Agrees`), beside a lemma that the checker's
state stays well-formed (`...Fits`). A branch is about the saved states: nothing in an arm changes what is bound outside it (`OuterStays`,
`FrameStays`), leaving an arm keeps what is `Good` (`LeavesArm`), and the joined slots agree with whatever either arm agreed with
(`MergeAgrees`), which is where `Agree` and `MergedDeriv` are needed: the join keeps one derivation, and it must do for both.

**`PolyWalkProofs`**: `LinearOnce` and `ReferencesSound`, for every set of names, inputs and callees, bodies of every size and literals nested to any
depth. One hypothesis, `Shapes = {}`, as in the run `walks`: bodies contain none of the four shapes of section 3, each of which breaks one of the two
properties. Neither is inductive: they ask something of what the execution holds, and the walk forgets borrows, sets a scope aside
and comes back to it. `PolyInvariant` has these parts:

- `Agrees`: while the execution is in the term being walked, the checker describes it (`Sync`). The stack has the slots of the values, the
  scope has the locals, a local that is spent is moved (`Matches`), and what is held is `Good`: linear values are alive and in one place each, what is
  alive is held, a reference to a linear value points to what its local still holds, each has its record in `borrows`, and no two
  of one value and one local meet unless both are shared. While it is not, the state that will be met again does: that of before the literal,
  or the one the first arm left;
- `OutsideKept` and `GroundKeeps`: a literal leaves the locals it finds as they are, and one given to a word, which is walked in the same scope and
  not in a clone, drops no record while a local is a reference; what it takes, `TakenFromWord` sees at its end;
- `RunsAgain`: the terms walked of a literal that runs twice can be run again from where it was met. This is said of
  every execution that the entry describes, not of the one at hand (`Replays`), so that each term adds to it by
  `StepKeeps` alone. The second turn starts from what the first has left, and at the end of the literal the entry is shown to describe
  that too: the rows agree, nothing was taken, and what is still borrowed was so before (`KnownBefore`);
- `AtTheEnd`: an accepted body has nothing unconsumed, and one that loops carries no borrow.

Each term has its effect on what is held once (`Carry`: everything moves from a place to a place; `More`: one value is added; `NewValueKeeps`), and
`StepKeeps` says that `Sync` is kept by any of the eight terms, whatever else is open. From it come the
actions: a term (`TermKeeps`), a literal opened and ended in each of the ways a consumer may walk it, the join of two arms, the
self-call. What `prune_dead_borrows` rests on is then
plain: records are dropped when nothing in reach is a reference, and a reference that is set aside below a literal is a shape (`NoReferences`).
TLC checks `PolyInvariant` without `Replays`, which quantifies over all executions.

**`CapturesProofs`**: `NothingEscapes` and `CapturesIntact`, for every set of locals, literals and carriers, and bodies of every size. The
checker knows sets of names, the execution has pointers, and neither property mentions the sets; the invariant has three parts,
each inductive given those before it:

- `EscapeInv`, for bodies without a store in an arm or by a callee (section 3 shows what these break): a closure is `Free` of the frame
  unless the set that rides on the value says it has a member there or is a bundle, on the stack, in every local, in the
  carrier of every storage, and in the other arm of an open conditional too, whose slots and scope are those the walk comes back to (`SeenSlots`,
  `SeenScope`). From it `NoCaptureEscapes`: what is reachable from what a word returns, a least closed set, is free of the frame;
- `AliveInv`: the least set that `capture_alive_names` computes is closed and does not shrink while a value is passed on, stored,
  fetched, bound or joined. Of the alive names, no resource is consumed (`Whole`) and no mutable reference meets another alive one of its root (`Exclusive`);
- `CoverInv`: every pointer of every closure is to the storage of a name which the set that rides on it contains (`Covered`), through
  references and through carriers (`Through`); resources disposed of are consumed names' (`Disposed`), and each is owned at most once (`Owned`).

The last two are for bodies without any of the five shapes, as in the run `walks`. `IntactFollows` then says that the storages whose closures the sets
cover are closed under calling, so whatever can be called is among them, and that a conflict between its pointers and a live
reference would be one between two alive names.

**`CallGraphProofs`**: of `TailCycles`, `NoFalseRejection` and `NoCircleAccepted`, for every finite set of words and names,
from the lemmas of `CycleSearchProofs` and from the fact that an edge of the graph is a call whose name has one meaning. Of `DropGraph`,
`RefusedRightly` for every module, and `NoReentry` for those whose bodies call no overloaded helper and whose generic helpers drop nothing, the two shapes section 3
shows. What the descent collects is closed under fields after as many turns as there are types (`CollectionEnds`, by counting), so the
graph has an edge wherever one word runs another (`ReachesAllThatRuns`); the search leaves behind only words whose
successors are marked (`Passed`), so from an accepted destructor's successors no chain of active words leads back (`NeverBack`).

Of `LoopSplice`, `CapturedOnce` and `ArmsRunOnce`, for bodies of any length and any number of turns, without a `LoopingArm`. The one hypothesis is the
shape of `loop_splice_arms`: so of the bodies the model has, the comment on arms is wrong for those alone. `SpliceInv` has two ways a run can be. A body that loops calls
no literal in tail position, so R12 made every literal keep the local, and nothing ever happens to it (`Looping`). A body that does not loop may have arms; as the
check ended with the local either live or moved, and no walk comes back from "maybe" (`DoomStays`), either path through the branch
ends in that state (`EitherPath`), and the walk of what is still to run, from the state the local is really in, ends there too (`Straight`). A line is walked from its first term
on (`WalkFirst`) and in parts (`WalkConcat`).

Left to TLC: liveness; `Exact` and `BoundsHold` as they stand (see above); `SpliceCounters` and
`LoopBuilder` (what a fold over an agenda or a list of slots computes for every input needs an induction over data);
`Destructors`, whose search over type declarations is a RECURSIVE operator, and `NarrowIntegers`, which
takes `Bitwise`. The induction theorems of the library
cannot be used, as they take an operator; an induction over numbers is done where it is needed from the
well-foundedness of their order (`LeastOfNaturals`).

## 5. The plan

Next, in order of what matters most to a user of the compiler:

1. References across a back-edge (`check.rs` 1707) in `BorrowWalk`: a further term, with lemmas of the same two kinds.
2. Unification and overload choice (`check/poly/unify.rs`, `overload.rs`, `check/builtins.rs` 94-120): pure
   algorithms against a reference definition.
3. Cycles through several always-spliced words (`combinators.rs` 173), the test protocol of `driver/toolchain.rs`.

## 6. What is not modelled

Lexing and parsing, diagnostics and their wording, the text of the QBE output, process
spawning, the library programs and the editor grammar: they are input and
output of the parts above, and have no state across operations. Of the 95 000 lines of `src/src/`
about half are unit tests written inside the files, and much of the other half is parsing and
the composition of error messages; the modules model a tenth of all the lines.

Within the modelled parts: the arity check at the end of `check_selective_imports`; how path and module
segments are spelled, and symbolic links (`Closure`: a file is its canonical path); closures,
enum payloads and back-edges in `BorrowWalk`; slices, arrays and cells, a closure in a resource, back-edges and the store that follows a join in `Captures`; arrays and slices, whose
elements borrow as a field does; the variant an eliminator narrows to in `LinearWalk`; references into Copy aggregates that are
mutated through a copy, statics and projections out of references in `PolyWalk`; words with several type variables
in `Instances`; overloaded helpers in the passing part of `DropGraph`; floats, a literal handed to a word as an ordinary argument (the word has its declared type, the register the same bits), the remainder by zero and the quotient of the
least integer and -1 at a word or a long in `NarrowIntegers`.
