---------------------------- MODULE Destructors ----------------------------
(* The destructors the compiler writes (ir/destructors.rs, and what emits    *)
(* their code in ir/func_builder/word_families.rs): the glue that disposes   *)
(* of one level of a value, and for a type that contains itself behind a     *)
(* cell the fused loop that walks one route back to the type in place of a   *)
(* recursion.  The module runs the code on values of the type.               *)
(*                                                                           *)
(* A value is a tree; a node of it is the sequence of fields that leads to   *)
(* it, the payload of a cell being its field 1.  Which variant a node is     *)
(* comes up when its tag is first read.  What has to be disposed of exactly  *)
(* once are the cells and the structs with a destructor of the user's own.   *)
EXTENDS Naturals, Sequences, FiniteSets, FiniteSetsExt

CONSTANTS
  Decls,    \* the type declarations considered: each maps the names of its
            \* types to records [kind, own, variants]; see MCLowering
  MaxNode   \* bound: from this depth a value has only its first variant

VARIABLES
  decl,
  frames,   \* the destructors that are active, the first called first
  mem,      \* frame slot -> the node whose bytes are in it
  variant,  \* node -> the variant it is, once read
  alive,    \* the nodes still to be disposed of, as far as they are known
  fault     \* a cell was used after it was freed, or a slot after it was reused

disposalVars == <<decl, frames, mem, variant, alive, fault>>

Kind(t) == decl[t].kind
Fields(t, v) == decl[t].variants[v]
Payload(t) == decl[t].variants[1][1]
Linear(t) == Kind(t) # "plain"
-----------------------------------------------------------------------------
(* The route round.  A search answers with at most one path; a step is a     *)
(* field of the level it is at, taken in place or through its cell, field 0  *)
(* the cell that the value itself is, or a branch on the variant.            *)

Step(op, field) == <<[op |-> op, field |-> field, arms |-> <<>>]>>
After(step, paths) == {step \o p : p \in paths}

RECURSIVE ExpandPath(_, _, _), ExpandLast(_, _, _)
FindPath(t, target, seen) ==
  CASE t = target -> {<<>>}
    [] t # target /\ t \in seen -> {}
    [] OTHER -> ExpandPath(t, target, seen \cup {t})

Through(fields, f, target, seen) ==
  CASE Kind(fields[f]) = "cell" ->
         After(Step("unwrap", f), FindPath(Payload(fields[f]), target, seen))
    [] Kind(fields[f]) \in {"struct", "enum"} ->
         After(Step("project", f), FindPath(fields[f], target, seen))
    [] OTHER -> {}

ExpandLast(fields, target, seen) ==   \* mutant: no second field is tried
  IF fields = <<>> THEN {} ELSE Through(fields, Len(fields), target, seen)
ExpandFields(fields, target, seen) ==
  LET direct == {f \in DOMAIN fields : Kind(fields[f]) = "cell" /\ Payload(fields[f]) = target}
      leading == {f \in DOMAIN fields : Through(fields, f, target, seen) # {}}
  IN CASE direct # {} -> {Step("unwrap", Max(direct))}
       [] direct = {} /\ leading # {} -> Through(fields, Max(leading), target, seen)
       [] OTHER -> {}

OpaqueNever(t, target) == FALSE   \* mutant: the route leads through a destructor of the user's own
Opaque(t, target) == t # target /\ decl[t].own

ExpandPath(t, target, seen) ==
  CASE Kind(t) = "struct" -> IF Opaque(t, target) THEN {} ELSE ExpandFields(Fields(t, 1), target, seen)
    [] Kind(t) = "enum" ->
         LET arms == [v \in DOMAIN decl[t].variants |-> ExpandFields(Fields(t, v), target, seen)]
         IN IF \A v \in DOMAIN arms : arms[v] = {} THEN {}
            ELSE {<<[op |-> "branch", field |-> 0, arms |-> arms]>>}
    [] Kind(t) = "cell" -> After(Step("unwrap", 0), FindPath(Payload(t), target, seen))
    [] OTHER -> {}

RecursiveDisposalPath(t) == ExpandPath(t, t, {t})
-----------------------------------------------------------------------------
(* Values and memory.  A place holds a value: a cell is in a register, an    *)
(* aggregate is in a slot, at the projections `proj` from its start.  `node` *)
(* is the node the emitted code means.                                       *)

RECURSIVE Resources(_, _)
Resources(n, t) ==
  CASE Kind(t) \in {"enum", "plain"} -> {}
    [] OTHER -> (IF Kind(t) = "cell" \/ decl[t].own THEN {n} ELSE {})
                \cup UNION {Resources(Append(n, f), Fields(t, 1)[f]) : f \in DOMAIN Fields(t, 1)}

Register(n) == [addr |-> <<>>, proj |-> <<>>, node |-> n]
InSlot(a, n) == [addr |-> a, proj |-> <<>>, node |-> n]
NodeIn(p) == IF p.addr = <<>> THEN p.node ELSE mem[p.addr] \o p.proj
Stale(p) == NodeIn(p) # p.node

\* slot_value: a cell is loaded now, an aggregate is pointed into
SlotValue(p, f, t) ==
  IF Kind(t) = "cell" THEN Register(Append(NodeIn(p), f))
  ELSE [p EXCEPT !.proj = Append(@, f), !.node = Append(@, f)]
ReadsSlot(p, t) == Kind(t) = "cell" /\ Stale(p)

Frame == frames[Len(frames)]
Put(f) == SubSeq(frames, 1, Len(frames) - 1) \o <<f>>
Enter(t, p) == [type |-> t, cur |-> p, pc |-> "enter", fields |-> <<>>, rest |-> {}, steps |-> {}, trail |-> <<>>]

\* the slot of an unwrap belongs to its place in the code, not to the iteration
Site == <<Len(frames), Frame.trail>>

\* load_owned_payload and the free behind it
Unwrapped(c, t) ==
  IF Kind(Payload(t)) \in {"cell", "plain"} THEN Register(Append(c, 1)) ELSE InSlot(Site, Append(c, 1))
Free(c, t) ==
  /\ mem' = IF Kind(Payload(t)) \in {"cell", "plain"} THEN mem
            ELSE [a \in DOMAIN mem \cup {Site} |-> IF a = Site THEN Append(c, 1) ELSE mem[a]]
  /\ alive' = alive \ {c}

\* drop_level_fields: the linear fields but the one the route goes on by
LevelAll(p, fields, steps, trail) ==   \* mutant: that one too
  [Frame EXCEPT !.cur = p, !.pc = "level", !.fields = fields, !.steps = steps, !.trail = trail,
                !.rest = {f \in DOMAIN fields : Linear(fields[f])}]
Level(p, fields, steps, trail) ==
  [Frame EXCEPT !.cur = p, !.pc = "level", !.fields = fields, !.steps = steps, !.trail = trail,
                !.rest = {f \in DOMAIN fields : Linear(fields[f]) /\ \A s \in steps : f # s[1].field}]
-----------------------------------------------------------------------------
(* The code of the four kinds of destructor.                                 *)

At(pc) == frames # <<>> /\ Frame.pc = pc
EnterA(kind) == At("enter") /\ Kind(Frame.type) = kind

DisposeCell ==
  /\ EnterA("cell")
  /\ LET c == Frame.cur.node
         inner == Payload(Frame.type)
         done == Put([Frame EXCEPT !.pc = "leave"])
     IN /\ Free(c, Frame.type)
        /\ frames' = IF Linear(inner) THEN Append(done, Enter(inner, Unwrapped(c, Frame.type))) ELSE done
        /\ fault' = (fault \/ c \notin alive)
  /\ UNCHANGED <<decl, variant>>

\* a constant number of turns, each of which drops an element
DisposeArray ==
  /\ EnterA("array")
  /\ frames' = Put(Level(Frame.cur, Fields(Frame.type, 1), {}, <<>>))
  /\ UNCHANGED <<decl, mem, variant, alive, fault>>

\* the destructor of the user's own runs; its body has to consume the fields
DisposeOwn ==
  /\ EnterA("struct") /\ decl[Frame.type].own
  /\ frames' = Put(Level(Frame.cur, Fields(Frame.type, 1), {}, <<>>))
  /\ alive' = alive \ {NodeIn(Frame.cur)}
  /\ fault' = (fault \/ NodeIn(Frame.cur) \notin alive)
  /\ UNCHANGED <<decl, mem, variant>>

DisposeStruct ==
  /\ EnterA("struct") /\ ~decl[Frame.type].own
  /\ frames' = Put(Level(Frame.cur, Fields(Frame.type, 1), RecursiveDisposalPath(Frame.type), <<>>))
  /\ UNCHANGED <<decl, mem, variant, alive, fault>>

\* dispatch_on_tag of the value in p, of type t, and the arm of each variant
Variants(n, t) ==
  CASE n \in DOMAIN variant -> {variant[n]}
    [] n \notin DOMAIN variant /\ Len(n) >= MaxNode -> {1}
    [] OTHER -> DOMAIN decl[t].variants
Dispatch(p, t, arms, trail) == LET n == NodeIn(p) IN \E v \in Variants(n, t) :
  /\ frames' = Put(Level(p, Fields(t, v), arms[v], Append(trail, v)))
  /\ IF n \in DOMAIN variant THEN UNCHANGED <<variant, alive>>
     ELSE /\ variant' = [m \in DOMAIN variant \cup {n} |-> IF m = n THEN v ELSE variant[m]]
          /\ alive' = alive \cup UNION {Resources(Append(n, f), Fields(t, v)[f]) : f \in DOMAIN Fields(t, v)}
  /\ fault' = (fault \/ Stale(p))
  /\ UNCHANGED <<decl, mem>>

DisposeEnum ==
  /\ EnterA("enum")
  /\ LET path == RecursiveDisposalPath(Frame.type)
         none == [v \in DOMAIN decl[Frame.type].variants |-> {}]
     IN Dispatch(Frame.cur, Frame.type, IF path = {} THEN none ELSE (CHOOSE p \in path : TRUE)[1].arms, <<>>)

DropField ==
  /\ At("level") /\ Frame.rest # {}
  /\ LET f == Min(Frame.rest)
         t == Frame.fields[f]
     IN /\ frames' = Append(Put([Frame EXCEPT !.rest = @ \ {f}]), Enter(t, SlotValue(Frame.cur, f, t)))
        /\ fault' = (fault \/ ReadsSlot(Frame.cur, t))
  /\ UNCHANGED <<decl, mem, variant, alive>>

\* emit_field_level, past the siblings: in place, or through the cell
GoOn ==
  /\ At("level") /\ Frame.rest = {} /\ Frame.steps # {}
  /\ LET path == CHOOSE p \in Frame.steps : TRUE
         f == path[1].field
         t == Frame.fields[f]
         here == SlotValue(Frame.cur, f, t)
         unwrap == path[1].op = "unwrap"
         trail == Append(Frame.trail, f)
         next == IF unwrap THEN Unwrapped(here.node, t) ELSE here
     IN /\ frames' = Put([Frame EXCEPT !.pc = "walk", !.steps = {Tail(path)}, !.trail = trail, !.cur = next,
                                       !.fields = <<IF unwrap THEN Payload(t) ELSE t>>])
        /\ IF unwrap THEN Free(here.node, t) ELSE UNCHANGED <<mem, alive>>
        /\ fault' = (fault \/ ReadsSlot(Frame.cur, t) \/ (unwrap /\ here.node \notin alive))
  /\ UNCHANGED <<decl, variant>>

\* emit_path_steps: what comes next on the route, from a value of type Here
Here == Frame.fields[1]

BackEdge ==
  /\ At("walk") /\ Frame.steps = {<<>>}
  /\ frames' = Put(Enter(Frame.type, Frame.cur))
  /\ UNCHANGED <<decl, mem, variant, alive, fault>>

UnwrapAgain == \E path \in Frame.steps :
  /\ path # <<>> /\ path[1].op = "unwrap" /\ path[1].field = 0
  /\ frames' = Put([Frame EXCEPT !.steps = {Tail(path)}, !.trail = Append(@, 0),
                                 !.cur = Unwrapped(Frame.cur.node, Here), !.fields = <<Payload(Here)>>])
  /\ Free(Frame.cur.node, Here)
  /\ fault' = (fault \/ Frame.cur.node \notin alive)
  /\ UNCHANGED <<decl, variant>>

BranchOn == \E path \in Frame.steps :
  path # <<>> /\ path[1].op = "branch" /\ Dispatch(Frame.cur, Here, path[1].arms, Frame.trail)

NextLevel == \E path \in Frame.steps :
  /\ path # <<>> /\ path[1].field # 0
  /\ frames' = Put(Level(Frame.cur, Fields(Here, 1), Frame.steps, Frame.trail))
  /\ UNCHANGED <<decl, mem, variant, alive, fault>>

Return ==
  /\ At("leave") \/ (At("level") /\ Frame.rest = {} /\ Frame.steps = {})
  /\ frames' = SubSeq(frames, 1, Len(frames) - 1)
  /\ UNCHANGED <<decl, mem, variant, alive, fault>>
-----------------------------------------------------------------------------
\* emit_drop of a value that is in the caller's frame
DisposalInit ==
  /\ decl \in Decls
  /\ \E t \in {u \in DOMAIN decl : Linear(u)} :
       /\ frames = <<Enter(t, IF Kind(t) = "cell" THEN Register(<<>>) ELSE InSlot(<<0, <<>>>>, <<>>))>>
       /\ alive = Resources(<<>>, t)
  /\ mem = [a \in {<<0, <<>>>>} |-> <<>>]
  /\ variant = [n \in {} |-> 0]
  /\ fault = FALSE

DisposalNext ==
  \/ DisposeCell \/ DisposeArray \/ DisposeOwn \/ DisposeStruct \/ DisposeEnum
  \/ DropField \/ GoOn
  \/ BackEdge \/ (At("walk") /\ (UnwrapAgain \/ BranchOn \/ NextLevel))
  \/ Return
-----------------------------------------------------------------------------
\* Every cell of a value is freed and every destructor of the user's own runs
\* exactly once, whatever the shape of the type; and no code reads a cell it
\* has freed, or a slot the fused loop has filled with the next value
\* (emit_unwrap: "every read of data held in the payload's frame slot must
\* already be emitted").
DisposedExactlyOnce == ~fault /\ (frames = <<>> => alive = {})

(* The routes from a type back to itself.                                    *)
Edges(t) == UNION {{Fields(t, v)[f] : f \in DOMAIN Fields(t, v)} : v \in DOMAIN decl[t].variants}
RECURSIVE Closed(_)
Closed(ts) == LET more == ts \cup UNION {Edges(t) : t \in ts} IN IF more = ts THEN ts ELSE Closed(more)
LeadsTo(s, t) == t \in Closed({s})
OnCycle(t) == \E u \in Edges(t) : LeadsTo(u, t)

\* what the comments grant recursion to: a node with two children of its own
\* type, and a type of the user's own destructor on the way round
Forks == \E t \in DOMAIN decl :
  \/ OnCycle(t) /\ decl[t].own
  \/ \E v \in DOMAIN decl[t].variants :
       Cardinality({f \in DOMAIN Fields(t, v) : LeadsTo(Fields(t, v)[f], t)}) > 1

\* A value of a recursive type without forks is disposed of in constant stack,
\* however long it is and however long its route back to the type: no
\* destructor is active twice (synthesize_enum_destructor).
ConstantStack == ~Forks => \A i, j \in DOMAIN frames : frames[i].type = frames[j].type => i = j
=============================================================================
