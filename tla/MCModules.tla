----------------------------- MODULE MCModules -----------------------------
(* What a program consists of, in three parts: small trees of files and      *)
(* packages (Closure), every small closure of modules and the names they     *)
(* import (Origins), and the instances of its generic words (Instances).  A  *)
(* package's name is the name of its directory unless its manifest says      *)
(* otherwise.                                                                *)
EXTENDS Closure, Origins, Instances

CONSTANT
  Parts   \* the parts this run looks at
VARIABLE
  part

Line0 == [kind |-> "intrinsics", name |-> "", file |-> None]
PathLine(f) == [kind |-> "path", name |-> "", file |-> f]
SelfLine(f) == [kind |-> "self", name |-> "", file |-> f]
DepLine(p, f) == [kind |-> "dep", name |-> p, file |-> f]
Entry0(p) == [name |-> p, to |-> p]
UpTo(n, S) == UNION {[1..m -> S] : m \in 0..n}

\* "a1", "b1" and "c1" are the modules of the packages, "A" with "C" nested in
\* it, and "B"; "u1" and "u2" are outside.
MCFiles == {"u1", "u2", "a1", "b1", "c1"}
MCPkgs == {"A", "B", "C"}
PkgOf == [f \in MCFiles |-> CASE f = "a1" -> "A" [] f = "b1" -> "B" [] f = "c1" -> "C" [] OTHER -> None]

\* Files of no package, that import by path: any graph of three files.
LooseFiles == {"a1", "b1", "c1"}
Loose ==
  [entry |-> "a1", owner |-> [f \in MCFiles |-> None], override |-> None, user |-> None,
   texts |-> UpTo(2, {PathLine(f) : f \in LooseFiles}) \cup {<<l>> : l \in {Line0, PathLine(None), SelfLine("b1")}},
   manifests |-> {}]

\* Files of packages: a file imports within its package, from a dependency,
\* or a file that the nested package owns.
Tree ==
  [entry |-> "a1", owner |-> PkgOf, override |-> None, user |-> None,
   texts |-> UpTo(1, {SelfLine("a1"), SelfLine("c1"), DepLine("B", "b1"), DepLine("B", "c1"), DepLine("A", "a1"),
                      PathLine("a1")}),
   manifests |-> [name : {"A", "B"}, layer : {0, 1}, public : {{}, LooseFiles},
                  depends : {<<>>, <<Entry0("A")>>, <<Entry0("B")>>, <<[name |-> "B", to |-> "C"]>>}]]

\* An entry file outside every package: the user-level manifest or the flag
\* gives it its dependencies.
OutsideTexts == UpTo(1, {PathLine("u2"), SelfLine("u2"), DepLine("A", "a1"), DepLine("B", "b1")})
                \cup {<<DepLine("A", "a1"), DepLine("B", "b1")>>}
OutsideManifests ==
  [name : {"A", "B"}, layer : {0}, public : {{"a1", "b1"}, {}}, depends : {<<>>, <<Entry0("A")>>, <<Entry0("B")>>}]
User ==
  [entry |-> "u1", owner |-> PkgOf, override |-> None,
   user |-> <<Entry0("A"), [name |-> "B", to |-> "B"], [name |-> "B", to |-> None]>>,
   texts |-> OutsideTexts, manifests |-> OutsideManifests]
Flag == [User EXCEPT !.override = "A", !.user = None]

MCTrees == [name \in {"loose", "tree", "user", "flag"} |->
  CASE name = "loose" -> Loose [] name = "tree" -> Tree [] name = "user" -> User [] OTHER -> Flag]
-----------------------------------------------------------------------------
\* Two generic words, one of which may be inline, over one type and its boxes:
\* w called at the base type, v at a box.
Own == <<"var", 0>>
Built == <<"var", 1>>
Base == <<"a", 0>>
Boxed == <<"a", 1>>
Mains == {<<"w", Base>>, <<"v", Boxed>>}
GenericCalls ==
  {<<"w", "v", s>> : s \in {Own, Built, Base, Boxed}} \cup {<<"v", "w", s>> : s \in {Own, Built, Boxed}}
  \cup {"box", "opt"} \X {"w", "v"} \X {Own} \cup {<<"any", "v", Own>>}
Registries == {{"a", "box"}, {"box"}, {"box", "any"}}

GenericWords == {"w", "v"}
-----------------------------------------------------------------------------
NamesIdle == /\ imports = <<>> /\ declares = <<>> /\ exports = <<>> /\ own = <<>> /\ selective = <<>>
             /\ pass = "refused" /\ module = 1 /\ typeOrigin = <<>> /\ immediate = <<>> /\ at = Nowhere /\ origin = <<>>
ClosureIdle == /\ tree = "loose" /\ nodes = <<>> /\ lines = <<>> /\ targets = <<>> /\ i = 1
               /\ site = [origin |-> "none", pkg |-> None] /\ manifests = [p \in Pkgs |-> Unread]
               /\ unresolved = {} /\ pending = {} /\ audited = {} /\ auditing = None /\ j = 1
               /\ phase = "refused" /\ AtRest
InstancesIdle ==
  /\ calls = <<>> /\ bounded = {} /\ obliges = {} /\ arrow = <<>> /\ inline = {} /\ impls = {} /\ main = {}
  /\ stage = "done" /\ asked = {} /\ work = {} /\ insts = {} /\ splices = {} /\ monos = {}
  /\ seen = {} /\ frontier = {} /\ next = {} /\ discovered = {} /\ transitive = {}

IdleBut(p) ==
  /\ p # "closure" => ClosureIdle
  /\ p # "names" => NamesIdle
  /\ p # "instances" => InstancesIdle
MCInit == /\ part \in Parts
          /\ \/ part = "closure" /\ Init
             \/ part = "names" /\ NamesInit
             \/ part = "instances" /\ InstancesInit
          /\ IdleBut(part)
MCNext == /\ UNCHANGED part
          /\ \/ part = "closure" /\ Next /\ UNCHANGED <<names, discovery>>
             \/ part = "names" /\ NamesNext /\ UNCHANGED <<vars, discovery>>
             \/ part = "instances" /\ InstancesNext /\ UNCHANGED <<vars, names>>
MCSpec == MCInit /\ [][MCNext]_<<part, vars, names, discovery>> /\ WF_<<part, vars, names, discovery>>(MCNext)

\* The build is decided: neither the walk over files that import each other,
\* nor the audit of packages that depend on each other, nor the work list of
\* instances goes on for ever.
AllSettles == <>(Settled /\ WorkListEmpty)
=============================================================================
