------------------------------ MODULE Origins ------------------------------
(* What one name means across the modules of a closure: the selective maps   *)
(* and the type origins of driver.rs, the check of selective imports         *)
(* (check/declarations.rs), the export origins of resolve.rs, and the two    *)
(* places a program refers to the name from, a term and a type position.     *)
(*                                                                           *)
(* The tables are keyed by name and no step relates two names, so there is   *)
(* one.  Closure discovery has rejected import cycles: modules are numbered  *)
(* so that a module imports only later ones.  No step depends on that order  *)
(* but the walks, which never meet a module twice.                           *)
EXTENDS Naturals, FiniteSets

CONSTANTS
  M,          \* how many modules the closure has
  Kinds,      \* bound: the kinds of import that occur
  Decls,      \* bound: what a module may declare under the name
  Shapes,     \* the shapes of closure below that may occur
  Nowhere

Modules == 1..M

ASSUME OriginsAssumption ==
  /\ M \in Nat \ {0} /\ Nowhere \notin Modules
  /\ Decls \subseteq {"nothing", "word", "type"}

Pairs == {p \in Modules \X Modules : p[1] < p[2]}

VARIABLES
  imports,    \* imports[<<m, t>>]: how m imports the later module t
  declares, exports,
  own,        \* whether m's own lines admit the name as an intrinsic; no module's do
              \* when `is_name_dispatched_builtin` does not hold of it
  selective,  \* m's selective map: where the name is imported from, last line last
  pass, module,   \* the pass, and the module it is at
  typeOrigin, immediate, at, origin   \* the tables; `at` is where a walk has got to

closure == <<imports, declares, exports, own, selective>>
names == <<closure, pass, module, typeOrigin, immediate, at, origin>>
-----------------------------------------------------------------------------
(* assemble_module: the maps.                                                *)

How(m, t) == IF m < t THEN imports[<<m, t>>] ELSE "no"

\* A wildcard is desugared to an entry for every name the target exports.
Entries(m) ==
  {t \in Modules : How(m, t) = "selective" \/ (How(m, t) = "wildcard" /\ exports[t])}
Qualified(m) == {t \in Modules : How(m, t) \in {"qualified", "selective"}}

\* effective_intrinsics: own admission, or an entry from a module that admits.
Effective[m \in Modules] ==
  own[m] \/ \E t \in Entries(m) : Effective[t]

\* walk_type_export_origin: where the walk from m may end.  Of several
\* qualified imports that declare the type, `find` takes any.
TypeEndsScanning[m \in Modules] ==   \* mutant: qualified imports before the selective map
  IF declares[m] = "type" THEN {m}
  ELSE LET found == {t \in Qualified(m) : declares[t] = "type"}
       IN IF found # {} THEN found ELSE IF selective[m] # Nowhere THEN TypeEndsScanning[selective[m]] ELSE {Nowhere}
TypeEndsWalking[m \in Modules] ==
  IF declares[m] = "type" THEN {m}
  ELSE IF selective[m] # Nowhere THEN TypeEndsWalking[selective[m]]
  ELSE LET found == {t \in Qualified(m) : declares[t] = "type"}
       IN IF found = {} THEN {Nowhere} ELSE found
TypeEndsOfScan(m) == TypeEndsScanning[m]   \* mutant
TypeEnds(m) == TypeEndsWalking[m]

Goto(next) == IF module < M THEN module' = module + 1 /\ pass' = pass ELSE module' = 1 /\ pass' = next
RefuseNames == pass' = "refused" /\ module' = module

\* resolve_type_export_origins, for one module.
TypeOrigin ==
  /\ pass = "typeOrigins"
  /\ \E end \in TypeEnds(module) :
       typeOrigin' = [typeOrigin EXCEPT ![module] =
         IF exports[module] /\ declares[module] # "type" THEN end ELSE Nowhere]
  /\ Goto("selectives")
  /\ UNCHANGED <<closure, immediate, at, origin>>
-----------------------------------------------------------------------------
(* check_selective_imports.                                                  *)

\* An entry for an intrinsic its source admits binds no word.
ExemptThoughDeclared(t) == Effective[t] /\ selective[t] = Nowhere   \* mutant
Exempt(t) == Effective[t] /\ declares[t] = "nothing" /\ selective[t] = Nowhere

SelectionHoldsDeclared(m, t) ==   \* mutant: declared, not exported
  (exports[t] \/ declares[t] # "nothing") /\ (~Exempt(t) => declares[m] = "nothing")
SelectionHolds(m, t) == exports[t] /\ (~Exempt(t) => declares[m] = "nothing")

OneWordSelected(m) == Cardinality({t \in Modules : How(m, t) = "selective" /\ ~Exempt(t)}) <= 1   \* mutant
OneWord(m) == Cardinality({t \in Entries(m) : ~Exempt(t)}) <= 1

CheckSelective ==
  /\ pass = "selectives"
  /\ LET holds == /\ \A t \in Entries(module) : SelectionHolds(module, t)
                  /\ OneWord(module)
     IN IF holds THEN Goto("immediates") ELSE RefuseNames
  /\ UNCHANGED <<closure, typeOrigin, immediate, at, origin>>
-----------------------------------------------------------------------------
(* resolve_export_origins.                                                   *)

\* The modules the scan of qualified imports finds.
Scanned(m) == {t \in Qualified(m) : declares[t] # "nothing"}
Source(m) ==
  IF declares[m] # "nothing" THEN m
  ELSE IF selective[m] # Nowhere THEN selective[m]
  ELSE IF Effective[m] THEN m
  ELSE IF Cardinality(Scanned(m)) = 1 THEN CHOOSE t \in Scanned(m) : TRUE
  ELSE Nowhere   \* nothing declares it, or more than one module does

Immediate ==
  /\ pass = "immediates"
  /\ IF ~exports[module] THEN Goto("walks") /\ UNCHANGED <<immediate, at>>
     ELSE IF Source(module) = Nowhere THEN RefuseNames /\ UNCHANGED <<immediate, at>>
     ELSE Goto("walks") /\ immediate' = [immediate EXCEPT ![module] = Source(module)] /\ UNCHANGED at
  /\ UNCHANGED <<closure, typeOrigin, origin>>

\* walk_to_origin: a hop, or the end of the chain.
HopsOnce == at = Nowhere /\ exports[module] /\ immediate[module] # module   \* mutant: one hop only
Hops == LET here == IF at = Nowhere THEN module ELSE at
        IN exports[module] /\ immediate[here] \notin {Nowhere, here}
Walk ==
  /\ pass = "walks"
  /\ LET here == IF at = Nowhere THEN module ELSE at IN
     IF Hops THEN at' = immediate[here] /\ UNCHANGED <<origin, module, pass>>
     ELSE /\ at' = Nowhere
          /\ origin' = [origin EXCEPT ![module] = IF exports[module] THEN here ELSE Nowhere]
          /\ Goto("accepted")
  /\ UNCHANGED <<closure, typeOrigin, immediate>>
-----------------------------------------------------------------------------
(* References.  `t` is a module another one imports.                         *)

\* Visibility::origin
Elsewhere(t) == IF origin[t] = t THEN Nowhere ELSE origin[t]

\* NameTables::rewrite: the module a reference through t is mangled against,
\* as a term of the given sort (a word's name; a type's name, as in `T>`).
Rewritten(t, sort) ==
  IF declares[t] = sort THEN t
  ELSE IF Elsewhere(t) # Nowhere /\ declares[Elsewhere(t)] = sort THEN Elsewhere(t)
  ELSE Nowhere

\* resolve_type_name_in_module: the module whose type a signature means.
ResolvedType(t) ==
  IF declares[t] = "type" THEN t
  ELSE IF typeOrigin[t] # Nowhere /\ declares[typeOrigin[t]] = "type" THEN typeOrigin[t]
  ELSE Nowhere
-----------------------------------------------------------------------------
(* Shapes of closure that break the properties:                              *)
(*   privateScan    a module re-exports a name a qualified import of it      *)
(*                  declares and does not export                             *)
(*   typeUnderWord  a module that declares a word of the name, or admits it  *)
(*                  as an intrinsic, reaches a type of the name              *)
(*   exemptBeside   a module imports the name both as an intrinsic and as a  *)
(*                  word                                                     *)
Has(shape) == shape \in Shapes

Selections == {s \in [Modules -> Modules \cup {Nowhere}] : \A m \in Modules : s[m] = Nowhere \/ s[m] > m}

NamesInit ==
  /\ imports \in [Pairs -> Kinds] /\ exports \in [Modules -> BOOLEAN]
  /\ selective \in Selections
  /\ \A m \in Modules : IF Entries(m) = {} THEN selective[m] = Nowhere ELSE selective[m] \in Entries(m)
  /\ declares \in [Modules -> Decls]
  /\ own \in [Modules -> BOOLEAN]
  /\ Has("privateScan") \/ \A m \in Modules :
       exports[m] /\ declares[m] = "nothing" /\ selective[m] = Nowhere => \A t \in Scanned(m) : exports[t]
  /\ Has("typeUnderWord") \/ \A m \in Modules :
       declares[m] = "word" \/ (declares[m] = "nothing" /\ Effective[m]) => TypeEnds(m) = {Nowhere}
  /\ Has("exemptBeside") \/ \A m \in Modules : \A t, u \in Entries(m) : Exempt(t) => Exempt(u)
  /\ pass = "typeOrigins" /\ module = 1
  /\ typeOrigin = [m \in Modules |-> Nowhere] /\ immediate = typeOrigin /\ origin = typeOrigin
  /\ at = Nowhere

NamesNext == TypeOrigin \/ CheckSelective \/ Immediate \/ Walk
NamesSpec == NamesInit /\ [][NamesNext]_names
-----------------------------------------------------------------------------
NamesTypeOK ==
  /\ pass \in {"typeOrigins", "selectives", "immediates", "walks", "accepted", "refused"}
  /\ module \in Modules /\ at \in Modules \cup {Nowhere}
  /\ \A table \in {selective, typeOrigin, immediate, origin} : table \in [Modules -> Modules \cup {Nowhere}]

NamesAccepted == pass = "accepted"

\* Every name an accepted module exports comes from a module that declares it,
\* or that admits the intrinsic: no reference through an export dangles.
OriginDeclares ==
  NamesAccepted => \A m \in Modules : exports[m] =>
    declares[origin[m]] # "nothing" \/ Effective[origin[m]]

\* A re-export is export-gated: what a module re-exports, the module that
\* declares it exports too.  Nothing private leaves a module through a hub.
ReExportGated ==
  NamesAccepted => \A m \in Modules :
    exports[m] /\ origin[m] # m /\ declares[origin[m]] # "nothing" => exports[origin[m]]

\* A type named through a module means the same declaration in a signature,
\* which is resolved early, as in the terms, which are rewritten late; and so
\* nothing depends on which of several imports the early walk met first.
TypeAndTermAgree ==
  NamesAccepted => \A t \in Modules : exports[t] => ResolvedType(t) = Rewritten(t, "type")

\* The entries of one module for one name bind one word at most: what the bare
\* name means does not depend on the order of the import lines.
OneMeaning ==
  NamesAccepted => \A m \in Modules :
    LET meaning(t) == <<Rewritten(t, "type"), Rewritten(t, "word")>>
    IN \A t, u \in Entries(m) : meaning(t) = meaning(u)
=============================================================================
