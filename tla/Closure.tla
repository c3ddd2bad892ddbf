------------------------------ MODULE Closure ------------------------------
(* The import closure of a program: discovery from the entry file            *)
(* (driver.rs), the resolution of each import through the manifests          *)
(* (packages.rs), the search for an import cycle (CycleSearch) and the       *)
(* audit of the package graph.                                               *)
(*                                                                           *)
(* The contents of a file and of a manifest are chosen when it is read: a    *)
(* source file is read once, and a manifest once, through the cache.  What   *)
(* a name spells is an input: an import says which file is where its         *)
(* spelling leads, and a `depends:` entry which package.                     *)
EXTENDS CycleSearch

CONSTANTS
  Files, Pkgs,  \* the files, and the directories that hold a sooth.pkg
  Trees,        \* the builds considered: a function from their names
  None, Unread

ImportLines == [kind : {"intrinsics", "path", "self", "dep"}, name : STRING, file : Files \cup {None}]
DependsEntries == [name : STRING, to : Pkgs \cup {None}]

ASSUME ClosureAssumption ==
  /\ SkipSelf = FALSE
  /\ None \notin Files \cup Pkgs /\ None \notin Nat
  /\ \A name \in DOMAIN Trees : LET t == Trees[name] IN
       /\ t.entry \in Files                                \* the file that is built
       /\ t.owner \in [Files -> Pkgs \cup {None}]           \* the nearest package above a file
       /\ t.override \in Pkgs \cup {None}                  \* the package of --manifest
       /\ t.user = None \/ t.user \in Seq(DependsEntries)   \* the user-level manifest
       /\ \A x \in t.texts : x \in Seq(ImportLines)         \* bound: what a file may import
       /\ Unread \notin t.manifests                        \* bound: what a manifest may say
       /\ \A m \in t.manifests :
            /\ m.name \in STRING /\ m.layer \in Nat /\ m.public \subseteq Files
            /\ m.depends \in Seq(DependsEntries)

VARIABLES
  tree,                   \* the build
  nodes, lines, targets,  \* the FileNodes: canon, imports, import_targets
  i, site,                \* the file the walk is at, and the manifest that resolves it
  manifests,              \* the ManifestCache
  unresolved,             \* the imports the audit will report, as <<file, line>>
  pending, audited,       \* the worklist of the audit, and all that was ever on it
  auditing, j,            \* the manifest it is at, and which entry of it
  phase                   \* "site", "imports", "search", "audit", "accepted", "refused"

walk == <<nodes, lines, targets, i, site, unresolved>>
audit == <<pending, audited, auditing, j>>
vars == <<tree, walk, manifests, audit, phase, searchVars>>

Entry == Trees[tree].entry
Owner == Trees[tree].owner
Override == Trees[tree].override
UserDepends == Trees[tree].user
Texts == Trees[tree].texts
Manifests == Trees[tree].manifests

Refuse == phase' = "refused" /\ UNCHANGED <<walk, audit, searchVars>>

\* ManifestCache::load: a manifest is parsed once.
Loads(p) ==
  IF manifests[p] # Unread THEN {manifests}
  ELSE {[manifests EXCEPT ![p] = m] : m \in Manifests}
LoadFails(p) == manifests[p] = Unread /\ UNCHANGED manifests /\ Refuse
-----------------------------------------------------------------------------
(* select_site: the flag for the entry file, the nearest ancestor, the       *)
(* user-level manifest, or nothing.                                          *)
SiteOf(f) ==
  IF f = Entry /\ Override # None THEN [origin |-> "flag", pkg |-> Override]
  ELSE IF Owner[f] # None THEN [origin |-> "ancestor", pkg |-> Owner[f]]
  ELSE IF UserDepends # None THEN [origin |-> "user", pkg |-> None]
  ELSE [origin |-> "none", pkg |-> None]
IsReal(s) == s.origin \in {"flag", "ancestor"}

SelectSite ==
  /\ phase = "site" /\ i <= Len(nodes)
  /\ LET s == SiteOf(nodes[i])
         here == /\ site' = s /\ targets' = Append(targets, <<>>) /\ phase' = "imports"
                 /\ UNCHANGED <<nodes, lines, i, unresolved, audit, searchVars>>
     IN IF IsReal(s)
        THEN (\E ms \in Loads(s.pkg) : manifests' = ms /\ here) \/ LoadFails(s.pkg)
        ELSE here /\ UNCHANGED manifests
-----------------------------------------------------------------------------
(* resolve_import, for the next line of the file.                            *)
AtImport(kind) == phase = "imports" /\ Len(targets[i]) < Len(lines[i])
                  /\ lines[i][Len(targets[i]) + 1].kind = kind
Import == lines[i][Len(targets[i]) + 1]
Push(target) == targets' = [targets EXCEPT ![i] = Append(@, target)]

\* The ids a file has; a file that has none gets the next.
IdsRead(f) == {n \in 1..i : nodes[n] = f}   \* mutant: only files the walk has come to
Ids(f) == {n \in 1..Len(nodes) : nodes[n] = f}

NextId == Len(nodes) + 1

Edge(f) ==
  \/ /\ Ids(f) # {}
     /\ Push(CHOOSE n \in Ids(f) : TRUE)
     /\ UNCHANGED <<nodes, lines, i, site, unresolved, audit, phase, searchVars>>
  \/ /\ Ids(f) = {}
     /\ \E text \in Texts : nodes' = Append(nodes, f) /\ lines' = Append(lines, text)
     /\ Push(NextId)
     /\ UNCHANGED <<i, site, unresolved, audit, phase, searchVars>>
  \/ Ids(f) = {} /\ Refuse   \* it cannot be read

NoEdge(recorded) ==
  /\ Push(None)
  /\ unresolved' = unresolved \cup recorded
  /\ UNCHANGED <<nodes, lines, i, site, audit, phase, searchVars>>
RecordedNowhere == {}   \* mutant
Recorded == {<<i, Len(targets[i]) + 1>>}

ImportIntrinsics == AtImport("intrinsics") /\ NoEdge({}) /\ UNCHANGED manifests

ImportPath ==
  /\ AtImport("path") /\ UNCHANGED manifests
  /\ IF site.origin = "ancestor" \/ Import.file = None THEN Refuse ELSE Edge(Import.file)

\* The package a file is found under must be the one that owns it.
Found(f, p) == f # None   \* mutant: no second look at the owner
Owned(f, p) == f # None /\ Owner[f] = p

ImportSelf ==
  /\ AtImport("self") /\ UNCHANGED manifests
  /\ IF site.origin = "ancestor" /\ Owned(Import.file, site.pkg) THEN Edge(Import.file) ELSE Refuse

Depends == IF IsReal(site) THEN manifests[site.pkg].depends
           ELSE IF site.origin = "user" THEN UserDepends ELSE <<>>
\* The `depends:` entries of a name, of which `find` takes the first.
Declared(name) == {e \in DOMAIN Depends : Depends[e].name = name}
First(name) == Depends[CHOOSE e \in Declared(name) : \A d \in Declared(name) : e <= d].to

PublicAnyway(f, m) == TRUE   \* mutant
Public(f, m) == f \in m.public

ImportUndeclared ==
  /\ AtImport("dep") /\ Declared(Import.name) = {} /\ UNCHANGED manifests
  /\ IF IsReal(site) THEN NoEdge(Recorded) ELSE Refuse

ImportDeclared ==
  /\ AtImport("dep") /\ Declared(Import.name) # {}
  /\ LET p == First(Import.name)
         f == Import.file
     IN IF p = None THEN Refuse /\ UNCHANGED manifests
        ELSE LoadFails(p) \/ \E ms \in Loads(p) :
               /\ manifests' = ms
               /\ IF f # None /\ ~Public(f, ms[p]) THEN NoEdge(Recorded)
                  ELSE IF Owned(f, p) THEN Edge(f) ELSE Refuse

EndFile ==
  /\ phase = "imports" /\ Len(targets[i]) = Len(lines[i])
  /\ i' = i + 1 /\ phase' = "site"
  /\ UNCHANGED <<nodes, lines, targets, site, unresolved, manifests, audit, searchVars>>
-----------------------------------------------------------------------------
(* reject_cycles.                                                            *)
Graph == [n \in 1..Len(nodes) |-> {targets[n][k] : k \in DOMAIN targets[n]} \ {None}]

BeginSearch ==
  /\ phase = "site" /\ i > Len(nodes)
  /\ phase' = "search"
  /\ UNCHANGED <<walk, manifests, audit>>
  /\ Begin(Graph)

Search == phase = "search" /\ SearchNext /\ UNCHANGED <<walk, manifests, audit, phase>>

EndSearch ==
  /\ phase = "search" /\ verdict # "searching" /\ UNCHANGED manifests
  /\ IF verdict = "cycle" THEN Refuse
     ELSE /\ phase' = "audit"
          /\ pending' = {p \in Pkgs : manifests[p] # Unread} /\ audited' = pending'
          /\ UNCHANGED <<walk, auditing, j, searchVars>>
-----------------------------------------------------------------------------
(* check_package_graph.                                                      *)
TakeManifest ==
  /\ phase = "audit" /\ auditing = None
  /\ \E p \in pending : auditing' = p /\ pending' = pending \ {p}
  /\ j' = 1
  /\ UNCHANGED <<walk, manifests, audited, phase, searchVars>>

DependsAt == manifests[auditing].depends
Descends(m, to) == to.layer <= m.layer
NewToWalk(p) == manifests[p] # Unread /\ p \notin audited   \* mutant: one it loads itself is not audited
Again(p) == TRUE   \* mutant: queued whenever it is met
NewToAudit(p) == p \notin audited

AuditEntry ==
  /\ phase = "audit" /\ auditing # None /\ j <= Len(DependsAt)
  /\ LET e == DependsAt[j]
     IN IF e.to = None THEN Refuse /\ UNCHANGED manifests
        ELSE LoadFails(e.to) \/ \E ms \in Loads(e.to) :
               /\ manifests' = ms
               /\ IF ms[e.to].name = e.name /\ Descends(ms[auditing], ms[e.to])
                  THEN /\ pending' = IF NewToAudit(e.to) THEN pending \cup {e.to} ELSE pending
                       /\ audited' = audited \cup {e.to} /\ j' = j + 1
                       /\ UNCHANGED <<walk, auditing, phase, searchVars>>
                  ELSE Refuse

LeaveManifest ==
  /\ phase = "audit" /\ auditing # None /\ j > Len(DependsAt)
  /\ auditing' = None
  /\ UNCHANGED <<walk, manifests, pending, audited, j, phase, searchVars>>

EndAudit ==
  /\ phase = "audit" /\ auditing = None /\ pending = {}
  /\ phase' = IF unresolved = {} THEN "accepted" ELSE "refused"
  /\ UNCHANGED <<walk, manifests, audit, searchVars>>
-----------------------------------------------------------------------------
Init ==
  /\ tree \in DOMAIN Trees
  /\ nodes = <<Entry>> /\ lines \in {<<text>> : text \in Texts} /\ targets = <<>>
  /\ i = 1 /\ site = [origin |-> "none", pkg |-> None]
  /\ manifests = [p \in Pkgs |-> Unread] /\ unresolved = {}
  /\ pending = {} /\ audited = {} /\ auditing = None /\ j = 1
  /\ phase = "site"
  /\ AtRest

Step ==
  \/ SelectSite \/ ImportIntrinsics \/ ImportPath \/ ImportSelf \/ ImportUndeclared
  \/ ImportDeclared \/ EndFile \/ BeginSearch \/ Search \/ EndSearch
  \/ TakeManifest \/ AuditEntry \/ LeaveManifest \/ EndAudit
Next == Step /\ UNCHANGED tree

Spec == Init /\ [][Next]_vars /\ WF_vars(Next)
-----------------------------------------------------------------------------
Sites == [origin : {"flag", "ancestor", "user", "none"}, pkg : Pkgs \cup {None}]

TypeOK ==
  /\ nodes \in Seq(Files) /\ lines \in Seq(Texts) /\ Len(lines) = Len(nodes)
  /\ i \in Nat \ {0} /\ site \in Sites
  /\ targets \in Seq(Seq(1..Len(nodes) \cup {None}))
  /\ manifests \in [Pkgs -> Manifests \cup {Unread}]
  /\ unresolved \in SUBSET (Nat \X Nat)
  /\ pending \in SUBSET Pkgs /\ audited \in SUBSET Pkgs
  /\ auditing \in Pkgs \cup {None} /\ j \in Nat \ {0}
  /\ phase \in {"site", "imports", "search", "audit", "accepted", "refused"}
  /\ SearchTypeOK

Accepted == phase = "accepted"

\* What an import line came to: the file it names is that of its target.
Edges == UNION {{<<n, k>> : k \in {l \in DOMAIN targets[n] : targets[n][l] # None}} : n \in DOMAIN targets}
Importer(e) == nodes[e[1]]
Line(e) == lines[e[1]][e[2]]
Imported(e) == nodes[targets[e[1]][e[2]]]

\* A file is in the closure once however many import it, under whatever
\* spelling, and an import's target is the file it names.
FilesOnce ==
  /\ \A m, n \in 1..Len(nodes) : nodes[m] = nodes[n] => m = n
  /\ \A e \in Edges : Line(e).kind # "intrinsics" /\ Imported(e) = Line(e).file

\* No file of an accepted closure imports itself, directly or through others.
AcceptedAcyclic ==
  Accepted => \A S \in SUBSET {nodes[n] : n \in 1..Len(nodes)} :
    S # {} => \E f \in S : \A e \in Edges : Importer(e) = f => Imported(e) \notin S

\* What a manifest says, as the audit must have found it.
EntryHolds(m, e) ==
  /\ e.to # None /\ manifests[e.to] # Unread
  /\ manifests[e.to].name = e.name /\ manifests[e.to].layer <= m.layer

\* Every import of an accepted closure leads to a file, and is lawful: between
\* packages, its importer's manifest declares the dependency by its name, the
\* dependency's own manifest makes the module public, and the file is that
\* package's.
LawfulImport(e) ==
  LET s == SiteOf(Importer(e))
      g == Imported(e)
      declared == IF IsReal(s) THEN manifests[s.pkg].depends ELSE UserDepends
  IN CASE Line(e).kind = "path" -> s.origin # "ancestor"
       [] Line(e).kind = "self" -> s.origin = "ancestor" /\ Owner[g] = s.pkg
       [] Line(e).kind = "dep" ->
            /\ s.origin # "none" /\ Owner[g] # None /\ g \in manifests[Owner[g]].public
            /\ \E k \in DOMAIN declared : declared[k] = [name |-> Line(e).name, to |-> Owner[g]]
LawfulImports ==
  Accepted => \A n \in DOMAIN lines : \A k \in DOMAIN lines[n] :
    lines[n][k].kind # "intrinsics" => <<n, k>> \in Edges /\ LawfulImport(<<n, k>>)

\* The audit has seen every manifest the build could depend on: each entry of
\* each is a package of that name, in the same layer or a lower one, and is
\* audited in its turn, whether anything imports it or not.
AuditIsComplete ==
  Accepted => \A p \in Pkgs : manifests[p] # Unread =>
    \A k \in DOMAIN manifests[p].depends : EntryHolds(manifests[p], manifests[p].depends[k])

\* A module its package does not make public is not imported from outside it,
\* save by its path from a file that nothing but the flag or the user-level
\* manifest governs: no manifest is asked then.
PrivateStaysInside ==
  Accepted => \A e \in Edges :
    LET p == Owner[Imported(e)]
        s == SiteOf(Importer(e))
    IN (p # None /\ Owner[Importer(e)] # p) /\ (Line(e).kind = "path" => s.origin = "ancestor") =>
         manifests[p] # Unread /\ Imported(e) \in manifests[p].public

\* The build is decided.
Settled == phase \in {"accepted", "refused"}
=============================================================================
