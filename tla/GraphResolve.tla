---------------------------- MODULE GraphResolve ----------------------------
(***************************************************************************)
(* The data of a code-graph index and the resolution of reference sites    *)
(* (semgraph: parse.rs pass 1, resolve.rs pass 2).                         *)
(*                                                                         *)
(* A file's content is a member of Contents; Source says which definitions *)
(* and which reference sites the parser extracts from it, and which        *)
(* definition contains which.  Names, modules and positions are small      *)
(* values: only their equality and order matter.                           *)
(***************************************************************************)
EXTENDS Naturals, Sequences, FiniteSets

CONSTANTS
    Files,          \* stored paths (root-relative, forward slashes)
    Contents,       \* the byte contents a file can have
    Empty,          \* the content without bytes; what an unreadable file hashes to
    Source,         \* [Contents -> [defs, tree, sites]], the tree-sitter extraction
    Lang,           \* [Files -> language], from the file extension
    Dir,            \* [Files -> parent directory]
    Rank,           \* [Files -> Nat], the lexicographic order of the paths
    ModulePaths,    \* [Files -> [module -> Seq(Files)]], candidates in order
    IncludePath,    \* [Files -> [header -> SUBSET Files]], header joined to the directory
    SameBasename    \* [header -> SUBSET Files], the paths whose basename is the header's

ASSUME EmptyHasNoCode ==
    /\ Empty \in Contents
    /\ Source[Empty].defs = {} /\ Source[Empty].sites = {}

NoName == "none"    \* no owner, no type

\* A callable returns a type that methods can be looked up on, or a collection
\* whose elements have one (return_type_of, element_type): NoName if it does not.
FileDef == [kind |-> "file", name |-> NoName, owner |-> NoName,
            returns |-> NoName, element |-> NoName, pos |-> 0]
ImportDef(module, pos) == [kind |-> "import", name |-> module, owner |-> NoName,
                           returns |-> NoName, element |-> NoName, pos |-> pos]

\* Only the file node has kind "file"; an import site points at an import node.
ASSUME SourceIsParsed ==
    \A c \in Contents :
        /\ \A d \in Source[c].defs : d.kind # "file"
        /\ \A t \in Source[c].tree :
              t.parent \in Source[c].defs \cup {FileDef} /\ t.child \in Source[c].defs
        /\ \A s \in Source[c].sites : s.ask = "import" =>
              \E d \in Source[c].defs : d = ImportDef(s.name, s.at)

\* The order of the paths tells them apart; positions are numbers.
ASSUME RanksOrderFiles ==
    \A f, g \in Files : Rank[f] \in Nat /\ (Rank[f] = Rank[g] => f = g)
ASSUME PositionsAreNumbers ==
    \A c \in Contents : \A d \in Source[c].defs : d.pos \in Nat

CallableKinds      == {"function", "method"}
QualifiedCallKinds == {"function", "method", "enum_member"}
ClassKinds         == {"class", "struct", "interface"}
TypeKinds          == {"type_alias", "struct", "enum", "class", "interface"}
StrictTypeKinds    == {"struct", "enum", "class", "interface"}
ExtendsKinds       == {"class", "struct", "interface", "trait", "enum"}
ImplementsKinds    == {"trait", "interface", "class"}
InheritAnyKinds    == {"class", "struct", "interface", "trait", "enum"}

\* A method call's receiver is a call, or a name of known type, followed by the
\* methods chained on it.  `each` has the places of the calls whose result is
\* indexed or iterated, 0 being the base: what follows them is an element
\* (RecvExpr::Element).  A longer chain is not walked.
MaxDepth == 16

(***************************************************************************)
(* Nodes.  The database id of a node hashes its kind, qualified name, file *)
(* and start position; the file node's id is the literal path.  What a     *)
(* callable returns is read from its signature, which the id leaves out.   *)
(***************************************************************************)
NodeOf(f, d) == [file |-> f, kind |-> d.kind, name |-> d.name,
                 owner |-> d.owner, returns |-> d.returns, element |-> d.element,
                 pos |-> d.pos]

FileNode(f) == NodeOf(f, FileDef)

Id(n) == [file |-> n.file, kind |-> n.kind, name |-> n.name,
          owner |-> n.owner, pos |-> n.pos]
Ids(nodes) == {Id(n) : n \in nodes}

NodesOf(f, c) == {NodeOf(f, d) : d \in Source[c].defs \cup {FileDef}}

ContainsOf(f, c) ==
    {[src |-> Id(NodeOf(f, t.parent)), dst |-> Id(NodeOf(f, t.child)), kind |-> "contains",
      at |-> 0, by |-> NoName, conf |-> NoName] : t \in Source[c].tree}

\* A reference site of file f: the enclosing definition becomes a node id.
SiteOf(f, s) == [from |-> Id(NodeOf(f, s.in)), ask |-> s.ask, name |-> s.name,
                 recv |-> s.recv, at |-> s.at]

SitesOf(f, c) == {SiteOf(f, s) : s \in Source[c].sites}

Symbols(nodes) == {n \in nodes : n.kind \notin {"file", "import"}}
PathsIn(nodes) == {n.file : n \in {m \in nodes : m.kind = "file"}}

(***************************************************************************)
(* SymbolTable: candidates, and the tiers a name is resolved through.      *)
(***************************************************************************)
Only(S) == IF Cardinality(S) = 1 THEN S ELSE {}

\* pick: the smallest file path, then the order inside the file (the qualified
\* name and then the row order, both of which pos stands for).
First(S) ==
    {n \in S : \A m \in S : \/ Rank[n.file] < Rank[m.file]
                            \/ n.file = m.file /\ n.pos <= m.pos}

ModuleFile(f, module, paths) ==
    LET candidates == ModulePaths[f][module]
        present == {i \in DOMAIN candidates : candidates[i] \in paths}
    IN  {candidates[i] : i \in {j \in present : \A k \in present : j <= k}}

ImportedFiles(nodes, f) ==
    UNION {ModuleFile(f, n.name, PathsIn(nodes)) :
               n \in {m \in nodes : m.file = f /\ m.kind = "import"}}

Found(n, by, conf) == [node |-> n, by |-> by, conf |-> conf]

\* Mutant of NameTiers: the global tiers look at every language.
NameTiersAnyLanguage(nodes, f, name, kinds) ==
    LET cands    == {n \in Symbols(nodes) : n.name = name /\ n.kind \in kinds}
        mine     == {n \in cands : n.file = f}
        imported == {n \in cands : n.file \in ImportedFiles(nodes, f)}
        conf     == IF Cardinality(cands) = 1 THEN "0.9" ELSE "0.4"
    IN  << [set |-> mine,        by |-> "exact-match", conf |-> conf],
           [set |-> imported,    by |-> "import",      conf |-> "0.9"],
           [set |-> Only(cands), by |-> "exact-match", conf |-> conf] >>

NameTiers(nodes, f, name, kinds) ==
    LET cands    == {n \in Symbols(nodes) : n.name = name /\ n.kind \in kinds}
        mine     == {n \in cands : n.file = f}
        imported == {n \in cands : n.file \in ImportedFiles(nodes, f)}
        local    == {n \in cands : Lang[n.file] = Lang[f]}
        near     == {n \in local : Dir[n.file] = Dir[f]}
        conf     == IF Cardinality(cands) = 1 THEN "0.9" ELSE "0.4"
    IN  << [set |-> mine,        by |-> "exact-match", conf |-> conf],
           [set |-> imported,    by |-> "import",      conf |-> "0.9"],
           [set |-> Only(local), by |-> "exact-match", conf |-> conf],
           [set |-> Only(near),  by |-> "exact-match", conf |-> "0.5"] >>

\* The first tier that answers decides; no tier answers: the site is dropped.
ResolveName(nodes, f, name, kinds) ==
    LET tiers   == NameTiers(nodes, f, name, kinds)
        answers == {i \in DOMAIN tiers : tiers[i].set # {}}
        first   == {i \in answers : \A k \in answers : i <= k}
    IN  UNION {{Found(n, tiers[i].by, tiers[i].conf) : n \in First(tiers[i].set)} :
                   i \in first}

\* Candidates for Type::name in the caller's language, narrowed to the caller's
\* file or else to its imports when either has one.
Qualified(nodes, f, owner, name, kinds) ==
    {n \in Symbols(nodes) : /\ n.owner = owner /\ n.name = name
                            /\ n.kind \in kinds /\ Lang[n.file] = Lang[f]}

Pinned(nodes, f, cands) ==
    LET mine     == {n \in cands : n.file = f}
        imported == {n \in cands : n.file \in ImportedFiles(nodes, f)}
    IN  IF mine # {} THEN mine ELSE imported

\* Ties break lexicographically.
ResolveQualified(nodes, f, owner, name, kinds) ==
    LET cands == Qualified(nodes, f, owner, name, kinds)
        pins  == Pinned(nodes, f, cands)
    IN  First(IF pins # {} THEN pins ELSE cands)

\* Where the type of the result matters a tie answers nothing.
ResolveQualifiedStrict(nodes, f, owner, name, kinds) ==
    LET cands == Qualified(nodes, f, owner, name, kinds)
        pins  == Pinned(nodes, f, cands)
    IN  First(IF pins # {} THEN pins ELSE Only(cands))

(***************************************************************************)
(* The types a receiver can have: one or none.                             *)
(***************************************************************************)
Returns(found, each) == {IF each THEN n.element ELSE n.returns : n \in found} \ {NoName}

\* A call `name()`: what the function returns, or the class it constructs, which
\* has no elements.
ReturnedType(nodes, f, name, each) ==
    LET callee == ResolveName(nodes, f, name, CallableKinds)
        built  == ResolveName(nodes, f, name, ClassKinds)
    IN  IF each \/ callee # {} THEN Returns({r.node : r \in callee}, each)
                               ELSE {r.node.name : r \in built}

BaseTypes(nodes, f, base, each) ==
    CASE base.how = "type"  -> {base.name}
      [] base.how = "bare"  -> ReturnedType(nodes, f, base.name, each)
      [] base.how = "assoc" -> Returns(ResolveQualifiedStrict(nodes, f, base.of,
                                                    base.name, CallableKinds), each)
      [] OTHER -> {}

ReceiverTypes(nodes, f, recv) ==
    LET types[i \in 0..Len(recv.calls)] ==
            IF i = 0 THEN BaseTypes(nodes, f, recv.base, 0 \in recv.each)
            ELSE UNION {Returns(ResolveQualifiedStrict(nodes, f, t, recv.calls[i],
                                                       CallableKinds), i \in recv.each) :
                            t \in types[i - 1]}
    IN  IF Len(recv.calls) > MaxDepth THEN {} ELSE types[Len(recv.calls)]

ResolveInclude(f, header, paths) ==
    LET joined == IncludePath[f][header] \cap paths
    IN  IF joined # {} THEN joined ELSE Only(SameBasename[header] \cap paths)

EdgeTo(site, kind, n, by, conf) ==
    [src |-> site.from, dst |-> Id(n), kind |-> kind, at |-> site.at,
     by |-> by, conf |-> conf]

NamedEdges(nodes, site, kind, kinds) ==
    {EdgeTo(site, kind, r.node, r.by, r.conf) :
        r \in ResolveName(nodes, site.from.file, site.name, kinds)}

\* A function takes precedence; a class makes the call an instantiation.
CallEdges(nodes, site) ==
    LET calls == NamedEdges(nodes, site, "calls", CallableKinds)
    IN  IF calls # {} THEN calls
                      ELSE NamedEdges(nodes, site, "instantiates", ClassKinds)

ImportEdges(nodes, site) ==
    LET f == site.from.file
        headers == IF Lang[f] \in {"c", "cpp"}
                   THEN ResolveInclude(f, site.name, PathsIn(nodes)) ELSE {}
    IN  IF headers # {}
        THEN {EdgeTo(site, "imports", FileNode(g), "import", "0.9") : g \in headers}
        ELSE {EdgeTo(site, "imports", NodeOf(f, ImportDef(site.name, site.at)),
                     "exact-match", "0.9")}

QualifiedEdges(nodes, site) ==
    {EdgeTo(site, "calls", n, "qualified-name", "0.95") :
        n \in ResolveQualified(nodes, site.from.file, site.recv.base.name, site.name,
                               QualifiedCallKinds)}

MethodEdges(nodes, site) ==
    {EdgeTo(site, "calls", n, "instance-method", "0.7") :
        n \in UNION {ResolveQualified(nodes, site.from.file, t, site.name, CallableKinds) :
                         t \in ReceiverTypes(nodes, site.from.file, site.recv)}}

\* The base class itself says whether it is extended or implemented.
InheritEdges(nodes, site) ==
    {EdgeTo(site, IF r.node.kind \in {"interface", "trait"} THEN "implements" ELSE "extends",
            r.node, r.by, r.conf) :
        r \in ResolveName(nodes, site.from.file, site.name, InheritAnyKinds)}

\* What a site may ask; every other one is a method call.
Direct == {"call", "qualified", "import", "new", "type", "strict", "extends", "implements",
           "inherit"}

SiteEdges(nodes, site) ==
    CASE site.ask = "call"       -> CallEdges(nodes, site)
      [] site.ask = "qualified"  -> QualifiedEdges(nodes, site)
      [] site.ask = "import"     -> ImportEdges(nodes, site)
      [] site.ask = "new"        -> NamedEdges(nodes, site, "instantiates", ClassKinds)
      [] site.ask = "type"       -> NamedEdges(nodes, site, "references", TypeKinds)
      [] site.ask = "strict"     -> NamedEdges(nodes, site, "references", StrictTypeKinds)
      [] site.ask = "extends"    -> NamedEdges(nodes, site, "extends", ExtendsKinds)
      [] site.ask = "implements" -> NamedEdges(nodes, site, "implements", ImplementsKinds)
      [] site.ask = "inherit"    -> InheritEdges(nodes, site)
      [] OTHER                   -> MethodEdges(nodes, site)

\* resolve_site: zero or one edge.  A site whose enclosing node is not in the
\* table is dropped.
ResolveSite(nodes, site) ==
    IF site.from \in Ids(nodes) THEN SiteEdges(nodes, site) ELSE {}

\* One edge for each source, target, kind and place, as the code keeps them, where
\* a place has one edge of a kind (OneEdgePerSite).
ResolveAll(nodes, sites) == UNION {ResolveSite(nodes, s) : s \in sites}

(***************************************************************************)
(* What a parse of a set of files yields: extracts is a function from the  *)
(* files to the contents that were read.                                   *)
(***************************************************************************)
NodesIn(extracts)    == UNION {NodesOf(f, extracts[f]) : f \in DOMAIN extracts}
ContainsIn(extracts) == UNION {ContainsOf(f, extracts[f]) : f \in DOMAIN extracts}
SitesIn(extracts)    == UNION {SitesOf(f, extracts[f]) : f \in DOMAIN extracts}

\* index_roots as a function of the tree: every edge of a fresh index.
FreshEdges(extracts) ==
    ContainsIn(extracts) \cup ResolveAll(NodesIn(extracts), SitesIn(extracts))
=============================================================================
