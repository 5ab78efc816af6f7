------------------------------- MODULE Server -------------------------------
(***************************************************************************)
(* The MCP server (sempkg's mcp.rs): the loop over the lines it is sent,   *)
(* the tools other than `query`, which are the readers of a graph and of   *)
(* the tables of a bundle, and what it keeps between requests: the local   *)
(* packages as they were when it started and the tables it has opened      *)
(* (lance.rs).  It handles one line at a time; other processes register    *)
(* packages and install, remove and install again while it runs.           *)
(*                                                                         *)
(* The bundle "p" is the one that Bundle packs and installs.               *)
(***************************************************************************)
EXTENDS Bundle, GraphReader

CONSTANTS
    Others,     \* [names -> bundles]: bundles that stay installed
    Graphs,     \* [revisions -> graphs]: the graph of an index
    Docs,       \* [revisions -> chunks]: its documentation
    TopK,       \* reranker.top_k
    OutputN,    \* reranker.output_n
    ByteBudget  \* BYTE_BUDGET: 12,000 in the code, here lines

ASSUME ServerAssumption ==
    /\ "p" \notin DOMAIN Others
    /\ 1 .. MaxRevision \subseteq DOMAIN Graphs /\ DOMAIN Docs = DOMAIN Graphs
    /\ \A r \in DOMAIN Graphs : IsGraph(Graphs[r])
    /\ \A n \in DOMAIN Others :
          "graph/" \in DOMAIN Others[n].files
              => Others[n].files["graph/"].revision \in DOMAIN Graphs
    /\ \A p \in Plans :
          /\ p.project # None => IsGraph(p.project)
          /\ \A call \in p.menu :
                /\ call.tool \in {"get_callers", "get_callees", "get_context"}
                      => call.limit \in Nat
                /\ call.tool = "get_impact" => call.depth \in Nat
    /\ TopK \in Nat \ {0} /\ OutputN \in Nat \ {0} /\ ByteBudget \in Nat

VARIABLES
    registered, \* packages.json: the names of the local packages
    snapshot,   \* McpContext.registry: the same as they were at the start
    tables,     \* table_cache: [<<bundle, table>> -> revision]
    request,    \* the line that is handled
    found,      \* the nodes whose source is looked up, and the bodies so far
    reply,      \* the last reply
    served      \* history: what "p" has been since the server started

(* plan has in addition `menu`, the requests there may be, `locals` and    *)
(* `settled`, the packages that come and go and those that are registered  *)
(* throughout, `project`, the graph of a local package (None when it is    *)
(* not indexed), and `reranker`, whether one is loaded.                    *)
serverVars == <<registered, snapshot, tables, request, found, reply, served>>
vars == <<bundleVars, serverVars>>

InitServer ==
    /\ registered \in {plan.settled \cup S : S \in SUBSET plan.locals}
    /\ snapshot = registered
    /\ tables = <<>> /\ request = None /\ found = None /\ reply = None
    /\ served = {installed}

-----------------------------------------------------------------------------
(* Where a package is                                                      *)

BundleOf(name) ==
    IF name = "p" THEN installed
    ELSE IF name \in DOMAIN Others THEN Others[name] ELSE None
Has(bundle, extension, paths) ==
    /\ bundle # None
    /\ extension \in bundle.manifest.extensions
    /\ \E p \in ToSet(paths) : p \in DOMAIN bundle.files
HasLance(bundle) == Has(bundle, "lance", LancePaths)
HasCode(bundle) == Has(bundle, "code", CodePaths)

(* A graph is that of a local package or of a revision of a bundle.        *)
Project == [kind |-> "project"]
Revision(r) == [kind |-> "revision", of |-> r]
GraphOf(source) ==
    IF source = Project THEN plan.project ELSE Graphs[source.of]
\* A bundle whose graph/ had been emptied when it was packed has no index.
IsIndexed(bundle) == bundle # None /\ "graph/" \in DOMAIN bundle.files
ResolveCodegraphPath(name) ==
    IF name \in snapshot THEN IF plan.project = None THEN None ELSE Project
    ELSE IF IsIndexed(BundleOf(name))
         THEN Revision(BundleOf(name).files["graph/"].revision)
    ELSE None
(* Documentation of a local package is looked for beside its sources (here *)
(* there is none), code only in the bundles.                               *)
ResolveTable(name, table) ==
    IF table = "docs"
    THEN name \notin snapshot /\ HasLance(BundleOf(name))
    ELSE HasCode(BundleOf(name))

TablePath(table) ==
    IF table = "docs" THEN "lance/docs.lance" ELSE "code/code.lance"
\* Mutant of TableCacheKey: the name of the table alone.
TableKeyShort(name, table) == table
TableCacheKey(name, table) == <<name, table>>
Disk(name, table) ==
    LET b == BundleOf(name)
    IN  IF b = None \/ TablePath(table) \notin DOMAIN b.files THEN 0
        ELSE b.files[TablePath(table)].revision
(* The handle that was opened first is used again, also when other files   *)
(* are in its place: what it reads is then what it knows of the old ones,  *)
(* or an error (0).                                                        *)
Handle(name, table) ==
    LET key == TableCacheKey(name, table)
    IN  IF key \in DOMAIN tables THEN tables[key] ELSE Disk(name, table)
Readable(name, table) ==
    {Handle(name, table)} \cup
        (IF Handle(name, table) = Disk(name, table) THEN {} ELSE {0})
Opened(name, table) ==
    LET key == TableCacheKey(name, table)
    IN  IF key \in DOMAIN tables \/ Disk(name, table) = 0 THEN tables
        ELSE [k \in DOMAIN tables \cup {key} |->
                IF k = key THEN Disk(name, table) ELSE tables[k]]

-----------------------------------------------------------------------------
(* The loop                                                                *)

Lines == {"blank", "garbled", "initialize", "notifications/initialized",
          "tools/list", "ping", "other"}
Reply(about) == [kind |-> "reply", about |-> about]
(* A notification the server does not know is answered with an error.      *)
HandleMessage(line) ==
    CASE line \in {"blank", "notifications/initialized"} -> None
      [] line = "garbled" -> Reply("-32700")
      [] line = "other" -> Reply("-32601")
      [] OTHER -> Reply(line)

Receive ==
    /\ request = None
    /\ \/ \E call \in plan.menu : request' = call /\ reply' = None
       \/ \E line \in Lines :
             /\ plan.menu # {} /\ request' = None
             /\ reply' = HandleMessage(line)
    /\ UNCHANGED <<bundleVars, registered, snapshot, tables, found, served>>

(* The text of a tool: the nodes it shows, of which graph, the bodies next *)
(* to them and, for context, what it started from and how many it was for. *)
Shown(source, nodes, bodies, seeds, cap) ==
    [kind |-> "text", call |-> request, source |-> source, nodes |-> nodes,
     bodies |-> bodies, seeds |-> seeds, cap |-> cap]
Answer(source, nodes) ==
    /\ reply' = Shown(source, nodes, <<>>, {}, 0)
    /\ request' = None
    /\ UNCHANGED <<bundleVars, registered, snapshot, tables, found, served>>

Calling(tool) == request # None /\ request.tool = tool /\ found = None
Source == ResolveCodegraphPath(request.package)

(* The package is not there, has no index or not the table asked for.      *)
Needs(tool) ==
    CASE tool \in {"search_docs", "docs_metadata"} -> "docs"
      [] tool \in {"search_code", "read_symbol", "read_code"} -> "code"
      [] OTHER -> "graph"
Refuse ==
    /\ request # None /\ found = None /\ request.tool # "list_packages"
    /\ IF Needs(request.tool) = "graph" THEN Source = None
       ELSE ~ ResolveTable(request.package, Needs(request.tool))
    /\ Answer(None, <<>>)
ListPackages ==
    /\ Calling("list_packages")
    /\ Answer(None, SetToSeq(snapshot \cup DOMAIN Others
                                \cup IF installed = None THEN {} ELSE {"p"}))

-----------------------------------------------------------------------------
(* The readers of a graph                                                  *)

(* With a reranker more is fetched than is asked for.                      *)
FetchLimit(limit) ==
    IF plan.reranker /\ TopK > limit THEN TopK ELSE limit
(* The scorer takes top_k of them and leaves output_n; a score that cannot *)
(* be had is 0.  Scores belong to names, and each scored name takes the    *)
(* next node of that name: any choice of so many nodes may be left.        *)
Left(fetched, limit) == Lesser(fetched, Lesser(limit, Lesser(TopK, OutputN)))
Reranked(fetched, limit) ==
    IF ~ plan.reranker THEN {fetched}
    ELSE kSubset(Left(Cardinality(fetched), limit), fetched)
SearchSymbols ==
    /\ Calling("search_symbols") /\ Source # None
    /\ \E fetched \in Query(GraphOf(Source), request.text, request.filter,
                            FetchLimit(request.limit)) :
         \E left \in Reranked(fetched, request.limit) :
            Answer(Source, SetToSeq(left))

(* Here each scored name shows the last node of that name.                 *)
LastNamed(g, nodes, id) ==
    LET same == {i \in DOMAIN nodes : g.nodes[nodes[i]].qualified = g.nodes[id].qualified}
    IN  nodes[CHOOSE i \in same : \A j \in same : j <= i]
RerankedContext(g, nodes, limit) ==
    IF ~ plan.reranker THEN {nodes}
    ELSE {[i \in 1 .. Cardinality(T) |-> LastNamed(g, nodes, SetToSeq(T)[i])] :
             T \in kSubset(Left(Len(nodes), limit),
                           ToSet(SubSeq(nodes, 1, Lesser(TopK, Len(nodes)))))}
ContextCap(limit) ==
    IF FetchLimit(limit) > 2 * limit THEN FetchLimit(limit) ELSE 2 * limit
GetContext ==
    /\ Calling("get_context") /\ Source # None
    /\ LET g == GraphOf(Source)
           cap == AtLeastOne(ContextCap(request.limit))
       IN  \E seeds \in ContextSeeds(g, request.task, cap) :
             \E left \in RerankedContext(g, ContextOf(g, seeds, cap), request.limit) :
               reply' = Shown(Source, left, <<>>, seeds, cap)
    /\ request' = None
    /\ UNCHANGED <<bundleVars, registered, snapshot, tables, found, served>>

GetImpact ==
    /\ Calling("get_impact") /\ Source # None
    /\ Answer(Source, Impact(GraphOf(Source), request.text, request.depth))
ListFiles ==
    /\ Calling("list_files") /\ Source # None
    /\ Answer(Source, Files(GraphOf(Source), request.matching, request.limit))

(* Callers and callees come first, then the source of one after another;   *)
(* the bundle is looked up again for it, and its graph for each of them.   *)
GetCalls ==
    /\ Calling("get_callers") \/ Calling("get_callees")
    /\ Source # None
    /\ LET Rows(g) == IF request.tool = "get_callers"
                      THEN Callers(g, request.text, request.limit)
                      ELSE Callees(g, request.text, request.limit)
       IN  found' = [kind |-> "nodes", source |-> Source, budget |-> ByteBudget,
                     code |-> ResolveTable(request.package, "code"),
                     nodes |-> Rows(GraphOf(Source)), bodies |-> <<>>]
    /\ UNCHANGED <<bundleVars, registered, snapshot, tables, request, reply, served>>

-----------------------------------------------------------------------------
(* The readers of the tables                                               *)

Body(name, revision, id) ==
    [kind |-> "body", package |-> name, revision |-> revision, id |-> id]
AtOnePlace(a, b) == a.path = b.path /\ a.start = b.start
\* The rows of a table of a revision: one for each symbol of its graph.
RowsAt(revision, node) ==
    {id \in Ids(Graphs[revision]) : AtOnePlace(Graphs[revision].nodes[id], node)}
RowsNamed(revision, symbol) ==
    {id \in Ids(Graphs[revision]) : Graphs[revision].nodes[id].qualified = symbol}
(* The node is looked up by name in the graph as it is now and its row in  *)
(* the table by place; a name of several nodes has no source.  A name that *)
(* is not found, as when there is no graph, is searched for in the table.  *)
RowsOf(name, symbol, revision) ==
    LET g == Graphs[BundleOf(name).files["graph/"].revision]
        ids == IF IsIndexed(BundleOf(name)) THEN ResolveIds(g, symbol) ELSE {}
    IN  IF revision = 0 \/ Cardinality(ids) > 1 THEN {}
        ELSE IF ids = {} THEN RowsNamed(revision, symbol)
        ELSE RowsAt(revision, g.nodes[CHOOSE id \in ids : TRUE])
(* Every node may have a source, none when the table cannot be read.       *)
Sources(name, symbol) ==
    IF Disk(name, "code") = 0 THEN {None}
    ELSE UNION {IF RowsOf(name, symbol, r) = {} THEN {None}
                ELSE {Body(name, r, id) : id \in RowsOf(name, symbol, r)} :
                   r \in Readable(name, "code")}
Cost(body) == Size(Graphs[body.revision], body.id) + 1
Inline ==
    /\ found # None /\ Len(found.bodies) < Len(found.nodes)
    /\ LET node == GraphOf(found.source).nodes[found.nodes[Len(found.bodies) + 1]]
       IN  \E body \in IF found.code THEN Sources(request.package, node.qualified)
                       ELSE {None} :
             LET fits == body # None /\ Cost(body) <= found.budget
             IN  found' = [found EXCEPT
                             !.bodies = Append(@, IF fits THEN body ELSE None),
                             !.budget = IF fits THEN @ - Cost(body) ELSE @]
    /\ tables' = IF found.code THEN Opened(request.package, "code") ELSE tables
    /\ UNCHANGED <<bundleVars, registered, snapshot, request, reply, served>>
Inlined ==
    /\ found # None /\ Len(found.bodies) = Len(found.nodes)
    /\ reply' = Shown(found.source, found.nodes, found.bodies, {}, 0)
    /\ request' = None /\ found' = None
    /\ UNCHANGED <<bundleVars, registered, snapshot, tables, served>>

Reads(table, source, bodies) ==
    /\ reply' = Shown(source, <<>>, bodies, {}, 0)
    /\ tables' = Opened(request.package, table)
    /\ request' = None
    /\ UNCHANGED <<bundleVars, registered, snapshot, found, served>>
ReadSymbol ==
    /\ Calling("read_symbol") /\ ResolveTable(request.package, "code")
    /\ \E body \in Sources(request.package, request.text) :
         Reads("code", None, IF body = None THEN <<>> ELSE <<body>>)
AtLocation(g, path, line) ==
    LET around == {id \in Ids(g) : /\ g.nodes[id].path = path
                                   /\ g.nodes[id].start <= line /\ line <= g.nodes[id].end}
    IN  {id \in around : \A o \in around : Size(g, id) <= Size(g, o)}
(* The tightest symbol around a line, and the row where it begins; without *)
(* a graph the tightest row.                                               *)
ReadCode ==
    /\ Calling("read_code") /\ ResolveTable(request.package, "code")
    /\ LET b == BundleOf(request.package)
           g == Graphs[b.files["graph/"].revision]
       IN  \E r \in Readable(request.package, "code") :
             LET rows == IF IsIndexed(b)
                         THEN UNION {RowsAt(r, g.nodes[id]) :
                                       id \in AtLocation(g, request.path, request.line)}
                         ELSE AtLocation(Graphs[r], request.path, request.line)
             IN  IF r = 0 \/ rows = {} THEN Reads("code", None, <<>>)
                 ELSE \E id \in rows : Reads("code", None, <<Body(request.package, r, id)>>)
(* The kind is asked for after the limit has cut the rows.                 *)
Search(table, Rows(_)) ==
    \E r \in Readable(request.package, table) :
        IF r = 0 THEN Reads(table, None, <<>>)
        ELSE \E hits \in SomeOf(Rows(r), FetchLimit(request.limit)) :
               LET kept == {id \in hits : table = "docs"
                                         \/ OfKind(Graphs[r], id, request.filter)}
               IN  \E left \in Reranked(kept, request.limit) :
                     LET s == SetToSeq(left)
                     IN  Reads(table, None,
                               [i \in DOMAIN s |-> Body(request.package, r, s[i])])
SearchCode ==
    /\ Calling("search_code") /\ ResolveTable(request.package, "code")
    /\ Search("code", LAMBDA r : Tokens(Graphs[r], request.text))
SearchDocs ==
    /\ Calling("search_docs") /\ ResolveTable(request.package, "docs")
    /\ Search("docs", LAMBDA r : Docs[r])
DocsMetadata ==
    /\ Calling("docs_metadata") /\ ResolveTable(request.package, "docs")
    /\ Answer(None, <<>>)

-----------------------------------------------------------------------------
(* Others, and the server's own life                                       *)

Register(name) ==
    /\ registered' = IF name \in registered THEN registered \ {name}
                     ELSE registered \cup {name}
    /\ UNCHANGED <<bundleVars, snapshot, tables, request, found, reply, served>>
Restart ==
    /\ tables # <<>> \/ snapshot # registered
    /\ snapshot' = registered /\ tables' = <<>>
    /\ request' = None /\ found' = None /\ reply' = None
    /\ served' = {installed}
    /\ UNCHANGED <<bundleVars, registered>>
Elsewhere ==
    /\ NextBundle
    /\ served' = served \cup {installed'}
    /\ UNCHANGED <<registered, snapshot, tables, request, found, reply>>

Init == InitBundle /\ InitServer
Next ==
    \/ Receive \/ Refuse \/ ListPackages
    \/ SearchSymbols \/ GetContext \/ GetImpact \/ ListFiles \/ GetCalls
    \/ Inline \/ Inlined \/ ReadSymbol \/ ReadCode \/ SearchCode \/ SearchDocs
    \/ DocsMetadata
    \/ \E name \in plan.locals : Register(name)
    \/ Restart \/ Elsewhere
Spec == Init /\ [][Next]_vars

-----------------------------------------------------------------------------
Text_(tool) == reply # None /\ reply.kind = "text" /\ reply.call.tool = tool
Apart(nodes) == \A i, j \in DOMAIN nodes : nodes[i] = nodes[j] => i = j

(* get_impact answers with every dependent within the depth and with       *)
(* nothing else, unless its limit cuts the list (lib.rs impact).           *)
ImpactIsWhole ==
    Text_("get_impact") /\ reply.source # None =>
        LET g == GraphOf(reply.source)
            all == Dependents(g, reply.call.text, reply.call.depth)
        IN  /\ Apart(reply.nodes) /\ ToSet(reply.nodes) \subseteq all
            /\ Cardinality(all) <= ImpactLimit => ToSet(reply.nodes) = all
(* get_context answers with its seeds and what is near them, the nearest   *)
(* first, and leaves out only what there is no room for (lib.rs context).  *)
ContextIsNear ==
    Text_("get_context") /\ reply.source # None /\ ~ plan.reranker =>
        LET g == GraphOf(reply.source)
            shown == ToSet(reply.nodes)
            Ball(n) == {id \in Ids(g) : \E s \in reply.seeds : Near(g, s, id, n)}
        IN  /\ Apart(reply.nodes) /\ Len(reply.nodes) <= reply.cap
            /\ reply.seeds \subseteq shown /\ shown \subseteq Ball(MaxHop)
            /\ shown # Ball(MaxHop) => Len(reply.nodes) = reply.cap
            /\ \A i, j \in DOMAIN reply.nodes : \A n \in 0 .. MaxHop :
                 i < j /\ reply.nodes[j] \in Ball(n) => reply.nodes[i] \in Ball(n)
            /\ shown \subseteq Ball(1) \/ Ball(1) \subseteq shown
(* get_callers answers with every caller once, however often it calls      *)
(* (lib.rs call_edges, graph.rs callers).                                  *)
CallersAreApart ==
    Text_("get_callers") /\ reply.source # None =>
        LET g == GraphOf(reply.source)
            calls == {e \in g.edges : e.kind = "calls" /\ Named(g, e.target, reply.call.text)}
            callers == {e.source : e \in calls}
        IN  /\ Apart(reply.nodes) /\ ToSet(reply.nodes) \subseteq callers
            /\ Cardinality(calls) <= reply.call.limit => ToSet(reply.nodes) = callers
(* What the graph tools answer, against paths through the graph: impact    *)
(* has every dependent within the depth and nothing else, also around      *)
(* cycles; context has its seeds, never a farther node in place of a       *)
(* nearer one, the nearest first, and everything within two steps when     *)
(* there is room; callers has every caller once (lib.rs and graph.rs).     *)
AnswersFollowTheGraph == ImpactIsWhole /\ ContextIsNear /\ CallersAreApart

Revisions(name) ==
    IF name = "p" THEN served ELSE {BundleOf(name)}
NodeOf(body) == Graphs[body.revision].nodes[body.id]
(* The source shown is of the bundle that was asked about, as it is or was *)
(* since the server started, and as long as there was one of it, with a    *)
(* graph and a table of one revision, it begins at the line where the node *)
(* begins it stands at, in the same file (mcp.rs and lance.rs: the table   *)
(* cache and the lookup by path and start line).  Of two symbols that      *)
(* begin at one line, it may be the other's.                               *)
BodiesAreOfTheBundle ==
    reply # None /\ reply.kind = "text" =>
        \A i \in DOMAIN reply.bodies : reply.bodies[i] # None =>
            LET body == reply.bodies[i]
                table == IF reply.call.tool = "search_docs" THEN "docs" ELSE "code"
                were == {b.files : b \in Revisions(reply.call.package) \ {None}}
                one == /\ Cardinality(were) = 1
                       /\ \A f \in were :
                            /\ "graph/" \in DOMAIN f
                            /\ f["graph/"].revision = f[TablePath(table)].revision
            IN  /\ body.package = reply.call.package
                /\ \E f \in were : /\ TablePath(table) \in DOMAIN f
                                   /\ f[TablePath(table)].revision = body.revision
                /\ (one /\ reply.nodes # <<>> /\ reply.source.kind = "revision") =>
                      AtOnePlace(NodeOf(body), GraphOf(reply.source).nodes[reply.nodes[i]])

(* No answer is longer than the limit it was asked with.                   *)
ContextFitsTheLimit ==
    Text_("get_context") => Len(reply.nodes) <= reply.call.limit
=============================================================================
