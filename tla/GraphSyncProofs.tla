--------------------------- MODULE GraphSyncProofs ---------------------------
(***************************************************************************)
(* Theorems about GraphSync, for every set of files, contents, processes,  *)
(* every bound and every layout of the tree.                               *)
(*                                                                         *)
(* TypeOK and the ends of edges hold for any number of processes at once.  *)
(* The rest needs that no other run is under way: the hashes (HashInv),    *)
(* the languages that calls cross, and, from SyncInv, which follows a run  *)
(* from the paths it classified to the edges it inserts, that no edge is   *)
(* twice in the table, that the file rows are those of the tree, and that  *)
(* the files a run parsed have the edges of a fresh index.                 *)
(*                                                                         *)
(* The edges of the files that a sync did not parse need more: that the    *)
(* names it compares decide what a reference means (NamesDecide).          *)
(* StaleInv then says that at every moment, after a crash and during an    *)
(* edit too, a site of the recorded contents backs each edge of a file     *)
(* that has not drifted, and every name on the way to it is the name of a  *)
(* target of that file, so that whatever could change it makes the file    *)
(* affected.                                                               *)
(***************************************************************************)
EXTENDS GraphSync, TLAPS

OfLoops == INSTANCE LoopProofs

-----------------------------------------------------------------------------
(***************************************************************************)
(* Type correctness.                                                       *)
(***************************************************************************)
LEMMA ParseIsExtract ==
    ASSUME disk \in [Files -> Contents \cup {Absent}], NEW S \in SUBSET Files
    PROVE  Parse(S) \in Extracts
<1>1. Parse(S) \in [S -> Contents]
    BY EmptyHasNoCode, MarkersAreNotContents DEF Parse, Read
<1> QED BY <1>1 DEF Extracts

LEMMA NoExtractsIsExtract == NoExtracts \in Extracts
<1>1. NoExtracts \in [{} -> Contents]
    BY DEF NoExtracts
<1> QED BY <1>1 DEF Extracts

LEMMA RowsAfterType ==
    ASSUME rows \in [Files -> Contents \cup {NoRow}], NEW x \in Extracts
    PROVE  RowsAfter(x) \in [Files -> Contents \cup {NoRow}]
<1>1. PICK S \in SUBSET Files : x \in [S -> Contents]
    BY DEF Extracts
<1> QED BY <1>1 DEF RowsAfter

LEMMA FinishTypes ==
    ASSUME TypeOK, NEW p \in Procs,
           NEW how \in {"ok", "error", "crashed"}, Finish(p, how)
    PROVE  /\ pc' \in [Procs -> {"idle", "create", "ddl", "fill", "parse", "plan",
                                 "delete", "reparse", "insert", "resolve", "link"}]
           /\ listing' \in [Procs -> SUBSET Files]
           /\ gone' \in [Procs -> SUBSET Files]
           /\ todo' \in [Procs -> SUBSET Files]
           /\ fresh' \in [Procs -> Extracts]
           /\ late' \in [Procs -> Extracts]
           /\ outcome' \in [Procs -> {"none", "running", "ok", "error", "crashed"}]
BY NoExtractsIsExtract DEF TypeOK, Finish

LEMMA InitTypeOK == Init => TypeOK
BY NoExtractsIsExtract DEF Init, TypeOK

LEMMA NextTypeOK == TypeOK /\ [Next]_vars => TypeOK'
<1> SUFFICES ASSUME TypeOK, [Next]_vars PROVE TypeOK'
    OBVIOUS
<1> USE DEF database, locals
<1>1. ASSUME NEW f \in Files, NEW c \in Choices[f], Edit(f, c) PROVE TypeOK'
    <2>1. c \in Contents \cup {Absent}
        BY ChoicesAreContents
    <2> QED BY <1>1, <2>1 DEF TypeOK, Edit
<1>2. ASSUME NEW p \in Procs, Crash(p) PROVE TypeOK'
    <2>1. /\ Finish(p, "crashed") /\ crashes' = crashes + 1
          /\ UNCHANGED <<disk, schema, nodes, rows, edges, edited, edits>>
        BY <1>2 DEF Crash
    <2> QED BY <2>1, FinishTypes DEF TypeOK
<1>3. ASSUME NEW p \in Procs, BeginIndex(p) PROVE TypeOK'
    <2>1. Parse(OnDisk) \in Extracts
        BY ParseIsExtract DEF TypeOK, OnDisk
    <2> QED BY <1>3, <2>1 DEF TypeOK, BeginIndex
<1>4. ASSUME NEW p \in Procs, CreateDatabase(p) PROVE TypeOK'
    BY <1>4 DEF TypeOK, CreateDatabase
<1>5. ASSUME NEW p \in Procs, InstallSchema(p) PROVE TypeOK'
    BY <1>5 DEF TypeOK, InstallSchema
<1>6. ASSUME NEW p \in Procs, FillIndex(p) PROVE TypeOK'
    <2>1. rows' \in [Files -> Contents \cup {NoRow}]
        BY <1>6, RowsAfterType DEF TypeOK, FillIndex
    <2>2. Finish(p, "ok") /\ UNCHANGED <<disk, schema, edited, edits, crashes>>
        BY <1>6 DEF FillIndex
    <2> QED BY <2>1, <2>2, FinishTypes DEF TypeOK
<1>7. ASSUME NEW p \in Procs, SyncFails(p) PROVE TypeOK'
    BY <1>7 DEF TypeOK, SyncFails
<1>8. ASSUME NEW p \in Procs, NothingToDo(p) PROVE TypeOK'
    BY <1>8 DEF TypeOK, NothingToDo
<1>9. ASSUME NEW p \in Procs, Classify(p) PROVE TypeOK'
    BY <1>9 DEF TypeOK, Classify, Changed, Added, Deleted, OnDisk, Indexed
<1>10. ASSUME NEW p \in Procs, ParseFresh(p) PROVE TypeOK'
    <2>1. Parse(todo[p]) \in Extracts
        BY ParseIsExtract DEF TypeOK
    <2> QED BY <1>10, <2>1 DEF TypeOK, ParseFresh
<1>11. ASSUME NEW p \in Procs, Plan(p) PROVE TypeOK'
    BY <1>11 DEF TypeOK, Plan
<1>12. ASSUME NEW p \in Procs, DeleteGone(p) PROVE TypeOK'
    BY <1>12 DEF TypeOK, DeleteGone
<1>13. ASSUME NEW p \in Procs, ParseAffected(p) PROVE TypeOK'
    <2>1. affected[p] \cap listing[p] \in SUBSET Files
        BY DEF TypeOK
    <2>2. Parse(affected[p] \cap listing[p]) \in Extracts
        BY <2>1, ParseIsExtract DEF TypeOK
    <2> QED BY <1>13, <2>2 DEF TypeOK, ParseAffected
<1>14. ASSUME NEW p \in Procs, InsertNodes(p) PROVE TypeOK'
    <2>1. rows' \in [Files -> Contents \cup {NoRow}]
        BY <1>14, RowsAfterType DEF TypeOK, InsertNodes
    <2> QED BY <1>14, <2>1 DEF TypeOK, InsertNodes
<1>15. ASSUME NEW p \in Procs, Resolve(p) PROVE TypeOK'
    BY <1>15 DEF TypeOK, Resolve
<1>16. ASSUME NEW p \in Procs, InsertEdges(p) PROVE TypeOK'
    <2>1. /\ Finish(p, "ok")
          /\ UNCHANGED <<disk, schema, nodes, rows, edited, edits, crashes>>
        BY <1>16 DEF InsertEdges
    <2> QED BY <2>1, FinishTypes DEF TypeOK
<1>17. ASSUME NEW p \in Procs, InsertFails(p) PROVE TypeOK'
    <2>1. /\ Finish(p, "error")
          /\ UNCHANGED <<disk, schema, nodes, rows, edges, edited, edits, crashes>>
        BY <1>17 DEF InsertFails
    <2> QED BY <2>1, FinishTypes DEF TypeOK
<1>18. ASSUME UNCHANGED vars PROVE TypeOK'
    BY <1>18 DEF TypeOK, vars
<1> QED
    BY <1>1, <1>2, <1>3, <1>4, <1>5, <1>6, <1>7, <1>8, <1>9, <1>10, <1>11, <1>12,
       <1>13, <1>14, <1>15, <1>16, <1>17, <1>18 DEF Next, Proceed

\* TypeOK, for any number of processes: whatever is edited, deleted or killed
\* while a sync runs, the database records contents of known files only.
THEOREM TypeCorrect == Spec => []TypeOK
<1> QED BY InitTypeOK, NextTypeOK, PTL DEF Spec

-----------------------------------------------------------------------------
(***************************************************************************)
(* What resolution returns: nodes of the table it is given.                *)
(***************************************************************************)
LEMMA ResolvedNamesAreNodes ==
    ASSUME NEW N, NEW f, NEW name, NEW kinds,
           NEW r \in ResolveName(N, f, name, kinds)
    PROVE  r.node \in N
<1> DEFINE tiers == NameTiers(N, f, name, kinds)
<1>1. \A i \in DOMAIN tiers : tiers[i].set \subseteq N
    BY DEF NameTiers, Only, Symbols
<1> HIDE DEF tiers
<1>2. PICK i \in DOMAIN tiers : r \in {Found(n, tiers[i].by, tiers[i].conf) :
                                           n \in First(tiers[i].set)}
    BY DEF ResolveName, tiers
<1>3. PICK n \in First(tiers[i].set) : r = Found(n, tiers[i].by, tiers[i].conf)
    BY <1>2
<1> QED BY <1>1, <1>2, <1>3 DEF First, Found

LEMMA QualifiedAreNodes ==
    ASSUME NEW N, NEW f, NEW owner, NEW name, NEW kinds
    PROVE  ResolveQualified(N, f, owner, name, kinds) \subseteq N
BY DEF ResolveQualified, Qualified, Pinned, First, Symbols

\* Kinds of edges that resolution produces.
ResolvedKinds == {"calls", "instantiates", "references", "extends", "implements", "imports"}

LEMMA NamedEdgesLink ==
    ASSUME NEW N, NEW s, NEW kind \in ResolvedKinds, NEW kinds,
           NEW e \in NamedEdges(N, s, kind, kinds)
    PROVE  e.kind \in ResolvedKinds /\ e.src = s.from /\ e.dst \in Ids(N)
<1>1. PICK r \in ResolveName(N, s.from.file, s.name, kinds) :
          e = EdgeTo(s, kind, r.node, r.by, r.conf)
    BY DEF NamedEdges
<1>2. r.node \in N
    BY ResolvedNamesAreNodes
<1> QED BY <1>1, <1>2 DEF EdgeTo, Ids

\* An edge starts at the site's node, which is in the table, and ends at a node
\* of the table, unless it is an import edge to a node the parser announced.
LEMMA ResolvedEdges ==
    ASSUME NEW N, NEW s, NEW e \in ResolveSite(N, s)
    PROVE  /\ e.kind \in ResolvedKinds
           /\ e.src = s.from /\ s.from \in Ids(N)
           /\ e.dst \in Ids(N) \/ (s.ask = "import" /\ e \in ImportEdges(N, s))
<1> DEFINE f == s.from.file
<1>1. s.from \in Ids(N) /\ e \in SiteEdges(N, s)
    BY DEF ResolveSite
<1>2. CASE e \in CallEdges(N, s)
    <2>1. PICK kind \in {"calls", "instantiates"} :
              \E kinds : e \in NamedEdges(N, s, kind, kinds)
        BY <1>2 DEF CallEdges
    <2> QED BY <1>1, <2>1, NamedEdgesLink DEF ResolvedKinds
<1>3. CASE e \in QualifiedEdges(N, s)
    <2>1. PICK n \in N : e = EdgeTo(s, "calls", n, "qualified-name", "0.95")
        BY <1>3, QualifiedAreNodes DEF QualifiedEdges
    <2> QED BY <1>1, <2>1 DEF EdgeTo, Ids, Id, ResolvedKinds
<1>4. CASE e \in MethodEdges(N, s)
    <2>1. PICK t : \E n \in ResolveQualified(N, f, t, s.name, CallableKinds) :
              e = EdgeTo(s, "calls", n, "instance-method", "0.7")
        BY <1>4 DEF MethodEdges
    <2> QED BY <1>1, <2>1, QualifiedAreNodes DEF EdgeTo, Ids, Id, ResolvedKinds
<1>5. CASE e \in InheritEdges(N, s)
    <2>1. PICK r \in ResolveName(N, f, s.name, InheritAnyKinds), kind \in ResolvedKinds :
              e = EdgeTo(s, kind, r.node, r.by, r.conf)
        BY <1>5 DEF InheritEdges, ResolvedKinds
    <2>2. r.node \in N
        BY ResolvedNamesAreNodes
    <2> QED BY <1>1, <2>1, <2>2 DEF EdgeTo, Ids
<1>6. CASE s.ask = "import" /\ e \in ImportEdges(N, s)
    BY <1>1, <1>6 DEF ImportEdges, EdgeTo, ResolvedKinds
<1>7. CASE \E kind \in ResolvedKinds : \E kinds : e \in NamedEdges(N, s, kind, kinds)
    BY <1>1, <1>7, NamedEdgesLink
<1>8. \/ e \in CallEdges(N, s) \/ e \in QualifiedEdges(N, s) \/ e \in MethodEdges(N, s)
      \/ e \in InheritEdges(N, s) \/ (s.ask = "import" /\ e \in ImportEdges(N, s))
      \/ \E kind \in ResolvedKinds : \E kinds : e \in NamedEdges(N, s, kind, kinds)
    BY <1>1 DEF SiteEdges, ResolvedKinds
<1> QED BY <1>2, <1>3, <1>4, <1>5, <1>6, <1>7, <1>8

LEMMA ExtractedPaths ==
    ASSUME NEW x \in Extracts
    PROVE  \A g \in PathsIn(NodesIn(x)) : Id(FileNode(g)) \in Ids(NodesIn(x))
BY DEF PathsIn, NodesIn, NodesOf, NodeOf, FileNode, Ids

\* A fresh index never fails a foreign key.
LEMMA ContainsLink ==
    ASSUME NEW x \in Extracts PROVE Linkable(ContainsIn(x), NodesIn(x))
<1>1. PICK S \in SUBSET Files : x \in [S -> Contents]
    BY DEF Extracts
<1>2. ASSUME NEW f \in S, NEW e \in ContainsOf(f, x[f])
      PROVE  e.src \in Ids(NodesIn(x)) /\ e.dst \in Ids(NodesIn(x))
    <2>1. PICK t \in Source[x[f]].tree :
              e.src = Id(NodeOf(f, t.parent)) /\ e.dst = Id(NodeOf(f, t.child))
        BY <1>2 DEF ContainsOf
    <2>2. NodeOf(f, t.parent) \in NodesIn(x) /\ NodeOf(f, t.child) \in NodesIn(x)
        BY <1>1, <2>1, SourceIsParsed DEF NodesIn, NodesOf
    <2> QED BY <2>1, <2>2 DEF Ids
<1> QED BY <1>1, <1>2 DEF Linkable, ContainsIn

LEMMA FreshEdgesLink ==
    ASSUME NEW x \in Extracts
    PROVE  Linkable(FreshEdges(x), NodesIn(x))
<1> DEFINE N == NodesIn(x)
<1>1. PICK S \in SUBSET Files : x \in [S -> Contents]
    BY DEF Extracts
<1>2. ASSUME NEW e \in ResolveAll(N, SitesIn(x)) PROVE e.src \in Ids(N) /\ e.dst \in Ids(N)
    <2>1. PICK f \in S : \E t \in Source[x[f]].sites : e \in ResolveSite(N, SiteOf(f, t))
        BY <1>1, <1>2 DEF ResolveAll, SitesIn, SitesOf
    <2>2. PICK t \in Source[x[f]].sites : e \in ResolveSite(N, SiteOf(f, t))
        BY <2>1
    <2> DEFINE s == SiteOf(f, t)
    <2>3. CASE e.dst \in Ids(N)
        BY <2>2, <2>3, ResolvedEdges
    <2>4. CASE s.ask = "import" /\ e \in ImportEdges(N, s)
        <3>2. ImportDef(t.name, t.at) \in Source[x[f]].defs
            BY <1>1, <2>4, SourceIsParsed DEF SiteOf
        <3>3. Id(NodeOf(f, ImportDef(t.name, t.at))) \in Ids(N)
            BY <1>1, <3>2 DEF NodesIn, NodesOf, Ids
        <3>4. \A g \in ResolveInclude(f, t.name, PathsIn(N)) : Id(FileNode(g)) \in Ids(N)
            BY ExtractedPaths DEF ResolveInclude, Only
        <3>5. s.from.file = f
            BY DEF SiteOf, NodeOf, Id
        <3>6. e.dst \in Ids(N)
            BY <2>4, <3>3, <3>4, <3>5 DEF ImportEdges, EdgeTo, SiteOf
        <3> QED BY <2>2, <3>6, ResolvedEdges
    <2> QED BY <2>2, <2>3, <2>4, ResolvedEdges
<1> QED BY <1>2, ContainsLink DEF FreshEdges, Linkable

-----------------------------------------------------------------------------
(***************************************************************************)
(* No dangling edge.                                                       *)
(***************************************************************************)
LEMMA SetAddedToBag ==
    ASSUME NEW B, NEW S
    PROVE  BagToSet(B (+) SetToBag(S)) = BagToSet(B) \cup S
BY DEF BagToSet, SetToBag, (+)

LEMMA BagOfSet == ASSUME NEW S PROVE BagToSet(SetToBag(S)) = S
BY DEF BagToSet, SetToBag

LEMMA InitEndpoints == Init => EdgesHaveEndpoints
BY DEF Init, EdgesHaveEndpoints, Linkable, BagToSet, EmptyBag, SetToBag

LEMMA NextEndpoints == TypeOK /\ EdgesHaveEndpoints /\ [Next]_vars => EdgesHaveEndpoints'
<1> SUFFICES ASSUME TypeOK, EdgesHaveEndpoints, [Next]_vars
             PROVE  EdgesHaveEndpoints'
    OBVIOUS
<1>1. ASSUME nodes' = nodes, edges' = edges PROVE EdgesHaveEndpoints'
    BY <1>1 DEF EdgesHaveEndpoints, Linkable, Ids
<1>2. ASSUME NEW p \in Procs, CreateDatabase(p) PROVE EdgesHaveEndpoints'
    BY <1>2 DEF CreateDatabase, EdgesHaveEndpoints, Linkable, BagToSet, EmptyBag, SetToBag
<1>3. ASSUME NEW p \in Procs, FillIndex(p) PROVE EdgesHaveEndpoints'
    <2>1. fresh[p] \in Extracts
        BY DEF TypeOK
    <2>2. nodes' = NodesIn(fresh[p]) /\ BagToSet(edges') = FreshEdges(fresh[p])
        BY <1>3, BagOfSet DEF FillIndex
    <2> QED BY <2>1, <2>2, FreshEdgesLink DEF EdgesHaveEndpoints
<1>4. ASSUME NEW p \in Procs, DeleteGone(p) PROVE EdgesHaveEndpoints'
    BY <1>4 DEF DeleteGone, EdgesHaveEndpoints, Linkable, Ids, Id, RestrictBag, Surviving, BagToSet
<1>5. ASSUME NEW p \in Procs, InsertNodes(p) PROVE EdgesHaveEndpoints'
    <2>1. fresh[p] \in Extracts
        BY DEF TypeOK
    <2>2. /\ nodes' = nodes \cup {n \in NodesIn(fresh[p]) : Id(n) \notin Ids(nodes)}
          /\ BagToSet(edges') = BagToSet(edges) \cup ContainsIn(fresh[p])
        BY <1>5, SetAddedToBag DEF InsertNodes
    <2>3. Ids(nodes') = Ids(nodes) \cup Ids(NodesIn(fresh[p]))
        BY <2>2 DEF Ids
    <2> QED BY <2>1, <2>2, <2>3, ContainsLink DEF EdgesHaveEndpoints, Linkable
<1>6. ASSUME NEW p \in Procs, InsertEdges(p) PROVE EdgesHaveEndpoints'
    <2>1. /\ nodes' = nodes /\ Linkable(found[p], nodes)
          /\ BagToSet(edges') = BagToSet(edges) \cup found[p]
        BY <1>6, SetAddedToBag DEF InsertEdges
    <2> QED BY <2>1 DEF EdgesHaveEndpoints, Linkable
<1> QED
    BY <1>1, <1>2, <1>3, <1>4, <1>5, <1>6
    DEF Next, Proceed, Edit, Crash, BeginIndex, InstallSchema, SyncFails, NothingToDo,
        Classify, ParseFresh, Plan, ParseAffected, Resolve, InsertFails, vars, database

\* EdgesHaveEndpoints, for any number of concurrent processes: no interleaving of
\* syncs, edits and crashes leaves an edge whose end is not in the node table.
THEOREM EndpointsExist == Spec => []EdgesHaveEndpoints
<1>1. TypeOK /\ EdgesHaveEndpoints /\ [Next]_vars => TypeOK' /\ EdgesHaveEndpoints'
    BY NextTypeOK, NextEndpoints
<1> QED BY <1>1, InitTypeOK, InitEndpoints, PTL DEF Spec

-----------------------------------------------------------------------------
(***************************************************************************)
(* The files table as the change anchor.  The invariant adds to            *)
(* NodesMatchHashes what a run in progress knows: which files are without  *)
(* a row, and which files its extracts are of.                             *)
(***************************************************************************)
OnlyContains(es) == {e \in es : e.kind = "contains"}

RunKnows(p) ==
    /\ pc[p] \in {"ddl", "fill"} =>
          nodes = {} /\ edges = EmptyBag /\ Indexed = {}
    /\ pc[p] \in {"parse", "plan", "delete"} => todo[p] \cap Indexed \subseteq gone[p]
    /\ pc[p] \in {"plan", "delete", "reparse", "insert"} => DOMAIN fresh[p] = todo[p]
    /\ pc[p] \in {"reparse", "insert"} => todo[p] \cap Indexed = {}
    /\ OnlyContains(found[p]) = {}

HashInv ==
    /\ TypeOK /\ NodesMatchHashes
    /\ DOMAIN found = Procs
    /\ \A p \in Procs : RunKnows(p)

\* Extracts over disjoint parts of the tree add up.
LEMMA ExtractsAddUp ==
    ASSUME NEW x, NEW y, NEW z, DOMAIN z = DOMAIN x \cup DOMAIN y,
           \A f \in DOMAIN x : z[f] = x[f], \A f \in DOMAIN y : z[f] = y[f]
    PROVE  /\ NodesIn(z) = NodesIn(x) \cup NodesIn(y)
           /\ ContainsIn(z) = ContainsIn(x) \cup ContainsIn(y)
BY DEF NodesIn, ContainsIn

LEMMA NodesKnowTheirFile ==
    /\ \A f, c : \A n \in NodesOf(f, c) : n.file = f
    /\ \A f, c : \A e \in ContainsOf(f, c) :
          e.kind = "contains" /\ e.src.file = f /\ e.dst.file = f
BY DEF NodesOf, ContainsOf, NodeOf, FileNode, Id

LEMMA ResolvedNotContains ==
    ASSUME NEW N, NEW S PROVE OnlyContains(ResolveAll(N, S)) = {}
BY ResolvedEdges DEF OnlyContains, ResolveAll, ResolvedKinds

LEMMA ContainsOnly == ASSUME NEW x PROVE OnlyContains(ContainsIn(x)) = ContainsIn(x)
BY NodesKnowTheirFile DEF OnlyContains, ContainsIn

LEMMA InitHashInv == Init => HashInv
<1> SUFFICES ASSUME Init PROVE NodesMatchHashes /\ \A p \in Procs : RunKnows(p)
    BY InitTypeOK DEF HashInv, Init
<1>1. DOMAIN Recorded = {}
    BY DEF Init, Recorded, Indexed
<1>2. NodesMatchHashes
    BY <1>1 DEF Init, NodesMatchHashes, NodesIn, ContainsIn, BagToSet, EmptyBag, SetToBag
<1> QED BY <1>2 DEF Init, RunKnows, OnlyContains

LEMMA FoundDomain == DOMAIN found = Procs /\ [Next]_vars => DOMAIN found' = Procs
<1> SUFFICES ASSUME DOMAIN found = Procs, [Next]_vars PROVE DOMAIN found' = Procs
    OBVIOUS
<1>1. ASSUME NEW p, NEW how, Finish(p, how) PROVE DOMAIN found' = Procs
    BY <1>1 DEF Finish
<1>2. ASSUME NEW p, Resolve(p) PROVE DOMAIN found' = Procs
    BY <1>2 DEF Resolve
<1>3. CASE found' = found
    BY <1>3
<1> QED
    BY <1>1, <1>2, <1>3
    DEF Next, Proceed, Edit, Crash, BeginIndex, CreateDatabase, InstallSchema,
        FillIndex, SyncFails, NothingToDo, Classify, ParseFresh, Plan, DeleteGone,
        ParseAffected, InsertNodes, InsertEdges, InsertFails, vars, locals

LEMMA NextHashInv ==
    ASSUME \A p, q \in Procs : p = q
    PROVE  HashInv /\ [Next]_vars => HashInv'
<1> SUFFICES ASSUME HashInv, [Next]_vars
             PROVE  NodesMatchHashes' /\ \A p \in Procs : RunKnows(p)'
    BY FoundDomain, NextTypeOK DEF HashInv
<1> DEFINE Goal == NodesMatchHashes' /\ \A p \in Procs : RunKnows(p)'
<1>a. NodesMatchHashes /\ TypeOK /\ DOMAIN found = Procs /\ \A p \in Procs : RunKnows(p)
    BY DEF HashInv
<1>b. ASSUME UNCHANGED <<nodes, rows, edges>> PROVE NodesMatchHashes'
    BY <1>a, <1>b DEF NodesMatchHashes, Recorded, Indexed
<1>c. ASSUME NEW p \in Procs, NEW how, Finish(p, how) PROVE RunKnows(p)'
    BY <1>a, <1>c DEF Finish, RunKnows, TypeOK, OnlyContains
<1>1. ASSUME NEW f \in Files, NEW c \in Choices[f], Edit(f, c) PROVE Goal
    BY <1>a, <1>b, <1>1 DEF Edit, RunKnows, Indexed, OnlyContains, database, locals
<1>2. ASSUME NEW p \in Procs, Crash(p) PROVE Goal
    BY <1>a, <1>b, <1>c, <1>2 DEF Crash, database
<1>3. ASSUME NEW p \in Procs, InsertFails(p) PROVE Goal
    BY <1>a, <1>b, <1>c, <1>3 DEF InsertFails, database
<1>4. ASSUME NEW p \in Procs, BeginIndex(p) PROVE Goal
    BY <1>a, <1>b, <1>4 DEF BeginIndex, RunKnows, TypeOK, database
<1>5. ASSUME NEW p \in Procs, CreateDatabase(p) PROVE Goal
    <2>1. nodes' = {} /\ edges' = EmptyBag /\ Indexed' = {}
        BY <1>5 DEF CreateDatabase, Indexed
    <2>2. NodesMatchHashes'
        BY <2>1 DEF NodesMatchHashes, Recorded, NodesIn, ContainsIn, BagToSet,
                    EmptyBag, SetToBag
    <2> QED BY <1>a, <1>5, <2>1, <2>2 DEF CreateDatabase, RunKnows, TypeOK, locals
<1>6. ASSUME NEW p \in Procs, InstallSchema(p) PROVE Goal
    BY <1>a, <1>b, <1>6 DEF InstallSchema, RunKnows, TypeOK, Indexed, locals
<1>7. ASSUME NEW p \in Procs, FillIndex(p) PROVE Goal
    <2>1. Indexed = {} /\ fresh[p] \in Extracts
        BY <1>a, <1>7 DEF FillIndex, RunKnows, TypeOK
    <2>2. PICK S \in SUBSET Files : fresh[p] \in [S -> Contents]
        BY <2>1 DEF Extracts
    <2>3. DOMAIN Recorded' = S /\ \A f \in S : Recorded'[f] = fresh[p][f]
        BY <1>7, <2>1, <2>2, MarkersAreNotContents
        DEF FillIndex, RowsAfter, Recorded, Indexed
    <2>4. NodesIn(Recorded') = NodesIn(fresh[p]) /\ ContainsIn(Recorded') = ContainsIn(fresh[p])
        BY <2>2, <2>3 DEF NodesIn, ContainsIn
    <2>5. OnlyContains(FreshEdges(fresh[p])) = ContainsIn(fresh[p])
        BY ResolvedNotContains, ContainsOnly DEF FreshEdges, OnlyContains
    <2>6. BagToSet(edges') = FreshEdges(fresh[p]) /\ nodes' = NodesIn(fresh[p])
        BY <1>7, BagOfSet DEF FillIndex
    <2>7. NodesMatchHashes'
        BY <2>4, <2>5, <2>6 DEF NodesMatchHashes, OnlyContains
    <2> QED BY <1>a, <1>c, <1>7, <2>7 DEF FillIndex
<1>8. ASSUME NEW p \in Procs, Classify(p) PROVE Goal
    BY <1>a, <1>b, <1>8
    DEF Classify, RunKnows, TypeOK, Changed, Added, Deleted, Indexed, database
<1>9. ASSUME NEW p \in Procs, ParseFresh(p) PROVE Goal
    <2>1. DOMAIN fresh'[p] = todo[p]
        BY <1>a, <1>9 DEF ParseFresh, Parse, TypeOK
    <2> QED BY <1>a, <1>b, <1>9, <2>1
            DEF ParseFresh, RunKnows, TypeOK, Indexed, database
<1>10. ASSUME NEW p \in Procs, Plan(p) PROVE Goal
    BY <1>a, <1>b, <1>10 DEF Plan, RunKnows, TypeOK, Indexed, database
<1>11. ASSUME NEW p \in Procs, DeleteGone(p) PROVE Goal
    <2>1. Indexed' = Indexed \ gone[p] /\ \A f \in Indexed' : rows'[f] = rows[f]
        BY <1>11 DEF DeleteGone, Indexed
    <2>2. DOMAIN Recorded' = DOMAIN Recorded \ gone[p]
              /\ \A f \in DOMAIN Recorded' : Recorded'[f] = Recorded[f]
        BY <2>1 DEF Recorded
    <2>a. NodesIn(Recorded') = {n \in NodesIn(Recorded) : n.file \notin gone[p]}
        BY <2>2, NodesKnowTheirFile DEF NodesIn
    <2>b. ContainsIn(Recorded') = {e \in ContainsIn(Recorded) :
                 e.src.file \notin gone[p] /\ e.dst.file \notin gone[p]}
        BY <2>2, NodesKnowTheirFile DEF ContainsIn
    <2>3. /\ nodes' = {n \in nodes : n.file \notin gone[p]}
          /\ OnlyContains(BagToSet(edges')) = {e \in OnlyContains(BagToSet(edges)) :
                 e.src.file \notin gone[p] /\ e.dst.file \notin gone[p]}
        BY <1>11 DEF DeleteGone, RestrictBag, Surviving, BagToSet, OnlyContains
    <2>4. NodesMatchHashes'
        BY <1>a, <2>a, <2>b, <2>3 DEF NodesMatchHashes, OnlyContains
    <2>5. RunKnows(p)'
        BY <1>a, <1>11, <2>1 DEF DeleteGone, RunKnows, TypeOK, locals
    <2> QED BY <2>4, <2>5
<1>12. ASSUME NEW p \in Procs, ParseAffected(p) PROVE Goal
    BY <1>a, <1>b, <1>12 DEF ParseAffected, RunKnows, TypeOK, Indexed, database
<1>13. ASSUME NEW p \in Procs, InsertNodes(p) PROVE Goal
    <2>1. PICK S \in SUBSET Files : fresh[p] \in [S -> Contents]
        BY <1>a DEF TypeOK, Extracts
    <2>2. S \cap Indexed = {}
        BY <1>a, <1>13, <2>1 DEF InsertNodes, RunKnows
    <2>3. /\ DOMAIN Recorded' = DOMAIN Recorded \cup DOMAIN fresh[p]
          /\ \A f \in DOMAIN Recorded : Recorded'[f] = Recorded[f]
          /\ \A f \in DOMAIN fresh[p] : Recorded'[f] = fresh[p][f]
        BY <1>13, <2>1, <2>2, MarkersAreNotContents
        DEF InsertNodes, RowsAfter, Recorded, Indexed
    <2>4. /\ NodesIn(Recorded') = NodesIn(Recorded) \cup NodesIn(fresh[p])
          /\ ContainsIn(Recorded') = ContainsIn(Recorded) \cup ContainsIn(fresh[p])
        BY <2>3, ExtractsAddUp
    <2>c. \A n \in NodesIn(fresh[p]) : Id(n) \notin Ids(nodes)
        <3>1. \A n \in nodes : n.file \in Indexed
            BY <1>a, NodesKnowTheirFile DEF NodesMatchHashes, NodesIn, Recorded
        <3>2. \A n \in NodesIn(fresh[p]) : n.file \in S
            BY <2>1, NodesKnowTheirFile DEF NodesIn
        <3> QED BY <2>2, <3>1, <3>2 DEF Ids, Id
    <2>5. /\ nodes' = nodes \cup NodesIn(fresh[p])
          /\ BagToSet(edges') = BagToSet(edges) \cup ContainsIn(fresh[p])
        BY <1>13, <2>c, SetAddedToBag DEF InsertNodes
    <2>6. NodesMatchHashes'
        BY <1>a, <2>4, <2>5, ContainsOnly DEF NodesMatchHashes, OnlyContains
    <2>7. RunKnows(p)'
        BY <1>a, <1>13 DEF InsertNodes, RunKnows, TypeOK, locals
    <2> QED BY <2>6, <2>7
<1>14. ASSUME NEW p \in Procs, Resolve(p) PROVE Goal
    <2>1. found'[p] = ResolveAll(nodes, SitesIn(fresh[p]) \cup SitesIn(late[p]))
        BY <1>a, <1>14 DEF Resolve
    <2> QED BY <1>a, <1>b, <1>14, <2>1, ResolvedNotContains
            DEF Resolve, RunKnows, TypeOK, database
<1>15. ASSUME NEW p \in Procs, InsertEdges(p) PROVE Goal
    <2>1. BagToSet(edges') = BagToSet(edges) \cup found[p]
        BY <1>15, SetAddedToBag DEF InsertEdges
    <2>2. OnlyContains(BagToSet(edges')) = OnlyContains(BagToSet(edges))
        BY <1>a, <2>1 DEF RunKnows, OnlyContains
    <2>3. NodesMatchHashes'
        BY <1>a, <1>15, <2>2 DEF InsertEdges, NodesMatchHashes, OnlyContains,
                                 Recorded, Indexed
    <2> QED BY <1>a, <1>c, <1>15, <2>3 DEF InsertEdges
<1>16. ASSUME NEW p \in Procs, SyncFails(p) \/ NothingToDo(p) PROVE Goal
    BY <1>a, <1>b, <1>16
    DEF SyncFails, NothingToDo, RunKnows, Indexed, OnlyContains, database, locals
<1>17. ASSUME UNCHANGED vars PROVE Goal
    BY <1>a, <1>b, <1>17 DEF vars, RunKnows, Indexed, OnlyContains, database, locals
<1> QED
    BY <1>1, <1>2, <1>3, <1>4, <1>5, <1>6, <1>7, <1>8, <1>9, <1>10, <1>11, <1>12,
       <1>13, <1>14, <1>15, <1>16, <1>17 DEF Next, Proceed

\* NodesMatchHashes, for one process at a time and any number of edits and
\* crashes: at every commit the nodes are those of the recorded contents.
THEOREM HashesAnchorNodes ==
    ASSUME \A p, q \in Procs : p = q PROVE Spec => []NodesMatchHashes
<1>1. HashInv => NodesMatchHashes
    BY DEF HashInv
<1> QED BY <1>1, InitHashInv, NextHashInv, PTL DEF Spec

-----------------------------------------------------------------------------
(***************************************************************************)
(* Calls and languages.                                                    *)
(***************************************************************************)
\* The files that what f imports, by the nodes N, can stand for.
MayMean(N, f) ==
    UNION {{candidate[i] : i \in DOMAIN candidate} :
               candidate \in {ModulePaths[f][n.name] :
                                  n \in {m \in N : m.file = f /\ m.kind = "import"}}}

Crosses(N, es) ==
    \A e \in es : e.kind \in {"calls", "instantiates"} /\ Lang[e.src.file] # Lang[e.dst.file] =>
        e.by = "import" /\ e.dst.file \in MayMean(N, e.src.file)

\* What a run found and is about to insert crosses as the nodes say.
LanguageInv ==
    /\ Crosses(nodes, BagToSet(edges))
    /\ DOMAIN found = Procs
    /\ \A p \in Procs : pc[p] = "link" => Crosses(nodes, found[p])

LEMMA ImportedMayBeMeant ==
    ASSUME NEW N, NEW f, NEW g \in ImportedFiles(N, f) PROVE g \in MayMean(N, f)
<1>1. PICK n \in {m \in N : m.file = f /\ m.kind = "import"} :
          g \in ModuleFile(f, n.name, PathsIn(N))
    BY DEF ImportedFiles
<1>2. PICK i \in DOMAIN ModulePaths[f][n.name] : g = ModulePaths[f][n.name][i]
    BY <1>1 DEF ModuleFile
<1> QED BY <1>1, <1>2 DEF MayMean

\* Of the tiers of a name only that of the imports leads out of the language.
LEMMA NamesCross ==
    ASSUME NEW N, NEW f, NEW name, NEW kinds, NEW r \in ResolveName(N, f, name, kinds)
    PROVE  \/ Lang[r.node.file] = Lang[f]
           \/ r.by = "import" /\ r.node.file \in MayMean(N, f)
<1> DEFINE tiers == NameTiers(N, f, name, kinds)
<1>1. \A i \in DOMAIN tiers : \A n \in tiers[i].set :
          \/ Lang[n.file] = Lang[f]
          \/ tiers[i].by = "import" /\ n.file \in MayMean(N, f)
    BY ImportedMayBeMeant DEF NameTiers, Only
<1> HIDE DEF tiers
<1>2. PICK i \in DOMAIN tiers : r \in {Found(n, tiers[i].by, tiers[i].conf) :
                                           n \in First(tiers[i].set)}
    BY DEF ResolveName, tiers
<1>3. PICK n \in First(tiers[i].set) : r = Found(n, tiers[i].by, tiers[i].conf)
    BY <1>2
<1> QED BY <1>1, <1>2, <1>3 DEF First, Found

LEMMA QualifiedKeepLanguage ==
    ASSUME NEW N, NEW f, NEW owner, NEW name, NEW kinds,
           NEW n \in ResolveQualified(N, f, owner, name, kinds)
    PROVE  Lang[n.file] = Lang[f]
BY DEF ResolveQualified, Qualified, Pinned, First

LEMMA NamedCross ==
    ASSUME NEW N, NEW s, NEW kind, NEW kinds, NEW e \in NamedEdges(N, s, kind, kinds)
    PROVE  \/ Lang[e.src.file] = Lang[e.dst.file]
           \/ e.by = "import" /\ e.dst.file \in MayMean(N, e.src.file)
<1>1. PICK r \in ResolveName(N, s.from.file, s.name, kinds) :
          e = EdgeTo(s, kind, r.node, r.by, r.conf)
    BY DEF NamedEdges
<1>2. \/ Lang[r.node.file] = Lang[s.from.file]
      \/ r.by = "import" /\ r.node.file \in MayMean(N, s.from.file)
    BY NamesCross
<1>3. e.src.file = s.from.file /\ e.dst.file = r.node.file /\ e.by = r.by
    BY <1>1 DEF EdgeTo, Id
<1> QED BY <1>2, <1>3

\* What resolution calls is in the caller's language or imported by the caller.
LEMMA SitesCross ==
    ASSUME NEW N, NEW S PROVE Crosses(N, ResolveAll(N, S))
<1> SUFFICES ASSUME NEW s \in S, NEW e \in ResolveSite(N, s),
                    e.kind \in {"calls", "instantiates"},
                    Lang[e.src.file] # Lang[e.dst.file]
             PROVE  e.by = "import" /\ e.dst.file \in MayMean(N, e.src.file)
    BY DEF ResolveAll, Crosses
<1>1. e \in SiteEdges(N, s)
    BY DEF ResolveSite
<1>2. CASE \E kind, kinds : e \in NamedEdges(N, s, kind, kinds)
    BY <1>2, NamedCross
<1>3. CASE e \in CallEdges(N, s)
    BY <1>2, <1>3 DEF CallEdges
<1>4. CASE e \in QualifiedEdges(N, s) \/ e \in MethodEdges(N, s)
    <2>1. PICK owner, kinds :
              \E n \in ResolveQualified(N, s.from.file, owner, s.name, kinds) :
                  e.src = s.from /\ e.dst = Id(n)
        BY <1>4 DEF QualifiedEdges, MethodEdges, EdgeTo
    <2>2. PICK n \in ResolveQualified(N, s.from.file, owner, s.name, kinds) :
              e.src = s.from /\ e.dst = Id(n)
        BY <2>1
    <2>3. Lang[n.file] = Lang[s.from.file]
        BY QualifiedKeepLanguage
    <2> QED BY <2>2, <2>3 DEF Id
<1>5. CASE e \in ImportEdges(N, s)
    BY <1>5 DEF ImportEdges, EdgeTo
<1>6. CASE e \in InheritEdges(N, s)
    <2>1. PICK r \in ResolveName(N, s.from.file, s.name, InheritAnyKinds),
               kind \in {"implements", "extends"} :
              e = EdgeTo(s, kind, r.node, r.by, r.conf)
        BY <1>6 DEF InheritEdges
    <2> QED BY <2>1 DEF EdgeTo
<1> QED BY <1>1, <1>2, <1>3, <1>4, <1>5, <1>6 DEF SiteEdges

LEMMA ContainsCross == ASSUME NEW N, NEW x PROVE Crosses(N, ContainsIn(x))
BY NodesKnowTheirFile DEF Crosses, ContainsIn

\* The import nodes of a file say what its edges may cross to.
LEMMA CrossesBy ==
    ASSUME NEW N, NEW M, NEW es, Crosses(N, es),
           \A e \in es : \A n \in N : n.file = e.src.file => n \in M
    PROVE  Crosses(M, es)
BY DEF Crosses, MayMean

LEMMA NextLanguageInv ==
    ASSUME \A p, q \in Procs : p = q
    PROVE  TypeOK /\ LanguageInv /\ [Next]_vars => LanguageInv'
<1> SUFFICES ASSUME TypeOK, LanguageInv, [Next]_vars PROVE LanguageInv'
    OBVIOUS
<1>1. /\ TypeOK /\ Crosses(nodes, BagToSet(edges)) /\ DOMAIN found' = Procs
      /\ DOMAIN found = Procs
      /\ \A p \in Procs : pc[p] = "link" => Crosses(nodes, found[p])
    BY FoundDomain DEF LanguageInv
<1>2. ASSUME Crosses(nodes', BagToSet(edges')), NEW p \in Procs, pc'[p] # "link"
      PROVE  LanguageInv'
    BY <1>1, <1>2 DEF LanguageInv
<1>3. CASE UNCHANGED <<nodes, edges, found, pc>>
    BY <1>1, <1>3 DEF LanguageInv
<1>4. ASSUME NEW p \in Procs, NEW how, Finish(p, how) PROVE pc'[p] # "link"
    BY <1>1, <1>4 DEF Finish, TypeOK
<1>5. ASSUME NEW p \in Procs, Crash(p) \/ InsertFails(p) PROVE LanguageInv'
    <2>1. UNCHANGED <<nodes, edges>> /\ \E how : Finish(p, how)
        BY <1>5 DEF Crash, InsertFails, database
    <2> QED BY <1>1, <1>2, <1>4, <2>1
<1>6. ASSUME NEW p \in Procs, CreateDatabase(p) PROVE LanguageInv'
    <2>1. BagToSet(edges') = {} /\ pc'[p] = "ddl"
        BY <1>1, <1>6 DEF CreateDatabase, BagToSet, EmptyBag, SetToBag, TypeOK
    <2>2. Crosses(nodes', BagToSet(edges'))
        BY <2>1 DEF Crosses
    <2> QED BY <1>2, <2>1, <2>2
<1>7. ASSUME NEW p \in Procs, FillIndex(p) PROVE LanguageInv'
    <2>1. nodes' = NodesIn(fresh[p]) /\ BagToSet(edges') = FreshEdges(fresh[p])
        BY <1>7, BagOfSet DEF FillIndex
    <2>2. /\ Crosses(nodes', ContainsIn(fresh[p]))
          /\ Crosses(nodes', ResolveAll(NodesIn(fresh[p]), SitesIn(fresh[p])))
        BY <2>1, SitesCross, ContainsCross
    <2>3. Crosses(nodes', BagToSet(edges'))
        BY <2>1, <2>2 DEF FreshEdges, Crosses
    <2> QED BY <1>2, <1>4, <1>7, <2>3 DEF FillIndex
<1>8. ASSUME NEW p \in Procs, DeleteGone(p) PROVE LanguageInv'
    <2>1. /\ nodes' = {n \in nodes : n.file \notin gone[p]} /\ pc'[p] = "reparse"
          /\ BagToSet(edges') = Surviving(p)
        BY <1>1, <1>8 DEF DeleteGone, RestrictBag, Surviving, BagToSet, TypeOK
    <2>2. \A e \in BagToSet(edges') : e \in BagToSet(edges) /\ e.src.file \notin gone[p]
        BY <2>1 DEF Surviving
    <2>3. Crosses(nodes, BagToSet(edges'))
        BY <1>1, <2>2 DEF Crosses
    <2>4. \A e \in BagToSet(edges') : \A n \in nodes : n.file = e.src.file => n \in nodes'
        BY <2>1, <2>2
    <2>5. Crosses(nodes', BagToSet(edges'))
        BY <2>3, <2>4, CrossesBy
    <2> QED BY <1>2, <2>1, <2>5
<1>9. ASSUME NEW p \in Procs, InsertNodes(p) PROVE LanguageInv'
    <2>1. /\ nodes \subseteq nodes' /\ pc'[p] = "resolve"
          /\ BagToSet(edges') = BagToSet(edges) \cup ContainsIn(fresh[p])
        BY <1>1, <1>9, SetAddedToBag DEF InsertNodes, TypeOK
    <2>2. Crosses(nodes', BagToSet(edges)) /\ Crosses(nodes', ContainsIn(fresh[p]))
        BY <1>1, <2>1, CrossesBy, ContainsCross
    <2>3. Crosses(nodes', BagToSet(edges'))
        BY <2>1, <2>2 DEF Crosses
    <2> QED BY <1>2, <2>1, <2>3
<1>10. ASSUME NEW p \in Procs, Resolve(p) PROVE LanguageInv'
    <2>1. /\ found'[p] = ResolveAll(nodes, SitesIn(fresh[p]) \cup SitesIn(late[p]))
          /\ UNCHANGED <<nodes, edges>>
        BY <1>1, <1>10 DEF Resolve, database
    <2>2. Crosses(nodes', found'[p])
        BY <2>1, SitesCross
    <2> QED BY <1>1, <2>1, <2>2 DEF LanguageInv
<1>11. ASSUME NEW p \in Procs, InsertEdges(p) PROVE LanguageInv'
    <2>1. /\ BagToSet(edges') = BagToSet(edges) \cup found[p] /\ nodes' = nodes
          /\ pc[p] = "link"
        BY <1>11, SetAddedToBag DEF InsertEdges
    <2>2. Crosses(nodes', BagToSet(edges'))
        BY <1>1, <2>1 DEF Crosses
    <2> QED BY <1>2, <1>4, <1>11, <2>2 DEF InsertEdges
<1>12. ASSUME NEW p \in Procs, BeginIndex(p) \/ InstallSchema(p) \/ Classify(p)
                               \/ ParseFresh(p) \/ Plan(p) \/ ParseAffected(p)
       PROVE  LanguageInv'
    <2>1. pc'[p] # "link" /\ UNCHANGED <<nodes, edges>>
        BY <1>1, <1>12 DEF BeginIndex, InstallSchema, Classify, ParseFresh, Plan,
                           ParseAffected, TypeOK, database
    <2> QED BY <1>1, <1>2, <2>1
<1> QED
    BY <1>3, <1>5, <1>6, <1>7, <1>8, <1>9, <1>10, <1>11, <1>12
    DEF Next, Proceed, Edit, SyncFails, NothingToDo, vars, database, locals

\* CallsCrossByImport, for one process at a time, whatever is edited and killed: a
\* call leads into another language by the import tier alone, and then into a file
\* that a module imported by the caller can stand for (resolve.rs:409-414).
THEOREM CallsCrossOnlyByImport ==
    ASSUME \A p, q \in Procs : p = q PROVE Spec => []CallsCrossByImport
<1>1. Init => LanguageInv
    BY DEF Init, LanguageInv, Crosses, BagToSet, EmptyBag, SetToBag
<1>2. LanguageInv => CallsCrossByImport
    BY DEF LanguageInv, Crosses, MayMean, CallsCrossByImport, Importable
<1> QED BY <1>1, <1>2, NextLanguageInv, TypeCorrect, PTL DEF Spec

-----------------------------------------------------------------------------
(***************************************************************************)
(* What a sync drops and what it inserts, and what it knows of the tree.   *)
(***************************************************************************)
\* The file rows that an index of the tree has.
Wanted == [f \in Files |-> IF disk[f] = Absent THEN NoRow ELSE disk[f]]

\* What a run has made of the database: the edges it is about to insert start in
\* files whose edges it has dropped.
RunDropped(p) ==
    /\ pc[p] \in {"reparse", "insert", "resolve", "link"} =>
          \A e \in BagToSet(edges) :
              e.kind = "contains" \/ e.src.file \notin todo[p] \cup affected[p]
    /\ pc[p] \in {"resolve", "link"} => DOMAIN fresh[p] = todo[p]
    /\ pc[p] \in {"insert", "resolve", "link"} =>
          DOMAIN late[p] = affected[p] \cap listing[p]
    /\ pc[p] = "link" => \A e \in found[p] : e.src.file \in todo[p] \cup affected[p]

\* What a run knows of the tree, as long as nobody edits it.
RunFollows(p) ==
    /\ pc[p] \in {"create", "ddl", "fill"} => fresh[p] = Tree
    /\ pc[p] \in {"parse", "plan", "delete"} =>
          gone[p] = Changed \cup Deleted /\ todo[p] = Changed \cup Added
    /\ pc[p] \in {"parse", "plan", "delete", "reparse", "insert", "resolve", "link"} =>
          todo[p] \subseteq OnDisk /\ listing[p] = OnDisk
    /\ pc[p] \in {"plan", "delete", "reparse", "insert", "resolve", "link"} =>
          \A f \in todo[p] : fresh[p][f] = disk[f]
    /\ pc[p] \in {"insert", "resolve", "link"} => \A f \in DOMAIN late[p] : late[p][f] = disk[f]
    /\ pc[p] \in {"reparse", "insert"} => \A f \in Files \ todo[p] : rows[f] = Wanted[f]
    /\ pc[p] \in {"resolve", "link"} => rows = Wanted
    /\ pc[p] = "link" =>
          found[p] = ResolveAll(NodesIn(Tree), SitesIn(fresh[p]) \cup SitesIn(late[p]))
    /\ pc[p] = "idle" /\ outcome[p] = "ok" => rows = Wanted

SyncInv ==
    /\ DOMAIN affected = Procs
    /\ NoDuplicateEdges
    /\ \A p \in Procs : RunDropped(p) /\ (~edited[p] => RunFollows(p))

LEMMA InitSyncInv == Init => SyncInv
<1> SUFFICES ASSUME Init PROVE SyncInv
    OBVIOUS
<1>1. BagToSet(edges) = {}
    BY DEF Init, BagToSet, EmptyBag, SetToBag
<1> QED BY <1>1 DEF Init, SyncInv, NoDuplicateEdges, RunDropped, RunFollows

LEMMA AffectedDomain == DOMAIN affected = Procs /\ [Next]_vars => DOMAIN affected' = Procs
<1> SUFFICES ASSUME DOMAIN affected = Procs, [Next]_vars PROVE DOMAIN affected' = Procs
    OBVIOUS
<1>1. ASSUME NEW p, NEW how, Finish(p, how) PROVE DOMAIN affected' = Procs
    BY <1>1 DEF Finish
<1>2. ASSUME NEW p, Plan(p) PROVE DOMAIN affected' = Procs
    BY <1>2 DEF Plan
<1>3. CASE affected' = affected
    BY <1>3
<1> QED
    BY <1>1, <1>2, <1>3
    DEF Next, Proceed, Edit, Crash, BeginIndex, CreateDatabase, InstallSchema,
        FillIndex, SyncFails, NothingToDo, Classify, ParseFresh, DeleteGone,
        ParseAffected, InsertNodes, Resolve, InsertEdges, InsertFails, vars, locals

\* A set of edges that a bag has none of.
LEMMA AddedOnce ==
    ASSUME NEW B, NEW S, \A e \in BagToSet(B) : B[e] = 1, BagToSet(B) \cap S = {}
    PROVE  \A e \in BagToSet(B (+) SetToBag(S)) : (B (+) SetToBag(S))[e] = 1
<1>1. BagToSet(B (+) SetToBag(S)) = DOMAIN B \cup S /\ BagToSet(B) = DOMAIN B
    BY DEF BagToSet, SetToBag, (+)
<1> SUFFICES ASSUME NEW e \in DOMAIN B \cup S PROVE (B (+) SetToBag(S))[e] = 1
    BY <1>1
<1>2. CASE e \in DOMAIN B
    BY <1>1, <1>2 DEF BagToSet, SetToBag, (+)
<1>3. CASE e \in S
    BY <1>1, <1>3 DEF BagToSet, SetToBag, (+)
<1> QED BY <1>2, <1>3

LEMMA OnceInSet == ASSUME NEW S PROVE \A e \in BagToSet(SetToBag(S)) : SetToBag(S)[e] = 1
<1>1. BagToSet(SetToBag(S)) = S
    BY BagOfSet
<1> QED BY <1>1 DEF SetToBag

LEMMA SitesKnowTheirFile ==
    ASSUME NEW x PROVE \A s \in SitesIn(x) : s.from.file \in DOMAIN x
BY DEF SitesIn, SitesOf, SiteOf, NodeOf, Id

\* Resolved edges start in the files whose sites were resolved.
LEMMA ResolvedStartInSites ==
    ASSUME NEW N, NEW x, NEW y, NEW e \in ResolveAll(N, SitesIn(x) \cup SitesIn(y))
    PROVE  e.src.file \in DOMAIN x \cup DOMAIN y
<1>1. PICK s \in SitesIn(x) \cup SitesIn(y) : e \in ResolveSite(N, s)
    BY DEF ResolveAll
<1>2. e.src = s.from
    BY <1>1, ResolvedEdges
<1> QED BY <1>1, <1>2, SitesKnowTheirFile

\* An edge starts in a file that has a row.
LEMMA EdgesStartIndexed ==
    ASSUME EdgesHaveEndpoints, NodesMatchHashes, NEW e \in BagToSet(edges)
    PROVE  e.src.file \in Indexed
<1>1. e.src \in Ids(nodes)
    BY DEF EdgesHaveEndpoints, Linkable
<1>2. PICK n \in NodesIn(Recorded) : e.src.file = n.file
    BY <1>1 DEF Ids, Id, NodesMatchHashes
<1> QED BY <1>2, NodesKnowTheirFile DEF NodesIn, Recorded

\* Rows that are those of the tree describe the tree.
LEMMA WantedIsTree ==
    ASSUME TypeOK, rows = Wanted PROVE Recorded = Tree
<1>1. Indexed = OnDisk
    BY MarkersAreNotContents DEF TypeOK, Wanted, Indexed, OnDisk
<1>2. \A f \in OnDisk : rows[f] = disk[f]
    BY DEF Wanted, OnDisk
<1> QED BY <1>1, <1>2 DEF Recorded, Tree

LEMMA SyncBegins == Wanted = [f \in Files |-> IF f \in OnDisk THEN disk[f] ELSE NoRow]
BY DEF Wanted, OnDisk

\* A run that ends leaves nothing to remember but its rows.
LEMMA FinishSync ==
    ASSUME TypeOK, NEW p \in Procs, NEW how, Finish(p, how),
           UNCHANGED disk, how = "ok" /\ ~edited'[p] => rows' = Wanted
    PROVE  RunDropped(p)' /\ (~edited[p] => RunFollows(p))'
<1>1. pc'[p] = "idle" /\ outcome'[p] = how
    BY DEF TypeOK, Finish
<1>2. Wanted' = Wanted
    BY DEF Wanted
<1> QED BY <1>1, <1>2 DEF RunDropped, RunFollows

LEMMA NextSyncInv ==
    ASSUME \A p, q \in Procs : p = q
    PROVE  HashInv /\ EdgesHaveEndpoints /\ SyncInv /\ [Next]_vars => SyncInv'
<1> SUFFICES ASSUME HashInv, EdgesHaveEndpoints, SyncInv, [Next]_vars
             PROVE  /\ NoDuplicateEdges'
                    /\ \A p \in Procs : RunDropped(p)' /\ (~edited[p] => RunFollows(p))'
    BY AffectedDomain DEF SyncInv
<1> DEFINE Goal == /\ NoDuplicateEdges'
                   /\ \A p \in Procs : RunDropped(p)' /\ (~edited[p] => RunFollows(p))'
           Known(p) == RunDropped(p) /\ (~edited[p] => RunFollows(p))
<1>a. /\ TypeOK /\ NodesMatchHashes /\ NoDuplicateEdges
      /\ DOMAIN found = Procs /\ DOMAIN affected = Procs
      /\ \A p \in Procs : RunKnows(p) /\ Known(p)
    BY DEF HashInv, SyncInv
<1>b. ASSUME NEW p \in Procs, Known(p)' PROVE \A q \in Procs : Known(q)'
    BY <1>b
<1>c. ASSUME edges' = edges PROVE NoDuplicateEdges'
    BY <1>a, <1>c DEF NoDuplicateEdges
<1>1. ASSUME NEW f \in Files, NEW c \in Choices[f], Edit(f, c) PROVE Goal
    <2>1. UNCHANGED <<edges, pc, todo, affected, fresh, late, listing, found>>
        BY <1>1 DEF Edit, database, locals
    <2>2. \A p \in Procs : edited'[p]
        BY <1>1 DEF Edit
    <2> QED BY <1>a, <1>c, <2>1, <2>2 DEF RunDropped
<1>2. ASSUME NEW p \in Procs, Crash(p) \/ InsertFails(p) PROVE Goal
    <2>1. PICK how \in {"crashed", "error"} : Finish(p, how)
        BY <1>2 DEF Crash, InsertFails
    <2>2. UNCHANGED <<disk, edges>>
        BY <1>2 DEF Crash, InsertFails, database
    <2>3. Known(p)'
        BY <1>a, <2>1, <2>2, FinishSync
    <2> QED BY <1>b, <1>c, <2>2, <2>3
<1>3. ASSUME NEW p \in Procs, BeginIndex(p) PROVE Goal
    <2>1. /\ pc'[p] = "create" /\ fresh'[p] = Parse(OnDisk)
          /\ disk' = disk /\ edges' = edges
        BY <1>a, <1>3 DEF BeginIndex, TypeOK, database
    <2>2. Parse(OnDisk) = Tree'
        BY <2>1 DEF Parse, Read, OnDisk, Tree
    <2>3. Known(p)'
        BY <2>1, <2>2 DEF RunDropped, RunFollows
    <2> QED BY <1>b, <1>c, <2>1, <2>3
<1>4. ASSUME NEW p \in Procs, CreateDatabase(p) PROVE Goal
    <2>1. /\ pc[p] = "create" /\ pc'[p] = "ddl" /\ BagToSet(edges') = {}
          /\ UNCHANGED <<fresh, disk, edited>>
        BY <1>a, <1>4 DEF CreateDatabase, TypeOK, locals, BagToSet, EmptyBag, SetToBag
    <2>2. RunDropped(p)'
        BY <2>1 DEF RunDropped
    <2>3. Tree' = Tree
        BY <2>1 DEF Tree, OnDisk
    <2>4. ASSUME ~edited[p] PROVE RunFollows(p)'
        <3>1. fresh[p] = Tree
            BY <1>a, <2>1, <2>4 DEF RunFollows
        <3>2. fresh'[p] = Tree'
            BY <2>1, <2>3, <3>1
        <3> QED BY <2>1, <3>2 DEF RunFollows
    <2>5. Known(p)'
        BY <2>1, <2>2, <2>4
    <2> QED BY <1>b, <2>1, <2>5 DEF NoDuplicateEdges
<1>5. ASSUME NEW p \in Procs, InstallSchema(p) PROVE Goal
    <2>1. /\ pc[p] = "ddl" /\ pc'[p] \in {"ddl", "fill"}
          /\ UNCHANGED <<fresh, disk, edited, edges>>
        BY <1>a, <1>5 DEF InstallSchema, TypeOK, locals
    <2>2. RunDropped(p)'
        BY <2>1 DEF RunDropped
    <2>3. Tree' = Tree
        BY <2>1 DEF Tree, OnDisk
    <2>4. ASSUME ~edited[p] PROVE RunFollows(p)'
        <3>1. fresh[p] = Tree
            BY <1>a, <2>1, <2>4 DEF RunFollows
        <3>2. fresh'[p] = Tree'
            BY <2>1, <2>3, <3>1
        <3> QED BY <2>1, <3>2 DEF RunFollows
    <2>5. Known(p)'
        BY <2>1, <2>2, <2>4
    <2> QED BY <1>b, <1>c, <2>1, <2>5
<1>6. ASSUME NEW p \in Procs, FillIndex(p) PROVE Goal
    <2>1. /\ pc[p] = "fill" /\ Finish(p, "ok") /\ rows' = RowsAfter(fresh[p])
          /\ edges' = SetToBag(FreshEdges(fresh[p])) /\ UNCHANGED <<disk, edited>>
        BY <1>6 DEF FillIndex
    <2>2. NoDuplicateEdges'
        BY <2>1, OnceInSet DEF NoDuplicateEdges
    <2>3. ASSUME ~edited[p] PROVE rows' = Wanted
        <3>1. fresh[p] = Tree
            BY <1>a, <2>1, <2>3 DEF RunFollows
        <3>2. \A f \in Files : rows[f] = NoRow
            BY <1>a, <2>1 DEF RunKnows, Indexed
        <3>3. \A f \in Files : rows'[f] = IF f \in OnDisk THEN disk[f] ELSE NoRow
            BY <2>1, <3>1, <3>2 DEF RowsAfter, Tree
        <3> QED BY <2>1, <3>3 DEF Wanted, OnDisk, RowsAfter
    <2>4. Known(p)'
        BY <1>a, <2>1, <2>3, FinishSync
    <2> QED BY <1>b, <2>2, <2>4
<1>7. ASSUME NEW p \in Procs, SyncFails(p) PROVE Goal
    <2>1. pc'[p] = "idle" /\ outcome'[p] = "error" /\ edges' = edges
        BY <1>a, <1>7 DEF SyncFails, Syncing, TypeOK, database
    <2>2. Known(p)'
        BY <2>1 DEF RunDropped, RunFollows
    <2> QED BY <1>b, <1>c, <2>1, <2>2
<1>8. ASSUME NEW p \in Procs, NothingToDo(p) PROVE Goal
    <2>1. /\ pc'[p] = "idle" /\ UNCHANGED <<edges, rows, disk>>
          /\ Changed = {} /\ Added = {} /\ Deleted = {}
        BY <1>8 DEF NothingToDo, Syncing, database
    <2>2. rows = Wanted
        BY <1>a, <2>1 DEF Changed, Added, Deleted, OnDisk, Indexed, Wanted, TypeOK
    <2>3. Known(p)'
        BY <2>1, <2>2 DEF RunDropped, RunFollows, Wanted
    <2> QED BY <1>b, <1>c, <2>1, <2>3
<1>9. ASSUME NEW p \in Procs, Classify(p) PROVE Goal
    <2>1. /\ pc'[p] = "parse" /\ UNCHANGED <<edges, rows, disk>>
          /\ gone'[p] = Changed \cup Deleted /\ todo'[p] = Changed \cup Added
          /\ listing'[p] = OnDisk
        BY <1>a, <1>9 DEF Classify, TypeOK, database
    <2>2. Known(p)'
        BY <2>1 DEF RunDropped, RunFollows, Changed, Added, Deleted, OnDisk, Indexed
    <2> QED BY <1>b, <1>c, <2>1, <2>2
<1>10. ASSUME NEW p \in Procs, ParseFresh(p) PROVE Goal
    <2>1. /\ pc[p] = "parse" /\ pc'[p] = "plan" /\ fresh'[p] = Parse(todo[p])
          /\ UNCHANGED <<edges, rows, disk, gone, todo, listing, edited>>
        BY <1>a, <1>10 DEF ParseFresh, TypeOK, database
    <2>2. ASSUME ~edited[p] PROVE RunFollows(p)'
        <3>1. /\ gone[p] = Changed \cup Deleted /\ todo[p] = Changed \cup Added
              /\ todo[p] \subseteq OnDisk /\ listing[p] = OnDisk
            BY <1>a, <2>1, <2>2 DEF RunFollows
        <3>2. \A f \in todo[p] : fresh'[p][f] = disk[f]
            BY <2>1, <3>1 DEF Parse, Read, OnDisk
        <3> QED BY <2>1, <3>1, <3>2
                DEF RunFollows, Changed, Added, Deleted, OnDisk, Indexed
    <2>3. RunDropped(p)'
        BY <2>1 DEF RunDropped
    <2> QED BY <1>b, <1>c, <2>1, <2>2, <2>3
<1>11. ASSUME NEW p \in Procs, Plan(p) PROVE Goal
    <2>1. /\ pc[p] = "plan" /\ pc'[p] = "delete"
          /\ UNCHANGED <<edges, rows, disk, gone, todo, listing, fresh, edited>>
        BY <1>a, <1>11 DEF Plan, TypeOK, database
    <2>2. Known(p)'
        BY <1>a, <2>1
        DEF RunDropped, RunFollows, Changed, Added, Deleted, OnDisk, Indexed
    <2> QED BY <1>b, <1>c, <2>1, <2>2
<1>12. ASSUME NEW p \in Procs, DeleteGone(p) PROVE Goal
    <2>1. /\ pc[p] = "delete" /\ pc'[p] = "reparse"
          /\ edges' = RestrictBag(edges, Surviving(p))
          /\ rows' = [f \in Files |-> IF f \in gone[p] THEN NoRow ELSE rows[f]]
          /\ UNCHANGED <<disk, gone, todo, listing, fresh, affected, edited>>
        BY <1>a, <1>12 DEF DeleteGone, TypeOK, locals
    <2>2. NoDuplicateEdges'
        BY <1>a, <2>1 DEF NoDuplicateEdges, RestrictBag, BagToSet
    <2>3. RunDropped(p)'
        <3>1. todo[p] \cap Indexed \subseteq gone[p]
            BY <1>a, <2>1 DEF RunKnows
        <3>2. ASSUME NEW e \in BagToSet(edges')
              PROVE  e.kind = "contains" \/ e.src.file \notin todo[p] \cup affected[p]
            <4>1. e \in BagToSet(edges) /\ e \in Surviving(p)
                BY <2>1, <3>2 DEF RestrictBag, BagToSet
            <4>2. e.src.file \in Indexed
                BY <1>a, <4>1, EdgesStartIndexed
            <4> QED BY <3>1, <4>1, <4>2 DEF Surviving
        <3> QED BY <2>1, <3>2 DEF RunDropped
    <2>4. ASSUME ~edited[p] PROVE RunFollows(p)'
        <3>1. /\ gone[p] = Changed \cup Deleted /\ todo[p] = Changed \cup Added
              /\ todo[p] \subseteq OnDisk /\ listing[p] = OnDisk
              /\ \A f \in todo[p] : fresh[p][f] = disk[f]
            BY <1>a, <2>1, <2>4 DEF RunFollows
        <3>2. ASSUME NEW f \in Files \ todo[p] PROVE rows'[f] = Wanted[f]
            BY <1>a, <2>1, <3>1
            DEF Changed, Added, Deleted, OnDisk, Indexed, Wanted, TypeOK
        <3> QED BY <2>1, <3>1, <3>2 DEF RunFollows, OnDisk, Wanted
    <2> QED BY <1>b, <2>1, <2>2, <2>3, <2>4
<1>13. ASSUME NEW p \in Procs, ParseAffected(p) PROVE Goal
    <2>1. /\ pc[p] = "reparse" /\ pc'[p] = "insert"
          /\ late'[p] = Parse(affected[p] \cap listing[p])
          /\ UNCHANGED <<edges, rows, disk, todo, listing, fresh, affected, edited>>
        BY <1>a, <1>13 DEF ParseAffected, TypeOK, database
    <2>2. RunDropped(p)'
        BY <1>a, <2>1 DEF RunDropped, Parse
    <2>3. ASSUME ~edited[p] PROVE RunFollows(p)'
        <3>1. /\ todo[p] \subseteq OnDisk /\ listing[p] = OnDisk
              /\ \A f \in todo[p] : fresh[p][f] = disk[f]
              /\ \A f \in Files \ todo[p] : rows[f] = Wanted[f]
            BY <1>a, <2>1, <2>3 DEF RunFollows
        <3>2. \A f \in DOMAIN late'[p] : late'[p][f] = disk[f]
            BY <2>1, <3>1 DEF Parse, Read, OnDisk
        <3> QED BY <2>1, <3>1, <3>2 DEF RunFollows, OnDisk, Wanted
    <2> QED BY <1>b, <1>c, <2>1, <2>2, <2>3
<1>14. ASSUME NEW p \in Procs, InsertNodes(p) PROVE Goal
    <2>1. /\ pc[p] = "insert" /\ pc'[p] = "resolve"
          /\ edges' = edges (+) SetToBag(ContainsIn(fresh[p]))
          /\ rows' = RowsAfter(fresh[p])
          /\ UNCHANGED <<disk, todo, listing, fresh, late, affected, edited>>
        BY <1>a, <1>14 DEF InsertNodes, TypeOK, locals
    <2>2. DOMAIN fresh[p] = todo[p] /\ todo[p] \cap Indexed = {}
        BY <1>a, <2>1 DEF RunKnows
    <2>3. ASSUME NEW e \in ContainsIn(fresh[p])
          PROVE  e \notin BagToSet(edges) /\ e.kind = "contains"
        <3>1. e.src.file \in todo[p] /\ e.kind = "contains"
            BY <2>2, <2>3, NodesKnowTheirFile DEF ContainsIn
        <3> QED BY <1>a, <2>2, <3>1, EdgesStartIndexed
    <2>4. NoDuplicateEdges'
        <3>1. BagToSet(edges) \cap ContainsIn(fresh[p]) = {}
            BY <2>3
        <3>2. \A e \in BagToSet(edges) : edges[e] = 1
            BY <1>a DEF NoDuplicateEdges
        <3> QED BY <2>1, <3>1, <3>2, AddedOnce DEF NoDuplicateEdges
    <2>5. BagToSet(edges') = BagToSet(edges) \cup ContainsIn(fresh[p])
        BY <2>1, SetAddedToBag
    <2>6. RunDropped(p)'
        BY <1>a, <2>1, <2>2, <2>3, <2>5 DEF RunDropped
    <2>7. ASSUME ~edited[p] PROVE RunFollows(p)'
        <3>1. /\ todo[p] \subseteq OnDisk /\ listing[p] = OnDisk
              /\ \A f \in todo[p] : fresh[p][f] = disk[f]
              /\ \A f \in DOMAIN late[p] : late[p][f] = disk[f]
              /\ \A f \in Files \ todo[p] : rows[f] = Wanted[f]
            BY <1>a, <2>1, <2>7 DEF RunFollows
        <3>2. ASSUME NEW f \in Files PROVE rows'[f] = Wanted[f]
            <4>1. CASE f \in todo[p]
                BY <2>1, <2>2, <3>1, <4>1 DEF RowsAfter, Wanted, OnDisk
            <4>2. CASE f \notin todo[p]
                BY <2>1, <2>2, <3>1, <4>2 DEF RowsAfter
            <4> QED BY <4>1, <4>2
        <3>3. rows' = Wanted
            BY <2>1, <3>2 DEF RowsAfter, Wanted
        <3> QED BY <2>1, <3>1, <3>3 DEF RunFollows, OnDisk, Wanted
    <2> QED BY <1>b, <2>1, <2>4, <2>6, <2>7
<1>15. ASSUME NEW p \in Procs, Resolve(p) PROVE Goal
    <2>1. /\ pc[p] = "resolve" /\ pc'[p] = "link"
          /\ found'[p] = ResolveAll(nodes, SitesIn(fresh[p]) \cup SitesIn(late[p]))
          /\ UNCHANGED <<edges, rows, disk, todo, listing, fresh, late, affected, edited>>
        BY <1>a, <1>15 DEF Resolve, TypeOK, database
    <2>2. DOMAIN fresh[p] = todo[p] /\ DOMAIN late[p] = affected[p] \cap listing[p]
        BY <1>a, <2>1 DEF RunDropped
    <2>3. \A e \in found'[p] : e.src.file \in todo[p] \cup affected[p]
        BY <2>1, <2>2, ResolvedStartInSites
    <2>4. RunDropped(p)'
        BY <1>a, <2>1, <2>2, <2>3 DEF RunDropped
    <2>5. ASSUME ~edited[p] PROVE RunFollows(p)'
        <3>1. /\ todo[p] \subseteq OnDisk /\ listing[p] = OnDisk
              /\ \A f \in todo[p] : fresh[p][f] = disk[f]
              /\ \A f \in DOMAIN late[p] : late[p][f] = disk[f]
              /\ rows = Wanted
            BY <1>a, <2>1, <2>5 DEF RunFollows
        <3>2. nodes = NodesIn(Tree)
            BY <1>a, <3>1, WantedIsTree DEF NodesMatchHashes
        <3>3. Tree' = Tree /\ OnDisk' = OnDisk /\ Wanted' = Wanted
            BY <2>1 DEF Tree, OnDisk, Wanted
        <3> QED BY <2>1, <3>1, <3>2, <3>3 DEF RunFollows
    <2> QED BY <1>b, <1>c, <2>1, <2>4, <2>5
<1>16. ASSUME NEW p \in Procs, InsertEdges(p) PROVE Goal
    <2>1. /\ pc[p] = "link" /\ Finish(p, "ok")
          /\ edges' = edges (+) SetToBag(found[p]) /\ UNCHANGED <<rows, disk, edited>>
        BY <1>16 DEF InsertEdges
    <2>2. BagToSet(edges) \cap found[p] = {}
        BY <1>a, <2>1 DEF RunDropped, RunKnows, OnlyContains
    <2>3. NoDuplicateEdges'
        <3>1. \A e \in BagToSet(edges) : edges[e] = 1
            BY <1>a DEF NoDuplicateEdges
        <3> QED BY <2>1, <2>2, <3>1, AddedOnce DEF NoDuplicateEdges
    <2>4. ~edited[p] => rows = Wanted
        BY <1>a, <2>1 DEF RunFollows
    <2>5. Known(p)'
        BY <1>a, <2>1, <2>4, FinishSync
    <2> QED BY <1>b, <2>3, <2>5
<1>17. ASSUME UNCHANGED vars PROVE Goal
    BY <1>a, <1>c, <1>17
    DEF vars, database, locals, RunDropped, RunFollows, Tree, OnDisk, Indexed, Changed,
        Added, Deleted, Wanted
<1> QED
    BY <1>1, <1>2, <1>3, <1>4, <1>5, <1>6, <1>7, <1>8, <1>9, <1>10, <1>11, <1>12,
       <1>13, <1>14, <1>15, <1>16, <1>17 DEF Next, Proceed

LEMMA SyncInvHolds ==
    ASSUME \A p, q \in Procs : p = q
    PROVE  Spec => [](HashInv /\ EdgesHaveEndpoints /\ SyncInv)
<1>1. HashInv /\ EdgesHaveEndpoints /\ SyncInv /\ [Next]_vars
          => (HashInv /\ EdgesHaveEndpoints /\ SyncInv)'
    BY NextHashInv, NextSyncInv, NextEndpoints DEF HashInv
<1> QED BY <1>1, InitHashInv, InitEndpoints, InitSyncInv, PTL DEF Spec

\* What a sync inserts it has deleted before (index.rs, sync): for one process at
\* a time no edge is in the table twice, also after runs that failed or died.
THEOREM EdgesAreUnique ==
    ASSUME \A p, q \in Procs : p = q PROVE Spec => []NoDuplicateEdges
<1>1. SyncInv => NoDuplicateEdges
    BY DEF SyncInv
<1> QED BY <1>1, SyncInvHolds, PTL

\* After a successful run, for one process at a time, the files table is that of
\* the tree, whatever runs before it left behind.
THEOREM RowsFollowTree ==
    ASSUME \A p, q \in Procs : p = q PROVE Spec => []RowsExact
<1>1. SyncInv => RowsExact
    BY DEF SyncInv, RunFollows, RowsExact, Settled, AllIdle, Wanted
<1> QED BY <1>1, SyncInvHolds, PTL

\* What resolution finds for some of the files is what it finds for all, kept to
\* those that start in these files.
LEMMA ResolvedPart ==
    ASSUME NEW N, NEW x, NEW y, NEW z,
           DOMAIN x \subseteq DOMAIN z, DOMAIN y \subseteq DOMAIN z,
           \A f \in DOMAIN x : x[f] = z[f], \A f \in DOMAIN y : y[f] = z[f]
    PROVE  OfFiles(ResolveAll(N, SitesIn(z)), DOMAIN x \cup DOMAIN y)
               = ResolveAll(N, SitesIn(x) \cup SitesIn(y))
<1> DEFINE all == ResolveAll(N, SitesIn(z))
           part == ResolveAll(N, SitesIn(x) \cup SitesIn(y))
           P == DOMAIN x \cup DOMAIN y
<1>1. SitesIn(x) \cup SitesIn(y) \subseteq SitesIn(z)
    BY DEF SitesIn
<1>2. part \subseteq all
    BY <1>1 DEF ResolveAll
<1>3. ASSUME NEW e \in part PROVE e.src.file \in P
    BY <1>3, ResolvedStartInSites
<1>4. ASSUME NEW e \in all, e.src.file \in P PROVE e \in part
    <2>1. PICK s \in SitesIn(z) : e \in ResolveSite(N, s)
        BY <1>4 DEF ResolveAll
    <2>2. e.src = s.from
        BY <2>1, ResolvedEdges
    <2>3. PICK f \in DOMAIN z : s \in SitesOf(f, z[f])
        BY <2>1 DEF SitesIn
    <2>4. s.from.file = f
        BY <2>3 DEF SitesOf, SiteOf, NodeOf, Id
    <2>5. s \in SitesIn(x) \cup SitesIn(y)
        BY <1>4, <2>2, <2>3, <2>4 DEF SitesIn
    <2> QED BY <2>1, <2>5 DEF ResolveAll
<1> HIDE DEF all, part, P
<1>5. {e \in all : e.src.file \in P} = part
    BY <1>2, <1>3, <1>4
<1> QED BY <1>5 DEF OfFiles, all, part, P

\* The end of a sync that read the tree as it still is.
LEMMA LinkedExact ==
    ASSUME HashInv, EdgesHaveEndpoints, SyncInv, NEW p \in Procs, InsertEdges(p), ~edited[p]
    PROVE  OfFiles(BagToSet(edges'), DOMAIN fresh[p] \cup DOMAIN late[p])
               = OfFiles(FreshEdges(Tree), DOMAIN fresh[p] \cup DOMAIN late[p])
<1> DEFINE parsed == DOMAIN fresh[p] \cup DOMAIN late[p]
           resolved == ResolveAll(NodesIn(Tree), SitesIn(Tree))
<1>1. pc[p] = "link" /\ edges' = edges (+) SetToBag(found[p])
    BY DEF InsertEdges
<1>2. /\ TypeOK /\ NodesMatchHashes /\ RunDropped(p) /\ RunFollows(p)
    BY DEF HashInv, SyncInv
<1>3. /\ DOMAIN fresh[p] = todo[p] /\ DOMAIN late[p] = affected[p] \cap listing[p]
      /\ todo[p] \subseteq OnDisk /\ listing[p] = OnDisk
      /\ \A f \in todo[p] : fresh[p][f] = disk[f]
      /\ \A f \in DOMAIN late[p] : late[p][f] = disk[f]
      /\ rows = Wanted
    BY <1>1, <1>2 DEF RunDropped, RunFollows
<1>4. found[p] = OfFiles(resolved, parsed)
    <2>1. found[p] = ResolveAll(NodesIn(Tree), SitesIn(fresh[p]) \cup SitesIn(late[p]))
        BY <1>1, <1>2 DEF RunFollows
    <2>2. /\ DOMAIN fresh[p] \subseteq DOMAIN Tree /\ DOMAIN late[p] \subseteq DOMAIN Tree
          /\ \A f \in DOMAIN fresh[p] : fresh[p][f] = Tree[f]
          /\ \A f \in DOMAIN late[p] : late[p][f] = Tree[f]
        BY <1>3 DEF Tree
    <2> QED BY <2>1, <2>2, ResolvedPart
<1>5. OfFiles(BagToSet(edges), parsed) = OfFiles(ContainsIn(Tree), parsed)
    <2>1. {e \in BagToSet(edges) : e.kind = "contains"} = ContainsIn(Tree)
        BY <1>2, <1>3, WantedIsTree DEF NodesMatchHashes
    <2>2. \A e \in BagToSet(edges) : e.src.file \in parsed => e.kind = "contains"
        BY <1>1, <1>2, <1>3 DEF RunDropped
    <2> HIDE DEF parsed
    <2> QED BY <2>1, <2>2 DEF OfFiles
<1>6. BagToSet(edges') = BagToSet(edges) \cup found[p]
    BY <1>1, SetAddedToBag
<1>7. OfFiles(found[p], parsed) = found[p]
    BY <1>4 DEF OfFiles
<1>8. FreshEdges(Tree) = ContainsIn(Tree) \cup resolved
    BY DEF FreshEdges
<1>9. ASSUME NEW A, NEW B
      PROVE  OfFiles(A \cup B, parsed) = OfFiles(A, parsed) \cup OfFiles(B, parsed)
    BY DEF OfFiles
<1>10. OfFiles(BagToSet(edges) \cup found[p], parsed)
           = OfFiles(BagToSet(edges), parsed) \cup OfFiles(found[p], parsed)
    BY <1>9
<1>11. OfFiles(ContainsIn(Tree) \cup resolved, parsed)
           = OfFiles(ContainsIn(Tree), parsed) \cup OfFiles(resolved, parsed)
    BY <1>9
<1> HIDE DEF parsed, resolved
<1> QED BY <1>4, <1>5, <1>6, <1>7, <1>8, <1>10, <1>11 DEF parsed

\* A run that ends well fills an index or links a sync.
LEMMA WellEnded ==
    ASSUME TypeOK, [Next]_vars, NEW p \in Procs, EndsWell(p), \A q, r \in Procs : q = r
    PROVE  FillIndex(p) \/ InsertEdges(p)
<1>1. ASSUME NEW q \in Procs, BeginIndex(q) \/ CreateDatabase(q) \/ ParseFresh(q) \/ Plan(q)
                            \/ DeleteGone(q) \/ ParseAffected(q) \/ InsertNodes(q)
                            \/ Resolve(q) \/ Classify(q)
      PROVE  pc'[q] # "idle"
    BY <1>1 DEF BeginIndex, CreateDatabase, ParseFresh, Plan, DeleteGone, ParseAffected,
                InsertNodes, Resolve, Classify, TypeOK
<1>2. ASSUME NEW q \in Procs, InstallSchema(q) PROVE pc'[q] # "idle"
    BY <1>2 DEF InstallSchema, TypeOK
<1>3. ASSUME NEW q \in Procs, SyncFails(q) \/ NothingToDo(q) PROVE pc[q] = "idle"
    BY <1>3 DEF SyncFails, NothingToDo, Syncing
<1>4. ASSUME NEW q \in Procs, Crash(q) \/ InsertFails(q) PROVE outcome'[q] # "ok"
    BY <1>4 DEF Crash, InsertFails, Finish, TypeOK
<1>5. ASSUME NEW f \in Files, NEW c \in Choices[f], Edit(f, c) PROVE pc' = pc
    BY <1>5 DEF Edit
<1> QED BY <1>1, <1>2, <1>3, <1>4, <1>5 DEF Next, Proceed, EndsWell, vars

\* A run that ends well, for one process at a time, leaves every file it parsed
\* with exactly the edges of a fresh index, whatever failed or died before it and
\* however often the tree changed before it was read.
THEOREM ParsedFilesAreExact ==
    ASSUME \A p, q \in Procs : p = q PROVE Spec => ParsedFilesExact
<1> DEFINE Exact(p) == LET parsed == DOMAIN fresh[p] \cup DOMAIN late[p] IN
                       OfFiles(BagToSet(edges'), parsed) = OfFiles(FreshEdges(Tree), parsed)
<1>1. ASSUME HashInv, EdgesHaveEndpoints, SyncInv, [Next]_vars,
             NEW p \in Procs, EndsWell(p), ~edited[p]
      PROVE  Exact(p)
    <2>1. FillIndex(p) \/ InsertEdges(p)
        BY <1>1, WellEnded DEF HashInv
    <2>2. ASSUME FillIndex(p) PROVE Exact(p)
        <3>1. fresh[p] = Tree
            BY <1>1, <2>2 DEF FillIndex, SyncInv, RunFollows
        <3>2. BagToSet(edges') = FreshEdges(Tree)
            BY <2>2, <3>1, BagOfSet DEF FillIndex
        <3> QED BY <3>2
    <2> QED BY <1>1, <2>1, <2>2, LinkedExact
<1>2. HashInv /\ EdgesHaveEndpoints /\ SyncInv /\ [Next]_vars
          => [\A p \in Procs : EndsWell(p) /\ ~edited[p] => Exact(p)]_vars
    BY <1>1
<1> QED BY <1>2, SyncInvHolds, PTL DEF Spec, ParsedFilesExact

-----------------------------------------------------------------------------
(***************************************************************************)
(* What a name resolves to depends on what has this name.                  *)
(***************************************************************************)
Named(N, name) == {n \in Symbols(N) : n.name = name}

\* The files that the imports of a content may mean.
Candidates(f, c) ==
    {g \in Files : \E d \in Source[c].defs :
         d.kind = "import" /\ \E i \in DOMAIN ModulePaths[f][d.name] :
                                  ModulePaths[f][d.name][i] = g}

\* The nodes of two trees that have a file in common, with its content.
Sharing(x, y, f) ==
    /\ x \in Extracts /\ y \in Extracts
    /\ f \in DOMAIN x /\ f \in DOMAIN y /\ x[f] = y[f]

LEMMA ExtractedFiles ==
    ASSUME NEW x \in Extracts
    PROVE  /\ DOMAIN x \subseteq Files /\ \A f \in DOMAIN x : x[f] \in Contents
           /\ PathsIn(NodesIn(x)) = DOMAIN x
           /\ \A n \in NodesIn(x) : n.file \in DOMAIN x /\ n \in NodesOf(n.file, x[n.file])
<1>1. PICK S \in SUBSET Files : x \in [S -> Contents]
    BY DEF Extracts
<1>2. \A n \in NodesIn(x) : n.file \in DOMAIN x /\ n \in NodesOf(n.file, x[n.file])
    BY NodesKnowTheirFile DEF NodesIn
<1>3. ASSUME NEW f \in S PROVE f \in PathsIn(NodesIn(x))
    <2>1. NodeOf(f, FileDef) \in NodesIn(x)
        BY <1>1 DEF NodesIn, NodesOf
    <2>2. NodeOf(f, FileDef).kind = "file" /\ NodeOf(f, FileDef).file = f
        BY DEF NodeOf, FileDef
    <2> QED BY <2>1, <2>2 DEF PathsIn
<1>4. PathsIn(NodesIn(x)) = DOMAIN x
    BY <1>1, <1>2, <1>3 DEF PathsIn
<1> QED BY <1>1, <1>2, <1>4

LEMMA ImportedByName ==
    ASSUME SoleCandidates, NEW x \in Extracts, NEW f \in DOMAIN x, NEW n \in NodesIn(x)
    PROVE  n.file \in ImportedFiles(NodesIn(x), f) <=> n.file \in Candidates(f, x[f])
<1> DEFINE N == NodesIn(x)
<1>1. /\ f \in Files /\ x[f] \in Contents /\ DOMAIN x \subseteq Files
      /\ n.file \in DOMAIN x /\ PathsIn(N) = DOMAIN x
    BY ExtractedFiles
<1>2. ASSUME n.file \in ImportedFiles(N, f) PROVE n.file \in Candidates(f, x[f])
    <2>1. PICK m \in N : m.file = f /\ m.kind = "import" /\ n.file \in ModuleFile(f, m.name, PathsIn(N))
        BY <1>2 DEF ImportedFiles
    <2>2. PICK i \in DOMAIN ModulePaths[f][m.name] : ModulePaths[f][m.name][i] = n.file
        BY <2>1 DEF ModuleFile
    <2>3. m \in NodesOf(f, x[f])
        BY <2>1, ExtractedFiles
    <2>4. PICK d \in Source[x[f]].defs \cup {FileDef} : m = NodeOf(f, d)
        BY <2>3 DEF NodesOf
    <2>5. d.kind = "import" /\ d.name = m.name /\ d \in Source[x[f]].defs
        BY <2>1, <2>4 DEF NodeOf, FileDef
    <2> QED BY <1>1, <2>2, <2>5 DEF Candidates
<1>3. ASSUME n.file \in Candidates(f, x[f]) PROVE n.file \in ImportedFiles(N, f)
    <2>1. PICK d \in Source[x[f]].defs :
              d.kind = "import" /\ \E i \in DOMAIN ModulePaths[f][d.name] :
                                       ModulePaths[f][d.name][i] = n.file
        BY <1>3 DEF Candidates
    <2> DEFINE c == ModulePaths[f][d.name]
               m == NodeOf(f, d)
               present == {k \in DOMAIN c : c[k] \in PathsIn(N)}
    <2>2. PICK i \in DOMAIN c : c[i] = n.file
        BY <2>1
    <2>3. m \in N /\ m.file = f /\ m.kind = "import" /\ m.name = d.name
        <3>1. m \in NodesOf(f, x[f])
            BY DEF NodesOf
        <3>2. m \in N
            BY <3>1 DEF NodesIn
        <3> QED BY <2>1, <3>2 DEF NodeOf
    <2>4. i \in Nat /\ \A k \in DOMAIN c : c[k] \in Files => k = i
        BY <1>1, <2>1, <2>2 DEF SoleCandidates
    <2>5. i \in present /\ \A k \in present : k = i
        BY <1>1, <2>2, <2>4
    <2>6. i <= i
        BY <2>4
    <2>7. n.file \in ModuleFile(f, d.name, PathsIn(N))
        BY <2>2, <2>5, <2>6 DEF ModuleFile
    <2> QED BY <2>3, <2>7 DEF ImportedFiles
<1> QED BY <1>2, <1>3

\* Of what has the name, the same is imported.
LEMMA SameImports ==
    ASSUME SoleCandidates, NEW x, NEW y, NEW f, Sharing(x, y, f), NEW C,
           C \subseteq NodesIn(x), C \subseteq NodesIn(y)
    PROVE  {n \in C : n.file \in ImportedFiles(NodesIn(x), f)}
               = {n \in C : n.file \in ImportedFiles(NodesIn(y), f)}
<1> SUFFICES ASSUME NEW n \in C
             PROVE  n.file \in ImportedFiles(NodesIn(x), f)
                        <=> n.file \in ImportedFiles(NodesIn(y), f)
    OBVIOUS
<1>1. n.file \in ImportedFiles(NodesIn(x), f) <=> n.file \in Candidates(f, x[f])
    BY ImportedByName DEF Sharing
<1>2. n.file \in ImportedFiles(NodesIn(y), f) <=> n.file \in Candidates(f, y[f])
    BY ImportedByName DEF Sharing
<1> QED BY <1>1, <1>2 DEF Sharing

LEMMA SameTiers ==
    ASSUME SoleCandidates, NEW x, NEW y, NEW f, Sharing(x, y, f), NEW name, NEW kinds,
           Named(NodesIn(x), name) = Named(NodesIn(y), name)
    PROVE  NameTiers(NodesIn(x), f, name, kinds) = NameTiers(NodesIn(y), f, name, kinds)
<1> DEFINE C(N) == {n \in Symbols(N) : n.name = name /\ n.kind \in kinds}
<1>1. C(NodesIn(x)) = C(NodesIn(y))
    BY DEF Named
<1>2. C(NodesIn(x)) \subseteq NodesIn(x) /\ C(NodesIn(y)) \subseteq NodesIn(y)
    BY DEF Symbols
<1>3. {n \in C(NodesIn(x)) : n.file \in ImportedFiles(NodesIn(x), f)}
          = {n \in C(NodesIn(y)) : n.file \in ImportedFiles(NodesIn(y), f)}
    <2>1. C(NodesIn(x)) \subseteq NodesIn(y)
        BY <1>1, <1>2
    <2> HIDE DEF C
    <2> QED BY <1>1, <1>2, <2>1, SameImports
<1> QED BY <1>1, <1>3 DEF NameTiers

LEMMA SameName ==
    ASSUME SoleCandidates, NEW x, NEW y, NEW f, Sharing(x, y, f), NEW name, NEW kinds,
           Named(NodesIn(x), name) = Named(NodesIn(y), name)
    PROVE  ResolveName(NodesIn(x), f, name, kinds) = ResolveName(NodesIn(y), f, name, kinds)
<1>1. NameTiers(NodesIn(x), f, name, kinds) = NameTiers(NodesIn(y), f, name, kinds)
    BY SameTiers
<1> QED BY <1>1 DEF ResolveName

LEMMA SameQualified ==
    ASSUME SoleCandidates, NEW x, NEW y, NEW f, Sharing(x, y, f), NEW owner, NEW name,
           NEW kinds, Named(NodesIn(x), name) = Named(NodesIn(y), name)
    PROVE  /\ ResolveQualified(NodesIn(x), f, owner, name, kinds)
                  = ResolveQualified(NodesIn(y), f, owner, name, kinds)
           /\ ResolveQualifiedStrict(NodesIn(x), f, owner, name, kinds)
                  = ResolveQualifiedStrict(NodesIn(y), f, owner, name, kinds)
<1> DEFINE C == Qualified(NodesIn(x), f, owner, name, kinds)
<1>1. C = Qualified(NodesIn(y), f, owner, name, kinds)
    BY DEF Qualified, Named
<1>2. C \subseteq NodesIn(x) /\ C \subseteq NodesIn(y)
    BY <1>1 DEF Qualified, Symbols
<1>3. Qualified(NodesIn(x), f, owner, name, kinds) = C
    OBVIOUS
<1> HIDE DEF C
<1>4. {n \in C : n.file \in ImportedFiles(NodesIn(x), f)}
          = {n \in C : n.file \in ImportedFiles(NodesIn(y), f)}
    BY <1>2, SameImports
<1>7. Pinned(NodesIn(x), f, C) = Pinned(NodesIn(y), f, C)
    BY <1>4 DEF Pinned
<1>5. ResolveQualified(NodesIn(x), f, owner, name, kinds)
          = ResolveQualified(NodesIn(y), f, owner, name, kinds)
    BY <1>1, <1>3, <1>7 DEF ResolveQualified
<1>6. ResolveQualifiedStrict(NodesIn(x), f, owner, name, kinds)
          = ResolveQualifiedStrict(NodesIn(y), f, owner, name, kinds)
    BY <1>1, <1>3, <1>7 DEF ResolveQualifiedStrict
<1> QED BY <1>5, <1>6

-----------------------------------------------------------------------------
(***************************************************************************)
(* The type of a receiver: what each of its calls returns.                 *)
(***************************************************************************)
Strict(N, f, t, name) == ResolveQualifiedStrict(N, f, t, name, CallableKinds)

\* What the i-th call on something of one of the types can be.
After(N, f, recv, i, ts) ==
    UNION {Returns(Strict(N, f, t, recv.calls[i]), i \in recv.each) : t \in ts}

\* h holds the types before the calls and after each of them.
TypesRun(h, N, f, recv) ==
    /\ h[0] = BaseTypes(N, f, recv.base, 0 \in recv.each)
    /\ \A i \in 1 .. Len(recv.calls) : h[i] = After(N, f, recv, i, h[i - 1])

LEMMA ReceiverRun ==
    ASSUME NEW N, NEW f, NEW recv, Len(recv.calls) \in Nat
    PROVE  \E h : /\ TypesRun(h, N, f, recv)
                  /\ ReceiverTypes(N, f, recv)
                        = IF Len(recv.calls) > MaxDepth THEN {} ELSE h[Len(recv.calls)]
<1> DEFINE n == Len(recv.calls)
           base == BaseTypes(N, f, recv.base, 0 \in recv.each)
           T == SUBSET (base \cup {m.returns : m \in N} \cup {m.element : m \in N})
           step == [i \in 1 .. n |-> [ts \in T |-> After(N, f, recv, i, ts)]]
           Looped(h) == h = [i \in 0 .. n |->
                                IF i = 0 THEN base ELSE After(N, f, recv, i, h[i - 1])]
           types == CHOOSE h : Looped(h)
<1>1. n \in Nat
    OBVIOUS
<1>2. ReceiverTypes(N, f, recv) = IF n > MaxDepth THEN {} ELSE types[n]
    BY DEF ReceiverTypes, After, Strict
<1>3. \A t, name, i : Returns(Strict(N, f, t, name), i \in recv.each)
                         \subseteq {m.returns : m \in N} \cup {m.element : m \in N}
    <2>1. \A t, name : Strict(N, f, t, name) \subseteq N
        BY DEF Strict, ResolveQualifiedStrict, First, Only, Pinned, Qualified, Symbols
    <2> QED BY <2>1 DEF Returns
<1>4. OfLoops!IsLoop(n, T, base, step)
    <2>1. base \in T
        OBVIOUS
    <2>2. ASSUME NEW i \in 1 .. n, NEW ts \in T PROVE After(N, f, recv, i, ts) \in T
        <3>1. \A t : Returns(Strict(N, f, t, recv.calls[i]), i \in recv.each)
                         \subseteq {m.returns : m \in N} \cup {m.element : m \in N}
            BY <1>3
        <3> QED BY <3>1 DEF After
    <2> HIDE DEF T, base, n
    <2>3. step \in [1 .. n -> [T -> T]]
        BY <2>2
    <2> QED BY <1>1, <2>1, <2>3 DEF OfLoops!IsLoop
<1>5. PICK h : OfLoops!IsRun(h, n, T, base, step)
    <2> HIDE DEF step, T, n, base
    <2> QED BY <1>4, OfLoops!LoopRuns
<1>6. Looped(h)
    <2>1. h \in [0 .. n -> T] /\ h[0] = base /\ \A i \in 1 .. n : h[i] = step[i][h[i - 1]]
        BY <1>5 DEF OfLoops!IsRun
    <2>2. \A i \in 1 .. n : h[i - 1] \in T
        BY <1>1, <2>1
    <2>3. \A i \in 1 .. n : h[i] = After(N, f, recv, i, h[i - 1])
        <3> HIDE DEF T
        <3> QED BY <2>1, <2>2
    <2>4. \A i \in 0 .. n : i # 0 => i \in 1 .. n
        BY <1>1
    <2> HIDE DEF T, step, n, base
    <2> QED BY <2>1, <2>3, <2>4
<1>7. Looped(types)
    <2> HIDE DEF Looped
    <2> QED BY <1>6
<1> HIDE DEF types
<1>8. TypesRun(types, N, f, recv)
    <2>1. 0 \in 0 .. n /\ \A i \in 1 .. n : i \in 0 .. n /\ i # 0
        BY <1>1
    <2>2. types[0] = base
        BY <1>7, <2>1
    <2>3. \A i \in 1 .. n : types[i] = After(N, f, recv, i, types[i - 1])
        <3> HIDE DEF base, n
        <3> QED BY <1>7, <2>1
    <2> QED BY <2>2, <2>3 DEF TypesRun
<1> QED BY <1>2, <1>8

\* Two receivers that agree on their first k calls have the same type after them.
Alike(k, N, M, f, r, q) ==
    /\ k \in Nat /\ Len(r.calls) \in Nat /\ Len(q.calls) \in Nat
    /\ k <= Len(r.calls) /\ k <= Len(q.calls)
    /\ BaseTypes(N, f, r.base, 0 \in r.each) = BaseTypes(M, f, q.base, 0 \in q.each)
    /\ \A i \in 1 .. k : /\ r.calls[i] = q.calls[i]
                         /\ i \in r.each <=> i \in q.each
                         /\ \A t : Strict(N, f, t, r.calls[i]) = Strict(M, f, t, r.calls[i])

LEMMA RunsAgree ==
    ASSUME NEW N, NEW M, NEW f, NEW r, NEW q, NEW h, NEW g, NEW k,
           Alike(k, N, M, f, r, q), TypesRun(h, N, f, r), TypesRun(g, M, f, q)
    PROVE  h[k] = g[k]
<1> DEFINE good == {i \in 0 .. k : h[i] = g[i]}
<1> USE DEF Alike
<1>1. 0 \in good
    BY DEF TypesRun
<1>2. ASSUME NEW i \in 1 .. k, i - 1 \in good PROVE i \in good
    <2>1. i \in 1 .. Len(r.calls) /\ i \in 1 .. Len(q.calls) /\ i \in 0 .. k
        OBVIOUS
    <2>2. h[i] = After(N, f, r, i, h[i - 1])
        BY <2>1 DEF TypesRun
    <2>3. g[i] = After(M, f, q, i, g[i - 1])
        BY <2>1 DEF TypesRun
    <2>4. \A t : Strict(N, f, t, r.calls[i]) = Strict(M, f, t, q.calls[i])
        OBVIOUS
    <2>5. h[i - 1] = g[i - 1]
        BY <1>2
    <2>6. After(N, f, r, i, h[i - 1]) = After(M, f, q, i, g[i - 1])
        BY <2>4, <2>5 DEF After, Returns
    <2> QED BY <2>1, <2>2, <2>3, <2>6
<1>3. 0 .. k \subseteq good
    <2> HIDE DEF good
    <2> QED BY <1>1, <1>2, OfLoops!UpTo
<1> QED BY <1>3

-----------------------------------------------------------------------------
(***************************************************************************)
(* The edges of a site depend on what has its name and on what has the     *)
(* names on the way to its receiver's type.                                *)
(***************************************************************************)
OnTheWay(s) ==
    IF s.ask \in Direct THEN {}
    ELSE {s.recv.calls[i] : i \in DOMAIN s.recv.calls}
         \cup (IF s.recv.base.how \in {"bare", "assoc"} THEN {s.recv.base.name} ELSE {})

IsChain(calls) == calls \in Seq({calls[i] : i \in DOMAIN calls})

LEMMA SameReceiver ==
    ASSUME SoleCandidates, NEW x, NEW y, NEW f, Sharing(x, y, f), NEW recv,
           IsChain(recv.calls),
           \A i \in DOMAIN recv.calls :
               Named(NodesIn(x), recv.calls[i]) = Named(NodesIn(y), recv.calls[i]),
           recv.base.how \in {"bare", "assoc"} =>
               Named(NodesIn(x), recv.base.name) = Named(NodesIn(y), recv.base.name)
    PROVE  ReceiverTypes(NodesIn(x), f, recv) = ReceiverTypes(NodesIn(y), f, recv)
<1> DEFINE N == NodesIn(x)
           M == NodesIn(y)
           n == Len(recv.calls)
<1>1. n \in Nat /\ DOMAIN recv.calls = 1 .. n
    BY DEF IsChain
<1>2. BaseTypes(N, f, recv.base, 0 \in recv.each)
         = BaseTypes(M, f, recv.base, 0 \in recv.each)
    <2>1. CASE recv.base.how = "bare"
        <3>1. \A kinds : ResolveName(N, f, recv.base.name, kinds)
                            = ResolveName(M, f, recv.base.name, kinds)
            BY <2>1, SameName
        <3> HIDE DEF N, M
        <3> QED BY <2>1, <3>1 DEF BaseTypes, ReturnedType
    <2>2. CASE recv.base.how = "assoc"
        <3>1. ResolveQualifiedStrict(N, f, recv.base.of, recv.base.name, CallableKinds)
                  = ResolveQualifiedStrict(M, f, recv.base.of, recv.base.name, CallableKinds)
            BY <2>2, SameQualified
        <3> HIDE DEF N, M
        <3> QED BY <2>2, <3>1 DEF BaseTypes
    <2>3. CASE recv.base.how \notin {"bare", "assoc"}
        BY <2>3 DEF BaseTypes
    <2> QED BY <2>1, <2>2, <2>3
<1>3. \A i \in 1 .. n : \A t : Strict(N, f, t, recv.calls[i]) = Strict(M, f, t, recv.calls[i])
    <2> TAKE i \in 1 .. n
    <2>1. Named(N, recv.calls[i]) = Named(M, recv.calls[i])
        BY <1>1
    <2> QED BY <2>1, SameQualified DEF Strict
<1>4. PICK h : TypesRun(h, N, f, recv)
               /\ ReceiverTypes(N, f, recv) = IF n > MaxDepth THEN {} ELSE h[n]
    BY <1>1, ReceiverRun
<1>5. PICK g : TypesRun(g, M, f, recv)
               /\ ReceiverTypes(M, f, recv) = IF n > MaxDepth THEN {} ELSE g[n]
    BY <1>1, ReceiverRun
<1>6. h[n] = g[n]
    <2> HIDE DEF N, M
    <2>1. n = Len(recv.calls)
        OBVIOUS
    <2> HIDE DEF n
    <2>2. \A i \in 1 .. n : \A t :
              Strict(N, f, t, recv.calls[i]) = Strict(M, f, t, recv.calls[i])
        BY <1>3
    <2>3. Alike(n, N, M, f, recv, recv)
        BY <1>1, <1>2, <2>1, <2>2 DEF Alike
    <2> QED BY <1>4, <1>5, <2>3, RunsAgree
<1> QED BY <1>4, <1>5, <1>6

LEMMA SameEdges ==
    ASSUME SoleCandidates, NEW x, NEW y, NEW s, Sharing(x, y, s.from.file),
           s.ask # "import", s.ask \notin Direct => IsChain(s.recv.calls),
           \A k \in {s.name} \cup OnTheWay(s) : Named(NodesIn(x), k) = Named(NodesIn(y), k)
    PROVE  SiteEdges(NodesIn(x), s) = SiteEdges(NodesIn(y), s)
<1> DEFINE N == NodesIn(x)
           M == NodesIn(y)
           f == s.from.file
<1>1. \A kinds : ResolveName(N, f, s.name, kinds) = ResolveName(M, f, s.name, kinds)
    BY SameName
<1>2. \A owner, kinds : ResolveQualified(N, f, owner, s.name, kinds)
                           = ResolveQualified(M, f, owner, s.name, kinds)
    BY SameQualified
<1>3. s.ask \notin Direct => ReceiverTypes(N, f, s.recv) = ReceiverTypes(M, f, s.recv)
    <2> SUFFICES ASSUME s.ask \notin Direct
                 PROVE  ReceiverTypes(N, f, s.recv) = ReceiverTypes(M, f, s.recv)
        OBVIOUS
    <2>1. \A i \in DOMAIN s.recv.calls : Named(N, s.recv.calls[i]) = Named(M, s.recv.calls[i])
        BY DEF OnTheWay
    <2>2. s.recv.base.how \in {"bare", "assoc"} =>
              Named(N, s.recv.base.name) = Named(M, s.recv.base.name)
        BY DEF OnTheWay
    <2> QED BY <2>1, <2>2, SameReceiver
<1> HIDE DEF N, M
<1>4. \A kind, kinds : NamedEdges(N, s, kind, kinds) = NamedEdges(M, s, kind, kinds)
    BY <1>1 DEF NamedEdges
<1>5. CallEdges(N, s) = CallEdges(M, s)
    BY <1>4 DEF CallEdges
<1>6. QualifiedEdges(N, s) = QualifiedEdges(M, s)
    BY <1>2 DEF QualifiedEdges
<1>7. InheritEdges(N, s) = InheritEdges(M, s)
    BY <1>1 DEF InheritEdges
<1>8. s.ask \notin Direct => MethodEdges(N, s) = MethodEdges(M, s)
    BY <1>2, <1>3 DEF MethodEdges
<1> QED BY <1>4, <1>5, <1>6, <1>7, <1>8 DEF SiteEdges, Direct, N, M

\* An edge has the name its site asks for.
LEMMA NamedAsAsked ==
    ASSUME NEW N, NEW f, NEW name, NEW kinds
    PROVE  /\ \A r \in ResolveName(N, f, name, kinds) : r.node.name = name
           /\ \A owner : \A n \in ResolveQualified(N, f, owner, name, kinds) : n.name = name
<1>1. ASSUME NEW r \in ResolveName(N, f, name, kinds) PROVE r.node.name = name
    <2> DEFINE tiers == NameTiers(N, f, name, kinds)
    <2>1. \A i \in DOMAIN tiers : \A n \in tiers[i].set : n.name = name
        BY DEF NameTiers, Only
    <2> HIDE DEF tiers
    <2>2. PICK i \in DOMAIN tiers : r \in {Found(n, tiers[i].by, tiers[i].conf) :
                                               n \in First(tiers[i].set)}
        BY <1>1 DEF ResolveName, tiers
    <2>3. PICK n \in First(tiers[i].set) : r = Found(n, tiers[i].by, tiers[i].conf)
        BY <2>2
    <2> QED BY <2>1, <2>2, <2>3 DEF First, Found
<1>2. \A owner : \A n \in ResolveQualified(N, f, owner, name, kinds) : n.name = name
    BY DEF ResolveQualified, Qualified, Pinned, First
<1> QED BY <1>1, <1>2

\* An edge from a site is a resolved one, and leads to what has the site's name.
LEMMA EdgesOfSite ==
    ASSUME NEW N, NEW s, s.ask # "import", NEW e \in SiteEdges(N, s)
    PROVE  e.src = s.from /\ e.kind \in ResolvedKinds /\ e.dst.name = s.name
<1> DEFINE f == s.from.file
<1>1. ASSUME NEW kind \in ResolvedKinds, NEW kinds, NEW r \in ResolveName(N, f, s.name, kinds),
             e = EdgeTo(s, kind, r.node, r.by, r.conf)
      PROVE  e.src = s.from /\ e.kind \in ResolvedKinds /\ e.dst.name = s.name
    BY <1>1, NamedAsAsked DEF EdgeTo, Id
<1>2. ASSUME NEW owner, NEW kinds, NEW n \in ResolveQualified(N, f, owner, s.name, kinds),
             NEW by, NEW conf, e = EdgeTo(s, "calls", n, by, conf)
      PROVE  e.src = s.from /\ e.kind \in ResolvedKinds /\ e.dst.name = s.name
    BY <1>2, NamedAsAsked DEF EdgeTo, Id, ResolvedKinds
<1>3. CASE e \in QualifiedEdges(N, s)
    BY <1>2, <1>3 DEF QualifiedEdges
<1>4. CASE e \in MethodEdges(N, s)
    <2>1. PICK t : \E n \in ResolveQualified(N, f, t, s.name, CallableKinds) :
              e = EdgeTo(s, "calls", n, "instance-method", "0.7")
        BY <1>4 DEF MethodEdges
    <2> QED BY <1>2, <2>1
<1>5. CASE \E kind \in ResolvedKinds : \E kinds : e \in NamedEdges(N, s, kind, kinds)
    BY <1>1, <1>5 DEF NamedEdges
<1>6. CASE e \in CallEdges(N, s)
    <2>1. \E kind \in ResolvedKinds : \E kinds : e \in NamedEdges(N, s, kind, kinds)
        BY <1>6 DEF CallEdges, ResolvedKinds
    <2> QED BY <1>5, <2>1
<1>7. CASE e \in InheritEdges(N, s)
    BY <1>1, <1>7 DEF InheritEdges, ResolvedKinds
<1>8. \/ e \in CallEdges(N, s) \/ e \in QualifiedEdges(N, s) \/ e \in MethodEdges(N, s)
      \/ e \in InheritEdges(N, s)
      \/ \E kind \in ResolvedKinds : \E kinds : e \in NamedEdges(N, s, kind, kinds)
    BY DEF SiteEdges, ResolvedKinds
<1> QED BY <1>3, <1>4, <1>5, <1>6, <1>7, <1>8

LEMMA LeastNumber ==
    ASSUME NEW S, S \subseteq Nat, S # {} PROVE \E k \in S : \A l \in S : k <= l
<1> SUFFICES ASSUME \A k \in S : \E l \in S : l < k PROVE FALSE
    OBVIOUS
<1>1. PICK k \in S : TRUE
    OBVIOUS
<1> DEFINE good == {i \in 0 .. k : \A l \in S : i < l}
<1>2. 0 \in good
    <2>1. 0 \notin S
        OBVIOUS
    <2> QED BY <1>1, <2>1
<1>3. ASSUME NEW i \in 1 .. k, i - 1 \in good PROVE i \in good
    <2>1. \A l \in S : l >= i
        BY <1>3
    <2>2. i \notin S
        BY <2>1
    <2> QED BY <2>1, <2>2
<1>4. 0 .. k \subseteq good
    <2> HIDE DEF good
    <2> QED BY <1>1, <1>2, <1>3, OfLoops!UpTo
<1> QED BY <1>1, <1>4

\* Of some nodes one is the first.
LEMMA SomeFirst ==
    ASSUME NEW x \in Extracts, NEW S, S \subseteq NodesIn(x), S # {}
    PROVE  First(S) # {}
<1>1. \A n \in S : n.file \in Files /\ Rank[n.file] \in Nat /\ n.pos \in Nat
    <2> TAKE n \in S
    <2>1. n.file \in Files /\ x[n.file] \in Contents /\ n \in NodesOf(n.file, x[n.file])
        BY ExtractedFiles
    <2> QED BY <2>1, RanksOrderFiles, PositionsAreNumbers DEF NodesOf, NodeOf, FileDef
<1>2. PICK n \in S : \A m \in S : Rank[n.file] <= Rank[m.file]
    <2> DEFINE ranks == {Rank[n.file] : n \in S}
    <2>1. ranks \subseteq Nat /\ ranks # {}
        BY <1>1
    <2> HIDE DEF ranks
    <2>2. PICK k \in ranks : \A l \in ranks : k <= l
        BY <2>1, LeastNumber
    <2> QED BY <2>2 DEF ranks
<1>3. PICK m \in {o \in S : o.file = n.file} : \A o \in S : o.file = n.file => m.pos <= o.pos
    <2> DEFINE places == {o.pos : o \in {q \in S : q.file = n.file}}
    <2>1. places \subseteq Nat /\ places # {}
        BY <1>1
    <2> HIDE DEF places
    <2>2. PICK k \in places : \A l \in places : k <= l
        BY <2>1, LeastNumber
    <2> QED BY <2>2 DEF places
<1>4. ASSUME NEW o \in S PROVE \/ Rank[m.file] < Rank[o.file]
                               \/ m.file = o.file /\ m.pos <= o.pos
    <2>1. Rank[n.file] < Rank[o.file] \/ Rank[n.file] = Rank[o.file]
        BY <1>1, <1>2
    <2>2. Rank[n.file] = Rank[o.file] => o.file = n.file
        BY <1>1, RanksOrderFiles
    <2> QED BY <1>3, <2>1, <2>2
<1> QED BY <1>3, <1>4 DEF First

\* Where a type was found, so is something to call.
LEMMA QualifiedAnswers ==
    ASSUME NEW x \in Extracts, NEW f, NEW t, NEW name, Strict(NodesIn(x), f, t, name) # {},
           NEW kinds, CallableKinds \subseteq kinds
    PROVE  ResolveQualified(NodesIn(x), f, t, name, kinds) # {}
<1> DEFINE N == NodesIn(x)
           cands == Qualified(N, f, t, name, kinds)
           pins == Pinned(N, f, cands)
<1>1. Qualified(N, f, t, name, CallableKinds) # {}
    BY DEF Strict, ResolveQualifiedStrict, Pinned, Only, First
<1>2. cands # {} /\ cands \subseteq N
    BY <1>1 DEF Qualified, Symbols
<1>3. pins \subseteq N
    BY <1>2 DEF Pinned
<1> HIDE DEF cands, pins
<1>4. First(cands) # {} /\ (pins # {} => First(pins) # {})
    BY <1>2, <1>3, SomeFirst
<1> QED BY <1>4 DEF ResolveQualified, cands, pins

\* The site has an edge, or another of its definition has one, for every name on
\* the way to the type of its receiver.
LEMMA Grounds ==
    ASSUME CallsAreSites, NEW x \in Extracts, NEW s \in SitesIn(x),
           SiteEdges(NodesIn(x), s) # {}, NEW name \in OnTheWay(s)
    PROVE  \E u \in SitesIn(x) : /\ u.from = s.from /\ u.name = name /\ u.ask # "import"
                                 /\ SiteEdges(NodesIn(x), u) # {}
<1> DEFINE N == NodesIn(x)
           f == s.from.file
           recv == s.recv
           base == s.recv.base
           calls == s.recv.calls
           n == Len(calls)
<1>1. s.ask \notin Direct
    BY DEF OnTheWay
<1>16. PICK g \in DOMAIN x : s \in SitesOf(g, x[g])
    BY DEF SitesIn
<1>2. PICK c \in Source[x[g]].sites : s = SiteOf(g, c)
    BY <1>16 DEF SitesOf
<1>3. x[g] \in Contents /\ f = g /\ c.ask = s.ask /\ c.recv = s.recv
    BY <1>2, ExtractedFiles DEF SiteOf, NodeOf, Id
<1> DEFINE Here(ask) == {t \in Source[x[g]].sites : t.in = c.in /\ t.ask = ask}
<1>4. /\ IsChain(calls)
      /\ base.how = "bare" => \E t \in Here("call") : t.name = base.name
      /\ base.how = "assoc" => \E t \in Here("qualified") :
                                   t.name = base.name /\ t.recv.base.name = base.of
      /\ \A i \in DOMAIN calls : \E t \in Here(s.ask) :
             /\ t.name = calls[i] /\ t.recv.base = base
             /\ t.recv.calls = SubSeq(calls, 1, i - 1)
             /\ t.recv.each = recv.each \cap (0 .. i - 1)
    <2> DEFINE There(ask) == {t \in Source[x[g]].sites : t.in = c.in /\ t.ask = ask}
               b == c.recv.base
               k == c.recv.calls
    <2>1. c \in {t \in Source[x[g]].sites : t.ask \notin Direct}
        BY <1>1, <1>2, <1>3
    <2>2. /\ k \in Seq({k[i] : i \in DOMAIN k})
          /\ b.how = "bare" => \E t \in There("call") : t.name = b.name
          /\ b.how = "assoc" => \E t \in There("qualified") :
                                    t.name = b.name /\ t.recv.base.name = b.of
        BY <1>3, <2>1 DEF CallsAreSites
    <2>3. \A i \in DOMAIN k : \E t \in There(c.ask) :
              /\ t.name = k[i] /\ t.recv.base = b
              /\ t.recv.calls = SubSeq(k, 1, i - 1)
              /\ t.recv.each = c.recv.each \cap (0 .. i - 1)
        BY <1>3, <2>1 DEF CallsAreSites
    <2>4. b = base /\ k = calls /\ c.ask = s.ask /\ c.recv.each = recv.each
        BY <1>3
    <2>5. IsChain(calls)
        BY <2>2, <2>4 DEF IsChain
    <2> HIDE DEF b, k, base, calls, recv
    <2>6. \A ask : There(ask) = Here(ask)
        OBVIOUS
    <2> HIDE DEF There, Here
    <2>7. /\ base.how = "bare" => \E t \in Here("call") : t.name = base.name
          /\ base.how = "assoc" => \E t \in Here("qualified") :
                                       t.name = base.name /\ t.recv.base.name = base.of
        BY <2>2, <2>4, <2>6
    <2>8. \A i \in DOMAIN calls : \E t \in Here(s.ask) :
              /\ t.name = calls[i] /\ t.recv.base = base
              /\ t.recv.calls = SubSeq(calls, 1, i - 1)
              /\ t.recv.each = recv.each \cap (0 .. i - 1)
        BY <2>3, <2>4, <2>6
    <2> QED BY <2>5, <2>7, <2>8
<1>5. \A t \in Source[x[g]].sites : t.in = c.in =>
          /\ SiteOf(g, t) \in SitesIn(x) /\ SiteOf(g, t).from = s.from
          /\ SiteOf(g, t).name = t.name /\ SiteOf(g, t).ask = t.ask
          /\ SiteOf(g, t).recv = t.recv
    <2> TAKE t \in Source[x[g]].sites
    <2>1. SiteOf(g, t) \in SitesIn(x)
        BY DEF SitesIn, SitesOf
    <2> QED BY <1>2, <2>1 DEF SiteOf
<1>6. n \in Nat /\ DOMAIN calls = 1 .. n
    BY <1>4 DEF IsChain
<1>7. SiteEdges(N, s) = MethodEdges(N, s)
    BY <1>1 DEF SiteEdges, Direct
<1>8. ReceiverTypes(N, f, recv) # {}
    BY <1>7 DEF MethodEdges
<1>9. PICK h : TypesRun(h, N, f, recv)
               /\ ReceiverTypes(N, f, recv) = IF n > MaxDepth THEN {} ELSE h[n]
    BY <1>6, ReceiverRun
<1> HIDE DEF N, Here
<1>10. n <= MaxDepth /\ h[n] # {}
    BY <1>6, <1>8, <1>9 DEF MaxDepth
<1>14. \A i \in 0 .. n : h[i] # {}
    <2> DEFINE good == {i \in 0 .. n : h[n - i] # {}}
    <2>1. 0 \in good
        BY <1>6, <1>10
    <2>2. ASSUME NEW i \in 1 .. n, i - 1 \in good PROVE i \in good
        <3>1. h[n - (i - 1)] # {} /\ n - (i - 1) \in 1 .. n /\ (n - (i - 1)) - 1 = n - i
              /\ i \in 0 .. n
            BY <1>6, <2>2
        <3>2. h[n - (i - 1)] = After(N, f, recv, n - (i - 1), h[n - i])
            BY <1>9, <3>1 DEF TypesRun
        <3>3. h[n - i] # {}
            BY <3>1, <3>2 DEF After
        <3> QED BY <3>1, <3>3
    <2> HIDE DEF good, n
    <2>3. 0 .. n \subseteq good
        BY <1>6, <2>1, <2>2, OfLoops!UpTo
    <2> TAKE i \in 0 .. n
    <2>4. n - i \in 0 .. n /\ n - (n - i) = i
        BY <1>6
    <2> QED BY <2>3, <2>4 DEF good
<1>15. BaseTypes(N, f, base, 0 \in recv.each) # {}
    <2>1. h[0] # {}
        BY <1>6, <1>14
    <2> QED BY <1>9, <2>1 DEF TypesRun
<1>11. CASE base.how = "bare" /\ name = base.name
    <2>1. PICK t \in Here("call") : t.name = base.name
        BY <1>4, <1>11
    <2> DEFINE u == SiteOf(g, t)
    <2>2. u \in SitesIn(x) /\ u.from = s.from /\ u.name = name /\ u.ask = "call"
        BY <1>5, <1>11, <2>1 DEF Here
    <2> HIDE DEF u
    <2>3. ReturnedType(N, f, name, 0 \in recv.each) # {}
        BY <1>11, <1>15 DEF BaseTypes
    <2>4. \/ ResolveName(N, f, name, CallableKinds) # {}
          \/ ResolveName(N, f, name, ClassKinds) # {}
        BY <2>3 DEF ReturnedType, Returns
    <2>5. CallEdges(N, u) # {}
        BY <2>2, <2>4 DEF CallEdges, NamedEdges
    <2> QED BY <2>2, <2>5 DEF SiteEdges, N
<1>12. CASE base.how = "assoc" /\ name = base.name
    <2>1. PICK t \in Here("qualified") : t.name = base.name /\ t.recv.base.name = base.of
        BY <1>4, <1>12
    <2> DEFINE u == SiteOf(g, t)
    <2>2. /\ u \in SitesIn(x) /\ u.from = s.from /\ u.name = name /\ u.ask = "qualified"
          /\ u.recv.base.name = base.of
        BY <1>5, <1>12, <2>1 DEF Here
    <2> HIDE DEF u
    <2>3. Strict(N, f, base.of, name) # {}
        BY <1>12, <1>15 DEF BaseTypes, Returns, Strict
    <2>4. CallableKinds \subseteq QualifiedCallKinds
        BY DEF CallableKinds, QualifiedCallKinds
    <2>5. ResolveQualified(N, f, base.of, name, QualifiedCallKinds) # {}
        BY <2>3, <2>4, QualifiedAnswers DEF N
    <2>6. QualifiedEdges(N, u) # {}
        BY <2>2, <2>5 DEF QualifiedEdges
    <2> QED BY <2>2, <2>6 DEF SiteEdges, N
<1>13. CASE \E i \in DOMAIN calls : name = calls[i]
    <2>1. PICK i \in 1 .. n : name = calls[i]
        BY <1>6, <1>13
    <2>2. PICK t \in Here(s.ask) : /\ t.name = name /\ t.recv.base = base
                                  /\ t.recv.calls = SubSeq(calls, 1, i - 1)
                                  /\ t.recv.each = recv.each \cap (0 .. i - 1)
        BY <1>4, <1>6, <2>1
    <2> DEFINE u == SiteOf(g, t)
               k == i - 1
    <2>3. /\ u \in SitesIn(x) /\ u.from = s.from /\ u.name = name /\ u.ask = s.ask
          /\ u.recv.base = base /\ u.recv.calls = SubSeq(calls, 1, k)
          /\ u.recv.each = recv.each \cap (0 .. k)
        BY <1>5, <2>2 DEF Here
    <2> HIDE DEF u
    <2>4. /\ Len(u.recv.calls) = k /\ k \in Nat /\ k <= n
          /\ \A j \in 1 .. k : u.recv.calls[j] = calls[j]
        <3> DEFINE S == {calls[j] : j \in DOMAIN calls}
        <3>1. calls \in Seq(S)
            BY <1>4 DEF IsChain
        <3>2. k \in 0 .. n
            BY <1>6, <2>1
        <3> HIDE DEF S, k, calls
        <3>3. Len(SubSeq(calls, 1, k)) = k /\ \A j \in 1 .. k : SubSeq(calls, 1, k)[j] = calls[j]
            BY <1>6, <3>1, <3>2
        <3> QED BY <1>6, <2>3, <3>2, <3>3
    <2>5. PICK h2 : TypesRun(h2, N, f, u.recv)
                    /\ ReceiverTypes(N, f, u.recv) = IF k > MaxDepth THEN {} ELSE h2[k]
        <3>1. Len(u.recv.calls) \in Nat /\ Len(u.recv.calls) = k
            BY <2>4
        <3>2. PICK h2 : TypesRun(h2, N, f, u.recv)
                        /\ ReceiverTypes(N, f, u.recv)
                              = IF Len(u.recv.calls) > MaxDepth THEN {} ELSE h2[Len(u.recv.calls)]
            BY <3>1, ReceiverRun
        <3> HIDE DEF k
        <3> QED BY <3>1, <3>2
    <2>6. Alike(k, N, N, f, recv, u.recv)
        <3>1. \A j \in 0 .. k : j \in recv.each <=> j \in u.recv.each
            BY <2>3
        <3>2. 0 \in 0 .. k /\ \A j \in 1 .. k : j \in 0 .. k
            BY <2>4
        <3>3. BaseTypes(N, f, recv.base, 0 \in recv.each)
                 = BaseTypes(N, f, u.recv.base, 0 \in u.recv.each)
            BY <2>3, <3>1, <3>2 DEF BaseTypes, ReturnedType, Returns
        <3> QED BY <1>6, <2>4, <3>1, <3>2, <3>3 DEF Alike
    <2>7. h[k] = h2[k]
        BY <1>9, <2>5, <2>6, RunsAgree
    <2>8. ReceiverTypes(N, f, u.recv) = h[k]
        BY <1>6, <1>10, <2>4, <2>5, <2>7 DEF MaxDepth
    <2>9. h[i] # {} /\ h[i] = After(N, f, recv, i, h[k])
        BY <1>6, <1>9, <1>14, <2>1 DEF TypesRun
    <2>10. PICK ty \in h[k] : Strict(N, f, ty, name) # {}
        BY <2>1, <2>9 DEF After, Returns
    <2>11. ResolveQualified(N, f, ty, name, CallableKinds) # {}
        BY <2>10, QualifiedAnswers DEF N
    <2>12. MethodEdges(N, u) # {}
        BY <2>3, <2>8, <2>10, <2>11 DEF MethodEdges
    <2> QED BY <1>1, <2>3, <2>12 DEF SiteEdges, Direct, N
<1> QED BY <1>1, <1>11, <1>12, <1>13 DEF OnTheWay

-----------------------------------------------------------------------------
(***************************************************************************)
(* What backs an edge.                                                     *)
(***************************************************************************)
WholeTree == {FileNode(g) : g \in Files}

\* An include means what it would mean if every file were there.
Backs(N, s, e) ==
    /\ e.src = s.from
    /\ e \in (IF s.ask = "import" THEN ImportEdges(WholeTree, s) ELSE SiteEdges(N, s))

Drawn(es) == {e \in es : e.kind # "contains"}

\* The names that decide about the site are names of targets of its file.
Grounded(s, es) ==
    \A k \in OnTheWay(s) : \E d \in Drawn(es) : d.src.file = s.from.file /\ d.dst.name = k

Steady(x, es) ==
    \A e \in Drawn(es) : \E s \in SitesIn(x) : Backs(NodesIn(x), s, e) /\ Grounded(s, es)

LEMMA SitesAreChains ==
    ASSUME CallsAreSites, NEW x \in Extracts, NEW s \in SitesIn(x), s.ask \notin Direct
    PROVE  IsChain(s.recv.calls)
<1>1. PICK g \in DOMAIN x : s \in SitesOf(g, x[g])
    BY DEF SitesIn
<1>2. PICK c \in Source[x[g]].sites : s = SiteOf(g, c)
    BY <1>1 DEF SitesOf
<1>3. x[g] \in Contents /\ c.ask = s.ask /\ c.recv = s.recv
    BY <1>2, ExtractedFiles DEF SiteOf
<1>4. c.recv.calls \in Seq({c.recv.calls[i] : i \in DOMAIN c.recv.calls})
    BY <1>2, <1>3 DEF CallsAreSites
<1> QED BY <1>3, <1>4 DEF IsChain

\* Backing looks at the edges of one file at a time.
LEMMA SteadyPart ==
    ASSUME NEW x, NEW es, NEW fs, Steady(x, es), fs \subseteq es,
           \A e \in fs : \A d \in es : d.src.file = e.src.file => d \in fs
    PROVE  Steady(x, fs)
<1> SUFFICES ASSUME NEW e \in Drawn(fs)
             PROVE  \E s \in SitesIn(x) : Backs(NodesIn(x), s, e) /\ Grounded(s, fs)
    BY DEF Steady
<1>1. e \in Drawn(es) /\ e \in fs
    BY DEF Drawn
<1>2. PICK s \in SitesIn(x) : Backs(NodesIn(x), s, e) /\ Grounded(s, es)
    BY <1>1 DEF Steady
<1>3. e.src = s.from
    BY <1>2 DEF Backs
<1>4. ASSUME NEW k \in OnTheWay(s)
      PROVE  \E d \in Drawn(fs) : d.src.file = s.from.file /\ d.dst.name = k
    <2>1. PICK d \in Drawn(es) : d.src.file = s.from.file /\ d.dst.name = k
        BY <1>2 DEF Grounded
    <2>2. d \in fs
        BY <1>1, <1>3, <2>1 DEF Drawn
    <2> QED BY <2>1, <2>2 DEF Drawn
<1> QED BY <1>2, <1>4 DEF Grounded

\* Edges stay backed when what they and the others of their file are named after
\* stays as it is.
LEMMA BackingStays ==
    ASSUME SoleCandidates, CallsAreSites, NEW x \in Extracts, NEW y \in Extracts,
           NEW es, NEW fs, Steady(x, es), Drawn(fs) \subseteq Drawn(es),
           \A e \in Drawn(fs) : /\ e.src.file \in DOMAIN x => e.src.file \in DOMAIN y
                                /\ e.src.file \in DOMAIN x => y[e.src.file] = x[e.src.file],
           \A e \in Drawn(fs) : \A d \in Drawn(es) : d.src.file = e.src.file =>
               /\ d \in Drawn(fs)
               /\ Named(NodesIn(x), d.dst.name) = Named(NodesIn(y), d.dst.name)
    PROVE  Steady(y, fs)
<1> SUFFICES ASSUME NEW e \in Drawn(fs)
             PROVE  \E s \in SitesIn(y) : Backs(NodesIn(y), s, e) /\ Grounded(s, fs)
    BY DEF Steady
<1>1. PICK s \in SitesIn(x) : Backs(NodesIn(x), s, e) /\ Grounded(s, es)
    BY DEF Steady
<1> DEFINE f == s.from.file
<1>2. e.src = s.from /\ f \in DOMAIN x
    BY <1>1, SitesKnowTheirFile DEF Backs
<1>3. f \in DOMAIN y /\ y[f] = x[f]
    BY <1>2
<1>4. s \in SitesIn(y)
    <2>1. PICK g \in DOMAIN x : s \in SitesOf(g, x[g])
        BY <1>1 DEF SitesIn
    <2>2. g = f
        BY <2>1 DEF SitesOf, SiteOf, NodeOf, Id
    <2> QED BY <1>3, <2>1, <2>2 DEF SitesIn
<1>5. ASSUME NEW k \in OnTheWay(s)
      PROVE  /\ Named(NodesIn(x), k) = Named(NodesIn(y), k)
             /\ \E d \in Drawn(fs) : d.src.file = f /\ d.dst.name = k
    <2>1. PICK d \in Drawn(es) : d.src.file = f /\ d.dst.name = k
        BY <1>1, <1>5 DEF Grounded
    <2> QED BY <1>2, <2>1
<1>6. Grounded(s, fs)
    BY <1>5 DEF Grounded
<1>7. CASE s.ask = "import"
    <2>1. Backs(NodesIn(y), s, e)
        BY <1>1, <1>7 DEF Backs
    <2> QED BY <1>4, <1>6, <2>1
<1>8. CASE s.ask # "import"
    <2>1. e \in SiteEdges(NodesIn(x), s)
        BY <1>1, <1>8 DEF Backs
    <2>2. e.dst.name = s.name
        BY <1>8, <2>1, EdgesOfSite
    <2>3. Named(NodesIn(x), s.name) = Named(NodesIn(y), s.name)
        BY <1>2, <2>2
    <2>4. s.ask \notin Direct => IsChain(s.recv.calls)
        BY <1>1, SitesAreChains
    <2>5. Sharing(x, y, f)
        BY <1>2, <1>3 DEF Sharing
    <2>6. \A k \in {s.name} \cup OnTheWay(s) : Named(NodesIn(x), k) = Named(NodesIn(y), k)
        BY <1>5, <2>3
    <2>7. SiteEdges(NodesIn(x), s) = SiteEdges(NodesIn(y), s)
        BY <1>8, <2>4, <2>5, <2>6, SameEdges
    <2>8. Backs(NodesIn(y), s, e)
        BY <1>2, <1>8, <2>1, <2>7 DEF Backs
    <2> QED BY <1>4, <1>6, <2>8
<1> QED BY <1>7, <1>8

\* What a file can be read as, and the files that never leave the tree.
Readable(f) == Choices[f] \cup {Empty}
Lasting     == {g \in Files : Absent \notin Choices[g]}

\* What an include means does not depend on the files that may come and go.
LEMMA IncludesStay ==
    ASSUME HeadersStay, NEW x \in Extracts, NEW s \in SitesIn(x), s.ask = "import",
           \A f \in DOMAIN x : x[f] \in Readable(f),
           NEW N, PathsIn(N) \subseteq Files,
           \A g \in Files : Absent \notin Choices[g] => g \in PathsIn(N)
    PROVE  ImportEdges(N, s) = ImportEdges(WholeTree, s)
<1> DEFINE f == s.from.file
<1>1. PICK g \in DOMAIN x : s \in SitesOf(g, x[g])
    BY DEF SitesIn
<1>2. PICK c \in Source[x[g]].sites : s = SiteOf(g, c)
    BY <1>1 DEF SitesOf
<1>3. /\ g \in Files /\ x[g] \in Choices[g] \ {Absent} /\ c.ask = "import" /\ c.name = s.name
      /\ f = g
    BY <1>2, ExtractedFiles, MarkersAreNotContents, EmptyHasNoCode
    DEF SiteOf, NodeOf, Id, Readable
<1>4. PathsIn(WholeTree) = Files
    <2>1. \A h \in Files : FileNode(h).file = h /\ FileNode(h).kind = "file"
        BY DEF FileNode, NodeOf, FileDef
    <2> QED BY <2>1 DEF PathsIn, WholeTree
<1>5. ASSUME Lang[f] \in {"c", "cpp"}
      PROVE  ResolveInclude(f, s.name, PathsIn(N)) = ResolveInclude(f, s.name, Files)
    <2>1. \A h \in (IncludePath[f][s.name] \cup SameBasename[s.name]) \cap Files :
              Absent \notin Choices[h]
        BY <1>2, <1>3, <1>5 DEF HeadersStay
    <2>2. /\ IncludePath[f][s.name] \cap PathsIn(N) = IncludePath[f][s.name] \cap Files
          /\ SameBasename[s.name] \cap PathsIn(N) = SameBasename[s.name] \cap Files
        BY <2>1
    <2> QED BY <2>2 DEF ResolveInclude
<1> QED BY <1>4, <1>5 DEF ImportEdges

\* Resolution against the whole node table backs what it finds.
LEMMA FoundIsBacked ==
    ASSUME CallsAreSites, HeadersStay, NEW x \in Extracts, NEW S, S \subseteq SitesIn(x),
           \A f \in DOMAIN x : x[f] \in Readable(f), Lasting \subseteq DOMAIN x,
           \A s \in SitesIn(x) : (\E t \in S : t.from.file = s.from.file) => s \in S,
           NEW e \in ResolveAll(NodesIn(x), S)
    PROVE  \E s \in SitesIn(x) : /\ Backs(NodesIn(x), s, e)
                                 /\ Grounded(s, ResolveAll(NodesIn(x), S))
<1> DEFINE N == NodesIn(x)
           es == ResolveAll(N, S)
<1>1. PICK s \in S : e \in ResolveSite(N, s)
    BY DEF ResolveAll
<1>2. e.src = s.from /\ s.from \in Ids(N) /\ e \in SiteEdges(N, s)
    BY <1>1, ResolvedEdges DEF ResolveSite
<1>3. Backs(N, s, e)
    <2>1. CASE s.ask = "import"
        <3>1. SiteEdges(N, s) = ImportEdges(N, s)
            BY <2>1 DEF SiteEdges
        <3>2. ImportEdges(N, s) = ImportEdges(WholeTree, s)
            BY <1>1, <2>1, ExtractedFiles, IncludesStay DEF Lasting
        <3> QED BY <1>2, <2>1, <3>1, <3>2 DEF Backs
    <2>2. CASE s.ask # "import"
        BY <1>2, <2>2 DEF Backs
    <2> QED BY <2>1, <2>2
<1>4. ASSUME NEW k \in OnTheWay(s)
      PROVE  \E d \in Drawn(es) : d.src.file = s.from.file /\ d.dst.name = k
    <2>1. PICK u \in SitesIn(x) : /\ u.from = s.from /\ u.name = k /\ u.ask # "import"
                                  /\ SiteEdges(N, u) # {}
        BY <1>1, <1>2, <1>4, Grounds
    <2>2. PICK d \in SiteEdges(N, u) : TRUE
        BY <2>1
    <2>3. d \in es
        BY <1>1, <1>2, <2>1, <2>2 DEF ResolveAll, ResolveSite
    <2>4. d.src = s.from /\ d.kind # "contains" /\ d.dst.name = k
        BY <2>1, <2>2, EdgesOfSite DEF ResolvedKinds
    <2> QED BY <2>3, <2>4 DEF Drawn
<1> QED BY <1>1, <1>3, <1>4 DEF Grounded

-----------------------------------------------------------------------------
(***************************************************************************)
(* No stale edge.  A run's affected files are those that its deletions and *)
(* insertions can mean anything to, whatever the tree is meanwhile: the    *)
(* database changes by the runs alone.                                     *)
(***************************************************************************)
NamesIn(x) == {n.name : n \in Symbols(NodesIn(x))}

\* The edges that were resolved from what the files table records.
Undrifted == {e \in BagToSet(edges) : e.src.file \notin drifted}

\* What a run knows of the database and of the files that never leave the tree.
RunNames(p) ==
    /\ \A f \in DOMAIN fresh[p] : fresh[p][f] \in Readable(f)
    /\ pc[p] \in {"create", "ddl", "fill"} => Lasting \subseteq DOMAIN fresh[p]
    /\ pc[p] \in {"parse", "plan", "delete"} => gone[p] \cap Lasting \subseteq todo[p]
    /\ pc[p] \in {"parse", "plan", "delete", "reparse", "insert"} =>
          Lasting \subseteq Indexed \cup todo[p]
    /\ pc[p] = "delete" => affected[p] = AffectedFiles(p)
    /\ pc[p] \in {"reparse", "insert"} =>
          \A e \in Drawn(BagToSet(edges)) : e.dst.name \notin NamesIn(fresh[p])
    /\ pc[p] \in {"resolve", "link"} =>
          /\ Lasting \subseteq Indexed
          /\ \A f \in DOMAIN fresh[p] : rows[f] = fresh[p][f]
    /\ pc[p] = "link" =>
          found[p] = ResolveAll(nodes, SitesIn(fresh[p]) \cup SitesIn(late[p]))

StaleInv ==
    /\ \A f \in Files : disk[f] \in Choices[f]
    /\ \A f \in Indexed : rows[f] \in Readable(f)
    /\ Steady(Recorded, Undrifted)
    /\ \A p \in Procs : RunNames(p)

LEMMA PartIsExtract ==
    ASSUME NEW S \in SUBSET Files, NEW x, x \in [S -> Contents] PROVE x \in Extracts
BY DEF Extracts

LEMMA RecordedIsExtract == TypeOK => Recorded \in Extracts
<1> SUFFICES ASSUME TypeOK PROVE Recorded \in Extracts
    OBVIOUS
<1>1. Indexed \in SUBSET Files /\ Recorded \in [Indexed -> Contents]
    BY DEF TypeOK, Recorded, Indexed
<1> QED BY <1>1, PartIsExtract

LEMMA NextRecordedIsExtract == (TypeOK => Recorded \in Extracts)'
BY RecordedIsExtract, PTL

LEMMA NextWantedIsTree == (TypeOK /\ rows = Wanted => Recorded = Tree)'
<1>1. TypeOK /\ rows = Wanted => Recorded = Tree
    BY WantedIsTree
<1> QED BY <1>1, PTL

LEMMA TreeIsExtract == TypeOK => Tree \in Extracts
<1> SUFFICES ASSUME TypeOK PROVE Tree \in Extracts
    OBVIOUS
<1>1. OnDisk \in SUBSET Files /\ Tree \in [OnDisk -> Contents]
    BY DEF TypeOK, Tree, OnDisk
<1> QED BY <1>1, PartIsExtract

LEMMA DeleteRecorded ==
    ASSUME NEW p, DeleteGone(p)
    PROVE  /\ DOMAIN Recorded' = DOMAIN Recorded \ gone[p]
           /\ \A f \in DOMAIN Recorded' : Recorded'[f] = Recorded[f]
           /\ NodesIn(Recorded') = {n \in NodesIn(Recorded) : n.file \notin gone[p]}
           /\ BagToSet(edges') = Surviving(p)
<1>1. Indexed' = Indexed \ gone[p] /\ \A f \in Indexed' : rows'[f] = rows[f]
    BY DEF DeleteGone, Indexed
<1>2. DOMAIN Recorded' = DOMAIN Recorded \ gone[p]
          /\ \A f \in DOMAIN Recorded' : Recorded'[f] = Recorded[f]
    BY <1>1 DEF Recorded
<1>3. NodesIn(Recorded') = {n \in NodesIn(Recorded) : n.file \notin gone[p]}
    BY <1>2, NodesKnowTheirFile DEF NodesIn
<1>4. BagToSet(edges') = Surviving(p)
    BY DEF DeleteGone, RestrictBag, Surviving, BagToSet
<1> QED BY <1>2, <1>3, <1>4

LEMMA InsertRecorded ==
    ASSUME TypeOK, NEW p \in Procs, RunKnows(p), InsertNodes(p)
    PROVE  /\ DOMAIN Recorded' = DOMAIN Recorded \cup DOMAIN fresh[p]
           /\ \A f \in DOMAIN Recorded : Recorded'[f] = Recorded[f]
           /\ \A f \in DOMAIN fresh[p] : Recorded'[f] = fresh[p][f]
           /\ NodesIn(Recorded') = NodesIn(Recorded) \cup NodesIn(fresh[p])
           /\ BagToSet(edges') = BagToSet(edges) \cup ContainsIn(fresh[p])
<1>1. PICK S \in SUBSET Files : fresh[p] \in [S -> Contents]
    BY DEF TypeOK, Extracts
<1>2. S \cap Indexed = {}
    BY <1>1 DEF InsertNodes, RunKnows
<1>3. /\ DOMAIN Recorded' = DOMAIN Recorded \cup DOMAIN fresh[p]
      /\ \A f \in DOMAIN Recorded : Recorded'[f] = Recorded[f]
      /\ \A f \in DOMAIN fresh[p] : Recorded'[f] = fresh[p][f]
    <2>1. rows' = [f \in Files |-> IF f \in S THEN fresh[p][f] ELSE rows[f]]
        BY <1>1 DEF InsertNodes, RowsAfter
    <2>2. \A f \in S : f \in Files /\ fresh[p][f] # NoRow
        BY <1>1, MarkersAreNotContents
    <2>3. Indexed' = Indexed \cup S
        BY <2>1, <2>2 DEF Indexed
    <2> QED BY <1>1, <1>2, <2>1, <2>3 DEF Recorded, Indexed
<1>4. NodesIn(Recorded') = NodesIn(Recorded) \cup NodesIn(fresh[p])
    BY <1>3, ExtractsAddUp, ZenonT(30)
<1>5. BagToSet(edges') = BagToSet(edges) \cup ContainsIn(fresh[p])
    BY SetAddedToBag DEF InsertNodes
<1> QED BY <1>3, <1>4, <1>5

LEMMA InitStaleInv == Init => StaleInv
<1> SUFFICES ASSUME Init PROVE StaleInv
    OBVIOUS
<1>1. Undrifted = {}
    BY DEF Init, Undrifted, BagToSet, EmptyBag, SetToBag
<1>2. Steady(Recorded, Undrifted)
    BY <1>1 DEF Steady, Drawn
<1>3. \A f \in Files : disk[f] \in Choices[f]
    BY DEF Init
<1>4. Indexed = {}
    BY DEF Init, Indexed
<1>5. \A p \in Procs : pc[p] = "idle" /\ DOMAIN fresh[p] = {}
    BY DEF Init, NoExtracts
<1>6. \A p \in Procs : RunNames(p)
    BY <1>5 DEF RunNames
<1> QED BY <1>2, <1>3, <1>4, <1>6 DEF StaleInv

\* The deletion leaves what no gone definition and no new one can have changed.
LEMMA DeletionSteady ==
    ASSUME SoleCandidates, CallsAreSites, HashInv, HashInv', StaleInv,
           NEW p \in Procs, DeleteGone(p)
    PROVE  /\ Steady(Recorded', Undrifted')
           /\ \A e \in Drawn(BagToSet(edges')) : e.dst.name \notin NamesIn(fresh[p])
<1> DEFINE es == Undrifted
           fs == Undrifted'
<1>1. affected[p] = AffectedFiles(p) /\ Steady(Recorded, es) /\ nodes = NodesIn(Recorded)
    BY DEF StaleInv, RunNames, DeleteGone, HashInv, NodesMatchHashes
<1>2. Recorded \in Extracts /\ Recorded' \in Extracts
    <2>1. TypeOK /\ TypeOK'
        BY DEF HashInv
    <2> QED BY <2>1, RecordedIsExtract, NextRecordedIsExtract
<1>3. /\ DOMAIN Recorded' = DOMAIN Recorded \ gone[p]
      /\ \A f \in DOMAIN Recorded' : Recorded'[f] = Recorded[f]
      /\ NodesIn(Recorded') = {n \in NodesIn(Recorded) : n.file \notin gone[p]}
      /\ BagToSet(edges') = Surviving(p)
    BY DeleteRecorded
<1>4. ASSUME NEW e \in Drawn(Surviving(p))
      PROVE  /\ e \in Drawn(BagToSet(edges))
             /\ e.src.file \notin gone[p] /\ e.src.file \notin affected[p]
             /\ e.dst.name \notin DeltaNames(p)
    <2>1. /\ e \in Drawn(BagToSet(edges))
          /\ e.src.file \notin gone[p] /\ e.src.file \notin affected[p]
        BY <1>4 DEF Drawn, Surviving
    <2> QED BY <1>1, <2>1 DEF AffectedFiles, Drawn
<1>5. ASSUME NEW e \in Drawn(fs)
      PROVE  /\ e \in Drawn(es)
             /\ e.src.file \notin gone[p] /\ e.src.file \notin AffectedFiles(p)
    <2>1. e \in Drawn(Surviving(p)) /\ e.src.file \notin drifted'
        BY <1>3, <1>5 DEF Drawn, Undrifted
    <2>2. e.src.file \notin drifted
        BY <1>4, <2>1 DEF DeleteGone
    <2> QED BY <1>1, <1>4, <2>1, <2>2 DEF Drawn, Undrifted
<1>6. ASSUME NEW e \in Drawn(fs), NEW d \in Drawn(es), d.src.file = e.src.file
      PROVE  d \in Drawn(fs) /\ d.dst.name \notin DeltaNames(p)
    <2>1. /\ d \in BagToSet(edges) /\ d.kind # "contains"
          /\ d.src.file \notin gone[p] /\ d.src.file \notin AffectedFiles(p)
          /\ d.src.file \notin drifted'
        BY <1>5, <1>6 DEF Drawn, Undrifted
    <2>2. d.dst.file \notin gone[p] /\ d.dst.name \notin DeltaNames(p)
        BY <2>1 DEF AffectedFiles
    <2> QED BY <1>1, <1>3, <2>1, <2>2 DEF Drawn, Surviving, Undrifted
<1>7. ASSUME NEW k, k \notin DeltaNames(p)
      PROVE  Named(NodesIn(Recorded), k) = Named(NodesIn(Recorded'), k)
    <2>1. \A n \in Symbols(NodesIn(Recorded)) : n.name = k => n.file \notin gone[p]
        BY <1>1, <1>7 DEF DeltaNames, Symbols
    <2> QED BY <1>3, <2>1 DEF Named, Symbols
<1>8. Steady(Recorded', fs)
    <2>1. \A e \in Drawn(fs) :
              /\ e.src.file \in DOMAIN Recorded => e.src.file \in DOMAIN Recorded'
              /\ e.src.file \in DOMAIN Recorded => Recorded'[e.src.file] = Recorded[e.src.file]
        BY <1>3, <1>5
    <2>2. \A e \in Drawn(fs) : \A d \in Drawn(es) : d.src.file = e.src.file =>
              /\ d \in Drawn(fs)
              /\ Named(NodesIn(Recorded), d.dst.name) = Named(NodesIn(Recorded'), d.dst.name)
        BY <1>6, <1>7
    <2>3. Drawn(fs) \subseteq Drawn(es)
        BY <1>5
    <2> HIDE DEF es, fs
    <2> QED BY <1>1, <1>2, <2>1, <2>2, <2>3, BackingStays
<1>9. NamesIn(fresh[p]) \subseteq DeltaNames(p)
    BY DEF NamesIn, DeltaNames, Symbols
<1> QED BY <1>3, <1>4, <1>8, <1>9

\* What is inserted has no name that decides about an edge that is there.
LEMMA InsertionSteady ==
    ASSUME SoleCandidates, CallsAreSites, HashInv, HashInv', StaleInv,
           NEW p \in Procs, InsertNodes(p)
    PROVE  Steady(Recorded', Undrifted')
<1> DEFINE es == Undrifted
           fs == Undrifted'
<1>1. /\ Steady(Recorded, es)
      /\ \A e \in Drawn(es) : e.dst.name \notin NamesIn(fresh[p])
    BY DEF StaleInv, RunNames, InsertNodes, Undrifted, Drawn
<1>2. Recorded \in Extracts /\ Recorded' \in Extracts
    <2>1. TypeOK /\ TypeOK'
        BY DEF HashInv
    <2> QED BY <2>1, RecordedIsExtract, NextRecordedIsExtract
<1>3. /\ DOMAIN Recorded \subseteq DOMAIN Recorded'
      /\ \A f \in DOMAIN Recorded : Recorded'[f] = Recorded[f]
      /\ NodesIn(Recorded') = NodesIn(Recorded) \cup NodesIn(fresh[p])
      /\ BagToSet(edges') = BagToSet(edges) \cup ContainsIn(fresh[p])
    BY InsertRecorded DEF HashInv
<1>4. Drawn(fs) = Drawn(es)
    BY <1>3, ContainsOnly DEF Drawn, OnlyContains, Undrifted, InsertNodes
<1>5. ASSUME NEW k, k \notin NamesIn(fresh[p])
      PROVE  Named(NodesIn(Recorded), k) = Named(NodesIn(Recorded'), k)
    BY <1>3, <1>5 DEF Named, NamesIn, Symbols
<1>6. \A e \in Drawn(fs) : \A d \in Drawn(es) : d.src.file = e.src.file =>
          /\ d \in Drawn(fs)
          /\ Named(NodesIn(Recorded), d.dst.name) = Named(NodesIn(Recorded'), d.dst.name)
    BY <1>1, <1>4, <1>5
<1>7. \A e \in Drawn(fs) :
          /\ e.src.file \in DOMAIN Recorded => e.src.file \in DOMAIN Recorded'
          /\ e.src.file \in DOMAIN Recorded => Recorded'[e.src.file] = Recorded[e.src.file]
    BY <1>3
<1>8. Drawn(fs) \subseteq Drawn(es)
    BY <1>4
<1> HIDE DEF es, fs
<1>9. Steady(Recorded', fs)
    BY <1>1, <1>2, <1>6, <1>7, <1>8, BackingStays
<1> QED BY <1>9 DEF fs

LEMMA GroundedStays ==
    ASSUME NEW s, NEW es, NEW fs, es \subseteq fs, Grounded(s, es) PROVE Grounded(s, fs)
BY DEF Grounded, Drawn

\* The end of a run adds edges that what is recorded backs, except where a file was
\* read in another state than the one recorded.
LEMMA LinkSteady ==
    ASSUME CallsAreSites, HeadersStay, HashInv, StaleInv, NEW p \in Procs, InsertEdges(p)
    PROVE  Steady(Recorded', Undrifted')
<1> DEFINE x == Recorded
           parsed == {f \in DOMAIN fresh[p] \cup DOMAIN late[p] : f \notin drifted'}
           S == {s \in SitesIn(x) : s.from.file \in parsed}
           new == ResolveAll(NodesIn(x), S)
           old == {e \in Undrifted : e.src.file \notin drifted'}
<1>1. /\ pc[p] = "link" /\ edges' = edges (+) SetToBag(found[p]) /\ rows' = rows
      /\ drifted' = drifted \cup Drift(p)
    BY DEF InsertEdges
<1>2. /\ TypeOK /\ nodes = NodesIn(x) /\ Lasting \subseteq DOMAIN x
      /\ \A f \in DOMAIN fresh[p] : rows[f] = fresh[p][f]
      /\ \A f \in DOMAIN x : x[f] \in Readable(f)
      /\ found[p] = ResolveAll(nodes, SitesIn(fresh[p]) \cup SitesIn(late[p]))
    BY <1>1 DEF HashInv, NodesMatchHashes, StaleInv, RunNames, Recorded
<1>3. x \in Extracts /\ Recorded' = x
    BY <1>1, <1>2, RecordedIsExtract DEF Recorded, Indexed
<1>4. ASSUME NEW f \in DOMAIN fresh[p] PROVE f \in DOMAIN x /\ x[f] = fresh[p][f]
    <2>1. f \in Files /\ fresh[p][f] \in Contents
        BY <1>2 DEF TypeOK, Extracts
    <2> QED BY <1>2, <2>1, MarkersAreNotContents DEF Recorded, Indexed
<1>5. ASSUME NEW f \in DOMAIN late[p], f \notin drifted'
      PROVE  f \in DOMAIN x /\ x[f] = late[p][f]
    <2>1. f \in Files /\ late[p][f] \in Contents
        BY <1>2 DEF TypeOK, Extracts
    <2>2. late[p][f] = rows[f]
        BY <1>1, <1>5 DEF Drift
    <2> QED BY <2>1, <2>2, MarkersAreNotContents DEF Recorded, Indexed
<1>6. ASSUME NEW e \in found[p], e.src.file \notin drifted' PROVE e \in new
    <2>1. PICK s \in SitesIn(fresh[p]) \cup SitesIn(late[p]) : e \in ResolveSite(nodes, s)
        BY <1>2, <1>6 DEF ResolveAll
    <2>2. e.src = s.from
        BY <2>1, ResolvedEdges
    <2>3. CASE s \in SitesIn(fresh[p])
        <3>1. PICK g \in DOMAIN fresh[p] : s \in SitesOf(g, fresh[p][g])
            BY <2>3 DEF SitesIn
        <3>2. s.from.file = g
            BY <3>1 DEF SitesOf, SiteOf, NodeOf, Id
        <3>3. s \in S
            BY <1>4, <1>6, <2>2, <3>1, <3>2 DEF SitesIn
        <3> QED BY <1>2, <2>1, <3>3 DEF ResolveAll
    <2>4. CASE s \in SitesIn(late[p])
        <3>1. PICK g \in DOMAIN late[p] : s \in SitesOf(g, late[p][g])
            BY <2>4 DEF SitesIn
        <3>2. s.from.file = g
            BY <3>1 DEF SitesOf, SiteOf, NodeOf, Id
        <3>3. s \in S
            BY <1>5, <1>6, <2>2, <3>1, <3>2 DEF SitesIn
        <3> QED BY <1>2, <2>1, <3>3 DEF ResolveAll
    <2> QED BY <2>1, <2>3, <2>4
<1>7. ASSUME NEW s \in S PROVE s \in SitesIn(fresh[p]) \cup SitesIn(late[p])
    <2>1. PICK g \in DOMAIN x : s \in SitesOf(g, x[g])
        BY DEF SitesIn
    <2>2. s.from.file = g
        BY <2>1 DEF SitesOf, SiteOf, NodeOf, Id
    <2> QED BY <1>4, <1>5, <2>1, <2>2 DEF SitesIn
<1>8. ASSUME NEW e \in new PROVE e \in found[p] /\ e.src.file \notin drifted'
    <2>1. PICK s \in S : e \in ResolveSite(NodesIn(x), s)
        BY <1>8 DEF ResolveAll
    <2>2. e.src = s.from
        BY <2>1, ResolvedEdges
    <2> QED BY <1>2, <1>7, <2>1, <2>2 DEF ResolveAll
<1>9. BagToSet(edges') = BagToSet(edges) \cup found[p]
    BY <1>1, SetAddedToBag
<1>10. old \subseteq Undrifted' /\ new \subseteq Undrifted'
    BY <1>8, <1>9 DEF Undrifted
<1>11. \A e \in Undrifted' : e \in old \/ e \in new
    BY <1>1, <1>6, <1>9 DEF Undrifted
<1>12. \A e \in new : \E s \in SitesIn(x) : Backs(NodesIn(x), s, e) /\ Grounded(s, new)
    <2>1. S \subseteq SitesIn(x)
        OBVIOUS
    <2>2. \A s \in SitesIn(x) : (\E t \in S : t.from.file = s.from.file) => s \in S
        OBVIOUS
    <2> HIDE DEF S, x
    <2> QED BY <1>2, <1>3, <2>1, <2>2, FoundIsBacked
<1>13. Steady(x, old)
    <2>1. Steady(x, Undrifted)
        BY DEF StaleInv
    <2>2. old \subseteq Undrifted
          /\ \A e \in old : \A d \in Undrifted : d.src.file = e.src.file => d \in old
        OBVIOUS
    <2> HIDE DEF old, x
    <2> QED BY <2>1, <2>2, SteadyPart
<1> HIDE DEF new, old, S, parsed
<1>14. Steady(x, Undrifted')
    <2> SUFFICES ASSUME NEW e \in Drawn(Undrifted')
                 PROVE  \E s \in SitesIn(x) :
                            Backs(NodesIn(x), s, e) /\ Grounded(s, Undrifted')
        BY DEF Steady
    <2>1. e \in Drawn(old) \/ e \in new
        BY <1>11 DEF Drawn
    <2>2. CASE e \in Drawn(old)
        <3>1. PICK s \in SitesIn(x) : Backs(NodesIn(x), s, e) /\ Grounded(s, old)
            BY <1>13, <2>2 DEF Steady
        <3> QED BY <1>10, <3>1, GroundedStays
    <2>3. CASE e \in new
        <3>1. PICK s \in SitesIn(x) : Backs(NodesIn(x), s, e) /\ Grounded(s, new)
            BY <1>12, <2>3
        <3> QED BY <1>10, <3>1, GroundedStays
    <2> QED BY <2>1, <2>2, <2>3
<1> QED BY <1>3, <1>14

\* A full index records what it parsed, and that backs its edges.
LEMMA FillSteady ==
    ASSUME CallsAreSites, HeadersStay, HashInv, StaleInv, NEW p \in Procs, FillIndex(p)
    PROVE  /\ Steady(Recorded', Undrifted')
           /\ \A f \in Indexed' : rows'[f] \in Readable(f)
<1> DEFINE x == fresh[p]
           new == ResolveAll(NodesIn(x), SitesIn(x))
<1>1. /\ TypeOK /\ Indexed = {} /\ Lasting \subseteq DOMAIN x
      /\ \A f \in DOMAIN x : x[f] \in Readable(f)
    BY DEF FillIndex, StaleInv, RunNames, HashInv, RunKnows
<1>2. PICK T \in SUBSET Files : x \in [T -> Contents]
    BY <1>1 DEF TypeOK, Extracts
<1>3. BagToSet(edges') = ContainsIn(x) \cup new
    BY BagOfSet DEF FillIndex, FreshEdges
<1>4. Recorded' = x /\ \A f \in Indexed' : rows'[f] \in Readable(f)
    <2>1. rows' = [f \in Files |-> IF f \in T THEN x[f] ELSE NoRow]
        BY <1>1, <1>2 DEF FillIndex, RowsAfter, Indexed, TypeOK
    <2>2. \A f \in T : f \in Files /\ x[f] # NoRow
        BY <1>2, MarkersAreNotContents
    <2>3. Indexed' = T
        BY <2>1, <2>2 DEF Indexed
    <2> QED BY <1>1, <1>2, <2>1, <2>3 DEF Recorded
<1>5. x \in Extracts
    BY <1>2 DEF Extracts
<1>6. \A e \in new : \E s \in SitesIn(x) : Backs(NodesIn(x), s, e) /\ Grounded(s, new)
    <2> HIDE DEF x
    <2> QED BY <1>1, <1>5, FoundIsBacked
<1>7. Drawn(ContainsIn(x) \cup new) \subseteq new
    BY ContainsOnly DEF Drawn, OnlyContains
<1> HIDE DEF new, x
<1>8. \A s : Grounded(s, new) => Grounded(s, ContainsIn(x) \cup new)
    BY GroundedStays
<1>9. Steady(x, BagToSet(edges'))
    BY <1>3, <1>6, <1>7, <1>8 DEF Steady
<1>10. Steady(x, Undrifted')
    BY <1>9, SteadyPart DEF Undrifted
<1> QED BY <1>4, <1>10

LEMMA NextStaleInv ==
    ASSUME NamesDecide, \A p, q \in Procs : p = q
    PROVE  HashInv /\ HashInv' /\ SyncInv /\ StaleInv /\ [Next]_vars => StaleInv'
<1> SUFFICES ASSUME HashInv, HashInv', SyncInv, StaleInv, [Next]_vars
             PROVE  StaleInv'
    OBVIOUS
<1>a. /\ TypeOK /\ DOMAIN affected = Procs /\ DOMAIN found = Procs
      /\ Steady(Recorded, Undrifted)
      /\ \A f \in Files : disk[f] \in Choices[f]
      /\ \A f \in Indexed : rows[f] \in Readable(f)
      /\ \A p \in Procs : RunNames(p) /\ RunKnows(p)
      /\ SoleCandidates /\ HeadersStay /\ CallsAreSites
    BY DEF HashInv, SyncInv, StaleInv, NamesDecide
<1>b. ASSUME UNCHANGED <<rows, edges, drifted>>
      PROVE  /\ Steady(Recorded', Undrifted') /\ Indexed' = Indexed
             /\ \A f \in Indexed' : rows'[f] \in Readable(f)
    <2>1. Recorded' = Recorded /\ Undrifted' = Undrifted /\ Indexed' = Indexed
        BY <1>b DEF Recorded, Indexed, Undrifted
    <2> QED BY <1>a, <1>b, <2>1
<1>c. ASSUME NEW p \in Procs, RunNames(p)', Steady(Recorded', Undrifted'), disk' = disk,
             \A f \in Indexed' : rows'[f] \in Readable(f)
      PROVE  StaleInv'
    <2>1. \A q \in Procs : RunNames(q)'
        BY <1>c
    <2>2. \A f \in Files : disk'[f] \in Choices[f]
        BY <1>a, <1>c
    <2> QED BY <1>c, <2>1, <2>2 DEF StaleInv
<1>d. ASSUME NEW p \in Procs, NEW how, Finish(p, how) PROVE RunNames(p)'
    <2>1. pc'[p] = "idle" /\ fresh'[p] = NoExtracts
        BY <1>a, <1>d DEF Finish, TypeOK
    <2> QED BY <2>1 DEF RunNames, NoExtracts
<1>e. ASSUME UNCHANGED <<database, pc, locals>> PROVE \A p \in Procs : RunNames(p)'
    <2> TAKE p \in Procs
    <2>1. AffectedFiles(p)' = AffectedFiles(p) /\ Indexed' = Indexed
        BY <1>e DEF AffectedFiles, DeltaNames, Indexed, database, locals
    <2>2. UNCHANGED <<rows, nodes, edges, pc, gone, todo, fresh, affected, late, found>>
        BY <1>e DEF database, locals
    <2> QED BY <1>a, <2>1, <2>2 DEF RunNames
<1>f. Lasting \subseteq OnDisk /\ \A f \in Files : Read(f) \in Readable(f)
    BY <1>a DEF Lasting, OnDisk, Read, Readable
<1>1. ASSUME NEW f \in Files, NEW c \in Choices[f], Edit(f, c) PROVE StaleInv'
    <2>1. \A g \in Files : disk'[g] \in Choices[g]
        BY <1>a, <1>1 DEF Edit, TypeOK
    <2>2. UNCHANGED <<database, pc, locals, drifted>> /\ UNCHANGED <<rows, edges>>
        BY <1>1 DEF Edit, database
    <2>3. /\ \A p \in Procs : RunNames(p)'
          /\ Steady(Recorded', Undrifted')
          /\ \A g \in Indexed' : rows'[g] \in Readable(g)
        BY <1>b, <1>e, <2>2
    <2> QED BY <2>1, <2>3 DEF StaleInv
<1>2. ASSUME NEW p \in Procs, Crash(p) \/ InsertFails(p) PROVE StaleInv'
    <2>1. PICK how : Finish(p, how)
        BY <1>2 DEF Crash, InsertFails
    <2>2. UNCHANGED <<disk, rows, edges, drifted>>
        BY <1>2 DEF Crash, InsertFails, database
    <2> QED BY <1>b, <1>c, <1>d, <2>1, <2>2
<1>3. ASSUME NEW p \in Procs, FillIndex(p) PROVE StaleInv'
    <2>1. Finish(p, "ok") /\ disk' = disk
        BY <1>3 DEF FillIndex
    <2> QED BY <1>a, <1>c, <1>d, <1>3, <2>1, FillSteady
<1>4. ASSUME NEW p \in Procs, InsertEdges(p) PROVE StaleInv'
    <2>1. Finish(p, "ok") /\ disk' = disk /\ rows' = rows
        BY <1>4 DEF InsertEdges
    <2>2. \A f \in Indexed' : rows'[f] \in Readable(f)
        BY <1>a, <2>1 DEF Indexed
    <2> QED BY <1>a, <1>c, <1>d, <1>4, <2>1, <2>2, LinkSteady
<1>5. ASSUME NEW p \in Procs, DeleteGone(p) PROVE StaleInv'
    <2>1. /\ Steady(Recorded', Undrifted')
          /\ \A e \in Drawn(BagToSet(edges')) : e.dst.name \notin NamesIn(fresh[p])
        BY <1>a, <1>5, DeletionSteady
    <2>2. /\ pc[p] = "delete" /\ pc'[p] = "reparse" /\ disk' = disk
          /\ UNCHANGED <<gone, todo, fresh>>
          /\ rows' = [f \in Files |-> IF f \in gone[p] THEN NoRow ELSE rows[f]]
        BY <1>a, <1>5 DEF DeleteGone, TypeOK, locals
    <2>3. Indexed' = Indexed \ gone[p] /\ \A f \in Indexed' : rows'[f] \in Readable(f)
        BY <1>a, <2>2 DEF Indexed
    <2>4. RunNames(p)'
        BY <1>a, <2>1, <2>2, <2>3 DEF RunNames
    <2> QED BY <1>c, <2>1, <2>2, <2>3, <2>4
<1>6. ASSUME NEW p \in Procs, InsertNodes(p) PROVE StaleInv'
    <2>1. Steady(Recorded', Undrifted')
        BY <1>a, <1>6, InsertionSteady
    <2>2. /\ pc[p] = "insert" /\ pc'[p] = "resolve" /\ disk' = disk
          /\ UNCHANGED <<gone, todo, fresh>>
        BY <1>a, <1>6 DEF InsertNodes, TypeOK, locals
    <2>3. /\ Indexed' = Indexed \cup DOMAIN fresh[p]
          /\ \A f \in Indexed : rows'[f] = rows[f]
          /\ \A f \in DOMAIN fresh[p] : rows'[f] = fresh[p][f]
        BY <1>a, <1>6, InsertRecorded DEF Recorded
    <2>4. DOMAIN fresh[p] = todo[p]
        BY <1>a, <2>2 DEF RunKnows
    <2>5. \A f \in Indexed' : rows'[f] \in Readable(f)
        BY <1>a, <2>3 DEF RunNames
    <2>6. RunNames(p)'
        BY <1>a, <2>2, <2>3, <2>4 DEF RunNames
    <2> QED BY <1>c, <2>1, <2>2, <2>5, <2>6
<1>7. ASSUME NEW p \in Procs, CreateDatabase(p) PROVE StaleInv'
    <2>1. /\ pc[p] = "create" /\ pc'[p] = "ddl" /\ disk' = disk /\ UNCHANGED <<fresh>>
        BY <1>a, <1>7 DEF CreateDatabase, TypeOK, locals
    <2>2. BagToSet(edges') = {} /\ Indexed' = {}
        BY <1>7 DEF CreateDatabase, BagToSet, EmptyBag, SetToBag, Indexed
    <2>3. Steady(Recorded', Undrifted')
        BY <2>2 DEF Steady, Drawn, Undrifted
    <2>4. RunNames(p)'
        BY <1>a, <2>1 DEF RunNames
    <2> QED BY <1>c, <2>1, <2>2, <2>3, <2>4
<1>8. ASSUME NEW p \in Procs, Plan(p) PROVE StaleInv'
    <2>1. /\ pc'[p] = "delete" /\ affected'[p] = AffectedFiles(p) /\ pc[p] = "plan"
          /\ UNCHANGED <<disk, rows, edges, nodes, gone, todo, fresh, drifted>>
        BY <1>a, <1>8 DEF Plan, TypeOK, database
    <2>2. AffectedFiles(p)' = AffectedFiles(p)
        BY <2>1 DEF AffectedFiles, DeltaNames
    <2>3. RunNames(p)'
        BY <1>a, <1>b, <2>1, <2>2 DEF RunNames
    <2> QED BY <1>b, <1>c, <2>1, <2>3
<1>9. ASSUME NEW p \in Procs, BeginIndex(p) PROVE StaleInv'
    <2>1. /\ pc'[p] = "create" /\ fresh'[p] = Parse(OnDisk)
          /\ UNCHANGED <<disk, rows, edges, drifted>>
        BY <1>a, <1>9 DEF BeginIndex, TypeOK, database
    <2>2. /\ DOMAIN fresh'[p] = OnDisk
          /\ \A f \in DOMAIN fresh'[p] : fresh'[p][f] \in Readable(f)
        BY <1>f, <2>1 DEF Parse, OnDisk
    <2>3. RunNames(p)'
        BY <1>f, <2>1, <2>2 DEF RunNames
    <2> QED BY <1>b, <1>c, <2>1, <2>3
<1>10. ASSUME NEW p \in Procs, Classify(p) PROVE StaleInv'
    <2>1. /\ pc'[p] = "parse" /\ gone'[p] = Changed \cup Deleted
          /\ todo'[p] = Changed \cup Added
          /\ UNCHANGED <<disk, rows, edges, drifted, fresh>>
        BY <1>a, <1>10 DEF Classify, TypeOK, database
    <2>2. /\ gone'[p] \cap Lasting \subseteq todo'[p]
          /\ Lasting \subseteq Indexed \cup todo'[p]
        BY <1>f, <2>1 DEF Deleted, Added
    <2>3. RunNames(p)'
        BY <1>a, <1>b, <2>1, <2>2 DEF RunNames
    <2> QED BY <1>b, <1>c, <2>1, <2>3
<1>11. ASSUME NEW p \in Procs, ParseFresh(p) PROVE StaleInv'
    <2>1. /\ pc[p] = "parse" /\ pc'[p] = "plan" /\ fresh'[p] = Parse(todo[p])
          /\ UNCHANGED <<disk, rows, edges, drifted, gone, todo>>
        BY <1>a, <1>11 DEF ParseFresh, TypeOK, database
    <2>2. \A f \in DOMAIN fresh'[p] : fresh'[p][f] \in Readable(f)
        BY <1>a, <1>f, <2>1 DEF Parse, TypeOK
    <2>3. RunNames(p)'
        BY <1>a, <1>b, <2>1, <2>2 DEF RunNames
    <2> QED BY <1>b, <1>c, <2>1, <2>3
<1>12. ASSUME NEW p \in Procs, InstallSchema(p) PROVE StaleInv'
    <2>1. /\ pc[p] = "ddl" /\ pc'[p] \in {"ddl", "fill"}
          /\ UNCHANGED <<disk, rows, edges, drifted, fresh>>
        BY <1>a, <1>12 DEF InstallSchema, TypeOK, locals
    <2>2. RunNames(p)'
        BY <1>a, <2>1 DEF RunNames
    <2> QED BY <1>b, <1>c, <2>1, <2>2
<1>13. ASSUME NEW p \in Procs, ParseAffected(p) PROVE StaleInv'
    <2>1. /\ pc[p] = "reparse" /\ pc'[p] = "insert"
          /\ UNCHANGED <<disk, rows, edges, drifted, fresh, todo>>
        BY <1>a, <1>13 DEF ParseAffected, TypeOK, database
    <2>2. RunNames(p)'
        BY <1>a, <1>b, <2>1 DEF RunNames
    <2> QED BY <1>b, <1>c, <2>1, <2>2
<1>14. ASSUME NEW p \in Procs, Resolve(p) PROVE StaleInv'
    <2>1. /\ pc[p] = "resolve" /\ pc'[p] = "link"
          /\ found'[p] = ResolveAll(nodes, SitesIn(fresh[p]) \cup SitesIn(late[p]))
          /\ UNCHANGED <<disk, nodes, rows, edges, drifted, fresh, late>>
        BY <1>a, <1>14 DEF Resolve, TypeOK, database
    <2>2. RunNames(p)'
        BY <1>a, <1>b, <2>1 DEF RunNames
    <2> QED BY <1>b, <1>c, <2>1, <2>2
<1>15. ASSUME NEW p \in Procs, SyncFails(p) \/ NothingToDo(p) PROVE StaleInv'
    <2>1. UNCHANGED <<database, pc, locals, drifted, disk>> /\ UNCHANGED <<rows, edges>>
        BY <1>15 DEF SyncFails, NothingToDo, database
    <2> QED BY <1>b, <1>c, <1>e, <2>1
<1>16. CASE UNCHANGED vars
    <2>1. UNCHANGED <<database, pc, locals, drifted, disk>> /\ UNCHANGED <<rows, edges>>
        BY <1>16 DEF vars, database
    <2>2. /\ \A p \in Procs : RunNames(p)'
          /\ Steady(Recorded', Undrifted')
          /\ \A g \in Indexed' : rows'[g] \in Readable(g)
        BY <1>b, <1>e, <2>1
    <2> QED BY <1>a, <2>1, <2>2 DEF StaleInv
<1> QED
    BY <1>1, <1>2, <1>3, <1>4, <1>5, <1>6, <1>7, <1>8, <1>9, <1>10, <1>11, <1>12, <1>13,
       <1>14, <1>15, <1>16
    DEF Next, Proceed

LEMMA StaleInvHolds ==
    ASSUME NamesDecide, \A p, q \in Procs : p = q
    PROVE  Spec => [](HashInv /\ EdgesHaveEndpoints /\ SyncInv /\ StaleInv)
<1>1. HashInv /\ HashInv' /\ SyncInv /\ StaleInv /\ [Next]_vars => StaleInv'
    BY NextStaleInv
<1> QED BY <1>1, SyncInvHolds, InitStaleInv, PTL DEF Spec

\* What the tree backs is what a fresh index of it has.
LEMMA SteadyIsFresh ==
    ASSUME NamesDecide, HashInv, EdgesHaveEndpoints, SyncInv, StaleInv
    PROVE  NoStaleEdge
<1> SUFFICES ASSUME NEW p \in Procs, Settled(p), NEW e \in BagToSet(edges),
                    e.src.file \notin drifted
             PROVE  e \in FreshEdges(Tree)
    BY DEF NoStaleEdge
<1>1. TypeOK /\ rows = Wanted /\ \A f \in Files : disk[f] \in Choices[f]
    BY DEF HashInv, SyncInv, RunFollows, Settled, AllIdle, StaleInv
<1>2. Recorded = Tree /\ nodes = NodesIn(Tree) /\ Tree \in Extracts
    BY <1>1, WantedIsTree, TreeIsExtract DEF HashInv, NodesMatchHashes
<1>3. CASE e.kind = "contains"
    <2>1. e \in ContainsIn(Tree)
        BY <1>2, <1>3 DEF HashInv, NodesMatchHashes
    <2> QED BY <2>1 DEF FreshEdges
<1>4. CASE e.kind # "contains"
    <2>1. PICK s \in SitesIn(Tree) : Backs(NodesIn(Tree), s, e)
        BY <1>2, <1>4 DEF StaleInv, Steady, Drawn, Undrifted
    <2>2. s.from \in Ids(NodesIn(Tree))
        BY <1>2, <2>1 DEF Backs, EdgesHaveEndpoints, Linkable
    <2>3. e \in SiteEdges(NodesIn(Tree), s)
        <3>1. CASE s.ask = "import"
            <4>1. \A f \in DOMAIN Tree : Tree[f] \in Readable(f)
                BY <1>1 DEF Tree, OnDisk, Readable
            <4>2. PathsIn(NodesIn(Tree)) = OnDisk
                BY <1>2, ExtractedFiles DEF Tree
            <4>3. PathsIn(NodesIn(Tree)) \subseteq Files
                BY <4>2 DEF OnDisk
            <4>4. \A g \in Files : Absent \notin Choices[g] => g \in PathsIn(NodesIn(Tree))
                BY <1>1, <4>2 DEF OnDisk
            <4>5. ImportEdges(NodesIn(Tree), s) = ImportEdges(WholeTree, s)
                BY <1>2, <3>1, <4>1, <4>3, <4>4, IncludesStay DEF NamesDecide
            <4> QED BY <2>1, <3>1, <4>5 DEF Backs, SiteEdges
        <3>2. CASE s.ask # "import"
            BY <2>1, <3>2 DEF Backs
        <3> QED BY <3>1, <3>2
    <2> QED BY <2>1, <2>2, <2>3 DEF FreshEdges, ResolveAll, ResolveSite
<1> QED BY <1>3, <1>4

\* NoStaleEdge, on trees whose names decide and for one process at a time, however
\* often the tree is edited, during a sync too, and however many runs are killed:
\* what a sync takes for affected is all that its changes can have made stale.
THEOREM NoEdgeGoesStale ==
    ASSUME NamesDecide, \A p, q \in Procs : p = q
    PROVE  Spec => []NoStaleEdge
<1>1. HashInv /\ EdgesHaveEndpoints /\ SyncInv /\ StaleInv => NoStaleEdge
    BY SteadyIsFresh
<1> QED BY <1>1, StaleInvHolds, PTL

-----------------------------------------------------------------------------
(***************************************************************************)
(* Without edits during a run no file drifts: what is read when it is      *)
(* resolved again is what its row records.                                 *)
(***************************************************************************)
QuietInv ==
    /\ drifted = {}
    /\ \A p \in Procs : pc[p] # "idle" => ~edited[p]

LEMMA NextQuietInv ==
    ASSUME ~EditsDuringSync, \A p, q \in Procs : p = q
    PROVE  HashInv /\ SyncInv /\ QuietInv /\ [Next]_vars => QuietInv'
<1> SUFFICES ASSUME HashInv, SyncInv, QuietInv, [Next]_vars PROVE QuietInv'
    OBVIOUS
<1>a. TypeOK /\ drifted = {} /\ \A p \in Procs : pc[p] # "idle" => ~edited[p]
    BY DEF HashInv, QuietInv
<1>1. ASSUME NEW f \in Files, NEW c \in Choices[f], Edit(f, c) PROVE QuietInv'
    BY <1>a, <1>1 DEF Edit, AllIdle, QuietInv
<1>2. ASSUME NEW p \in Procs, NEW how, Finish(p, how), drifted' = {} PROVE QuietInv'
    BY <1>a, <1>2 DEF Finish, QuietInv, TypeOK
<1>3. ASSUME NEW p \in Procs, InsertEdges(p) PROVE QuietInv'
    <2>1. /\ pc[p] = "link" /\ ~edited[p] /\ Finish(p, "ok")
          /\ drifted' = drifted \cup Drift(p)
        BY <1>a, <1>3 DEF InsertEdges
    <2>2. RunDropped(p) /\ RunFollows(p)
        BY <2>1 DEF SyncInv
    <2>3. \A f \in DOMAIN late[p] : late[p][f] = disk[f] /\ f \in OnDisk /\ rows[f] = disk[f]
        BY <2>1, <2>2 DEF RunDropped, RunFollows, Wanted, OnDisk
    <2>4. Drift(p) = {}
        BY <2>3 DEF Drift
    <2> QED BY <1>2, <1>a, <2>1, <2>4
<1>4. ASSUME NEW p \in Procs, Crash(p) \/ InsertFails(p) \/ FillIndex(p) PROVE QuietInv'
    BY <1>2, <1>4, <1>a DEF Crash, InsertFails, FillIndex
<1>5. ASSUME NEW p \in Procs, BeginIndex(p) \/ Classify(p) \/ NothingToDo(p)
      PROVE  QuietInv'
    BY <1>5, <1>a DEF BeginIndex, Classify, NothingToDo, QuietInv, TypeOK
<1>6. ASSUME NEW p \in Procs, CreateDatabase(p) \/ DeleteGone(p) \/ InstallSchema(p)
                              \/ ParseFresh(p) \/ Plan(p) \/ ParseAffected(p)
                              \/ InsertNodes(p) \/ Resolve(p)
      PROVE  QuietInv'
    <2>1. pc[p] # "idle" /\ edited' = edited /\ drifted' = {}
        BY <1>6, <1>a DEF CreateDatabase, DeleteGone, InstallSchema, ParseFresh, Plan,
                          ParseAffected, InsertNodes, Resolve
    <2> QED BY <1>a, <2>1 DEF QuietInv
<1>7. ASSUME NEW p \in Procs, SyncFails(p) PROVE QuietInv'
    BY <1>7, <1>a DEF SyncFails, QuietInv
<1>8. CASE UNCHANGED vars
    BY <1>8, <1>a DEF vars, QuietInv
<1> QED
    BY <1>1, <1>3, <1>4, <1>5, <1>6, <1>7, <1>8 DEF Next, Proceed

\* NoEdgeEverStale, on the same trees, where nobody edits the tree while it is read:
\* then no file drifts, and every edge is one of a fresh index.
THEOREM QuietSyncIsExact ==
    ASSUME NamesDecide, ~EditsDuringSync, \A p, q \in Procs : p = q
    PROVE  Spec => []NoEdgeEverStale
<1>1. Init => QuietInv
    BY DEF Init, QuietInv
<1>2. NoStaleEdge /\ QuietInv => NoEdgeEverStale
    BY DEF NoStaleEdge, QuietInv, NoEdgeEverStale
<1>3. HashInv /\ SyncInv /\ QuietInv /\ [Next]_vars => QuietInv'
    BY NextQuietInv
<1>4. Spec => [](HashInv /\ SyncInv)
    BY SyncInvHolds, PTL
<1>5. Spec => []NoStaleEdge
    BY NoEdgeGoesStale
<1> QED BY <1>1, <1>2, <1>3, <1>4, <1>5, PTL DEF Spec

-----------------------------------------------------------------------------
(***************************************************************************)
(* No reference lost.  The invariant adds what a sync leaves of the edges  *)
(* it found.                                                               *)
(***************************************************************************)
RunKeeps(p) ==
    /\ pc[p] \in {"parse", "plan", "delete"} => prior[p] = BagToSet(edges)
    /\ pc[p] \in {"parse", "plan", "delete", "reparse", "insert", "resolve", "link"} =>
          gone[p] \cap listing[p] \subseteq todo[p]
    /\ pc[p] \in {"reparse", "insert", "resolve", "link"} =>
          \A d \in prior[p] :
                d.src.file \notin gone[p] \cup affected[p] => d \in BagToSet(edges)

KeptInv == DOMAIN prior = Procs /\ \A p \in Procs : RunKeeps(p)

LEMMA PriorDomain == DOMAIN prior = Procs /\ [Next]_vars => DOMAIN prior' = Procs
<1> SUFFICES ASSUME DOMAIN prior = Procs, [Next]_vars PROVE DOMAIN prior' = Procs
    OBVIOUS
<1>1. ASSUME NEW p, NEW how, Finish(p, how) PROVE DOMAIN prior' = Procs
    BY <1>1 DEF Finish
<1>2. ASSUME NEW p, Classify(p) PROVE DOMAIN prior' = Procs
    BY <1>2 DEF Classify
<1>3. CASE prior' = prior
    BY <1>3
<1> QED
    BY <1>1, <1>2, <1>3
    DEF Next, Proceed, Edit, Crash, BeginIndex, CreateDatabase, InstallSchema,
        FillIndex, SyncFails, NothingToDo, ParseFresh, Plan, DeleteGone,
        ParseAffected, InsertNodes, Resolve, InsertEdges, InsertFails, vars, locals

LEMMA NextKeptInv ==
    ASSUME \A p, q \in Procs : p = q
    PROVE  HashInv /\ StaleInv /\ KeptInv /\ [Next]_vars => KeptInv'
<1> SUFFICES ASSUME HashInv, StaleInv, KeptInv, [Next]_vars
             PROVE  \A p \in Procs : RunKeeps(p)'
    BY PriorDomain DEF KeptInv
<1>a. /\ TypeOK /\ DOMAIN prior = Procs
      /\ \A p \in Procs : RunKeeps(p) /\ RunNames(p)
    BY DEF HashInv, StaleInv, KeptInv
<1>b. ASSUME NEW p \in Procs, RunKeeps(p)' PROVE \A q \in Procs : RunKeeps(q)'
    BY <1>b
<1>1. ASSUME NEW f \in Files, NEW c \in Choices[f], Edit(f, c)
      PROVE  \A p \in Procs : RunKeeps(p)'
    BY <1>a, <1>1 DEF Edit, RunKeeps, database, locals
<1>2. ASSUME NEW p \in Procs, NEW how, Finish(p, how) PROVE \A q \in Procs : RunKeeps(q)'
    <2>1. pc'[p] = "idle"
        BY <1>a, <1>2 DEF Finish, TypeOK
    <2> QED BY <1>b, <2>1 DEF RunKeeps
<1>3. ASSUME NEW p \in Procs, BeginIndex(p) \/ CreateDatabase(p) \/ InstallSchema(p)
      PROVE  \A q \in Procs : RunKeeps(q)'
    <2>1. pc'[p] \in {"create", "ddl", "fill"}
        BY <1>a, <1>3 DEF BeginIndex, CreateDatabase, InstallSchema, TypeOK
    <2> QED BY <1>b, <2>1 DEF RunKeeps
<1>4. ASSUME NEW p \in Procs, Classify(p) PROVE \A q \in Procs : RunKeeps(q)'
    <2>1. /\ pc'[p] = "parse" /\ prior'[p] = BagToSet(edges) /\ edges' = edges
          /\ gone'[p] = Changed \cup Deleted /\ todo'[p] = Changed \cup Added
          /\ listing'[p] = OnDisk
        BY <1>a, <1>4 DEF Classify, TypeOK, database
    <2>2. gone'[p] \cap listing'[p] \subseteq todo'[p]
        BY <2>1 DEF Deleted
    <2> QED BY <1>b, <2>1, <2>2 DEF RunKeeps
<1>5. ASSUME NEW p \in Procs, ParseFresh(p) \/ Plan(p) PROVE \A q \in Procs : RunKeeps(q)'
    <2>1. /\ pc[p] \in {"parse", "plan"} /\ pc'[p] \in {"plan", "delete"}
          /\ UNCHANGED <<prior, edges, gone, listing, todo>>
        BY <1>a, <1>5 DEF ParseFresh, Plan, TypeOK, database
    <2>2. RunKeeps(p)'
        BY <1>a, <2>1 DEF RunKeeps
    <2> QED BY <1>b, <2>2
<1>6. ASSUME NEW p \in Procs, DeleteGone(p) PROVE \A q \in Procs : RunKeeps(q)'
    <2>1. /\ pc[p] = "delete" /\ pc'[p] = "reparse"
          /\ UNCHANGED <<prior, gone, todo, listing, affected>>
        BY <1>a, <1>6 DEF DeleteGone, TypeOK, locals
    <2>2. affected[p] = AffectedFiles(p) /\ prior[p] = BagToSet(edges)
        BY <1>a, <2>1 DEF RunKeeps, RunNames
    <2>3. BagToSet(edges') = Surviving(p)
        BY <1>6, DeleteRecorded
    <2>4. ASSUME NEW d \in prior[p], d.src.file \notin gone[p] \cup affected[p]
          PROVE  d \in Surviving(p)
        <3>1. CASE d.kind = "contains"
            <4>1. d \in ContainsIn(Recorded)
                BY <2>2, <3>1 DEF HashInv, NodesMatchHashes
            <4>2. d.dst.file = d.src.file
                BY <4>1, NodesKnowTheirFile DEF ContainsIn
            <4> QED BY <2>2, <2>4, <3>1, <4>2 DEF Surviving
        <3>2. CASE d.kind # "contains"
            BY <2>2, <2>4, <3>2 DEF Surviving, AffectedFiles
        <3> QED BY <3>1, <3>2
    <2>5. RunKeeps(p)'
        BY <1>a, <2>1, <2>3, <2>4 DEF RunKeeps
    <2> QED BY <1>b, <2>5
<1>7. ASSUME NEW p \in Procs, ParseAffected(p) \/ InsertNodes(p) \/ Resolve(p)
      PROVE  \A q \in Procs : RunKeeps(q)'
    <2>1. /\ pc[p] \in {"reparse", "insert", "resolve"} /\ pc'[p] \in {"insert", "resolve", "link"}
          /\ UNCHANGED <<prior, gone, todo, listing, affected>>
        BY <1>a, <1>7 DEF ParseAffected, InsertNodes, Resolve, TypeOK, locals
    <2>2. BagToSet(edges) \subseteq BagToSet(edges')
        BY <1>7, SetAddedToBag DEF ParseAffected, InsertNodes, Resolve, database
    <2>3. RunKeeps(p)'
        BY <1>a, <2>1, <2>2 DEF RunKeeps
    <2> QED BY <1>b, <2>3
<1>8. ASSUME NEW p \in Procs, SyncFails(p) \/ NothingToDo(p) PROVE \A q \in Procs : RunKeeps(q)'
    <2>1. pc'[p] = "idle"
        BY <1>8 DEF SyncFails, NothingToDo, Syncing
    <2> QED BY <1>b, <2>1 DEF RunKeeps
<1>9. CASE UNCHANGED vars
    BY <1>a, <1>9 DEF vars, database, locals, RunKeeps
<1> QED
    BY <1>1, <1>2, <1>3, <1>4, <1>5, <1>6, <1>7, <1>8, <1>9
    DEF Next, Proceed, Crash, FillIndex, InsertEdges, InsertFails

\* A reference that was there, of a file that is not read again, is still there.
LEMMA UnreadKept ==
    ASSUME NamesDecide, HashInv, EdgesHaveEndpoints, SyncInv, KeptInv, StaleInv,
           OneEdgePerSite, NEW p \in Procs, InsertEdges(p), ~edited[p],
           \A d \in BagToSet(edges') : d.src.file \notin drifted' => d \in FreshEdges(Tree),
           NEW e \in FreshEdges(Tree), NEW d \in prior[p], SameSite(d, e),
           e.src.file \notin DOMAIN fresh[p] \cup DOMAIN late[p], e.src.file \notin drifted'
    PROVE  e \in BagToSet(edges')
<1>1. pc[p] = "link" /\ BagToSet(edges) \subseteq BagToSet(edges')
    BY SetAddedToBag DEF InsertEdges
<1>2. /\ TypeOK /\ rows = Wanted /\ listing[p] = OnDisk
      /\ DOMAIN fresh[p] = todo[p] /\ DOMAIN late[p] = affected[p] \cap listing[p]
    BY <1>1 DEF HashInv, SyncInv, RunDropped, RunFollows
<1>3. Recorded = Tree /\ Tree \in Extracts /\ \A f \in DOMAIN Tree : Tree[f] \in Choices[f]
    BY <1>2, WantedIsTree, TreeIsExtract DEF StaleInv, Tree, OnDisk
<1>4. ASSUME NEW a \in FreshEdges(Tree), NEW b \in FreshEdges(Tree),
             a.kind # "contains", SameSite(a, b)
      PROVE  a = b
    <2>1. PICK S \in SUBSET Files : Tree \in [S -> Contents]
        BY <1>3 DEF Extracts
    <2>2. \A f \in S : Tree[f] \in Choices[f]
        BY <1>3, <2>1
    <2> QED BY <1>4, <2>1, <2>2 DEF OneEdgePerSite
<1>5. CASE e.kind = "contains"
    <2>1. e \in ContainsIn(Tree)
        BY <1>5, ResolvedNotContains DEF FreshEdges, OnlyContains
    <2>2. e \in BagToSet(edges)
        BY <1>3, <2>1 DEF HashInv, NodesMatchHashes
    <2> QED BY <1>1, <2>2
<1>6. CASE e.kind # "contains"
    <2>1. PICK s \in SitesIn(Tree) : e \in ResolveSite(NodesIn(Tree), s)
        BY <1>6, ContainsOnly DEF FreshEdges, ResolveAll, OnlyContains
    <2>2. e.src.file \in OnDisk
        BY <2>1, ResolvedEdges, SitesKnowTheirFile DEF Tree
    <2>3. d.src.file \notin gone[p] \cup affected[p]
        BY <1>1, <1>2, <2>2 DEF SameSite, KeptInv, RunKeeps
    <2>4. d \in BagToSet(edges')
        BY <1>1, <2>3 DEF KeptInv, RunKeeps
    <2>5. d = e
        BY <1>4, <1>6, <2>4 DEF SameSite
    <2> QED BY <2>4, <2>5
<1> QED BY <1>5, <1>6

\* ResolvedSitesKept, under the conditions of NoEdgeGoesStale and where a fresh
\* index has one edge of a kind for a place: a site that had an edge has the one
\* of a fresh index after a sync that succeeds.
THEOREM NoReferenceIsLost ==
    ASSUME NamesDecide, OneEdgePerSite, \A p, q \in Procs : p = q
    PROVE  Spec => ResolvedSitesKept
<1> DEFINE Kept(p) == \A e \in FreshEdges(Tree) :
                          e.src.file \notin drifted' /\ (\E d \in prior[p] : SameSite(d, e))
                              => e \in BagToSet(edges')
           Inv == HashInv /\ EdgesHaveEndpoints /\ SyncInv /\ StaleInv /\ KeptInv
<1>1. ASSUME Inv, Inv', NoStaleEdge', [Next]_vars, NEW p \in Procs, EndsWell(p), ~edited[p]
      PROVE  Kept(p)
    <2>1. FillIndex(p) \/ InsertEdges(p)
        BY <1>1, WellEnded DEF HashInv
    <2>2. ASSUME FillIndex(p) PROVE Kept(p)
        <3>1. fresh[p] = Tree
            BY <1>1, <2>2 DEF FillIndex, SyncInv, RunFollows
        <3> QED BY <2>2, <3>1, BagOfSet DEF FillIndex
    <2>3. ASSUME InsertEdges(p) PROVE Kept(p)
        <3>1. /\ OfFiles(BagToSet(edges'), DOMAIN fresh[p] \cup DOMAIN late[p])
                     = OfFiles(FreshEdges(Tree), DOMAIN fresh[p] \cup DOMAIN late[p])
            BY <1>1, <2>3, LinkedExact
        <3>2. \A d \in BagToSet(edges') : d.src.file \notin drifted' => d \in FreshEdges(Tree)
            <4>1. Settled(p)'
                BY <1>1, <2>3 DEF Settled, EndsWell, AllIdle, InsertEdges
            <4>2. Tree' = Tree
                BY <2>3 DEF InsertEdges, Tree, OnDisk
            <4> QED BY <1>1, <4>1, <4>2 DEF NoStaleEdge
        <3> QED BY <1>1, <2>3, <3>1, <3>2, UnreadKept DEF OfFiles
    <2> QED BY <2>1, <2>2, <2>3
<1>2. Inv /\ Inv' /\ NoStaleEdge' /\ [Next]_vars
          => [\A p \in Procs : EndsWell(p) /\ ~edited[p] => Kept(p)]_vars
    BY <1>1
<1>3. Init => KeptInv
    BY DEF Init, KeptInv, RunKeeps
<1>4. HashInv /\ StaleInv /\ KeptInv /\ [Next]_vars => KeptInv'
    BY NextKeptInv
<1>5. Spec => []NoStaleEdge
    BY NoEdgeGoesStale
<1>6. Spec => [](HashInv /\ EdgesHaveEndpoints /\ SyncInv /\ StaleInv)
    BY StaleInvHolds
<1> QED BY <1>2, <1>3, <1>4, <1>5, <1>6, PTL DEF Spec, ResolvedSitesKept
=============================================================================
