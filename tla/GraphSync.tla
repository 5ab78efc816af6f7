------------------------------ MODULE GraphSync ------------------------------
(***************************************************************************)
(* semgraph::index_roots and semgraph::sync (index.rs, writer.rs): keeping *)
(* a SQLite code-graph database in step with a tree of source files.       *)
(*                                                                         *)
(* A sync is not one transaction.  It reads the tree and the database,     *)
(* deletes what is gone, re-reads files, inserts nodes, resolves against   *)
(* the whole node table and inserts edges, with three commits on the way.  *)
(* The model has one action per commit and per read that a file edit or    *)
(* another process can fall between, and a crash can end a run anywhere.   *)
(***************************************************************************)
EXTENDS GraphResolve, Bags

CONSTANTS
    Procs,          \* processes that may run index_roots or sync
    Choices,        \* [Files -> SUBSET (Contents \cup {Absent})], what an edit may leave
    Absent,         \* no such file on disk
    NoRow,          \* no row in the files table
    EditsDuringSync,\* may the tree change while a process is running?
    MaxEdits,       \* bound: edits of the tree
    MaxCrashes      \* bound: runs that are killed

ASSUME BoundsAreNatural == MaxEdits \in Nat /\ MaxCrashes \in Nat
ASSUME FlagIsBoolean == EditsDuringSync \in BOOLEAN
ASSUME MarkersAreNotContents == Absent \notin Contents /\ NoRow \notin Contents
ASSUME ChoicesAreContents == Choices \in [Files -> SUBSET (Contents \cup {Absent})]

VARIABLES
    disk,       \* the tree under the root: [Files -> Contents \cup {Absent}]
    schema,     \* "absent", "bare", "tables" or "ready"
    nodes,      \* the nodes table
    rows,       \* the files table: path to the content its hash stands for
    edges,      \* the edges table, a bag: rows have no key but their number
    pc,         \* where each process is
    listing,    \* enumerate_files: the paths a sync saw on disk
    gone,       \* paths whose nodes leave the database
    todo,       \* changed and added paths
    fresh,      \* extracts of the changed and added files
    affected,   \* unchanged files to be resolved again
    late,       \* extracts of the affected files
    found,      \* the edges resolution produced, not inserted yet
    outcome,    \* how each process's last run ended
    edited,     \* has the tree changed since the process read it?
    drifted,    \* (history) files whose edges come from other content than their row
    prior,      \* (auxiliary) edges when the process classified the tree
    edits, crashes  \* counters for the bounds

database == <<schema, nodes, rows, edges>>
locals   == <<listing, gone, todo, fresh, affected, late, found, prior>>
vars == <<disk, database, pc, locals, outcome, edited, drifted, edits, crashes>>

NoExtracts == [f \in {} |-> Empty]

Init ==
    /\ disk \in {t \in [Files -> Contents \cup {Absent}] :
                    \A f \in Files : t[f] \in Choices[f]}
    /\ schema = "absent" /\ nodes = {} /\ edges = EmptyBag
    /\ rows = [f \in Files |-> NoRow]
    /\ pc = [p \in Procs |-> "idle"]
    /\ listing = [p \in Procs |-> {}]
    /\ gone = [p \in Procs |-> {}]
    /\ todo = [p \in Procs |-> {}]
    /\ fresh = [p \in Procs |-> NoExtracts]
    /\ affected = [p \in Procs |-> {}]
    /\ late = [p \in Procs |-> NoExtracts]
    /\ found = [p \in Procs |-> {}]
    /\ prior = [p \in Procs |-> {}]
    /\ outcome = [p \in Procs |-> "none"]
    /\ edited = [p \in Procs |-> FALSE] /\ drifted = {}
    /\ edits = 0 /\ crashes = 0

AllIdle == \A p \in Procs : pc[p] = "idle"
OnDisk  == {f \in Files : disk[f] # Absent}
Indexed == {f \in Files : rows[f] # NoRow}

\* Mutant of Read: the unreadable file is not caught.
ReadUnchecked(f) == disk[f]

\* parse_work and content_hash: a file that cannot be read is an empty extract.
Read(f) == IF disk[f] = Absent THEN Empty ELSE disk[f]
Parse(S) == [f \in S |-> Read(f)]

\* INSERT OR REPLACE INTO files.
RowsAfter(extracts) ==
    [f \in Files |-> IF f \in DOMAIN extracts THEN extracts[f] ELSE rows[f]]

\* FOREIGN KEY (source), (target) REFERENCES nodes(id).
Linkable(es, ns) == \A e \in es : e.src \in Ids(ns) /\ e.dst \in Ids(ns)

RestrictBag(B, S) == [e \in DOMAIN B \cap S |-> B[e]]

Finish(p, how) ==
    /\ pc' = [pc EXCEPT ![p] = "idle"]
    /\ outcome' = [outcome EXCEPT ![p] = how]
    /\ listing' = [listing EXCEPT ![p] = {}]
    /\ gone' = [gone EXCEPT ![p] = {}]
    /\ todo' = [todo EXCEPT ![p] = {}]
    /\ fresh' = [fresh EXCEPT ![p] = NoExtracts]
    /\ affected' = [affected EXCEPT ![p] = {}]
    /\ late' = [late EXCEPT ![p] = NoExtracts]
    /\ found' = [found EXCEPT ![p] = {}]
    /\ prior' = [prior EXCEPT ![p] = {}]

-----------------------------------------------------------------------------
(***************************************************************************)
(* The user edits the tree; a run is killed.                               *)
(***************************************************************************)
Edit(f, c) ==
    /\ edits < MaxEdits
    /\ EditsDuringSync \/ AllIdle
    /\ c # disk[f]
    /\ disk' = [disk EXCEPT ![f] = c]
    /\ edited' = [p \in Procs |-> TRUE]
    /\ edits' = edits + 1
    /\ UNCHANGED <<database, pc, locals, outcome, drifted, crashes>>

Crash(p) ==
    /\ crashes < MaxCrashes
    /\ pc[p] # "idle"
    /\ crashes' = crashes + 1
    /\ Finish(p, "crashed")
    /\ UNCHANGED <<disk, database, edited, drifted, edits>>

-----------------------------------------------------------------------------
(***************************************************************************)
(* index_roots: parse everything, then replace the database.  The old file *)
(* is removed before the new one has a schema.  Two processes replacing    *)
(* the file under each other are outside the model.                        *)
(***************************************************************************)
BeginIndex(p) ==
    /\ AllIdle
    /\ fresh' = [fresh EXCEPT ![p] = Parse(OnDisk)]
    /\ pc' = [pc EXCEPT ![p] = "create"]
    /\ outcome' = [outcome EXCEPT ![p] = "running"]
    /\ edited' = [edited EXCEPT ![p] = FALSE]
    /\ UNCHANGED <<disk, database, listing, gone, todo, affected, late, found,
                   prior, drifted, edits, crashes>>

CreateDatabase(p) ==
    /\ pc[p] = "create"
    /\ schema' = "bare" /\ nodes' = {} /\ edges' = EmptyBag
    /\ rows' = [f \in Files |-> NoRow] /\ drifted' = {}
    /\ pc' = [pc EXCEPT ![p] = "ddl"]
    /\ UNCHANGED <<disk, locals, outcome, edited, edits, crashes>>

\* execute_batch commits each statement: first the tables, later the FTS
\* triggers, the indexes and the schema_versions rows.
InstallSchema(p) ==
    /\ pc[p] = "ddl"
    /\ \/ schema = "bare" /\ schema' = "tables" /\ pc' = pc
       \/ schema = "tables" /\ schema' = "ready" /\ pc' = [pc EXCEPT ![p] = "fill"]
    /\ UNCHANGED <<disk, nodes, rows, edges, locals, outcome, edited, drifted, edits, crashes>>

FillIndex(p) ==
    /\ pc[p] = "fill"
    /\ nodes' = NodesIn(fresh[p])
    /\ rows' = RowsAfter(fresh[p])
    /\ edges' = SetToBag(FreshEdges(fresh[p]))
    /\ Finish(p, "ok")
    /\ UNCHANGED <<disk, schema, edited, drifted, edits, crashes>>

-----------------------------------------------------------------------------
(***************************************************************************)
(* sync.                                                                   *)
(***************************************************************************)
\* Mutant of Deleted: files that left the tree are never looked for.
DeletedIgnored == {}

Changed == {f \in OnDisk \cap Indexed : disk[f] # rows[f]}
Added   == OnDisk \ Indexed
Deleted == Indexed \ OnDisk

Syncing(p) ==
    /\ pc[p] = "idle"
    /\ \A q \in Procs : pc[q] \notin {"create", "ddl", "fill"}

\* The files table is missing: read_file_hashes fails.
SyncFails(p) ==
    /\ Syncing(p) /\ schema = "bare"
    /\ outcome' = [outcome EXCEPT ![p] = "error"]
    /\ UNCHANGED <<disk, database, pc, locals, edited, drifted, edits, crashes>>

NothingToDo(p) ==
    /\ Syncing(p) /\ schema \in {"tables", "ready"}
    /\ Changed \cup Added \cup Deleted = {}
    /\ outcome' = [outcome EXCEPT ![p] = "ok"]
    /\ edited' = [edited EXCEPT ![p] = FALSE]
    /\ UNCHANGED <<disk, database, pc, locals, drifted, edits, crashes>>

Classify(p) ==
    /\ Syncing(p) /\ schema \in {"tables", "ready"}
    /\ Changed \cup Added \cup Deleted # {}
    /\ listing' = [listing EXCEPT ![p] = OnDisk]
    /\ gone' = [gone EXCEPT ![p] = Changed \cup Deleted]
    /\ todo' = [todo EXCEPT ![p] = Changed \cup Added]
    /\ prior' = [prior EXCEPT ![p] = BagToSet(edges)]
    /\ pc' = [pc EXCEPT ![p] = "parse"]
    /\ outcome' = [outcome EXCEPT ![p] = "running"]
    /\ edited' = [edited EXCEPT ![p] = FALSE]
    /\ UNCHANGED <<disk, database, fresh, affected, late, found, drifted, edits, crashes>>

ParseFresh(p) ==
    /\ pc[p] = "parse"
    /\ fresh' = [fresh EXCEPT ![p] = Parse(todo[p])]
    /\ pc' = [pc EXCEPT ![p] = "plan"]
    /\ UNCHANGED <<disk, database, listing, gone, todo, affected, late, found,
                   outcome, edited, drifted, prior, edits, crashes>>

\* Mutant of DeltaNames: only disappearing names count, not those a change introduces.
DeltaNamesGoneOnly(p) == {n.name : n \in Symbols({m \in nodes : m.file \in gone[p]})}

\* names_in_files over the gone files, and the names the fresh parse introduces.
DeltaNames(p) ==
    {n.name : n \in Symbols({m \in nodes : m.file \in gone[p]} \cup NodesIn(fresh[p]))}

\* affected_unchanged_files.
AffectedFiles(p) ==
    {e.src.file : e \in {x \in BagToSet(edges) :
        /\ x.kind # "contains"
        /\ x.src.file \notin gone[p]
        /\ x.dst.file \in gone[p] \/ x.dst.name \in DeltaNames(p)}}

Plan(p) ==
    /\ pc[p] = "plan"
    /\ affected' = [affected EXCEPT ![p] = AffectedFiles(p)]
    /\ pc' = [pc EXCEPT ![p] = "delete"]
    /\ UNCHANGED <<disk, database, listing, gone, todo, fresh, late, found,
                   outcome, edited, drifted, prior, edits, crashes>>

\* Mutant of Surviving: affected files keep their edges into unchanged files.
SurvivingAll(p) ==
    {e \in BagToSet(edges) : e.src.file \notin gone[p] /\ e.dst.file \notin gone[p]}

\* What is left of the edges: the cascade takes those at a gone node, and the
\* out-edges of affected files are dropped, except contains.
Surviving(p) ==
    {e \in BagToSet(edges) :
        /\ e.src.file \notin gone[p] /\ e.dst.file \notin gone[p]
        /\ e.kind = "contains" \/ e.src.file \notin affected[p]}

\* Mutant of DeleteGone: a changed file keeps its old nodes.
DeleteGoneOnlyDeleted(p) ==
    /\ pc[p] = "delete"
    /\ nodes' = {n \in nodes : n.file \notin gone[p] \ todo[p]}
    /\ rows' = [f \in Files |-> IF f \in gone[p] THEN NoRow ELSE rows[f]]
    /\ edges' = RestrictBag(edges, Surviving(p))
    /\ drifted' = drifted \ (gone[p] \cup affected[p])
    /\ pc' = [pc EXCEPT ![p] = "reparse"]
    /\ UNCHANGED <<disk, schema, locals, outcome, edited, edits, crashes>>

DeleteGone(p) ==
    /\ pc[p] = "delete"
    /\ nodes' = {n \in nodes : n.file \notin gone[p]}
    /\ rows' = [f \in Files |-> IF f \in gone[p] THEN NoRow ELSE rows[f]]
    /\ edges' = RestrictBag(edges, Surviving(p))
    /\ drifted' = drifted \ (gone[p] \cup affected[p])
    /\ pc' = [pc EXCEPT ![p] = "reparse"]
    /\ UNCHANGED <<disk, schema, locals, outcome, edited, edits, crashes>>

\* Mutant of ParseAffected: affected files lose their edges and are not read again.
ParseAffectedNothing(p) ==
    /\ pc[p] = "reparse"
    /\ pc' = [pc EXCEPT ![p] = "insert"]
    /\ UNCHANGED <<disk, database, locals, outcome, edited, drifted, edits, crashes>>

ParseAffected(p) ==
    /\ pc[p] = "reparse"
    /\ late' = [late EXCEPT ![p] = Parse(affected[p] \cap listing[p])]
    /\ pc' = [pc EXCEPT ![p] = "insert"]
    /\ UNCHANGED <<disk, database, listing, gone, todo, fresh, affected, found,
                   outcome, edited, drifted, prior, edits, crashes>>

\* INSERT OR IGNORE INTO nodes: an id that is there already keeps its row.
InsertNodes(p) ==
    /\ pc[p] = "insert"
    /\ nodes' = nodes \cup {n \in NodesIn(fresh[p]) : Id(n) \notin Ids(nodes)}
    /\ rows' = RowsAfter(fresh[p])
    /\ edges' = edges (+) SetToBag(ContainsIn(fresh[p]))
    /\ pc' = [pc EXCEPT ![p] = "resolve"]
    /\ UNCHANGED <<disk, schema, locals, outcome, edited, drifted, edits, crashes>>

\* Mutant of Resolve: the symbol table holds the re-parsed files only.
ResolveAgainstFresh(p) ==
    /\ pc[p] = "resolve"
    /\ found' = [found EXCEPT
           ![p] = ResolveAll(NodesIn(fresh[p]), SitesIn(fresh[p]) \cup SitesIn(late[p]))]
    /\ pc' = [pc EXCEPT ![p] = "link"]
    /\ UNCHANGED <<disk, database, listing, gone, todo, fresh, affected, late,
                   outcome, edited, drifted, prior, edits, crashes>>

Resolve(p) ==
    /\ pc[p] = "resolve"
    /\ found' = [found EXCEPT
           ![p] = ResolveAll(nodes, SitesIn(fresh[p]) \cup SitesIn(late[p]))]
    /\ pc' = [pc EXCEPT ![p] = "link"]
    /\ UNCHANGED <<disk, database, listing, gone, todo, fresh, affected, late,
                   outcome, edited, drifted, prior, edits, crashes>>

\* The affected files that were read in another state than the one recorded.
Drift(p) == {f \in DOMAIN late[p] : late[p][f] # rows[f]}

\* Mutant of InsertEdges: the foreign_keys pragma is off.
InsertEdgesUnchecked(p) ==
    /\ pc[p] = "link"
    /\ edges' = edges (+) SetToBag(found[p])
    /\ drifted' = drifted \cup Drift(p)
    /\ Finish(p, "ok")
    /\ UNCHANGED <<disk, schema, nodes, rows, edited, edits, crashes>>

InsertEdges(p) ==
    /\ pc[p] = "link"
    /\ Linkable(found[p], nodes)
    /\ edges' = edges (+) SetToBag(found[p])
    /\ drifted' = drifted \cup Drift(p)
    /\ Finish(p, "ok")
    /\ UNCHANGED <<disk, schema, nodes, rows, edited, edits, crashes>>

\* A foreign key fails: the edge transaction rolls back, the nodes stay.
InsertFails(p) ==
    /\ pc[p] = "link"
    /\ ~Linkable(found[p], nodes)
    /\ Finish(p, "error")
    /\ UNCHANGED <<disk, database, edited, drifted, edits, crashes>>

-----------------------------------------------------------------------------
Proceed(p) ==
    \/ CreateDatabase(p) \/ InstallSchema(p) \/ FillIndex(p)
    \/ ParseFresh(p) \/ Plan(p) \/ DeleteGone(p) \/ ParseAffected(p)
    \/ InsertNodes(p) \/ Resolve(p) \/ InsertEdges(p) \/ InsertFails(p)

Next ==
    \/ \E f \in Files : \E c \in Choices[f] : Edit(f, c)
    \/ \E p \in Procs :
          \/ BeginIndex(p) \/ SyncFails(p) \/ NothingToDo(p) \/ Classify(p)
          \/ Proceed(p) \/ Crash(p)

Spec == Init /\ [][Next]_vars
-----------------------------------------------------------------------------
(***************************************************************************)
(* Trees on which the names a sync compares say all that resolution goes   *)
(* by.  NoStaleEdge and ResolvedSitesKept are about these: delta_names has *)
(* no file and no module in it, so on others edges do go stale.            *)
(***************************************************************************)
\* What is imported as a module can be one file only.
SoleCandidates ==
    \A f \in Files, c \in Contents : \A d \in Source[c].defs : d.kind = "import" =>
        LET candidates == ModulePaths[f][d.name]
        IN  /\ DOMAIN candidates \subseteq Nat
            /\ \A i, j \in DOMAIN candidates :
                   candidates[i] \in Files /\ candidates[j] \in Files => i = j

\* The headers that an include may mean neither come nor go.
HeadersStay ==
    \A f \in Files : Lang[f] \in {"c", "cpp"} =>
        \A c \in Choices[f] \ {Absent} : \A s \in Source[c].sites : s.ask = "import" =>
            \A g \in (IncludePath[f][s.name] \cup SameBasename[s.name]) \cap Files :
                Absent \notin Choices[g]

\* The calls that give a receiver its type are sites themselves, of the same definition.
CallsAreSites ==
    \A c \in Contents : \A s \in {t \in Source[c].sites : t.ask \notin Direct} :
        LET base  == s.recv.base
            calls == s.recv.calls
            Here(ask) == {t \in Source[c].sites : t.in = s.in /\ t.ask = ask}
        IN  /\ calls \in Seq({calls[i] : i \in DOMAIN calls})
            /\ base.how = "bare" => \E t \in Here("call") : t.name = base.name
            /\ base.how = "assoc" => \E t \in Here("qualified") :
                                         t.name = base.name /\ t.recv.base.name = base.of
            /\ \A i \in DOMAIN calls : \E t \in Here(s.ask) :
                   /\ t.name = calls[i] /\ t.recv.base = base
                   /\ t.recv.calls = SubSeq(calls, 1, i - 1)
                   /\ t.recv.each = s.recv.each \cap (0 .. i - 1)

NamesDecide == SoleCandidates /\ HeadersStay /\ CallsAreSites

-----------------------------------------------------------------------------
(***************************************************************************)
(* Properties.                                                             *)
(***************************************************************************)
Extracts == UNION {[S -> Contents] : S \in SUBSET Files}

\* Every variable holds a value of its type: in particular what a run extracts
\* is content of known files even when files vanish under it (index.rs:182-208,
\* an unreadable file is an empty extract, never a missing one).
TypeOK ==
    /\ disk \in [Files -> Contents \cup {Absent}]
    /\ schema \in {"absent", "bare", "tables", "ready"}
    /\ rows \in [Files -> Contents \cup {NoRow}]
    /\ pc \in [Procs -> {"idle", "create", "ddl", "fill", "parse", "plan", "delete",
                         "reparse", "insert", "resolve", "link"}]
    /\ listing \in [Procs -> SUBSET Files]
    /\ gone \in [Procs -> SUBSET Files]
    /\ todo \in [Procs -> SUBSET Files]
    /\ fresh \in [Procs -> Extracts]
    /\ late \in [Procs -> Extracts]
    /\ outcome \in [Procs -> {"none", "running", "ok", "error", "crashed"}]
    /\ edited \in [Procs -> BOOLEAN]
    /\ edits \in Nat /\ crashes \in Nat

\* The extracts the files table says the database was built from.
Recorded == [f \in Indexed |-> rows[f]]

\* The last run of p reported success and nobody has touched the tree since it
\* read it.
Settled(p) == AllIdle /\ outcome[p] = "ok" /\ ~edited[p]
Tree == [f \in OnDisk |-> disk[f]]

\* At every moment, after crashes and failed runs too, the node table and the
\* contains edges are exactly those of the contents whose hashes the files table
\* records: the hash can be trusted as the change anchor (index.rs:334-384, the
\* delete and the insert transactions each move nodes and files rows together).
NodesMatchHashes ==
    /\ nodes = NodesIn(Recorded)
    /\ {e \in BagToSet(edges) : e.kind = "contains"} = ContainsIn(Recorded)

\* No edge of the database dangles, whatever was cascaded, crashed or edited
\* in between (writer.rs: foreign keys with ON DELETE CASCADE).
EdgesHaveEndpoints == Linkable(BagToSet(edges), nodes)

\* The edges table holds no row twice, although edges are inserted without any
\* uniqueness constraint: what sync re-inserts it deleted before (index.rs:340-350).
NoDuplicateEdges == \A e \in BagToSet(edges) : edges[e] = 1

\* A successful sync leaves nodes and file rows for exactly the tree it read,
\* however the runs before it ended (index.rs:272-295).
RowsExact ==
    \A p \in Procs : Settled(p) =>
        rows = [f \in Files |-> IF disk[f] = Absent THEN NoRow ELSE disk[f]]

\* After a successful sync every edge of the database is one a fresh index of
\* the tree has, target and confidence included: renames, deletions, competing
\* definitions, crashed runs and edits during earlier syncs leave no stale edge
\* behind (index.rs:208-234), except in a file that drifted: an affected file is
\* read when it is resolved again, its row keeps the hash of an earlier read, and
\* a file that has that content again later counts as unchanged.
NoStaleEdge ==
    \A p \in Procs : Settled(p) =>
        \A e \in BagToSet(edges) : e.src.file \in drifted \/ e \in FreshEdges(Tree)

\* The same of every file ("canonically equal to a fresh index_roots of the same
\* tree", index.rs:211-213, the one documented lag being edges that are missing).
NoEdgeEverStale ==
    \A p \in Procs : Settled(p) => BagToSet(edges) \subseteq FreshEdges(Tree)

\* Once no run is in progress, a file that is recorded as indexed has its import
\* edges, which always resolve: no partial index stays in the database
\* (writer.rs:136-137, "so a partial index never lands on disk").
NoPartialIndex ==
    AllIdle => \A s \in SitesIn(Recorded) :
        s.ask = "import" => \E e \in BagToSet(edges) :
            e.kind = "imports" /\ e.src = s.from /\ e.at = s.at

EndsWell(p) == pc[p] # "idle" /\ pc'[p] = "idle" /\ outcome'[p] = "ok"

OfFiles(es, S) == {e \in es : e.src.file \in S}

\* A sync that succeeds leaves the out-edges of every file it parsed, changed,
\* added or affected, equal to those of a fresh index, also after a crash
\* (index.rs:305-384).
ParsedFilesExact ==
    [][\A p \in Procs : EndsWell(p) /\ ~edited[p] =>
          LET parsed == DOMAIN fresh[p] \cup DOMAIN late[p] IN
          OfFiles(BagToSet(edges'), parsed) = OfFiles(FreshEdges(Tree), parsed)]_vars

SameSite(d, e) == d.src = e.src /\ d.at = e.at /\ d.kind = e.kind

\* A condition on the trees: a fresh index has one edge of a kind for a place in a
\* definition, so that the edges of a site can be told from those of another.
OneEdgePerSite ==
    \A S \in SUBSET Files : \A x \in [S -> Contents] : (\A f \in S : x[f] \in Choices[f]) =>
        \A d, e \in FreshEdges(x) : d.kind # "contains" /\ SameSite(d, e) => d = e

\* A sync never loses a reference it had: a site with an edge before the sync,
\* and an edge in a fresh index after it, has that edge in the database.  What
\* sync may miss are sites that resolved to nothing before, and those of files
\* that drifted (index.rs:326-384).
ResolvedSitesKept ==
    [][\A p \in Procs : EndsWell(p) /\ ~edited[p] =>
          \A e \in FreshEdges(Tree) :
              e.src.file \notin drifted' /\ (\E d \in prior[p] : SameSite(d, e))
                  => e \in BagToSet(edges')]_vars

\* A sync after a single edit of a freshly indexed tree, an edit that changes or
\* deletes a file other files refer to, ends in an exact index (index.rs:241-242,
\* "The common dependency-directed edits (modify/add/delete/rename a file others
\* call into) are always exact").
DependencyDirectedExact ==
    [][\A p \in Procs :
          /\ EndsWell(p) /\ pc[p] = "link" /\ ~edited[p]
          /\ edits = 1 /\ crashes = 0
          /\ \A f \in gone[p] \cup todo[p] :
                \E d \in prior[p] : d.dst.file = f /\ d.src.file # f
          => BagToSet(edges') = FreshEdges(Tree)]_vars

\* The files that a name imported in f can stand for, present or not.
Importable(f) ==
    UNION {{candidate[i] : i \in DOMAIN candidate} :
               candidate \in {ModulePaths[f][n.name] :
                                  n \in {m \in nodes : m.file = f /\ m.kind = "import"}}}

\* A call leads from a file of one language into a file of another only through
\* the import tier (resolve.rs:409-414), which is the one tier that does not look
\* at languages, and only into a file that a module imported by the caller can
\* stand for: resolve_module_to_file tries .rs before .py for a Python import.
CallsCrossByImport ==
    \A e \in BagToSet(edges) :
        e.kind \in {"calls", "instantiates"} /\ Lang[e.src.file] # Lang[e.dst.file] =>
            e.by = "import" /\ e.dst.file \in Importable(e.src.file)

\* No call edge leads from a file of one language into a file of another
\* (resolve.rs:418-420: "a Rust call must not resolve to a same-named TypeScript
\* function", "same-file/import tiers above are already language-consistent").
CallsStayInLanguage ==
    \A e \in BagToSet(edges) :
        e.kind \in {"calls", "instantiates"} => Lang[e.src.file] = Lang[e.dst.file]
=============================================================================
