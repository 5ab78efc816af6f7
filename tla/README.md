# A verification development for sempkg

sempkg is a package manager for *semantic packages*: bundles that hold a code
graph, a documentation index and a code index of a project, and that coding
agents query through an MCP server. This directory models its core in TLA+,
checks the models with TLC on small instances, and proves the most important
invariants with TLAPS for every instance. Paths are relative to the root of the
repository; `index.rs:378` without a path names a file of the component the
section is about.

Contents: 1 the system, 2 the modules and how they were planned, 3-6 each module
in detail (3 index and sync, 4 registry, 5 workspace, 6 query, 6a extraction,
6b bundles and the MCP server, 6c the agent server), 7 runs and bounds,
8 fairness, 9 proofs, 10 findings, 11 what else differs between code and
documentation, 12 what is not modelled.

## 1. The system

| Component | State it keeps | Operations | Talks to |
|---|---|---|---|
| **semgraph index and sync** (`src/semgraph/src/{index,writer,model}.rs`) | `codegraph.db` (SQLite: `nodes`, `edges`, `files`, `schema_versions`) | `index_roots`, `sync` | the source tree, resolution, the graph reader (through the file) |
| **semgraph resolution** (`resolve.rs`) | none: a symbol table built per run | `resolve_all` over every reference site | called by index and sync |
| **parser and extractors** (`parse.rs`, `queries/`, `tier3/`) | per file: a stack of scopes, the emitted nodes, edges and sites, a depth | one file in, definitions and sites out | called by index and sync |
| **graph reader** (`src/semgraph/src/lib.rs`, `src/sempkg/src/graph.rs`) | none | search, callers, callees, impact, context, files | reads `codegraph.db` |
| **sembundle build** (`build.rs`) | a staging directory | chunk docs and code, embed, write LanceDB tables | semgraph, LanceDB |
| **sembundle pack, sign, verify, validate, read, publish** | `.sembundle`, `.sha256`, `.sig` files | one per name | the registry (publish) |
| **registry server** (`src/sempkg_registry/{app,storage,cli}.py`) | bundle files, digests, signatures, `index.json` | publish, index, download, serve | publishers and clients over HTTP; the file system |
| **registry tokens** (`auth.py`) | `tokens.json` | add, revoke, validate | the server's event loop, its thread pool, and CLI processes, through the file |
| **registry client** (`src/sempkg/src/registry.rs`, `src/sembundle/src/publish.rs`) | none | fetch_index, lookup, download, publish | the server |
| **sempkg workspace** (`main.rs`, `store.rs`, `manifest.rs`) | two bundle stores, `sempkg.toml`, `sempkg.lock` | add, refresh, remove, sync, install, uninstall, repair, resolve | registry client, GitHub, sembundle build; other commands through the files |
| **query pipeline** (`mcp.rs`, `tool_query`) | per request only | search, fuse, select, expand, rerank, combine | indexes of the installed bundles, rerankers |
| **code index** (`build.rs`, `lance.rs`, `codegraph.rs`) | the table `code` of a bundle | build rows, fetch a symbol's source | written by build, read by the MCP server |
| **MCP server** (`mcp.rs`) | the local packages as they were at its start, a cache of open tables | JSON-RPC over stdio, one request after the other | all readers; other processes, through the stores |
| **agent server** (`src/sempkg_agent/`) | sessions in a checkpointer | `ask`, `astream`, REST, MCP and A2A endpoints, citation checks | an LLM and the MCP tools |
| local packages, status, GitHub sources, providers, scripts, parity tool | `packages.json`; none | see PROJECT.json | - |

Components interact in three ways: through **files** that separate processes
read, truncate and replace without any lock (the databases, the stores, the
manifest, the lock file, `tokens.json`, `index.json`), through **HTTP**
(publisher, registry, client), and through **calls** within a process (the query
pipeline). The behaviours that are hard to test follow from that:

- *semgraph*: a sync is three transactions and four reads of a tree that may
  change meanwhile; a crash between two commits; an incremental re-resolution
  whose set of files to revisit is computed from the old database.
- *registry*: coroutines, threads and CLI processes on the same files; each
  write is a truncation followed by a fill; nothing is undone after a failure.
- *workspace*: commands without locks, temporary directories beside the
  installed versions, three files that have to agree after a sequence of
  commands any of which may fail or be killed.
- *bundles and the MCP server*: a tree that is written while it is packed,
  archives that are damaged on the way, bundles that are replaced while the server
  holds their tables open, and reads of graph and table that are not one step.
- *agent server*: turns of one session overlap on one checkpoint; an event stream
  has a producer, a queue and a reader that may leave; restarts.
- *extraction*: a visitor whose stack of scopes has to follow the tree through
  names that are missing, a depth cap and thirteen grammars.
- *query*: one list through seven stages with three different caps, sums over
  duplicates in any order, failures of single searches, lookups and batches.

What makes each of them correct:

| Component | It is correct when |
|---|---|
| semgraph | the hashes in `files` really are those the nodes came from; no dangling, duplicate or stale edge; calls stay in their language unless they are imported; a sync leaves what a fresh index would, up to the documented boundary |
| registry | a version's bytes are written once; whoever downloads gets those bytes; what was answered with success stays listed; `tokens.json` says what administrators were told, as long as none overtakes another |
| workspace | an installed version is complete; manifest, lock and store agree after an undisturbed command; both resolution functions agree; every command ends |
| extraction | every edge and site ends in an emitted node; scopes and names are those of the tree; no call is lost below the cap; receivers are typed as the bindings say |
| bundles | what is installed is one packing, whole and unmixed; what pack returns is accepted |
| graph reader, MCP server | the answers are those of paths through the graph; a body is of the bundle asked about and begins where its node begins |
| agent server | a stream is complete and ends; what is marked as verified was told by a tool; a conversation only grows |
| query | fusion keeps evidence, the pool is fair, the ranking is a permutation of the pool, results neither overlap nor drop a relevant hit |

## 2. Plan and modules

In the order they were (or will be) written:

| # | Module | What it is | State |
|---|---|---|---|
| 1 | `GraphResolve` | resolution as pure operators | written |
| 2 | `GraphSync` (extends 1) | state machine of `index_roots` and `sync`; its specification of correctness is `FreshEdges(Tree)`, the result of an index from nothing | written |
| 3 | `GraphSyncProofs` (uses 21) | types, endpoints, hashes, languages, unique edges, rows and parsed files | written |
| 4 | `TokenStore` | `tokens.json` and its writers | written |
| 5 | `Registry` (extends 4) | server, publishers and clients composed | written |
| 6 | `RegistryContract` | the abstract write-once registry | written |
| 7 | `RegistryProofs` | the refinement, digests, the index and tokens | written |
| 8 | `Workspace` | stores, manifest, lock and commands | written |
| 9 | `Loops` | the `for` loops and sorts of the code as recursive functions and orders, for 10 and 15 | written |
| 9a | `SourceIndex` | code index as pure operators | written |
| 10 | `Query` (extends 9, 9a) | state machine of one request at a time | written |
| 11 | `SyntaxTree`, `LanguagePacks`, `Walker` | trees, the six packs and the visitor of the tier-3 languages | written |
| 12 | `TierOne`, `Receivers` (extend `SyntaxTree`) | definitions, inheritance and receiver types of the seven languages that are extracted with queries | written |
| 13 | `Extract` (extends 11, 12) | state machine of the extraction of one file | written |
| 14 | `Agent` | turns of the agent server | written |
| 15 | `GraphReader` | the readers as pure operators over a graph | written |
| 16 | `Bundle` | pack, sign, transport, verify, install | written |
| 17 | `Server` (extends 15, 16) | the MCP server over bundles that come and go | written |
| 18 | `ServerProofs`, first part | `PackedIsAccepted` and `InstalledAsPacked`, for any tree, any number of packings and faults | written |
| 19 | `WorkspaceProofs` | types, `InstalledWhole`, `ResolutionAgrees`, `LockAgrees`, for any commands and faults | written |
| 20 | `AgentProofs` | types, streams, verification and conversations, for any runs and restarts | written |
| 21 | `LoopProofs` | what a loop and a sort of `Loops` is, for every length and order | written |
| 22 | `QueryProofs` (uses 21) | all six properties of `Query` | written |
| 23 | `ServerProofs` (uses 18, 21) | `BodiesAreOfTheBundle`, `AnswersFollowTheGraph` | written |
| 24 | `ExtractProofs` (uses 21) | `Anchored`, for any tree, language and cap | written |
| 25 | `GraphSyncProofs`, on | `NoStaleEdge`, `ResolvedSitesKept`, under the conditions on trees that `GraphSync` names | written |
| 26 | `ExtractProofs`, on | `ScopesFollowTree`, `NamesFollowScopes`: the stack against the tree, by a relation between `agenda` and the ancestors | written |

`MCGraphSync`, `MCRegistry`, `MCWorkspace`, `MCQuery`, `MCExtract`, `MCAgent` and
`MCServer` give the constants small values; every `.cfg` belongs to the MC module
named in PROJECT.json, or in section 10. All modules but `MCExtract`, which
numbers its sample trees, recurse with folds and recursive functions, never with
`RECURSIVE`, so that proofs can be written about them. Definitions named
"Mutant of ..." in a comment are deliberately wrong variants of the definition
below them; no specification uses them. They document which error each property
would notice.

## 3. GraphResolve and GraphSync

**Data.** A file's content is a model value; `Source` says which definitions,
containment pairs and reference sites the parser extracts from it. So the
grammar is a constant and the models are about what is done with the extract. A
node id hashes kind, qualified name, file and position, hence `Id` is that tuple;
a file moved by one line has other nodes, which is what makes edges die.

**Resolution.** `resolve.rs` answers each kind of site by tiers: same file,
imported module, unique name in the language, and so on, with the confidence of
the tier on the edge. Each tier is an operator over the *whole* node table,
since that is what the code loads. A receiver (`recv`) is a base and the methods
chained on it; `each` has the places where a result is indexed or iterated, and what
follows such a place has the types of the *elements* (`RecvExpr::Element`). An edge
remembers the tier that found it (`by`). `FreshEdges(T)` is what an index of tree `T`
from nothing contains, and is the yardstick for sync.

**State.** `disk`, and the database as `schema`, `nodes`, `rows` (path to the
content its hash stands for) and `edges`. The edge table has no key, so `edges`
is a bag. Every process has its own `listing`, `gone`, `todo`, `fresh`,
`affected`, `late`, `found`. `drifted` is history: the files whose edges were resolved from
other content than the hash in their row stands for.

**Actions.**

| Action | Code |
|---|---|
| `BeginIndex`, `CreateDatabase`, `InstallSchema`, `FillIndex` | `index_roots`: parse; remove the old file and create a new one; DDL, statement by statement; one transaction for all rows |
| `Classify`, `NothingToDo`, `SyncFails` | `sync` up to the early return: hashes against the database |
| `ParseFresh`, `Plan` | parse the changed and added files, `delta_names` and `affected_unchanged_files` |
| `DeleteGone` | first transaction: delete nodes (edges cascade), file rows, out-edges of affected files |
| `ParseAffected` | affected files are read again, *late* |
| `InsertNodes` | second transaction: nodes, contains edges, file rows |
| `Resolve`, `InsertEdges`, `InsertFails` | resolution against the database; third transaction, with its foreign keys |
| `Edit`, `Crash` | the user; a run that is killed |

Enumerating the tree and hashing its files is one read in `Classify`, and
parsing a set of files one read in `ParseFresh` and `ParseAffected`: an edit
falls before or after such a read, not within.

**Properties.** `NodesMatchHashes` (hashes are anchors, always), `RowsExact`,
`NoStaleEdge`, `ParsedFilesExact`, `ResolvedSitesKept` (what a *successful* sync
guarantees), `NoDuplicateEdges`, `EdgesHaveEndpoints`, `CallsCrossByImport`.
`ResolvedSitesKept` draws the boundary the code really has: a site that had an
edge before is never lost; a site that had resolved to nothing may lag behind.

`NoStaleEdge` has one exception, which the code has: a sync reads an affected file a second
time (`index.rs:358`), long after its hash was compared, and files the edges of what it
reads then under the hash of the first read. When the two differ the file has *drifted*,
until a run deletes its rows or its edges again; once it is edited back it counts as
unchanged. `NoEdgeEverStale`, the same without the exception, is what `index.rs:211-213`
promises ("canonically equal to a fresh index_roots"): it holds, and is checked and
proved, as long as nobody edits between the steps of a run, and is violated with edits
during a sync (`GraphSyncDrift`, section 10).

`CallsCrossByImport`: the import tier (`resolve.rs:409-414`) does not compare languages,
and `resolve_module_to_file` tries `.rs` before `.py` for a Python import, so calls
*do* lead from one language into another. The property says by which tier, and only into
files that a module imported by the caller can stand for. `CallsStayInLanguage`, which the
comment at `resolve.rs:417-420` takes for granted, is violated (`GraphSyncLanguages`,
section 10). Four properties that the repository states are violated in all, see there.

**Conditions on trees.** Sync decides by names which unchanged files it reads again,
and on some trees names do not say enough (section 11). `GraphSync` states where they do:

- `SoleCandidates`: a module that is imported can be one file of the tree only;
- `HeadersStay`: the headers an include may mean are neither created nor deleted;
- `CallsAreSites`: the calls in a receiver such as `f(x).g().h()` are sites of the same
  definition themselves, as `collect_sites` makes them;
- `NamesDecide`: all three;
- `OneEdgePerSite`: a fresh index has one edge of a kind for a place in a definition.

They speak of what contents may be given to files, not of states. `MCGraphSync` assumes
`NamesDecide` and `OneEdgePerSite` of its trees, so that TLC evaluates them in every run:
the runs and the theorems are about the same kind of tree.

## 4. TokenStore and Registry

**State.** For each version the bundle file (absent, begun or whole), the
`.sha256` file (absent, empty or the digest of a bundle), a signature; `index`
with a flag whether it can be parsed; `tokens.json` as entries and a *length*,
since two writers that truncated the file and write one after the other leave
the tail of the longer text; `loop`, the coroutine that occupies the event loop
between two awaits; the progress of every upload, install and administrator.
`stored`, `installed`, `granted`, `revoked` remember what callers were told.

**Concurrency, as FastAPI runs it.** `publish_bundle` and `create_token` are
coroutines: from the last `await` to the answer they hold `loop`. `get_index`,
`download_bundle` and `revoke_token` are plain functions on threads, and the CLI
is another process; they interleave with every file operation. An upload is
`Receive` (token checked), then at its last await `Refuse`, `Conflict` or
`CreateBundle`, `WriteBundle`, `CreateSidecar`, `WriteSidecar`,
`WriteSignature`, `OpenIndex`, `SaveIndex`, each a step a reader can see and a
failure (`UploadFault`) or a stop of the server (`Stop`, `Serve`) can follow.
An install is `Lookup` (whose errors the client drops), `Request` (headers),
`Download` (body), `Install` (digest compared when known; archive validated).

**Properties.** `HeaderMatchesBody`, `InstalledIsStored`, `StoredStaysListed`
(which includes that a stored signature is listed), `ListedWithoutFaults`, `TokensAsTold`, and `KeepsContract`:
`Registry` implements `RegistryContract` under the mapping *published* = finished
bundle files, *catalogue* = digests of a readable index. The contract says that
a version is written once and that a digest is announced only for bytes that are
there; it lets the catalogue lag, which the code does after a failure.

Administrators race: each loads `tokens.json`, changes it and rewrites it. `crossed` is
history: some administrator wrote over what another had written since the first one read
the file, or while the other was writing. `TokensAsTold` says that nothing *but* this
spoils the file, with requests on the event loop, threads and commands of the CLI under
way at once, failures in the middle of a rewrite and restarts. `TokensStayAsTold` has no such
exception and is violated (`RegistryTwoAdmins`, section 10).

## 5. Workspace

**State.** `dirs` maps store, name and directory name (a version or a temporary
name) to what the directory holds: *bare* (no `manifest.json`), *part*, *whole*,
whether it has its `.codegraph` view, and whether a removal has begun (*hurt*).
`manifest` and `lock` are the two files as maps, empty between truncation and
write. `job` is the command of each process: what it read and where it is.
`disturbed[p]` notes that another command changed a file since `p` began; a
property about the agreement of files can only hold when it is false.

**Actions.** A command starts with `Add`, `AddSource` (a repository or folder;
`refresh` is one with reinstall), `Remove`, `RemoveGlobal`, `Uninstall`,
`Install` or `Sync`, and goes on by the steps they share: `NextDep`, `Fetch`
(which may deliver any bundle where the source may), `RemoveFiles`, `RemoveDir`,
`Purged`, `Check` (exists?), `ExtractManifest`, `ExtractRest`, `ExtractAgain`,
`Rename`, `Link`, `Record`, `OpenManifest`, `WriteManifest`, `Lock`, `Finish`,
`OpenLock`, `WriteLock`. `Repair` links views. `Fault` ends a command after any
step, as a failed call or a kill does.

Commands are taken to run in the workspace's own directory. A dependency on
that very directory has the kind *here*: `refresh` (`main.rs:2114`) builds
only when exactly one entry of the manifest has it (`Own`), and builds that one
again. tempfile draws a name that nothing has and that no running command fills
(`Free`, `Filling`).

`stranded` is history: the directories whose command ended between the rename and the
link of their view.

**Properties.** `InstalledWhole`: whatever commands run together, fail or are killed, a
directory under a version's name holds that version, whole unless a removal has begun to
empty it, and with its view unless it is just being linked or is stranded. It says nothing of
temporary directories, which `list()` takes for versions: that is `ListedIsWhole`, which is
violated. `ResolutionAgrees` (the two resolution
functions are written as differently as the code writes them), `LockAgrees`,
`CommandsEnd`.

## 6. SourceIndex and Query

A text is the sequence of line numbers it consists of, so that "which lines are
shown, in which order, how often" can be stated. `SourceIndex` builds the rows
of the table `code` (with the comment around a symbol, cut to pieces) and reads
them back (`FetchAt`, and `FetchNamed`, which takes a name or a qualified name). Where the code takes the first row of an
unordered answer, the operator returns every text it may be.

`Query` has one action per stage of `tool_query`: `Ask` (retrieval plan),
`Search` (one index; a failing one finds nothing), `Fuse` (deduplicate, anchor,
sort), `Select` (pool), `Expand` (sources of the pool's symbols, each lookup may
fail), `Rerank` (two passes, any scores, a failed batch is all 0), `Answer`
(drop the irrelevant, combine neighbours, cut), `Respond`. One request runs at a
time, as the server reads JSON-RPC from stdin sequentially; its state is per
request. Scores are integers: `Unit` is divisible by every denominator, and
anchoring multiplies all of them by one common factor, so comparisons are exact.
The loops of the code (deduplication, sums, the selection, the runs, the text of a run)
are `Loop` of the module `Loops`, its sorts `InOrder`: a function by recursion on a
number, and a sequence by the number of elements before each one.

**Properties.** `FusionConserves`, `PoolIsFair`, `RankingIsComplete`,
`AnswerIsComplete`, `ResultsAreApart`, `DocLinesOnce`. The last is stated for
documentation only: combined *code* does repeat lines, see section 11.

## 6a. Extraction: SyntaxTree, LanguagePacks, Walker, TierOne, Receivers, Extract

**Data.** A syntax tree is a sequence of nodes in document order, each with its
grammar kind, the field it fills, its text and its ancestors; a position is an
index, so "before" is `<`. A text is a sequence of words, so that a qualified
name is a concatenation and "the last segment" an operator. What tree-sitter
calls (`child_by_field_name`, `named_children`, `parent`) is in `SyntaxTree` and
external; everything else is translated from the extractors.

**Two extractors.** Ruby, PHP, Kotlin, Swift, Scala and C# share one visitor
(`tier3/mod.rs`), parameterised by a `LangSpec` and hooks; these are the records
and operators of `LanguagePacks`. `Walker` is the visitor: the recursion is made
explicit as `agenda`, the calls still to make, so that one step is one call of
`visit`, `visit_body` or a handler and the scope stack can be compared with the
tree at any moment; `depth` and `hit` are the cap. Rust, Python, TypeScript, C,
C++, Go and Java are captured with queries and go through the phases of
`parse::extract`: definitions, containment, sites, types, imports, inheritance.
`TierOne` has what is captured and how it is named, `Receivers` the inference of
a receiver's type from parameters, bindings, loops and fields (`RecvCtx`).

**State and actions.** `source`, `agenda`, `stack`, `nodes`, `edges`, `sites`,
`depth`, `hit`, `errors`; `Start`, `Unreadable`, the handlers of `Walk`, the six
phases `Define`, `Contain`, `Refer`, `ReferToTypes`, `Import`, `Inherit`, and
`RecordFile`. A file goes through them alone: the hazard is not concurrency but a
long sequence of pushes and pops over a tree of any shape.

**Properties.** `Anchored` (an edge or site without an end fails a foreign key,
and with it the whole sync), `ScopesFollowTree` and `NamesFollowScopes` (the stack
against the ancestors in the tree, which the visitor never asks for),
`CallsAreKept` (below the cap nothing is lost), `SingleBindingTyped` (the map of
locals against the flow of bindings up to the call). Two more are violated:
`GoMethodsReachTheirType` and `TypedByLastBinding`, section 10.

**Left out.** Signatures, docstrings and flags of the query languages,
decorators, type parameters, and two nodes that begin at the same position.

## 6b. Bundles and the MCP server: Bundle, GraphReader, Server

**Bundle.** A text is told by the revision of the index it was written at and the
time the packer stamped it with; a digest is the text it was taken of. `Pack`
validates the directories, `Collect` reads one path per step while `Rewrite` and
`Clear` change the tree (a file or directory that is gone is an error, a directory that is
there and was emptied gives no entries, `collect_dir`), `Create` and `Finish` write the output (not whole in
between, `Kill` at any step), `Sign`, `Ship`, `Damage` (an entry garbled, lost or
there twice, a manifest lost or there twice, the end missing), `Install` with or
without a key, `Uninstall`.

**GraphReader.** The SQL of `lib.rs` as operators over a set of edges and a
sequence of nodes: full-text search with its fallback to LIKE, call edges as the rows
of a query, sorted and with their LIMIT before the duplicates go (each node stands
where it is met first), the recursive query of `impact` with UNION
over (node, depth), and the two hops of `context`, each admitted in the order of
ids until the budget is used up. The rank of a full-text search is a choice:
`SomeOf(hits, n)` is every set of `n` of them. Ids are ordered like nodes in the
sequence.

**Server.** `snapshot` is `McpContext.registry`, read once; `tables` is
`table_cache`, keyed by path. `Receive` takes the next line; each tool is an
action; `get_callers` and `get_callees` are `GetCalls` and then one `Inline` per
node, since the bundle is resolved and the table read anew for each. `Elsewhere`
is any step of another process on bundles (all of `Bundle`), `Register` one on
`packages.json`, `Restart` a new server. A handle on a table that has been
replaced gives what it knew, or an error. A bundle that was packed without a graph is
not indexed: the graph tools refuse it, and `read_symbol` and `read_code` fall back on the
table alone, by name or by the tightest row.

`plan` bounds a behaviour: how many packings and faults there may be, which paths of the
tree are written meanwhile, which requests, which local packages. It is chosen at the start and never changes, so
that one run asks about packing, reinstallation and graphs without multiplying them.

**Properties.** `InstalledAsPacked`, `PackedIsAccepted`; `AnswersFollowTheGraph`
(impact, context and callers against paths through the graph, defined without the
searches that compute the answers; `IsGraph` is assumed of every graph: finitely many
nodes and edges, ends of edges that exist, numbers for places); `BodiesAreOfTheBundle`, which relates a
reply, the cache and the history of the bundle: a source is of the bundle that was asked about
as it is or was since the start, and while there was one of it, it begins in the file and
at the line where the node begins that it stands at. It may still be that of *another symbol
on that line*: rows are found by path and first line (`lance.rs:694-698`), and the first
revision of the instance has two symbols on one line. `PackedIsComplete` and
`ContextFitsTheLimit` are violated, sections 10 and 11.

**Left out.** A directory of the tree stands for the one file that a build writes there;
`graph/` of several files is not modelled. One code row stands for a symbol (how a body is cut and put together
is `SourceIndex`'s), path-suffix matching (there too), the documentation index of a
local package, `read_docs` (its lines are `Query`'s), argument parsing and rendering.

## 6c. The agent server: Agent

A *run* is one turn, `KnowledgeAgent.ask` or `astream`, on one of the transports
REST or MCP (`ask`), event stream (`stream`) and A2A (`a2a`). The loop of model and
tools is LangGraph's and is modelled from how the code uses it: a run starts from
the newest checkpoint of its thread, works on its own messages and writes them as
the newest checkpoint after each step. `Begin`, `CallTools`, `StartTool`,
`EndTool`, `FailTool`, `Gather`, `Converge`, `HitLimit`, `Synthesize`, `Fail`,
`Finalize` are the steps of the coroutine, `Deliver` and `Join` those of the
reader of a stream or a reply, `Leave` a caller that disconnects or cancels,
`Restart` one of the server, with the SQLite checkpointer (`durable`) or the one in
memory. A line of text is a model value of `Lines`; a citation is a sequence of lines, and
the verdict compares them with what tools told, with the threshold of `verify.py`. Models
fill in `verified` themselves, since it is in the schema of their answer (`Claims`);
`checked` is history: the runs whose citations the check did look at. A call of a tool may
end, fail or never return.

**Properties.** `StreamIsWhole`, `VerifiedIsGrounded` and `GroundedIsVerified` (where the
check ran, whatever the model wrote into the mark before), `ConversationGrows`,
`EveryRunReplies`; `CheckSetsVerified`, which speaks of all findings that go out, is violated, section
10. `ConversationGrows` and `GroundedIsVerified` except runs that overlap in a
session (`shared`): those do overwrite each other's messages. *Grounded* is against what
tools told in the session, which is what the code reads, not in the run, see section 11.
`EveryRunReplies` names the two cases in which a caller who stays is left without an end: a
task over A2A whose cap is refused (`CapRaises`, section 11), and a run that waits for a
tool that does not return (`Waiting`).

## 7. Runs and bounds

| Run | Question | Instance |
|---|---|---|
| `GraphSyncNames` | does a sync stay exact when names become unique, ambiguous, renamed, moved, deleted, with edits during the sync, foreign-key failures and kills, but for files that drift? | 3 Python files, each in 2-4 contents; 3 edits, 2 crashes |
| `GraphSyncTypes` | without exception, when edits fall between runs: edges that depend on return and element types, inheritance and includes; which calls cross languages | 6 files in Python, Rust and C, an import from Python that finds a Rust file first; 2 edits, 1 crash |
| `GraphSyncCrash` (violation) | is a partial index possible? | 1 edit, 1 crash |
| `RegistryBundles` | two uploads, an administrator on their event loop, a client, two faults | 2 versions, 3 bundles (two of one version), a malformed one |
| `RegistryTokens` | two administrators who create and revoke by both routes, two faults, until one overtakes the other | 3 tokens |
| `RegistryTwoAdmins` (violation) | and when one does? | 2 tokens, no faults |
| `WorkspaceSync` | sequences of 3 commands, one fault: do manifest, lock and store agree? | 2 packages, one in 2 versions and 2 builds, 3 initial manifests, a group |
| `WorkspaceTwo` | two commands at once, both stores, one fault: is what is installed whole, do the resolvers agree, does every command end? | 1 package, 2 builds, 2 temporary names |
| `QueryPipeline` | every request of the instance | 5 sources of 2 packages, expansions of either kind, 4 settings |
| `ExtractFiles` | does extraction follow the tree, and lose or invent nothing? | sample files in the grammar of each of 13 languages, readable, broken and unreadable; a cap of 6 |
| `AgentRuns` | turns on every transport, alone and two in one or two sessions, with models that write the server's mark and tools that never end | 2 runs, 2 sessions, 2 tools, a round of tool calls, 1 restart |
| `Serving` | is what is installed what was packed, and are the server's answers those of its graph and its bundle? | 2 packings of 2 revisions, 1 fault; 2 reinstallations under a server, also of a bundle without a graph; 65 graphs |

Why these bounds suffice to meet the hard cases:

- *GraphSync*: the shortest histories that break `NoStaleEdge` in a mutant are
  index, edit, sync. Two edits give two edits in one sync, an edit during a
  sync and one before the next, and a definition that comes and goes. The third lets a
  file that is affected be edited and edited back, which is what makes
  `NoEdgeEverStale` fail (`GraphSyncDrift`) and why `NoStaleEdge` has its exception. Two
  crashes let the recovery be interrupted as well. Three files are needed for
  "two definitions and one caller", the fourth for a caller that can tell them
  apart; a Rust file that a Python import finds first is what it takes for a call to cross.
  `MaxDepth` of a receiver chain is 16 in the code and in the module; the
  instances use 2. One process: see section 12 for two.
- *Registry*: one version with two rival bundles is the smallest conflict, the
  second version shows that uploads of one do not disturb the entry of the other.
  Two faults: a failure and a restart after it. Two administrators suffice for one to
  overtake the other; three tokens are one that was there, one that comes and one that goes.
  Tokens and bundles meet only in the event loop, which `RegistryBundles` keeps.
- *Workspace*: three commands are a first one, one that spoils what it left, and
  the one that has to cope. `t`, `u` bound the temporary directories a run can
  leave behind; with two faults or processes at most two exist.
- *Query*: the constants of the code are scaled so that each limit is met by a
  handful of hits: `FetchLimit` 3 (code: at least 20), `RrfK` 2 (60),
  `MinBucket` 2 (3), `Pass1K` 1 (5), `ContentCap` 6 lines (12000 characters),
  `SnippetLines` 3 (600 or 400 characters), `ChunkLines` 4 (8 KiB), `Unit` 60.
  `DocGap` and `CodeGap` are those of the code. With them the pool overflows,
  buckets fill, the reranking budget is smaller than the pool, chunks share
  lines, hits lie at exactly and just beyond the gap, and the cap cuts a text.

- *Extraction*: the programs that every language writes are the shapes the visitor
  distinguishes: a call in a function, in a nested function, in a type in a function,
  in a function in a type, outside of all; a declaration before and after the one
  that mentions it; a missing name; a tree one node below and one above the cap
  (`MAX_DEPTH` is 512 in the code, 6 here: the handlers compare it, nothing else).
- *Agent*: one round of both tools at once lets their events interleave and one of
  them fail; two runs of one session overlap at every step; the caps are none, 1,
  2, 3 and 51, one more than is allowed; `DefaultCap` 1 cuts two citations, of
  which one has two thirds of its lines from one tool, one half of them from each. What
  models write into the marks is `true` or `false` on the first, `false` or nothing on the second.
- *Serving*: two revisions and two packings are what it takes to mix them; one of the first
  revision's lines begins two symbols; one packing while `graph/` is emptied and written
  again gives a bundle without a graph; one
  fault is enough to damage anything once, of bytes that a key is asked for or not.
  Five nodes with two `run`s, and every subset of six edges with two cycles, of
  calls, references, imports and containment, at depths 0 to 3 and limits 1 to 3.
  `TopK` 3, `OutputN` 2 and `ByteBudget` 8 lines stand for the settings and 12,000
  bytes; `ImpactLimit` 500, `MaxTokens` 10 and `MaxHop` 2 are those of the code.

The runs that set `CHECK_DEADLOCK FALSE` may stop because their bounds on
commands or tokens are used up. Each property of each passing run has a mutant in
PROJECT.json: a plausible error in one definition with which TLC finds the
property violated under the same `.cfg`.

## 8. Fairness

Two specifications assume fairness. In `Workspace` it is weak fairness of
`Step(p)`, that is, the operating system goes on running a process that has been
started. Starting a command, faults and `Repair` are not fair. `CommandsEnd` then
says that no command waits for another one and that `sync` consumes its
dependencies. In `Agent` it is weak fairness of `Advance(r)`: the event loop serves
every coroutine, a request to the model ends (`llm.request_timeout`) with an answer or as
a failure, the rounds of tool calls are limited by the recursion limit, and a caller that
stays reads. It does not include that a call of a tool ends, for which the code has no
timeout: `EndTool` and `FailTool` are not fair, and `EveryRunReplies` says that such a run
replies or waits for ever. Asking, failing, leaving and restarts are not fair. All other
properties are safety properties and assume nothing.

## 9. Proofs

Eight modules hold theorems and lemmas: `GraphSyncProofs`, `RegistryProofs`,
`WorkspaceProofs`, `QueryProofs`, `AgentProofs`, `ServerProofs`, `ExtractProofs`, and
`LoopProofs`, whose lemmas `GraphSyncProofs`, `QueryProofs`, `ServerProofs` and
`ExtractProofs` cite. The theorems hold for all values of the constants that satisfy the modules' ASSUMEs, in particular
for any number of files, processes, uploads, clients, commands, requests, edits and
faults, unless a theorem's own ASSUME says otherwise. TLC evaluates the ASSUMEs of the
modules in every run.

**GraphSyncProofs.**

- `TypeCorrect`: `TypeOK` is inductive by itself; one step per action.
- `EndpointsExist`: `EdgesHaveEndpoints` is inductive with `TypeOK`. Deletions
  keep an edge only if both files stay; `InsertNodes` adds contains edges among
  the nodes it adds, or that are there already under the same id (`ContainsLink`);
  `InsertEdges` checks the foreign keys; and an index from nothing resolves
  within its own nodes, which needs a case per kind of site (`FreshEdgesLink`,
  over `ResolvedEdges`). It holds for several processes on one database.
- `CallsCrossOnlyByImport`: from `LanguageInv`. Every tier but one filters by language
  (`NamesCross`); what the import tier answers lies in a candidate of a module that the
  caller imports (`ImportedMayBeMeant`), and the caller's import nodes stay with its edges: a run
  deletes them together, and what it found refers to the table as it was when it
  resolved. No condition on the tree is needed.
- `HashesAnchorNodes`: `NodesMatchHashes` alone is not inductive, since
  `InsertNodes` adds rows for files that must not have any. `HashInv` adds what
  a run knows (`RunKnows`): between `Classify` and `DeleteGone` the files to do
  that have a row are among those to be deleted, from then to `InsertNodes` none
  has a row, and resolution produces no contains edge. The theorem assumes that
  no two processes differ: with two, `RunKnows` is false, as the second sync
  re-creates rows the first one has deleted.
- `EdgesAreUnique`, `RowsFollowTree`, `ParsedFilesAreExact`, for one process at a time:
  from `HashInv` and `SyncInv`, which follows a run. Once `DeleteGone` is over, no edge
  leaves a file that is parsed or affected (`RunDropped`), so that nothing inserted
  meets its double. While no edit falls into the run (`RunFollows`), what is gone and
  what is to do are the differences between rows and tree, hence the nodes before
  `Resolve` are those of the whole tree, and the edges found for a parsed file are
  those an index from nothing would give it.
- `NoEdgeGoesStale`, about the files a sync does *not* parse: from `StaleInv`. At every
  moment, also after a crash, each edge that is not a contains edge and whose file has
  not drifted (`Undrifted`) is one that a site of
  the recorded contents yields (`Backs`; an include counts as what it would be if every
  file were there), and that site is `Grounded`: each call its receiver's type depends on
  has the name of a target of some edge of the same file. So a sync that changes what any
  of these names means has the name among its `delta_names` and finds the file by its edges,
  which is all that `affected_unchanged_files` looks at (`RunNames` follows this through
  the run). The heart is `BackingStays`: as long as no definition of such a name comes or
  goes, the tiers answer alike over the old and the new table (`SameName`,
  `SameQualified`, and `RunsAgree` for the types along a receiver, call by call). The database
  changes by the runs alone, so edits may fall anywhere; a file read late in another
  state than its row's drifts.
- `QuietSyncIsExact`: when nobody edits between the steps of a run, no file drifts
  (`QuietInv`), so `NoEdgeEverStale` holds.
- `NoReferenceIsLost`, the action property, adds `KeptInv`: what an edge was before the run
  is in the table until its file is parsed.
- The hypotheses of these three are the conditions of section 3 and one process at a time;
  `QuietSyncIsExact` alone assumes `~EditsDuringSync`, and `GraphSyncDrift` shows that it must.

**RegistryProofs.**

- `RegistryTypes`, `HeadersAreTrue`, `InstallsAgree`, `RegistryKeepsContract`:
  from one inductive invariant, `RegInv`. Uploads that have begun to write own
  the event loop (`UploadsOwnLoop`, `CreatorsOwnLoop`), hence each finds on disk
  what it wrote itself (`UploadsOnDisk`); hence digests are true wherever they
  are kept: in a sidecar (`SidecarsTrue`), in the index (`IndexTrue`), in an
  answer (`AnswersTrue`, `BodiesTrue`). Two step facts carry the rest: a whole
  bundle file never changes (`WholeStays`), and a file once there stays
  (`FilesStay`). The refinement maps `WriteBundle` to `Publish`, and every other
  step to `Announce` or a stutter.
- `FaultlessIndexIsComplete`: `StockInv` adds the order of an upload's own writes; then
  every bundle is listed with its digest or is one an upload works on (`Attended`), as
  long as nothing failed.
- `StoredStays`: what was answered with success is on disk and in the index
  (`StoredKept`), since every later scan finds it again. Its hypothesis is that
  uploads send the signature they have (`SignaturesSent`), which `sembundle publish`
  does not do, section 11.
- `TokensKept`, without hypotheses: as long as nobody has overtaken another (`crossed`),
  an administrator that has been told all there is to tell (`read = Told`) is going to
  write what agrees with it (`FreshReads`), and one that writes is alone, has read what is
  still true, and the file cannot be read meanwhile (`WritesAlone`). An unreadable
  file, truncated or abandoned, stops the next one at its load. `RegistryTwoAdmins`
  (section 10) shows that without the exception it does not hold.

**WorkspaceProofs.**

- `TypeCorrect`, `InstallsWhole`: from `WholeInv`. What each place of a command demands
  of its record is `Forms`. Two commands never fill one directory (`Apart`), and what
  a command fills is what it extracts, all of it before the rename unless a removal
  has touched it (`Filled`); so nothing but a whole bundle ever gets a version's name,
  and a removal marks it first. The ASSUMEs say that temporary names are no versions,
  that `None` is nothing else, and that names and slots can be put in an order.
- `ResolvesAlike`: `ResolutionAgrees` holds in every state at all, so the proof is
  about operators: the minimum of the list `list_bundles` gives is what `get`
  finds in the stores, one after the other, for every order of `read_dir`. The least
  of a set of numbers is taken by well-foundedness.
- `LocksAgree`: the action property at the end of a command, from `Agreeing`: an
  undisturbed command knows the manifest as it is or is about to be, and every
  dependency it has ticked off is in the `Stock` of the workspace with the digest of
  its entry, which its own later removals and renames do not touch.

**QueryProofs**, all six properties of `Query`.

- The code's loops are recursive functions. What a loop is for every length is proved
  in `LoopProofs` with no induction theorem of the library: the set of places where an
  invariant fails has a least element (`UpTo`), and a loop's step is passed as a
  function, not as an operator (`LoopRuns`, `RunOfLoop`). `Ordered` says the same way
  that a strict total order on a finite set puts it into a sequence without
  repetition, which is what `sort_by`, ORDER BY and `Filter` come down to.
- `PoolStaysFair` and `RankingStaysComplete`: from `FrontInv`, the types at every stage,
  the loop invariant `Fair` of the selection (the caps hold, and whatever was left
  out was shut out by one that is full), and the ranking as a permutation of the
  pool: both passes sort, and the second one takes over exactly what the first
  promoted.
- `FusionKeepsEvidence`: the invariant `Merged` of the loop over what was found: the
  fused hits have different keys, one for each key met so far, with the sum of its
  contributions so far, and are as rich as the richest. Sorting permutes and anchoring
  multiplies all of a package by one factor. The factor is 0 when `anchor_floor` is 0
  and the query itself found nothing in the package; then all its hits tie and
  the order of their sums is lost, hence the hypothesis that the floor is not 0.
- `ResultsStayApart` and `AnswersAreComplete`: after each hit of a document, in the order of
  lines, the runs are `Spaced`: they share out the hits so far and each begins beyond
  the gap after all earlier ones. So the runs of all documents are a partition of the
  ranks, their best ranks differ, and sorting them gives the results in order.
- `DocLinesStayOnce`: the invariant `Lined` of the loop that assembles a text: it goes
  upwards and ends no later than the last line any member so far has. It needs that
  a chunk's text is the lines it says it is (`ChunksHoldTheirLines`, an ASSUME about the
  index: `push_chunk`, `build.rs:1257`).

**AgentProofs.** `Sound` is inductive: types, what a run has at each place of its
coroutine (`Placed`), and of each stream that what was seen and what is queued are
together what the callbacks reported, the sentinel last (`Streams`).

- `TypeCorrect` and `WholeStreams` follow from `Sound`.
- `CheckedIsGrounded`, `GroundedIsChecked`, without hypotheses: `Grounded` adds that no
  conversation holds more than tools told in the session (`KnownIsTold`), that a run alone
  in its session works on the newest checkpoint (`AloneInSession`) and has all that its own
  tools told it (`ToldIsKept`), and that nothing changes a finding after its check
  (`CheckedLast`, `SentOut`). Whatever the model wrote into the mark, the check overwrites
  it; where the check did not run the mark goes out as it is, of which these theorems say
  nothing (`AgentClaims`, section 10).
- `ConversationsGrow`: the action property, from the same invariant.

**ServerProofs, packing and installation.** `PackedAccepted`, `InstalledIsPacked`: from `BundleInv`, in the specification
of the server. The paths a packing has still to read are distinct and none is a key
it has (`Packing`); hence each key is in the archive once and the manifest lists
every entry as it is (`Faithful`), whatever was written to the tree between two
reads. An output is whole only if pack returned it (`OutputReturned`); a parcel
that is whole is `Derived` from such an archive (`ParcelDerived`): faults lose or
double the manifest but make no other one, and no key appears that was not
packed. `AcceptedIsIntact` is the heart: the checks compare every listed entry
and ask for every listed key, so such an archive unpacks to the same files. A
bundle put together by somebody else, with a manifest of its own, is outside:
without a key the checks say nothing of who made it. A bundle may have no graph; if it has
one, it is of a revision that was written (`WasThereHolds`: what a packing reads was there).

**ServerProofs, answers**, in the specification of the server, with packing, transport and
installation going on beside it.

- `BodiesStayOfTheBundle`: from `ServerInv`. A table that is opened stays open, so what
  it reads must be of a bundle there *was* since the start (`TablesWere`), and the
  sources of callers come in many steps between which the bundle may be replaced
  (`FoundRight`). `served` only grows, and `Right` is kept when it does. That a source
  begins where its node begins is proved for as long as there was one bundle of the name, with
  graph and table of one revision (`SourcesStand`), for any graphs: of several symbols that
  begin at one line it may be any. It has no hypothesis but the ASSUMEs.
- `AnswersStayWithTheGraph` has no hypothesis but the ASSUMEs. The sources a name
  leads to are graphs (`SourcesAreGraphs`, which needs `WasThereHolds` and
  `InstalledIsPacked`); each answer is then right in the step that gives it, except for
  callers, which are kept while their sources are collected (`FoundCallers`). *Impact*:
  the rows of the recursive query at a depth are the nodes from which a chain of so many
  dependencies leads to the symbol (`RowsAreAtDistance`), so the rows of all depths are
  the dependents, and all are shown when the limit allows. *Context*: after each hop the
  nodes are the ball of that radius about the seeds, or there is no room left
  (`HopsAre`), and nearer ones are admitted first. *Callers*: the LIMIT cuts a sort
  (`FirstOfSort`), and dropping repetitions loses no node (`DistinctKeeps`). The orders
  are total because ids break ties (`FilesAreOrdered`, `NearnessSorts`, `TightnessSorts`).

**ExtractProofs**, for any trees, languages, nodes in error and any cap on the depth.

- `EdgesAndSitesAreAnchored`: `Anchored` from `IInv`, which TLC has checked on the instance of
  `ExtractFiles` as well. The walker takes both ends of what it emits from its stack, so
  the stack must never run empty: it holds at least one scope more than there are "leave"s
  left on the agenda (`Pending`, which is a statement about the order of the calls that
  each handler puts in front of the agenda, on every path through it). What is on it are
  definitions that were emitted, or the file (`Graph`). The phases of `parse::extract` look
  ends up among the definitions, and `Define` begins these anew, so it may not come after
  anything that has left an edge (`Plan`, with `Mid`: nothing that begins a file is to come). `NearestEmitted` goes up the tree, hence definitions must be nodes
  of it (`Located`).
- `ScopesAlwaysFollowTree` and `NamesAlwaysFollowScopes` need besides `IInv` that the walk is
  where its stack says it is (`WInv`, over `Walks`): for each call still on the agenda,
  the stack as it *will* be when its turn comes holds the definitions emitted around its
  node in the tree (`Fits`), which is again a statement about every path through every
  handler, and about the "leave"s between the calls. No node is visited twice: two
  calls are about parts of the tree that do not meet, and nothing was emitted in what is
  to come (`Apart`). What is emitted later is therefore never *around* something that was
  emitted before, and what holds of a definition (`Placed`) or of a call site (`Given`)
  when it is recorded holds to the end.
- The hypotheses are the ASSUMEs of the modules: the cap is at least 1, and trees are
  what a parser hands over (`IsTree`: nodes with a kind, a field and a text; a node
  comes after its parent and has the parent's ancestors above that; tokens have no
  children).
- Most lemmas are about the helpers: what each operator of `SyntaxTree`, `LanguagePacks`,
  `TierOne` and `Receivers` that lists nodes returns is a sequence of them, whatever the
  tree. The inference of receivers, mutually recursive in the code, is a recursive
  function on the nodes of the tree (`Receivers`), so that these lemmas can be stated.

**Only model-checked**, and why:

- `CommandsEnd`, `EveryRunReplies`: liveness under fairness is out of the prover's reach.
- `CallsAreKept`: it says of the walk when it is over that it has been *everywhere* the cap
  allows. `WInv` says where the calls on the agenda are; a proof has to say, in the other
  direction, that every part of the tree that has not been visited is below one of
  them, was passed over by a handler that may, or is below the cap.
- `SingleBindingTyped`: that the map of locals has the type of the one binding rests on
  what the inference does with each form of a binding in each of seven languages. It
  is not true of every tree: a parameter that is bound again, once and without a type,
  keeps the type of the parameter (as in `ExtractShadowed`).

## 10. Findings

Two are runs of PROJECT.json. The others are configurations, of the MC module of the same
name, with which TLC finds the property named violated; each is a history of a few steps.

| Configuration | Property | What it shows |
|---|---|---|
| `GraphSyncCrash` (run) | `NoPartialIndex` | nodes and hashes are committed (`index.rs:378`) before the edges (`index.rs:383`). Killed in between, files count as up to date and have no edges, and no later sync adds them; `writer.rs:136` promises that a partial index never lands on disk |
| `ExtractPointers` | `GoMethodsReachTheirType` | a Go method with a pointer receiver is neither contained in its type nor named by it: `go_receiver_type` (`parse.rs:1882`) hands the text `*Point` to a function that stops at the first character of no identifier; its comment says `(p *Point)` gives `Point` |
| `GraphSyncDirected` | `DependencyDirectedExact` | deleting one of two definitions makes a name unique; a caller whose call had been dropped as ambiguous has no edge, so it is not revisited. `index.rs:241` calls such edits "always exact" |
| `GraphSyncDrift` | `NoEdgeEverStale` | an affected file is read a second time (`index.rs:358`); edited before and edited back after that read, it has the edges of the contents in between under a hash that matches, and no later sync reads it again. `index.rs:211-213` promises a graph equal to that of a fresh index but for missing edges |
| `GraphSyncLanguages` | `CallsStayInLanguage` | a Python import resolves to a Rust file, and a call to the function imported gets an edge into it; `resolve.rs:420` says that the import tier is "already language-consistent" |
| `RegistryTwoAdmins` (run) | `TokensStayAsTold` | `revoke_token` runs on a thread beside the coroutine `create_token`; each rewrites `tokens.json` from its snapshot, and a token is lost or comes back |
| `RegistryUnlisted` | `BundlesAreListed` | a failed write leaves a version that can be downloaded, is not listed (or listed without digest) and cannot be uploaded again |
| `WorkspaceListed` | `ListedIsWhole` | the temporary directory of an extraction lies among the versions and is listed as one, for ever after a kill or a failed rename |
| `ExtractShadowed` | `TypedByLastBinding` | a local that is bound again to something without a type keeps the type it had, and a later binding types the calls before it, so that an edge is made to a method of the wrong type; `docs/arch/adr/adr-004-semgraph-resolution-and-sync.md:211` says that such a call is dropped and that semgraph fabricates none |
| `AgentClaims` | `CheckSetsVerified` | when the checkpoint cannot be read, or checking is disabled, findings go out with the `verified` the model wrote itself; `schemas.py:75` says the flag is set by the server's check, and is None when checking is disabled |
| `ServingEmptied` | `PackedIsComplete` | `graph/` is emptied after it was validated, as an index run does that unlinks the database before it makes a new one: `pack` returns a bundle without a graph (`pack.rs:195-213`) and both readers accept it; `docs/sembundle-spec.md:60` asks for one, and lines 193 and 205 say that an empty directory is not valid |

## 11. Other differences met while modelling

They are neither runs nor configurations, but each is a behaviour of the modules
or an abstraction named there.

Code index and query:
- A row's text begins with the comment above the symbol while `start_line` is
  the symbol's (`build.rs:719`), and readers keep `end - start + 1` lines of it
  (`lance.rs:817`): the last lines of every symbol with a leading comment are
  dropped, although `build.rs:716-718` says lookups are unaffected. For the same
  reason combined code results repeat comment lines between neighbours.
- A symbol of more than one piece is read back as its first piece only.
- A suffix match on the path may return the symbol of another file.
- `docs/design/query-tool-design.md:96` says duplicates keep the maximum of their
  scores; the code sums them. Line 303 speaks of one failed score counting as
  0.0; the code loses the whole batch (`mcp.rs:2428`), and when pass 1 fails every
  hit is 0 and the answer is "No relevant results" (`mcp.rs:2364`).
- Anchoring measures a package by its fused scores, contributions of expansions
  included (`mcp.rs:2199`), while the comment speaks of the original query.
- A member of a combined result that lies within another one is skipped even
  when the enclosing hit shows only a snippet; keys of path and first line
  merge distinct symbols on one line.
- An open LanceDB table is cached under its path for the life of the server
  (`lance.rs:48-92`), also after another process has reinstalled the bundle.

MCP server and bundles:
- `get_context` without a reranker answers with up to twice as many symbols as its
  schema says ("Max symbols to return", `mcp.rs:1443-1473`): `ContextFitsTheLimit`
  is violated under `Serving.cfg`. `search_code` asks for the kind after the limit
  has cut the rows; the limit of `get_callers` counts calls, not callers.
- A local package and a bundle of one name mix: graph from the one, code from the
  other, though `codegraph.rs:6` has nothing cross packages. `packages.json` is
  read once, at the start.
- A reranked `get_context` shows the last node of a name in place of each of its
  overloads. An unknown notification is answered with an error whose id is null.
- `pack` keeps nothing from changing while it reads: a bundle may hold the graph of
  one revision and the code of another. It truncates its output before it writes,
  and a `.sig` of an earlier packing stays beside a new bundle.

Agent server:
- Turns that overlap in a session overwrite each other's checkpoints; a citation is
  verified against all that tools told in the session, while `verify.py:8` and `48` speak
  of what was returned or retrieved during the run.
- Over A2A a clarification's artifact is sent after the final `input_required`; a
  `max_findings` outside 1 to 50 raises outside the `try` (`a2a_executor.py:71-77`)
  and leaves the task "working"; `cancel` sets the status and does not stop the run.
- `list_installed` caches an empty answer after a failure, and first calls race.

Extraction:
- An annotation with a path is typed by its first segment; locals of a nested
  function leak into the callable around it; a Python function in a method is
  named `Class::inner`, one in a Kotlin extension `pkg::m::inner`.
- A tier-3 extension that stands above its type gets no edge from it; comments
  above an attribute are lost; calls outside of functions are no sites in Ruby.

Workspace:
- `sync --reinstall` of a registry or URL dependency that is installed fails with
  AlreadyInstalled; `--group` on a repository dependency promotes it to
  `[dependencies]` (`main.rs:451`); release assets reset the build options of an
  entry; `remove` leaves the lock entry; `get` of several versions depends on the
  order of `read_dir`; a failing `lookup` installs without any digest.

Registry: `sembundle publish` never attaches a signature; `latest` is
lexicographic.

semgraph:
- Imports are retargeted by new headers or by earlier module candidates without
  their importers being revisited (file and import nodes are not among
  `delta_names`), so `NoStaleEdge` is checked and proved for trees where that cannot
  happen (`SoleCandidates`, `HeadersStay`).

## 12. What is not modelled, and why

- Two concurrent `index_roots`: they unlink each other's open database; what
  SQLite does then is a matter of the file system. Two concurrent *syncs* are
  in the specification (`Procs`), and `EndpointsExist` is proved for them; the
  runs use one process, for two of them do duplicate edges.
- Grammars: external; `SyntaxTree` has the operations on trees. What section 6a
  leaves out: signatures, docstrings, flags, decorators, type parameters.
- The download of signatures, keys and signature checks on install: a check that
  fails is a failing step. `download_from_url` has no index to agree with.
- Query: choice and rendering of the window that is shown, the preference for
  longer symbol names, fallbacks without a graph database, a scope that names a
  version among several. `read_docs`.
- Query expansion: `Query` takes any sequence of variants; which lines of a model's
  text become variants is a pure function.
- MCP server: argument parsing, the schemas of tools, rendering; `status` and the
  counts of the graph, which only read.
- Bundles: the form of names and commit hashes, the generation of keys; an archive to which an
  entry was *added* that the checksums do not list (`reader.rs:140-141` passes it over).
- Agent: catalog, passthrough of raw MCP tools, tracing, configuration, prompts, the
  chat page and the command line: no state the modelled parts depend on.
- Embedding models, rerankers, LanceDB, GitHub, grammars, LangGraph: external; the
  modules admit any answer and any failure of theirs where they use them.
- The parity harness compares two databases and is a test tool; release and
  deployment scripts.
