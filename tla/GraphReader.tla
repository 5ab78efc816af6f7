---------------------------- MODULE GraphReader ----------------------------
(***************************************************************************)
(* What sempkg reads from a graph database (semgraph's GraphDb in lib.rs   *)
(* and sempkg's adapter graph.rs): search, callers and callees, impact,    *)
(* context and the list of files, as operators on one graph.               *)
(*                                                                         *)
(* A graph has `nodes`, a function from ids to records, and `edges`, a set *)
(* of records.  A text that is searched for is a word; which words the     *)
(* full-text index has for a node is the field `words`, and `Inside` says  *)
(* which words have which within them, as LIKE sees it.  Ids are numbered  *)
(* in the order of the qualified names, files in the order of their paths. *)
(***************************************************************************)
EXTENDS Loops, Sequences, SequencesExt, FiniteSetsExt

CONSTANTS
    Inside,         \* pairs <<w, v>>: the text w is within the word v
    ImpactLimit,    \* IMPACT_LIMIT: 500 in the code
    MaxTokens       \* MAX_TOKENS: 10 in the code

ASSUME ReaderAssumption ==
    ImpactLimit \in Nat \ {0} /\ MaxTokens \in Nat \ {0}

MaxHop == 2                       \* MAX_HOP
AtLeastOne(n) == IF n = 0 THEN 1 ELSE n          \* limit.max(1)
Lesser(a, b) == IF a < b THEN a ELSE b

\* The sets that `LIMIT n` may leave of S, when an order outside decides.
SomeOf(S, n) == kSubset(Lesser(Cardinality(S), AtLeastOne(n)), S)
\* The first n of a sequence.
FirstOf(s, n) == SubSeq(s, 1, Lesser(Len(s), AtLeastOne(n)))

-----------------------------------------------------------------------------
(* Symbols by name                                                         *)

Ids(g) == DOMAIN g.nodes
IsGraph(g) ==
    /\ IsFiniteSet(Ids(g)) /\ Ids(g) \subseteq Nat
    /\ \A id \in Ids(g) : /\ g.nodes[id].path \in Nat
                          /\ g.nodes[id].start \in Nat /\ g.nodes[id].end \in Nat
    /\ IsFiniteSet(g.edges)
    /\ g.edges \subseteq [source : Ids(g), target : Ids(g), kind : STRING, line : Nat]
Named(g, id, symbol) ==
    g.nodes[id].qualified = symbol \/ g.nodes[id].name = symbol
ResolveIds(g, symbol) == {id \in Ids(g) : Named(g, id, symbol)}

OfKind(g, id, kind) == kind \in {"any", g.nodes[id].kind}
Tokens(g, text) == {id \in Ids(g) : text \in g.nodes[id].words}
Like(g, text) ==
    {id \in Ids(g) : \E w \in {g.nodes[id].name, g.nodes[id].qualified} :
        w = text \/ <<text, w>> \in Inside}
Size(g, id) == g.nodes[id].end - g.nodes[id].start

(* The sets of nodes a search may answer with: by the full-text index,     *)
(* whose rank decides what the limit cuts, or else by substring, tightest  *)
(* definitions first.                                                      *)
QueryFts(g, text, kind) == {id \in Tokens(g, text) : OfKind(g, id, kind)}
QueryLike(g, text, kind, limit) ==
    LET found == {id \in Like(g, text) : OfKind(g, id, kind)}
        Tighter(a, b) == \/ Size(g, a) < Size(g, b)
                         \/ Size(g, a) = Size(g, b) /\ a < b
    IN  ToSet(FirstOf(InOrder(found, Tighter), limit))
Query(g, text, kind, limit) ==
    IF text = "" THEN {{}}
    ELSE IF QueryFts(g, text, kind) # {}
         THEN SomeOf(QueryFts(g, text, kind), limit)
         ELSE {QueryLike(g, text, kind, limit)}

-----------------------------------------------------------------------------
(* Callers and callees                                                     *)

InFileOrder(g, a, b) ==
    \/ g.nodes[a].path < g.nodes[b].path
    \/ g.nodes[a].path = g.nodes[b].path /\ g.nodes[a].start < g.nodes[b].start
    \/ /\ g.nodes[a].path = g.nodes[b].path
       /\ g.nodes[a].start = g.nodes[b].start /\ a < b

(* An edge has an end that is asked about and an end that is answered.     *)
Pinned(e, direction) == IF direction = "callers" THEN e.target ELSE e.source
Hydrated(e, direction) == IF direction = "callers" THEN e.source ELSE e.target
(* The rows of a query for callers: one for each call, and the limit is on *)
(* the rows.                                                               *)
CallRows(g, symbol, direction) ==
    {e \in g.edges : /\ e.kind = "calls"
                     /\ Pinned(e, direction) \in ResolveIds(g, symbol)
                     /\ Hydrated(e, direction) \in Ids(g)}
RowBefore(g, direction, d, e) ==
    LET there == Hydrated(d, direction)
        here == Hydrated(e, direction)
        pin == Pinned(d, direction)
    IN  \/ InFileOrder(g, there, here)
        \/ there = here /\ pin < Pinned(e, direction)
        \/ there = here /\ pin = Pinned(e, direction) /\ d.line < e.line
CallEdges(g, symbol, direction, limit) ==
    FirstOf(InOrder(CallRows(g, symbol, direction),
                    LAMBDA d, e : RowBefore(g, direction, d, e)), limit)

\* The node of each row, where it comes first.
Distinct(rows, direction) ==
    LET Node(i) == Hydrated(rows[i], direction)
        first == Places({i \in DOMAIN rows : \A j \in 1 .. i - 1 : Node(j) # Node(i)})
    IN  [r \in DOMAIN first |-> Node(first[r])]
CallNodes(g, symbol, direction, limit) ==
    Distinct(CallEdges(g, symbol, direction, limit), direction)
Callers(g, symbol, limit) == CallNodes(g, symbol, "callers", limit)
Callees(g, symbol, limit) == CallNodes(g, symbol, "callees", limit)

-----------------------------------------------------------------------------
(* Impact: the recursive query over the edges backwards                    *)

Depends(g, id, on) ==
    \E e \in g.edges : /\ e.kind \in {"calls", "references", "imports"}
                       /\ e.source = id /\ e.target = on
(* The rows (id, depth) of the recursive query.                            *)
RowsAtDepth(g, symbol, depth) ==
    Loop(depth, ResolveIds(g, symbol),
         LAMBDA rows, d : {id \in Ids(g) : \E t \in rows : Depends(g, id, t)})
\* Mutant of Reached: the rows of the last depth only.
ReachedLast(g, symbol, depth) == RowsAtDepth(g, symbol, depth)
Reached(g, symbol, depth) == UNION {RowsAtDepth(g, symbol, d) : d \in 0 .. depth}
Impact(g, symbol, depth) ==
    LET found == {id \in Reached(g, symbol, depth) : ~ Named(g, id, symbol)}
    IN  FirstOf(InOrder(found, LAMBDA a, b : InFileOrder(g, a, b)),
                ImpactLimit)

-----------------------------------------------------------------------------
(* Context: seeds by the words of a task, and what is near them            *)

(* A task has its text and the sequence of its significant words, no word  *)
(* twice.                                                                  *)
SignificantTokens(task) ==
    SubSeq(task.words, 1, Lesser(Len(task.words), MaxTokens))
AnyToken(g, task) ==
    UNION {Tokens(g, w) : w \in ToSet(SignificantTokens(task))}
AnyLike(g, task) == UNION {Like(g, w) : w \in ToSet(SignificantTokens(task))}
(* The sets of seeds there may be: what the limit cuts is decided by the   *)
(* rank, or among the substring matches by the size alone.                 *)
Tightest(g, S, n) ==
    {T \in SomeOf(S, n) : \A a \in T, b \in S \ T : Size(g, a) <= Size(g, b)}
ContextSeeds(g, task, cap) ==
    IF task.words = <<>> THEN Query(g, task.text, "any", cap)
    ELSE IF AnyToken(g, task) # {} THEN SomeOf(AnyToken(g, task), cap)
    ELSE Tightest(g, AnyLike(g, task), cap)

Touches(e, S) == e.source \in S \/ e.target \in S
NeighborIds(g, frontier) ==
    UNION {{e.source, e.target} : e \in
        {d \in g.edges : /\ d.kind \in {"calls", "references", "contains", "imports"}
                         /\ Touches(d, frontier)}}

(* One round of the search: the neighbours of the frontier that are new,   *)
(* in the order of their ids, until the budget is used up.                 *)
Admitted(g, hop, frontier, cap) ==
    LET new == InOrder(NeighborIds(g, frontier) \ DOMAIN hop, <)
        room == cap - Cardinality(DOMAIN hop)
    IN  ToSet(SubSeq(new, 1, Lesser(Len(new), room)))
Hops(g, seeds, cap) ==
    LET zero == [id \in seeds |-> 0]
        first == Admitted(g, zero, seeds, cap)
        one == [id \in seeds \cup first |-> IF id \in seeds THEN 0 ELSE 1]
        second == Admitted(g, one, first, cap)
    IN  [id \in DOMAIN one \cup second |->
            IF id \in DOMAIN one THEN one[id] ELSE MaxHop]

KindWeight(kind) ==
    CASE kind \in {"function", "method"} -> 3
      [] kind \in {"class", "struct", "enum"} -> 2
      [] OTHER -> 1
(* The nodes by distance, then weight, then name.                          *)
ContextOf(g, seeds, cap) ==
    LET hop == Hops(g, seeds, cap)
        Weight(id) == KindWeight(g.nodes[id].kind)
        Nearer(a, b) == \/ hop[a] < hop[b]
                        \/ hop[a] = hop[b] /\ Weight(a) > Weight(b)
                        \/ hop[a] = hop[b] /\ Weight(a) = Weight(b) /\ a < b
        order == InOrder(DOMAIN hop \cap Ids(g), Nearer)
    IN  SubSeq(order, 1, Lesser(Len(order), cap))

-----------------------------------------------------------------------------
(* The files                                                               *)

FilePaths(g) == {g.nodes[id].path : id \in Ids(g)}
Files(g, matching, limit) ==
    LET found == InOrder(FilePaths(g) \cap matching, <)
    IN  SubSeq(found, 1, Lesser(Len(found), limit))

-----------------------------------------------------------------------------
(* What the answers are meant to be, by paths through the graph            *)

(* There is a path of at most n steps of Step from a to b.                 *)
Path(S, Step(_, _), a, b, n) ==
    \E k \in 0 .. n : \E p \in [0 .. k -> S] :
        p[0] = a /\ p[k] = b /\ \A i \in 1 .. k : Step(p[i - 1], p[i])
Near(g, a, b, n) ==
    Path(Ids(g), LAMBDA x, y : y \in NeighborIds(g, {x}), a, b, n)
Dependents(g, symbol, depth) ==
    {id \in Ids(g) : /\ ~ Named(g, id, symbol)
                     /\ \E t \in ResolveIds(g, symbol) :
                            Path(Ids(g), LAMBDA x, y : Depends(g, x, y), id, t, depth)}
=============================================================================
