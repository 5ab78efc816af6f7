----------------------------- MODULE SourceIndex -----------------------------
(***************************************************************************)
(* The code index of a bundle: how sembundle cuts the symbols of a source  *)
(* tree into the rows of the table `code` (build.rs), and how sempkg reads *)
(* the source of a symbol back from it (lance.rs, codegraph.rs).           *)
(*                                                                         *)
(* A text is the sequence of the line numbers it consists of.              *)
(***************************************************************************)
EXTENDS Integers, FiniteSets, Sequences

CONSTANTS
  Packages,   \* "name@version" of a bundle, or a local package
  Paths,      \* paths stored in a graph and in an index
  Lines,      \* [Packages -> [Paths -> sequence of kinds of lines]]
  Nodes,      \* [Packages -> set of nodes in codegraph.db]
  HasCode,    \* packages with a code index
  Matching,   \* [Paths -> paths that equal it or end in "/" and it]
  ChunkLines  \* lines of a chunk (8 KiB in the code)

Node == [kind : {"symbol", "import", "file"}, path : Paths,
         start : Nat \ {0}, end : Nat \ {0},
         name : STRING, symbol : STRING]  \* symbol: the qualified name

ASSUME LinesHaveKinds ==
  Lines \in [Packages -> [Paths -> Seq({"code", "comment", "blank"})]]
ASSUME NodesAreInTheirFiles ==
  \A p \in Packages : \A n \in Nodes[p] :
    n \in Node /\ n.start <= n.end /\ n.end <= Len(Lines[p][n.path])
ASSUME PathsMatchThemselves ==
  Matching \in [Paths -> SUBSET Paths] /\ \A f \in Paths : f \in Matching[f]
ASSUME CodeIsOfPackages == HasCode \subseteq Packages
ASSUME ChunksAreNotEmpty == ChunkLines \in Nat \ {0}

Least(S) == CHOOSE x \in S : \A y \in S : x <= y
Greatest(S) == CHOOSE x \in S : \A y \in S : y <= x
From(lo, hi) == [i \in 1 .. hi - lo + 1 |-> lo + i - 1]
Prefix(text, n) == SubSeq(text, 1, IF n < Len(text) THEN n ELSE Len(text))

\* The first line of the comment above line s, which one blank line may part.
LeadingComment(kinds, s) ==
  LET last == IF s > 1 /\ kinds[s - 1] = "blank" THEN s - 2 ELSE s - 1
  IN  Least({s} \cup {f \in 1 .. last : \A i \in f .. last : kinds[i] = "comment"})

\* The last line of the comment right below line e.
TrailingComment(kinds, e) ==
  Greatest({e} \cup {l \in e + 1 .. Len(kinds) : \A i \in e + 1 .. l : kinds[i] = "comment"})

Body(p, n) == From(LeadingComment(Lines[p][n.path], n.start),
                   TrailingComment(Lines[p][n.path], n.end))

\* A row has the lines of the symbol, and the text with the comments around it;
\* a long text is cut, and its pieces have the lines of the whole symbol.
Piece(text, i) == SubSeq(text, i * ChunkLines + 1,
                         IF Len(text) < (i + 1) * ChunkLines THEN Len(text)
                         ELSE (i + 1) * ChunkLines)
RowsOf(p, n) ==
  {[path |-> n.path, start |-> n.start, end |-> n.end, symbol |-> n.symbol,
    piece |-> i, text |-> Piece(Body(p, n), i)] :
      i \in 0 .. (Len(Body(p, n)) - 1) \div ChunkLines}
CodeTable(p) ==
  IF p \notin HasCode THEN {}
  ELSE UNION {RowsOf(p, n) : n \in {m \in Nodes[p] : m.kind = "symbol"}}
-----------------------------------------------------------------------------
\* The tightest nodes around a line: db_query_at_location returns one of them.
NodesAt(p, file, line) ==
  LET around == {n \in Nodes[p] : n.path \in Matching[file] /\ n.start <= line /\ line <= n.end}
  IN  {n \in around : \A m \in around : n.end - n.start <= m.end - m.start}

\* slice_content_to_range: the row starts where the node does.
Sliced(row, n) == Prefix(row.text, n.end - n.start + 1)

\* fetch_from_code_table: the first row that starts at the node's line. The
\* pieces of a symbol are stored in order, files in any order.
TextsOf(p, n) ==
  {Sliced(r, n) : r \in {s \in CodeTable(p) : s.path \in Matching[n.path]
                                              /\ s.start = n.start /\ s.piece = 0}}

\* fetch_symbol_at_location and fetch_symbol_source: the texts they may return,
\* none when no row is found or the name is not unique. What no node is called
\* the code searches for in the table, whose rows have the names of the nodes:
\* it can find a piece of a cut symbol by its number, which is left out here,
\* as is a bundle without a graph (see Server).
FetchAt(p, file, line) == UNION {TextsOf(p, n) : n \in NodesAt(p, file, line)}
FetchNamed(p, symbol) ==
  LET named == {n \in Nodes[p] : symbol \in {n.symbol, n.name}}
  IN  IF Cardinality(named) = 1 THEN UNION {TextsOf(p, n) : n \in named} ELSE {}
=============================================================================
