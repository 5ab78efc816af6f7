------------------------------- MODULE MCQuery -------------------------------
(***************************************************************************)
(* A bundle A with code, graph and documentation, and a package B with     *)
(* documentation only.                                                     *)
(***************************************************************************)
EXTENDS Query

MCPackages == {"A", "B"}
MCPaths == {"a.rs", "lib/a.rs", "guide.md"}
MCMatching == [f \in MCPaths |-> IF f = "a.rs" THEN {"a.rs", "lib/a.rs"} ELSE {f}]

\* Neighbours with a comment between them, and a function further down.
KindOfLine(f, i) ==
  IF f = "a.rs" /\ i = 5 THEN "comment"
  ELSE IF f = "a.rs" /\ i \in 9 .. 12 THEN "blank" ELSE "code"
MCLines == [p \in MCPackages |-> [f \in MCPaths |-> [i \in 1 .. 14 |-> KindOfLine(f, i)]]]

Sym(kind, path, start, end, name, symbol) ==
  [kind |-> kind, path |-> path, start |-> start, end |-> end, name |-> name, symbol |-> symbol]
MCNodes ==
  [p \in MCPackages |->
    IF p = "B" THEN {}
    ELSE {Sym("file", "a.rs", 1, 14, "a.rs", "a.rs"), Sym("import", "a.rs", 1, 1, "io", "io"),
          Sym("symbol", "a.rs", 2, 4, "f", "A::f"), Sym("symbol", "a.rs", 6, 8, "g", "g"),
          Sym("symbol", "a.rs", 13, 14, "h", "h"),
          Sym("symbol", "lib/a.rs", 13, 13, "f", "k::f")}]

RowAt(start) == CHOOSE r \in CodeTable("A") : r.path = "a.rs" /\ r.start = start
NodeRow(start) == LET n == CHOOSE n \in Nodes["A"] : n.path = "a.rs" /\ n.start = start
                  IN  [path |-> n.path, start |-> n.start, end |-> n.end,
                       symbol |-> n.symbol, piece |-> 0, text |-> << >>]
Chunk(start, end) == [path |-> "guide.md", start |-> start, end |-> end, symbol |-> "",
                      piece |-> 0, text |-> From(start, end)]

Source(package, origin, how) == [package |-> package, origin |-> origin, how |-> how]
MCSources == << Source("A", "code", "lex"), Source("A", "code", "vec"),
                Source("A", "docs", "lex"), Source("A", "codegraph", "lex"),
                Source("B", "docs", "lex") >>
MCFound ==
  << {<<RowAt(2), RowAt(6)>>, <<RowAt(13)>>},
     {<<RowAt(6), RowAt(2), RowAt(13)>>},
     {<<Chunk(3, 5), Chunk(1, 3), Chunk(8, 9)>>},
     {<<NodeRow(2), NodeRow(1)>>},
     {<<Chunk(1, 3), Chunk(8, 9)>>} >>

MCSettings ==
  {[additive |-> a, anchoring |-> a, reranker |-> r, combine |-> TRUE, limit |-> 2] :
     a \in BOOLEAN, r \in BOOLEAN}
MCVariants == {<< >>, <<"lex">>, <<"vec">>}
MCScopes == {MCPackages, {"B"}}
=============================================================================
