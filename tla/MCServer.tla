------------------------------ MODULE MCServer ------------------------------
(* Instances of Server.  A behaviour is about packing and faults, about    *)
(* bundles that are installed again while they are read or were packed     *)
(* without a graph, or about the readers over every graph of a family.     *)
EXTENDS Server

Node(name, qualified, kind, path, start, end) ==
    [name |-> name, qualified |-> qualified, kind |-> kind, path |-> path,
     start |-> start, end |-> end,
     words |-> {name} \cup IF qualified = name THEN {} ELSE {qualified, "A"}]
MCNodes ==
    <<Node("A", "A", "class", 1, 1, 9), Node("run", "A::run", "method", 1, 2, 4),
      Node("run", "B::run", "method", 2, 1, 3), Node("help", "help", "function", 2, 5, 9),
      Node("main", "main", "function", 3, 1, 6)>>
Edge(s, t, k, l) == [source |-> s, target |-> t, kind |-> k, line |-> l]
MCPool == {Edge(5, 2, "calls", 2), Edge(5, 2, "calls", 3), Edge(2, 4, "calls", 3),
           Edge(4, 3, "calls", 6), Edge(3, 5, "references", 2), Edge(1, 2, "contains", 0),
           Edge(4, 1, "imports", 5)}
MCGraph(edges) == [nodes |-> MCNodes, edges |-> edges]
\* The first revision has two symbols on the line of `help`, the second has it
\* further down and a call less.
MCGraphs ==
    <<[nodes |-> Append(MCNodes, Node("go", "go", "function", 2, 5, 5)), edges |-> MCPool],
      [nodes |-> [MCNodes EXCEPT ![4].start = 7, ![3].end = 5],
       edges |-> MCPool \ {Edge(5, 2, "calls", 3)}],
      [nodes |-> <<Node("help", "help", "function", 2, 5, 6), MCNodes[5]>>,
       edges |-> {Edge(2, 1, "calls", 1)}]>>
MCDocs == <<{1, 2}, {2, 3}, {4}>>
MCOthers ==
    [n \in {"q"} |->
       [kind |-> "bundle", manifest |-> [extensions |-> {"code"}],
        files |-> [f \in {"graph/", "code/code.lance", "code/metadata.json"} |-> Text(3, 0)]]]
MCInside == {<<"un", "run">>, <<"un", "A::run">>, <<"un", "B::run">>, <<"e", "help">>}

Call(tool, package) == [tool |-> tool, package |-> package]
Symbols == {"run", "A::run", "help", "main"}
Task(text, words) == [text |-> text, words |-> words]
MCReads(package) ==
    {Call("search_symbols", package)
        @@ [text |-> t, filter |-> k, limit |-> 2] :
          t \in {"", "run", "A", "un"}, k \in {"any", "method"}}
    \cup {Call(c, package) @@ [text |-> s, limit |-> n] :
          c \in {"get_callers", "get_callees"}, s \in {"run", "help"}, n \in {1, 3}}
    \cup {Call("get_impact", package) @@ [text |-> s, depth |-> d] :
          s \in Symbols, d \in 0 .. 3}
    \cup {Call("get_context", package) @@ [task |-> t, limit |-> n] :
          t \in {Task("main", <<"main">>), Task("runs", <<"run", "zz">>),
                 Task("un", <<"un">>), Task("do help", <<>>)}, n \in {1, 2}}
    \cup {Call("list_files", package) @@ [matching |-> {1, 3}, limit |-> 1]}
MCInlined ==
    {Call("get_callers", "p") @@ [text |-> "run", limit |-> 3],
     Call("get_callers", "q") @@ [text |-> "help", limit |-> 3],
     Call("read_symbol", "p") @@ [text |-> "help"],
     Call("read_code", "p") @@ [path |-> 2, line |-> 8],
     Call("search_code", "p") @@ [text |-> "run", filter |-> "method", limit |-> 1],
     Call("search_docs", "p") @@ [text |-> "run", limit |-> 1],
     Call("docs_metadata", "p"), Call("list_packages", "")}
\* Also asked while the bundle has no graph or one of another revision.
MCUngraphed ==
    {Call("get_callers", "p") @@ [text |-> "run", limit |-> 3],
     Call("read_symbol", "p") @@ [text |-> "help"],
     Call("read_code", "p") @@ [path |-> 2, line |-> 8]}

Plan(n, extensions, rewritten, f, keys, menu, locals, settled, project, reranker) ==
    [packs |-> n, extensions |-> extensions, rewritten |-> rewritten, faults |-> f,
     keys |-> keys, menu |-> menu, locals |-> locals, settled |-> settled,
     project |-> project, reranker |-> reranker]
Code == {"code/code.lance"}
MCPlans ==
    {Plan(2, {{"code"}, {"lance"}}, Code, 1, BOOLEAN, {}, {}, {}, None, FALSE),
     Plan(2, {{"code"}}, Code, 0, {FALSE}, MCInlined, {}, {}, None, FALSE),
     Plan(1, {{"code"}}, {"graph/"}, 0, {FALSE}, MCUngraphed, {}, {}, None, FALSE),
     Plan(1, {{"lance"}}, Code, 0, {FALSE},
          {Call("search_docs", "p") @@ [text |-> "run", limit |-> 1],
           Call("docs_metadata", "p")}, {"l"}, {}, None, FALSE)}
    \cup {Plan(0, {}, {}, 0, {FALSE}, MCReads("l"), {}, {"l"}, MCGraph(edges), FALSE) :
             edges \in SUBSET (MCPool \ {Edge(5, 2, "calls", 3)})}
    \cup {Plan(0, {}, {}, 0, {FALSE}, MCReads("l"), {}, {"l"}, MCGraph(MCPool), ranked) :
             ranked \in BOOLEAN}
=============================================================================
