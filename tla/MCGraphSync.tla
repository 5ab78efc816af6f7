----------------------------- MODULE MCGraphSync -----------------------------
(***************************************************************************)
(* Small source trees for TLC: Python files alone, and Python, Rust and C  *)
(* files that define the same names, where an import from Python may mean  *)
(* the Rust file and the C file includes a header.                         *)
(***************************************************************************)
EXTENDS GraphSync

Def(kind, name, pos) == [kind |-> kind, name |-> name, owner |-> NoName,
                         returns |-> NoName, element |-> NoName, pos |-> pos]
Listing(d, type) == [d EXCEPT !.element = type]
Returning(d, type) == [d EXCEPT !.returns = type]
Member(type, d) == [d EXCEPT !.owner = type]
Site(in, ask, name, recv, at) ==
    [in |-> in, ask |-> ask, name |-> name, recv |-> recv, at |-> at]

Receiver(how, of, name) ==
    [base |-> [how |-> how, of |-> of, name |-> name], calls |-> << >>, each |-> {}]
NoReceiver    == Receiver("none", NoName, NoName)
OfType(t)     == Receiver("type", NoName, t)
ResultOf(f)   == Receiver("bare", NoName, f)
Calling(r, m) == [r EXCEPT !.calls = Append(@, m)]
EachOf(r)     == [r EXCEPT !.each = @ \cup {Len(r.calls)}]

Main == Def("function", "main", 2)
Imports(m) == Def("import", m, 1)
ImportSite(m) == Site(FileDef, "import", m, NoReceiver, 1)
Text(defs, sites) ==
    [defs |-> defs, sites |-> sites,
     tree |-> {[parent |-> FileDef, child |-> d] : d \in {x \in defs : x.owner = NoName}}
              \cup {t \in [parent : defs, child : defs] : t.parent.name = t.child.owner}]

MCSource ==
    [ empty    |-> Text({}, {}),
      \* def main(): foo(), on another line than below
      caller   |-> Text({Main}, {Site(Main, "call", "foo", NoReceiver, 4)}),
      \* from shapes import foo; def main(): foo()
      importer |-> Text({Imports("shapes"), Main},
                        {ImportSite("shapes"), Site(Main, "call", "foo", NoReceiver, 3)}),
      foo      |-> Text({Def("function", "foo", 1)}, {}),
      \* the same function one line further down: another node id
      fooMoved |-> Text({Def("function", "foo", 2)}, {}),
      fooClass |-> Text({Def("class", "foo", 1)}, {}),
      \* x: T = make(); make().run(); make().run().run()
      \* for y in make(): y.run()
      chain    |-> Text({Main},
                        {Site(Main, "call", "make", NoReceiver, 3),
                         Site(Main, "method", "run", ResultOf("make"), 4),
                         Site(Main, "method", "run", Calling(ResultOf("make"), "run"), 5),
                         Site(Main, "method", "run", EachOf(ResultOf("make")), 6),
                         Site(Main, "type", "T", NoReceiver, 3)}),
      makeT    |-> Text({Returning(Def("function", "make", 1), "T")}, {}),
      \* def make() -> list[U]
      makeUs   |-> Text({Listing(Def("function", "make", 1), "U")}, {}),
      runT     |-> Text({Def("class", "T", 1),
                         Member("T", Returning(Def("method", "run", 2), "T"))}, {}),
      \* class U(T): def run(self): T::run()
      runU     |-> Text({Def("class", "U", 1), Member("U", Def("method", "run", 2))},
                        {Site(Def("class", "U", 1), "inherit", "T", NoReceiver, 1),
                         Site(Member("U", Def("method", "run", 2)), "qualified", "run",
                              OfType("T"), 3)}),
      \* #include "util.h"
      includer |-> Text({Imports("util.h"), Main},
                        {ImportSite("util.h"), Site(Main, "call", "foo", NoReceiver, 3)}) ]

NameContents == {"empty", "caller", "importer", "foo", "fooMoved", "fooClass"}
MixedContents == {"empty", "importer", "foo", "chain", "makeT", "makeUs", "runT", "runU",
                  "includer"}
DirectedContents == {"empty", "caller", "importer", "foo"}

PyFiles == {"app/main.py", "app/shapes.py", "lib/geom.py"}
CFiles == {"main.c", "util.h"}
MixedFiles == {"main.py", "geom.py", "kinds.py", "shapes.rs"} \cup CFiles
DirectedFiles == {"main.py", "user.py", "shapes.py", "geom.py"}
AllFiles == PyFiles \cup CFiles \cup MixedFiles \cup DirectedFiles

Suffix == [f \in AllFiles |->
              IF f \in CFiles THEN "c" ELSE IF f = "shapes.rs" THEN "rust" ELSE "python"]
Parent == [f \in AllFiles |-> IF f \in {"app/main.py", "app/shapes.py"} THEN "app"
                              ELSE IF f = "lib/geom.py" THEN "lib" ELSE ""]
Order == [f \in AllFiles |->
    CASE f = "app/main.py" -> 1 [] f = "app/shapes.py" -> 2 [] f = "lib/geom.py" -> 3
      [] f = "geom.py" -> 4 [] f = "kinds.py" -> 5 [] f = "main.c" -> 6
      [] f = "main.py" -> 7 [] f = "shapes.py" -> 8 [] f = "shapes.rs" -> 9
      [] f = "user.py" -> 10 [] f = "util.h" -> 11]

\* resolve_module_to_file tries <dir>/<module>.rs before <dir>/<module>.py.
Modules == [f \in AllFiles |-> [m \in {"shapes", "util.h"} |->
    IF m = "util.h" THEN << >>
    ELSE IF Parent[f] = "app" THEN <<"app/shapes.py">>
    ELSE IF Parent[f] = "" THEN <<"shapes.rs", "shapes.py">> ELSE << >>]]
Includes == [f \in AllFiles |-> [h \in {"util.h"} |->
                IF Parent[f] = "" THEN {"util.h"} ELSE {}]]
Basenames == [h \in {"util.h"} |-> {"util.h"}]

\* Calls by name: a caller that may import one of two competing definitions.
NameChoices ==
    [f \in PyFiles |->
        CASE f = "app/main.py"   -> {"caller", "importer"}
          [] f = "app/shapes.py" -> {Absent, "foo", "fooMoved", "fooClass"}
          [] f = "lib/geom.py"   -> {Absent, "empty", "foo"}]

\* Calls through a return type and inheritance, where the edge depends on a
\* signature elsewhere, among three languages that define the same names, and
\* a C file that includes a header.
MixedChoices ==
    [f \in MixedFiles |->
        CASE f = "main.py"   -> {"importer", "chain", "runU"}
          [] f = "geom.py"   -> {Absent, "foo", "makeT", "makeUs"}
          [] f = "kinds.py"  -> {Absent, "runT", "runU"}
          [] f = "shapes.rs" -> {Absent, "foo"}
          [] f = "main.c"    -> {"includer"}
          [] f = "util.h"    -> {"empty", "foo"}]

\* Two definitions of foo; user.py imports one, main.py cannot tell them apart.
DirectedChoices ==
    [f \in DirectedFiles |->
        CASE f = "main.py"   -> {"caller"}
          [] f = "user.py"   -> {"importer"}
          [] f = "shapes.py" -> {Absent, "foo"}
          [] f = "geom.py"   -> {"foo"}]

\* The trees are such that names decide what a reference means, and a reference
\* can be told by its place.
ASSUME TreesDecideByName == NamesDecide
ASSUME TreesTellSitesApart == OneEdgePerSite
=============================================================================
