------------------------------- MODULE Walker -------------------------------
(***************************************************************************)
(* The shared extractor of the six tier-3 languages (tier3/mod.rs): a      *)
(* recursive visitor over the syntax tree that emits definitions, contains *)
(* edges and reference sites.  The recursion is the agenda: one step does  *)
(* one call of visit or visit_body and pushes the calls that one makes.    *)
(***************************************************************************)
EXTENDS LanguagePacks

CONSTANT MaxDepth       \* MAX_DEPTH

ASSUME DepthAssumption == MaxDepth \in Nat \ {0}

VARIABLES source,       \* the file that is extracted: a language, a tree, a state
          agenda,       \* calls still to make, the next one first
          stack,        \* scopes: the file, then the definitions entered
          nodes, edges, sites,
          depth, hit    \* nested descents; max_depth_hit

vars == <<source, agenda, stack, nodes, edges, sites, depth, hit>>

Tree == source.tree
Lang == source.lang
Pack == Packs[Lang]
Root == 1

File == [kind |-> "file", qn |-> << >>, at |-> NoNode]
Bare == [vis |-> "none", docs |-> << >>]

\* Mutant of TopId: calls and definitions go to the type around, past the callable.
TopIdType ==
    LET types == SelectSeq(stack, LAMBDA s : s.id.kind \in ClassLike \cup {"file"})
    IN  types[Len(types)].id
TopId == stack[Len(stack)].id
InsideClassLike == TopId.kind \in ClassLike
\* Mutant of QualifiedName: the innermost scope alone qualifies.
QualifiedNameInner(name) == stack[Len(stack)].name \o name
QualifiedName(name) == FlattenSeq([i \in DOMAIN stack |-> stack[i].name]) \o name

\* The run of comments immediately above a node.
Docstring(n) ==
    LET above == SelectSeq(Children(Tree, Up(Tree, n)), LAMBDA c : c < n)
        code  == SelectSeq(above, LAMBDA c : Kind(Tree, c) \notin
                     {"comment", "line_comment", "block_comment", "documentation_comment"})
    IN  SelectSeq(above, LAMBDA c : c > LastOf(code))

Props(n) == [vis |-> Visibility(Tree, n, Lang), docs |-> Docstring(n)]

\* owner_type_id: the first type of that name among the nodes emitted so far.
OwnerType(name) ==
    Those(nodes, {r \in SomeOf(nodes) :
                     r.name = name /\ r.id.kind \in {"struct", "class", "enum", "trait"}})

-----------------------------------------------------------------------------
(***************************************************************************)
(* The parts that handlers are put together from.                          *)
(***************************************************************************)
Call(do, n) == [do |-> do, at |-> n]
Calls(do, ns) == [i \in DOMAIN ns |-> Call(do, ns[i])]
Leave == Call("leave", NoNode)

NewId(kind, name, n) == [kind |-> kind, qn |-> QualifiedName(name), at |-> n]
Record(id, name, props) == [id |-> id, name |-> name, vis |-> props.vis, docs |-> props.docs]
SiteAt(from, n, ask) == [from |-> from, at |-> n, ask |-> ask, to |-> {}]

\* create_node: nothing for an empty name.
Emits(new) ==
    /\ nodes' = nodes \o new
    /\ edges' = edges \o [i \in DOMAIN new |-> <<TopId, new[i].id>>]
EmitsNothing == UNCHANGED <<nodes, edges>>

Some(kind, name, n, props) ==
    IF name = NoText THEN << >> ELSE <<Record(NewId(kind, name, n), name, props)>>
Each(kind, ns, name(_), props) ==
    FlattenSeq([i \in DOMAIN ns |-> Some(kind, name(ns[i]), ns[i], props)])

\* descend, descend_body: the named children, unless the cap is reached.
Descends(do, n, after) ==
    IF n = NoNode \/ depth >= MaxDepth
    THEN /\ agenda' = after \o Tail(agenda)
         /\ hit' = (hit \/ n # NoNode)
         /\ UNCHANGED depth
    ELSE /\ agenda' = Calls(do, Children(Tree, n)) \o <<Call("ascend", n)>> \o after \o Tail(agenda)
         /\ depth' = depth + 1
         /\ UNCHANGED hit
Returns == /\ agenda' = Tail(agenda)
           /\ UNCHANGED <<depth, hit>>

Enters(id, name) == stack' = Append(stack, [id |-> id, name |-> name])

\* collect_inheritance, collect_type_refs.
HeritageSites(id, n) ==
    LET all == PackHeritage(Tree, n, Lang)
    IN  [i \in DOMAIN all |-> SiteAt(id, all[i].at, Ask(all[i].edge, NoText, all[i].name))]
TypeRefSites(id, n) ==
    LET all == PackTypeRefs(Tree, n, Lang)
    IN  [i \in DOMAIN all |-> SiteAt(id, all[i].at, Ask("type", NoText, all[i].name))]
CallSites(n, ask) == IF ask = NoSite THEN << >> ELSE <<SiteAt(TopId, n, ask)>>

-----------------------------------------------------------------------------
(***************************************************************************)
(* Dispatch.  The first role that the node's kind has in the language.     *)
(***************************************************************************)
HookKinds ==
    CASE Lang = "ruby"  -> {"module"}
      [] Lang = "php"   -> {"const_declaration"}
      [] Lang = "scala" -> {"val_definition", "var_definition", "enum_case_definitions",
                            "extension_definition"}
      [] OTHER          -> {}

VisitOrder == <<"function", "class", "extraClass", "method", "interface", "struct", "enum",
                "alias", "property", "field", "variable", "import", "call", "new">>
BodyOrder  == <<"call", "new", "function", "class", "struct", "enum", "interface">>

Role(order, n) ==
    LET mine == Those(order, {r \in SomeOf(order) :
                    /\ Kind(Tree, n) \in Pack[r]
                    /\ r \in {"property", "field"} => InsideClassLike
                    /\ r = "variable" => ~InsideClassLike})
    IN  IF mine = << >> THEN "other" ELSE Head(mine)

At == Head(agenda).at
Doing(do) == agenda # << >> /\ Head(agenda).do = do
Visiting(role) ==
    /\ Doing("visit") /\ Kind(Tree, At) \notin HookKinds /\ Role(VisitOrder, At) = role
InBody(role) == Doing("body") /\ Role(BodyOrder, At) = role
Hooked(kinds) == Doing("visit") /\ Kind(Tree, At) \in HookKinds \cap kinds

Name == ExtractName(Tree, At, Lang)
Body == BodyOf(Tree, At, Lang)
ClassKind == Classify(Tree, At, Lang)

-----------------------------------------------------------------------------
(***************************************************************************)
(* extract_function and extract_method, which call each other: a callable  *)
(* is a method if it extends a receiver type, or is a method's kind inside *)
(* a type.                                                                 *)
(***************************************************************************)
AsMethod ==
    \/ Visiting("method")
    \/ Visiting("function") /\ InsideClassLike /\ Kind(Tree, At) \in Pack.method
AsFunction == Doing("function") \/ (Visiting("function") /\ ~AsMethod)

ExtractCallable ==
    /\ AsMethod \/ AsFunction
    /\ LET receiver == ReceiverType(Tree, At, Lang)
           method   == receiver # NoText \/ (AsMethod /\ InsideClassLike)
           id == [kind |-> IF method THEN "method" ELSE "function", at |-> At,
                  qn |-> IF receiver # NoText THEN receiver \o Name ELSE QualifiedName(Name)]
           owner == IF receiver = NoText \/ InsideClassLike THEN << >> ELSE OwnerType(receiver)
       IN  IF Name = NoText THEN Returns /\ EmitsNothing /\ UNCHANGED <<stack, sites>>
           ELSE /\ nodes' = Append(nodes, Record(id, Name, Props(At)))
                /\ edges' = edges \o <<<<TopId, id>>>>
                                  \o (IF owner = << >> THEN << >> ELSE <<<<Head(owner).id, id>>>>)
                /\ sites' = sites \o TypeRefSites(id, At)
                /\ Enters(id, Name)
                /\ Descends("body", Body, <<Leave>>)
    /\ UNCHANGED source

\* extract_container: without a body the declaration's own children are visited.
ExtractContainer ==
    /\ \/ Visiting("class") /\ ClassKind \in {"class", "trait", "interface"}
       \/ Visiting("extraClass")
       \/ Visiting("interface")
    /\ LET kind == IF Visiting("class") THEN ClassKind
                   ELSE IF Visiting("interface") THEN Pack.interfaceKind ELSE "class"
           id   == NewId(kind, Name, At)
           seen == Visiting("extraClass") \/ (Visiting("class") /\ kind # "interface")
       IN  IF Name = NoText THEN Returns /\ EmitsNothing /\ UNCHANGED <<stack, sites>>
           ELSE /\ Emits(<<Record(id, Name, [Props(At) EXCEPT !.vis = IF seen THEN @ ELSE "none"])>>)
                /\ sites' = sites \o HeritageSites(id, At)
                /\ Enters(id, Name)
                /\ Descends("visit", Else(Body, At), <<Leave>>)
    /\ UNCHANGED source

ExtractStruct ==
    /\ Visiting("struct") \/ (Visiting("class") /\ ClassKind = "struct")
    /\ LET id == NewId("struct", Name, At)
       IN  IF Body = NoNode \/ Name = NoText
           THEN Returns /\ EmitsNothing /\ UNCHANGED <<stack, sites>>
           ELSE /\ Emits(<<Record(id, Name, Props(At))>>)
                /\ sites' = sites \o HeritageSites(id, At)
                /\ Enters(id, Name)
                /\ Descends("visit", Body, <<Leave>>)
    /\ UNCHANGED source

\* extract_enum: the same depth guard, but its members are not visited.
ExtractEnum ==
    /\ Visiting("enum") \/ (Visiting("class") /\ ClassKind = "enum")
    /\ LET id   == NewId("enum", Name, At)
           kids == Children(Tree, Body)
           task(c) == Call(IF Kind(Tree, c) \in Pack.enumMember THEN "member" ELSE "visit", c)
       IN  IF Body = NoNode \/ Name = NoText THEN Returns /\ EmitsNothing /\ UNCHANGED stack
           ELSE /\ Emits(<<Record(id, Name, Props(At))>>)
                /\ Enters(id, Name)
                /\ IF depth >= MaxDepth THEN Descends("visit", Body, <<Leave>>)
                   ELSE /\ agenda' = [i \in DOMAIN kids |-> task(kids[i])]
                                        \o <<Call("ascend", At), Leave>> \o Tail(agenda)
                        /\ depth' = depth + 1
                        /\ UNCHANGED hit
    /\ UNCHANGED <<source, sites>>

ExtractEnumMembers ==
    /\ Doing("member")
    /\ LET named == Field(Tree, At, "name")
           kids  == OfKinds(Tree, Children(Tree, At), {"simple_identifier", "identifier",
                                                       "property_identifier", "constant"})
           text(c) == Text(Tree, c)
       IN  IF named # NoNode THEN Emits(Some("enum_member", Text(Tree, named), At, Bare))
           ELSE Emits(Each("enum_member", IF kids = << >> THEN <<At>> ELSE kids, text, Bare))
    /\ Returns
    /\ UNCHANGED <<source, stack, sites>>

-----------------------------------------------------------------------------
(***************************************************************************)
(* Definitions without a scope of their own: no descent into them.         *)
(***************************************************************************)
ExtractTypeAlias ==
    /\ Visiting("alias")
    /\ Emits(Some("type_alias", Name, At, [Bare EXCEPT !.docs = Docstring(At)]))
    /\ Returns
    /\ UNCHANGED <<source, stack, sites>>

ExtractProperty ==
    /\ Visiting("property")
    /\ Emits(Some("property", Text(Tree, Field(Tree, At, "name")), At, Props(At)))
    /\ Returns
    /\ UNCHANGED <<source, stack, sites>>

\* extract_field_generic, and PHP's own extract_field.
ExtractField ==
    LET decl == ChildOf(Tree, At, {"variable_declaration"})
        declared == IF Lang = "php" THEN OfKinds(Tree, Children(Tree, At), {"property_element"})
                    ELSE OfKinds(Tree, Children(Tree, Else(decl, At)), {"variable_declarator"})
        name(d) == IF Lang = "php"
                   THEN Text(Tree, ChildOf(Tree, ChildOf(Tree, d, {"variable_name"}), {"name"}))
                   ELSE Text(Tree, Else(Field(Tree, d, "name"), ChildOf(Tree, d, {"identifier"})))
        docs == IF Lang = "php" THEN << >> ELSE Docstring(At)
    IN  /\ Visiting("field")
        /\ Emits(Each("field", declared, name, [Props(At) EXCEPT !.docs = docs]))
        /\ Returns
        /\ UNCHANGED <<source, stack, sites>>

ExtractVariable ==
    LET target == Else(Else(Field(Tree, At, "left"), Field(Tree, At, "name")),
                       FirstOf(Children(Tree, At)))
    IN  /\ Visiting("variable")
        /\ Emits(IF Kind(Tree, target) # "identifier" THEN << >>
                 ELSE Some("variable", Text(Tree, target), At, [Bare EXCEPT !.docs = Docstring(At)]))
        /\ Returns
        /\ UNCHANGED <<source, stack, sites>>

-----------------------------------------------------------------------------
(***************************************************************************)
(* Imports and calls: a site each, and the walk goes on below.             *)
(***************************************************************************)
\* Mutant of ExtractImport: the site is made whatever the import is named.
ExtractImportUnnamed ==
    LET module == ImportOf(Tree, At, Lang)
        id     == NewId("import", module, At)
    IN  /\ Visiting("import")
        /\ Emits(Some("import", module, At, Bare))
        /\ sites' = Append(sites, [SiteAt(TopId, At, Ask("import", NoText, module)) EXCEPT !.to = {id}])
        /\ Descends("visit", At, << >>)
        /\ UNCHANGED <<source, stack>>

ExtractImport ==
    LET module == ImportOf(Tree, At, Lang)
        id     == NewId("import", module, At)
    IN  /\ Visiting("import")
        /\ Emits(Some("import", module, At, Bare))
        /\ sites' = IF module = NoText THEN sites
                    ELSE Append(sites, [SiteAt(TopId, At, Ask("import", NoText, module)) EXCEPT !.to = {id}])
        /\ Descends("visit", At, << >>)
        /\ UNCHANGED <<source, stack>>

\* Mutant of ExtractCall: the arguments of a call are not walked.
ExtractCallShallow(do) ==
    LET role == IF do = "visit" THEN Role(VisitOrder, At) ELSE Role(BodyOrder, At)
    IN  /\ IF do = "visit" THEN Visiting("call") \/ Visiting("new") ELSE InBody("call") \/ InBody("new")
        /\ sites' = sites \o CallSites(At, PackCall(Tree, At, Lang, role = "new"))
        /\ Returns
        /\ UNCHANGED <<source, stack, nodes, edges>>

ExtractCall(do) ==
    LET role == IF do = "visit" THEN Role(VisitOrder, At) ELSE Role(BodyOrder, At)
    IN  /\ IF do = "visit" THEN Visiting("call") \/ Visiting("new") ELSE InBody("call") \/ InBody("new")
        /\ sites' = sites \o CallSites(At, PackCall(Tree, At, Lang, role = "new"))
        /\ Descends(do, At, << >>)
        /\ UNCHANGED <<source, stack, nodes, edges>>

\* visit_body: a named nested function, a local type, a bare call, or go on below.
NestedDefinition ==
    /\ \/ InBody("function") /\ Name # NoText
       \/ \E r \in {"class", "struct", "enum", "interface"} : InBody(r)
    /\ agenda' = <<Call(IF InBody("function") THEN "function" ELSE "visit", At)>> \o Tail(agenda)
    /\ UNCHANGED <<source, stack, nodes, edges, sites, depth, hit>>

DescendBody ==
    /\ InBody("other") \/ (InBody("function") /\ Name = NoText)
    /\ sites' = sites \o (IF InBody("other") THEN CallSites(At, BareCall(Tree, At, Lang)) ELSE << >>)
    /\ Descends("body", At, << >>)
    /\ UNCHANGED <<source, stack, nodes, edges>>

Descend ==
    /\ Visiting("other")
    /\ Descends("visit", At, << >>)
    /\ UNCHANGED <<source, stack, nodes, edges, sites>>

-----------------------------------------------------------------------------
(***************************************************************************)
(* visit_hook: what a language takes before the dispatch.                  *)
(***************************************************************************)
RubyModule ==
    /\ Hooked({"module"})
    /\ IF Name = NoText THEN Returns /\ EmitsNothing /\ UNCHANGED stack
       ELSE /\ Emits(<<Record(NewId("module", Name, At), Name, Bare)>>)
            /\ Enters(NewId("module", Name, At), Name)
            /\ Descends("visit", Field(Tree, At, "body"), <<Leave>>)
    /\ UNCHANGED <<source, sites>>

PhpConstants ==
    LET elements == OfKinds(Tree, Children(Tree, At), {"const_element"})
        name(c)  == Text(Tree, ChildOf(Tree, c, {"name"}))
    IN  /\ Hooked({"const_declaration"})
        /\ Emits(Each("constant", elements, name, Bare))
        /\ Returns
        /\ UNCHANGED <<source, stack, sites>>

ScalaValue ==
    LET pattern == Field(Tree, At, "pattern")
        name == IF Kind(Tree, pattern) = "identifier" THEN Text(Tree, pattern)
                ELSE Text(Tree, ChildOf(Tree, pattern, {"identifier"}))
        kind == IF InsideClassLike THEN "field"
                ELSE IF Kind(Tree, At) = "val_definition" THEN "constant" ELSE "variable"
    IN  /\ Hooked({"val_definition", "var_definition"})
        /\ Emits(Some(kind, name, At, [Bare EXCEPT !.vis = Visibility(Tree, At, Lang)]))
        /\ Returns
        /\ UNCHANGED <<source, stack, sites>>

ScalaCases ==
    LET cases == OfKinds(Tree, Children(Tree, At), {"simple_enum_case", "full_enum_case"})
        name(c) == Text(Tree, Field(Tree, c, "name"))
    IN  /\ Hooked({"enum_case_definitions"})
        /\ Emits(Each("enum_member", cases, name, Bare))
        /\ Returns
        /\ UNCHANGED <<source, stack, sites>>

ScalaExtension ==
    /\ Hooked({"extension_definition"})
    /\ Descends("visit", Field(Tree, At, "body"), << >>)
    /\ UNCHANGED <<source, stack, nodes, edges, sites>>

-----------------------------------------------------------------------------
(***************************************************************************)
(* Returning, and the file as a whole.                                     *)
(***************************************************************************)
Ascend ==
    /\ Doing("ascend")
    /\ agenda' = Tail(agenda)
    /\ depth' = depth - 1
    /\ UNCHANGED <<source, stack, nodes, edges, sites, hit>>

LeaveScope ==
    /\ Doing("leave")
    /\ agenda' = Tail(agenda)
    /\ stack' = SubSeq(stack, 1, Len(stack) - 1)
    /\ UNCHANGED <<source, nodes, edges, sites, depth, hit>>

\* A package header is the scope of the whole file; then the root's children.
ExtractFile ==
    /\ Doing("file")
    /\ LET header == ChildOf(Tree, Root, Pack.package)
           name   == Text(Tree, ChildOf(Tree, header, {"qualified_identifier", "identifier"}))
           id     == NewId("namespace", name, header)
       IN  IF name = NoText
           THEN /\ EmitsNothing
                /\ Descends("visit", Root, << >>)
                /\ UNCHANGED stack
           ELSE /\ Emits(<<Record(id, name, Bare)>>)
                /\ Enters(id, name)
                /\ Descends("visit", Root, <<Leave>>)
    /\ UNCHANGED <<source, sites>>

Walk ==
    \/ ExtractFile \/ ExtractCallable \/ ExtractContainer \/ ExtractStruct \/ ExtractEnum
    \/ ExtractEnumMembers \/ ExtractTypeAlias \/ ExtractProperty \/ ExtractField
    \/ ExtractVariable \/ ExtractImport \/ ExtractCall("visit") \/ ExtractCall("body")
    \/ NestedDefinition \/ DescendBody \/ Descend
    \/ RubyModule \/ PhpConstants \/ ScalaValue \/ ScalaCases \/ ScalaExtension
    \/ Ascend \/ LeaveScope
=============================================================================
