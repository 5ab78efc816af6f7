------------------------------- MODULE Extract -------------------------------
(***************************************************************************)
(* semgraph's extraction of one file (parse.rs): the tier-3 languages are  *)
(* walked, the others go through the phases of parse::extract.  Both leave *)
(* nodes, contains edges and reference sites for the resolver, and a file  *)
(* record that says what went wrong.                                       *)
(***************************************************************************)
EXTENDS Walker, Receivers, FiniteSets

CONSTANT Sources        \* the files: records [lang, tree, state]

ASSUME SourcesAssumption == \A s \in Sources : IsTree(s.tree)

VARIABLE errors         \* the errors column of the file record

extractVars == <<source, agenda, stack, nodes, edges, sites, depth, hit, errors>>

TierThree == Lang \in DOMAIN Packs

Phases == <<Call("define", Root), Call("contain", Root), Call("refer", Root), Call("types", Root),
            Call("imports", Root), Call("inherit", Root)>>

-----------------------------------------------------------------------------
(***************************************************************************)
(* What the emitted definitions say of each other.                         *)
(***************************************************************************)
EmittedAt(n) == Those(nodes, {r \in SomeOf(nodes) : r.id.at = n})

\* nearest_emitted_ancestor, or the file.
NearestEmitted(n) ==
    LET around == Those(Ancestors(Tree, n), {a \in DOMAIN Tree : EmittedAt(a) # << >>})
    IN  IF around = << >> THEN File ELSE EmittedAt(Head(around))[1].id

\* Java: the package's node stands for the file.
Package == Those(nodes, {r \in SomeOf(nodes) : Lang = "java" /\ r.id.kind = "namespace"})
TopOf(default) == IF Package = << >> THEN default ELSE Package[1].id

\* type_nodes: the first struct or enum of each name.
TypeNode(name) == 
    Those(nodes, {r \in SomeOf(nodes) : r.id.kind \in {"struct", "enum"} /\ r.name = name})

\* The type a callable is written in: its qualified name without the last segment.
EnclosingType(id) ==
    IF id.kind = "method" /\ Len(id.qn) > 1 THEN SubSeq(id.qn, 1, Len(id.qn) - 1) ELSE NoText

Phase(name) == Doing(name) /\ agenda' = Tail(agenda) /\ UNCHANGED <<source, stack, depth, hit, errors>>

-----------------------------------------------------------------------------
(***************************************************************************)
(* The phases of parse::extract.                                           *)
(***************************************************************************)
Defined(n) ==
    LET raw  == Captures[Lang][Kind(Tree, n)]
        name == DefName(Tree, n, raw, Lang)
        kind == Reclassify(Tree, n, raw, Lang)
        qn   == IF kind = "import" /\ Lang \in TierOneLangs THEN name
                ELSE QualName(Tree, n, name, Lang)
    IN  IF name = NoText \/ (kind = "import" /\ ImportInFunctionBody(Tree, n, Lang)) THEN << >>
        ELSE <<Record([kind |-> kind, qn |-> qn, at |-> n], name, Bare)>>

Define ==
    LET captured == Captured(Tree, Lang)
    IN  /\ Phase("define")
        /\ nodes' = FlattenSeq([i \in DOMAIN captured |-> Defined(captured[i])])
        /\ UNCHANGED <<edges, sites>>

\* The parent, and for a method also the type it belongs to, if that is another.
Containing(id) ==
    LET nearest == NearestEmitted(id.at)
        parent == IF nearest = File /\ id.kind # "namespace" THEN TopOf(File) ELSE nearest
        owner  == IF id.kind # "method" THEN << >> ELSE TypeNode(OwningType(Tree, id.at, Lang))
    IN  <<<<parent, id>>>>
        \o (IF owner = << >> \/ owner[1].id = parent THEN << >> ELSE <<<<owner[1].id, id>>>>)

Contain ==
    /\ Phase("contain")
    /\ edges' = FlattenSeq([i \in DOMAIN nodes |-> Containing(nodes[i].id)])
    /\ UNCHANGED <<nodes, sites>>

\* The locals of a callable; of anything else there are none.
LocalsOf(id, ctx) == IF id.kind \in {"function", "method"} THEN InferLocals(ctx, id.at) ELSE << >>

CallSite(n, fields) ==
    LET from == NearestEmitted(n)
        ctx  == Context(Tree, Lang, EnclosingType(from), fields)
        ask  == IF Kind(Tree, n) \in NewKinds(Lang) THEN NewPayload(Tree, n, Lang)
                ELSE CallPayload(ctx, n, LocalsOf(from, ctx))
    IN  IF ask = Nothing THEN << >> ELSE <<SiteAt(from, n, ask)>>

Refer ==
    LET calls  == CallsIn(Tree, Lang)
        fields == FieldTypes(Tree, Lang)
    IN  /\ Phase("refer")
        /\ sites' = FlattenSeq([i \in DOMAIN calls |-> CallSite(calls[i], fields)])
        /\ UNCHANGED <<nodes, edges>>

\* Go and Java reference concrete types only.
ReferToTypes ==
    LET callables == Those(nodes, {r \in SomeOf(nodes) : r.id.kind \in {"function", "method"}})
        ask == IF Lang \in {"go", "java"} THEN "concrete" ELSE "type"
        of(id) == LET ids == TypeIdentifiers(Tree, id.at, Lang)
                  IN  [i \in DOMAIN ids |->
                          SiteAt(id, ids[i], Asks(ask, NoText, Text(Tree, ids[i]), << >>))]
    IN  /\ Phase("types")
        /\ sites' = sites \o FlattenSeq([i \in DOMAIN callables |-> of(callables[i].id)])
        /\ UNCHANGED <<nodes, edges>>

\* A plain Python import has no edge.
Import ==
    LET imports == Those(nodes, {r \in SomeOf(nodes) : r.id.kind = "import"
                       /\ ~(Lang = "python" /\ Kind(Tree, r.id.at) = "import_statement")})
        of(r) == [SiteAt(TopOf(File), r.id.at, Asks("import", NoText, r.name, << >>))
                     EXCEPT !.to = {r.id}]
    IN  /\ Phase("imports")
        /\ sites' = sites \o [i \in DOMAIN imports |-> of(imports[i])]
        /\ UNCHANGED <<nodes, edges>>

Inherit ==
    LET site(id, b) == SiteAt(id, b.at, Asks(b.edge, NoText, b.name, << >>))
        of(id) == LET bases == Heritage(Tree, id.at, id.kind, Lang)
                  IN  [i \in DOMAIN bases |-> site(id, bases[i])]
        impls == IF Lang = "rust" THEN RustImpls(Tree) ELSE << >>
        ofImpl(impl) == LET type == TypeNode(impl.type)
                        IN  IF type = << >> THEN << >> ELSE <<site(type[1].id, impl.base)>>
    IN  /\ Phase("inherit")
        /\ sites' = sites \o FlattenSeq([i \in DOMAIN nodes |-> of(nodes[i].id)])
                          \o FlattenSeq([i \in DOMAIN impls |-> ofImpl(impls[i])])
        /\ UNCHANGED <<nodes, edges>>

-----------------------------------------------------------------------------
(***************************************************************************)
(* The file as a whole.                                                    *)
(***************************************************************************)
\* error_extract: a file that cannot be read is recorded, with nothing in it.
Unreadable ==
    /\ Doing("start") /\ source.state = "unreadable"
    /\ agenda' = << >>
    /\ errors' = "unreadable"
    /\ UNCHANGED <<source, stack, nodes, edges, sites, depth, hit>>

Start ==
    /\ Doing("start") /\ source.state # "unreadable"
    /\ agenda' = (IF TierThree THEN <<Call("file", Root)>> ELSE Phases) \o <<Call("record", Root)>>
    /\ UNCHANGED <<source, stack, nodes, edges, sites, depth, hit, errors>>

\* A query language reports syntax errors; a walked one, the cap.
RecordFile ==
    /\ Doing("record")
    /\ agenda' = << >>
    /\ errors' = IF TierThree THEN IF hit THEN "too deep" ELSE "none"
                 ELSE IF source.state = "broken" THEN "syntax errors" ELSE "none"
    /\ UNCHANGED <<source, stack, nodes, edges, sites, depth, hit>>

Init ==
    /\ source \in Sources
    /\ agenda = <<Call("start", Root)>>
    /\ stack = <<[id |-> File, name |-> NoText]>>
    /\ nodes = << >> /\ edges = << >> /\ sites = << >>
    /\ depth = 0 /\ hit = FALSE
    /\ errors = "none"

\* The file is done with: nothing else may stop.
Finished == agenda = << >> /\ UNCHANGED extractVars

Next ==
    \/ Unreadable \/ Start \/ RecordFile \/ Finished
    \/ Walk /\ UNCHANGED errors
    \/ Define \/ Contain \/ Refer \/ ReferToTypes \/ Import \/ Inherit

Spec == Init /\ [][Next]_extractVars

-----------------------------------------------------------------------------
(***************************************************************************)
(* Properties.                                                             *)
(***************************************************************************)
Done == agenda = << >> /\ errors # "unreadable"
Ids  == {File} \cup {nodes[i].id : i \in DOMAIN nodes}
ScopeKinds == ClassLike \cup {"function", "method"}

\* The scopes around a tree node, the outermost first: Kotlin's package stands
\* for the file, and a definition is not around itself.
Header == Those(nodes, {r \in SomeOf(nodes) : Lang = "kotlin" /\ r.id.kind = "namespace"})
ScopesAround(n) ==
    LET emitted(a) == Those(EmittedAt(a), {r \in SomeOf(nodes) : r.id.kind \in ScopeKinds})
        around == Reverse(Ancestors(Tree, n))
    IN  Header \o FlattenSeq([i \in DOMAIN around |-> emitted(around[i])])
ScopeOf(n) == IF ScopesAround(n) = << >> THEN File ELSE Reverse(ScopesAround(n))[1].id

\* No edge and no site hangs in the air: writing one whose end is missing fails
\* on a foreign key, and with it the whole sync (writer.rs).
Anchored ==
    /\ \A i \in DOMAIN edges : {edges[i][1], edges[i][2]} \subseteq Ids
    /\ \A i \in DOMAIN sites : {sites[i].from} \cup sites[i].to \subseteq Ids

\* The walker finds the scope of a definition or of a call on its own stack.  It
\* is the innermost emitted scope around it in the tree, on every path through
\* the visitor, at the cap and behind names that are missing.
ScopesFollowTree ==
    (Done /\ TierThree) =>
        /\ \A i \in DOMAIN sites : sites[i].ask.ask = "call" => sites[i].from = ScopeOf(sites[i].at)
        /\ \A i \in DOMAIN nodes : nodes[i].id.kind # "namespace" =>
               Cardinality({j \in DOMAIN edges :
                   edges[j] = <<ScopeOf(nodes[i].id.at), nodes[i].id>>}) = 1

\* A qualified name spells the scopes around the definition; an extension is
\* named by the type that it extends.
NamesFollowScopes ==
    (Done /\ TierThree) => \A i \in DOMAIN nodes :
        LET r == nodes[i]
            scopes == ScopesAround(r.id.at)
            extends == ReceiverType(Tree, r.id.at, Lang)
        IN  r.id.kind # "namespace" =>
                r.id.qn = (IF extends # NoText /\ r.id.kind = "method" THEN extends
                           ELSE FlattenSeq([j \in DOMAIN scopes |-> scopes[j].name])) \o r.name

\* The innermost definition that a call is written in, if it is an emitted callable.
DefinitionKinds == UNION {Pack[r] : r \in {"function", "method", "class", "extraClass",
                                            "interface", "struct", "enum"}}
CallableAround(n) ==
    LET inner == Around(Tree, n, DefinitionKinds)
        body  == BodyOf(Tree, inner, Lang)
    IN  IF inner = NoNode \/ body = NoNode \/ n \notin Below(Tree, body) THEN << >>
        ELSE Those(EmittedAt(inner), {r \in SomeOf(nodes) : r.id.kind \in {"function", "method"}})

\* The walk of a file that reports no cap has seen every call in the body of every
\* callable that it emitted, however deep in expressions, and given it to that one.
CallsAreKept ==
    (Done /\ TierThree /\ ~hit) => \A n \in DOMAIN Tree :
        LET wanted == Kind(Tree, n) \in Pack.call \cup Pack.new
                      /\ PackCall(Tree, n, Lang, Kind(Tree, n) \in Pack.new \ Pack.call) # NoSite
        IN  (wanted /\ CallableAround(n) # << >>) =>
                \E i \in DOMAIN sites : sites[i].at = n /\ sites[i].from = CallableAround(n)[1].id

\* Method calls of the queried languages on a plain name: the name, the callable,
\* and the names that the statements of its body bind.
MethodCalls == {i \in DOMAIN sites :
    LET object == Field(Tree, Field(Tree, sites[i].at, "function"), Member(Lang).of)
    IN  /\ sites[i].ask.ask = "method" /\ Kind(Tree, object) = "identifier"
        /\ Text(Tree, object) \notin Selves
        /\ sites[i].from.kind \in {"function", "method"}}
ObjectName(i) == Text(Tree, Field(Tree, Field(Tree, sites[i].at, "function"), Member(Lang).of))
Binds(n, name) ==
    \E f \in {"pattern", "left", "name"} :
        /\ Kind(Tree, n) \in {"let_declaration", "assignment", "variable_declarator",
                              "for_expression", "for_statement"}
        /\ Kind(Tree, Field(Tree, n, f)) = "identifier" /\ Text(Tree, Field(Tree, n, f)) = name
BindingsOf(i) ==
    {n \in Below(Tree, Field(Tree, sites[i].from.at, "body")) : Binds(n, ObjectName(i))}

\* The receiver that the bindings before a call give its object: the last one
\* decides, and one whose value has no type leaves the object without one.
FlowReceiver(i) ==
    LET ctx == Context(Tree, Lang, EnclosingType(sites[i].from), FieldTypes(Tree, Lang))
        name == ObjectName(i)
        params == Children(Tree, Field(Tree, sites[i].from.at, "parameters"))
        param(m, p) == InferParam(ctx, m, p)
        node(m, n) == Assign(ctx, IF Binds(n, name) THEN [x \in DOMAIN m \ {name} |-> m[x]] ELSE m, n)
        before == SelectSeq(Positions(Tree), LAMBDA n :
                      n < sites[i].at /\ n \in Below(Tree, Field(Tree, sites[i].from.at, "body")))
        locals == FoldLeft(node, FoldLeft(param, << >>, params), before)
    IN  IF name \in DOMAIN locals THEN <<locals[name]>> ELSE << >>

\* A name bound at most once, ahead of the call, types its method calls with what
\* that one binding says, through every wrapper and chain of calls.
SingleBindingTyped ==
    Done => \A i \in MethodCalls :
        (Cardinality(BindingsOf(i)) <= 1 /\ \A n \in BindingsOf(i) : n < sites[i].at)
            => sites[i].ask.via = FlowReceiver(i)

\* The same for every name: what ADR-004 asks for when it says that a receiver
\* that cannot be inferred carries no RecvExpr and that no call is fabricated.
TypedByLastBinding ==
    Done => \A i \in MethodCalls : sites[i].ask.via = FlowReceiver(i)

\* A Go method whose receiver is a type of the file, or a pointer to one, is
\* contained in that type, as the comment on go_receiver_type has it.
GoMethodsReachTheirType ==
    (Done /\ Lang = "go") => \A i \in DOMAIN nodes :
        LET r == nodes[i]
            base == GoBaseTypeId(Tree, Field(Tree, ChildOf(Tree, Field(Tree, r.id.at, "receiver"),
                                     {"parameter_declaration"}), "type"))
            owner == TypeNode(Text(Tree, base))
        IN  (r.id.kind = "method" /\ owner # << >>)
                => \E j \in DOMAIN edges : edges[j] = <<owner[1].id, r.id>>
=============================================================================
