------------------------------ MODULE MCExtract ------------------------------
(***************************************************************************)
(* Sample files for Extract.  Every language writes the same programs with *)
(* its own grammar: calls, nested functions and types, and two declarations*)
(* in either order; and then what only that language has.                  *)
(***************************************************************************)
EXTENDS Extract

\* A term is a node with its children; a tree numbers them in document order.
N(kind, field, text, kids) == [kind |-> kind, field |-> field, text |-> text, kids |-> kids]
As(field, n) == [n EXCEPT !.field = field]
Leaf(kind, word) == N(kind, "", <<word>>, << >>)
Named(kind, word) == N(kind, "name", <<word>>, << >>)
Node(kind, kids) == N(kind, "", NoText, kids)
Token(kind) == Node(kind, << >>)

RECURSIVE Flat(_, _, _), FlatAll(_, _, _)
Flat(n, above, at) ==
    <<[kind |-> n.kind, field |-> n.field, text |-> n.text, above |-> above]>>
    \o FlatAll(n.kids, <<at>> \o above, at + 1)
FlatAll(ns, above, at) ==
    IF ns = << >> THEN << >>
    ELSE LET first == Flat(Head(ns), above, at)
         IN  first \o FlatAll(Tail(ns), above, at + Len(first))

TreeOf(root, kids) == Flat(Node(root, kids), << >>, Root)
InFile(lang, root, kids) == [lang |-> lang, tree |-> TreeOf(root, kids), state |-> "ok"]

MCUppercase == {<<"A">>, <<"B">>, <<"T">>}

-----------------------------------------------------------------------------
\* The vocabulary of the walked languages: calls, functions, types.
RootOf == [ruby |-> "program", php |-> "program", kotlin |-> "source_file", swift |-> "source_file",
           scala |-> "compilation_unit", csharp |-> "compilation_unit",
           rust |-> "source_file", python |-> "module", typescript |-> "program",
           c |-> "translation_unit", cpp |-> "translation_unit", go |-> "source_file",
           java |-> "program"]

CallTo(lang, f, args) ==
    LET arguments == As("arguments", Node("arguments", args))
    IN  CASE lang = "ruby"   -> Node("call", <<As("method", Leaf("identifier", f)), arguments>>)
          [] lang = "php"    -> Node("function_call_expression",
                                     <<As("function", Leaf("name", f)), arguments>>)
          [] lang = "kotlin" -> Node("call_expression", <<Leaf("identifier", f), arguments>>)
          [] lang = "swift"  -> Node("call_expression", <<Leaf("simple_identifier", f), arguments>>)
          [] lang = "scala"  -> Node("call_expression",
                                     <<As("function", Leaf("identifier", f)), arguments>>)
          [] lang = "csharp" -> Node("invocation_expression",
                                     <<As("function", Leaf("identifier", f)), arguments>>)
          [] lang = "python" -> Node("call", <<As("function", Leaf("identifier", f)), arguments>>)
          [] lang = "java"   -> Node("method_invocation", <<Named("identifier", f), arguments>>)
          [] OTHER -> Node("call_expression", <<As("function", Leaf("identifier", f)), arguments>>)

Params == As("parameters", Node("parameters", << >>))
Block(stmts) == As("body", Node("block", stmts))
Receiving(type) == As("receiver", Node("parameter_list", <<Node("parameter_declaration", <<type>>)>>))

FunctionIn(lang, f, stmts) ==
    LET simple(kind) == Node(kind, <<Named("identifier", f), Params, Block(stmts)>>)
    IN  CASE lang = "ruby"   -> Node("method", <<Named("identifier", f),
                                                 As("body", Node("body_statement", stmts))>>)
          [] lang = "php"    -> simple("function_definition")
          [] lang = "kotlin" -> Node("function_declaration",
                                     <<Leaf("identifier", f), Node("function_value_parameters", << >>),
                                       Node("function_body", stmts)>>)
          [] lang = "swift"  -> simple("function_declaration")
          [] lang = "scala"  -> simple("function_definition")
          [] lang = "csharp" -> simple("method_declaration")
          [] lang = "rust"   -> simple("function_item")
          [] lang = "python" -> simple("function_definition")
          [] lang = "typescript" -> simple("function_declaration")
          [] lang \in {"c", "cpp"} ->
                 Node("function_definition",
                      <<As("declarator", Node("function_declarator",
                               <<As("declarator", Leaf("identifier", f))>>)), Block(stmts)>>)
          [] lang = "go"     -> simple("function_declaration")
          [] lang = "java"   -> simple("method_declaration")

TypeIn(lang, T, members) ==
    LET simple(kind) == Node(kind, <<Named("type_identifier", T), Block(members)>>)
    IN  CASE lang = "ruby"   -> simple("class")
          [] lang = "kotlin" -> Node("class_declaration",
                                     <<Leaf("identifier", T), Node("class_body", members)>>)
          [] lang = "scala"  -> simple("class_definition")
          [] lang = "rust"   -> Node("impl_item", <<As("type", Leaf("type_identifier", T)), Block(members)>>)
          [] lang = "python" -> simple("class_definition")
          [] lang \in {"c", "cpp"} -> simple("struct_specifier")
          [] lang = "go"     -> Node("type_declaration",
                                     <<Node("type_spec", <<Named("type_identifier", T),
                                                           As("type", Node("struct_type", << >>))>>)>>)
          [] OTHER           -> simple("class_declaration")

-----------------------------------------------------------------------------
\* The programs that every language writes.
Bodies(lang) ==
    LET call(f, args) == CallTo(lang, f, args)
        fun(f, stmts) == FunctionIn(lang, f, stmts)
    IN  { << >>, <<call("g", << >>)>>, <<call("g", <<call("h", << >>)>>), call("i", << >>)>>,
          <<Node("if_statement", <<call("g", << >>)>>), call("h", << >>)>>,
          <<fun("n", <<call("g", << >>)>>), call("h", << >>)>>,
          <<TypeIn(lang, "B", <<fun("n", <<call("g", << >>)>>)>>), call("h", << >>)>> }

Programs(lang) ==
    LET fun(f, stmts) == FunctionIn(lang, f, stmts)
        call == CallTo(lang, "h", << >>)
    IN  UNION { { <<fun("f", b), call>>, <<TypeIn(lang, "A", <<fun("m", b), fun("k", << >>)>>), fun("f", << >>)>>,
                  <<TypeIn(lang, "A", <<TypeIn(lang, "B", <<fun("m", b)>>), fun("k", <<call>>)>>)>> }
                : b \in Bodies(lang) }

CommonFiles == UNION { { InFile(lang, RootOf[lang], p) : p \in Programs(lang) } : lang \in DOMAIN RootOf }

-----------------------------------------------------------------------------
\* What only one language has.
Extension(T, f, stmts) ==
    Node("function_declaration",
         <<Node("user_type", <<Leaf("identifier", T)>>), Token("."), Leaf("identifier", f),
           Node("function_value_parameters", << >>), Node("function_body", stmts)>>)
KotlinEnum(T) ==
    Node("class_declaration", <<Leaf("identifier", T), Node("enum_class_body",
        <<Node("enum_entry", <<Leaf("identifier", "a")>>), FunctionIn("kotlin", "m", << >>)>>)>>)
Delegating(T, base) ==
    Node("class_declaration", <<Leaf("identifier", T), Node("delegation_specifiers",
        <<Node("delegation_specifier", <<base>>)>>)>>)
KotlinType(T) == Node("user_type", <<Leaf("identifier", T)>>)

KotlinDeclarations ==
    LET call == CallTo("kotlin", "g", << >>)
    IN  { Extension("A", "x", <<call>>), TypeIn("kotlin", "A", <<Extension("B", "y", <<call>>)>>),
          KotlinEnum("A"), Node("type_alias", <<Leaf("identifier", "T")>>),
          Node("object_declaration", <<Leaf("identifier", "B"), Node("class_body", <<FunctionIn("kotlin", "m", <<call>>)>>)>>),
          Node("class_declaration", <<Token("interface"), Leaf("identifier", "B")>>),
          Delegating("B", Node("constructor_invocation", <<KotlinType("A"), Node("arguments", <<call>>)>>)),
          Delegating("B", KotlinType("A")),
          Node("import", <<Leaf("qualified_identifier", "p.A")>>) }

KotlinFiles ==
    LET package == Node("package_header", <<Leaf("qualified_identifier", "p.q")>>)
    IN  { InFile("kotlin", "source_file", <<package, d, e>>) : d, e \in KotlinDeclarations }
        \cup { InFile("kotlin", "source_file", <<d, e>>) : d, e \in KotlinDeclarations }

ModuleIn(T, body) == Node("module", <<Named("constant", T), As("body", Node("body_statement", body))>>)
RubyFiles ==
    LET module(T, body) == ModuleIn(T, body)
        def(f, stmts) == FunctionIn("ruby", f, stmts)
        require == Node("call", <<As("method", Leaf("identifier", "require")), Node("argument_list",
                       <<Node("string", <<Leaf("string_content", "json")>>)>>)>>)
        sent(T, m) == Node("call", <<As("receiver", Leaf("constant", T)), As("method", Leaf("identifier", m))>>)
        class == Node("class", <<Named("constant", "A"), As("superclass", Node("superclass", <<Leaf("constant", "B")>>)),
                     As("body", Node("body_statement", <<def("p", << >>), Leaf("identifier", "private"),
                         def("m", <<Leaf("identifier", "g"), sent("B", "new"), sent("B", "k")>>)>>))>>)
        assign(kind, x) == Node("assignment", <<As("left", Leaf(kind, x)), CallTo("ruby", "g", << >>)>>)
    IN  { InFile("ruby", "program", p) :
            p \in { <<require, assign("identifier", "v"), assign("constant", "T"), def("f", <<require>>)>>,
                    <<module("T", <<class, def("f", << >>)>>), class>>,
                    <<module("T", <<module("B", <<module("A", <<def("f", <<Leaf("identifier", "g")>>)>>)>>)>>)>>,
                    <<def("s", <<Node("method", <<Block(<<Leaf("identifier", "g")>>)>>)>>)>> } }

PhpFiles ==
    LET consts == Node("const_declaration", <<Node("const_element", <<Leaf("name", "X")>>),
                                              Node("const_element", <<Leaf("name", "Y")>>)>>)
        property == Node("property_declaration", <<Leaf("visibility_modifier", "private"),
                        Node("property_element", <<Node("variable_name", <<Leaf("name", "p")>>)>>)>>)
        method(m, b) == Node("method_declaration", <<Named("name", m), Block(b)>>)
        make == Node("object_creation_expression", <<Leaf("name", "B")>>)
        scoped == Node("scoped_call_expression", <<N("name", "scope", <<"n", "B">>, << >>), Named("name", "k")>>)
        class(kind, b) == Node(kind, <<Named("name", "A"),
            Node("base_clause", <<Leaf("name", "B")>>), Node("class_interface_clause", <<Leaf("name", "T")>>),
            As("body", Node("declaration_list", b))>>)
        enum == Node("enum_declaration", <<Named("name", "B"), Block(<<Node("enum_case", <<Named("name", "a")>>), method("m", <<make>>)>>)>>)
        use == Node("namespace_use_declaration", <<Node("namespace_use_clause", <<Leaf("qualified_name", "n.B")>>)>>)
    IN  { InFile("php", "program", p) :
            p \in { <<use, consts, class("class_declaration", <<consts, property, method("m", <<make, scoped>>),
                                              Node("use_declaration", <<Leaf("name", "T")>>)>>)>>,
                    <<class("trait_declaration", <<property>>), enum, property>>,
                    <<Node("interface_declaration", <<Named("name", "T"), Block(<<method("m", << >>)>>)>>), method("o", <<make>>)>> } }

ScalaFiles ==
    LET value(kind, x) == Node(kind, <<As("pattern", Leaf("identifier", x))>>)
        def(f, b) == FunctionIn("scala", f, b)
        call == CallTo("scala", "g", << >>)
        cases == Node("enum_case_definitions", <<Node("simple_enum_case", <<Named("identifier", "a")>>)>>)
        trait == Node("trait_definition", <<Named("identifier", "T"),
                     As("extend", Node("extends_clause", <<As("type", Leaf("type_identifier", "B"))>>)),
                     Block(<<value("val_definition", "x"), def("m", <<call>>)>>)>>)
        import == Node("import_declaration", <<As("path", Leaf("identifier", "p"))>>)
    IN  { InFile("scala", "compilation_unit", p) :
            p \in { <<import, value("val_definition", "x"), value("var_definition", "y"), trait>>,
                    <<Node("enum_definition", <<Named("identifier", "A"), Block(<<cases, def("m", <<call>>)>>)>>),
                      Node("type_definition", <<Named("type_identifier", "B")>>)>>,
                    <<Node("extension_definition", <<Block(<<def("m", <<call>>)>>)>>), call>> } }

SwiftFiles ==
    LET class(word, T, b) == Node("class_declaration", <<Token(word), Named("type_identifier", T),
            Node("inheritance_specifier", <<As("inherits_from", Node("user_type", <<Leaf("type_identifier", "B")>>))>>),
            Block(b)>>)
        typed(f) == Node("function_declaration", <<Node("modifiers", <<>>), Named("simple_identifier", f),
                        Node("user_type", <<Leaf("type_identifier", "A")>>), Block(<<CallTo("swift", "g", << >>)>>)>>)
        entry == Node("enum_entry", <<Named("simple_identifier", "a")>>)
        protocol == Node("protocol_declaration", <<Named("type_identifier", "T"), Block(<< >>)>>)
    IN  { InFile("swift", "source_file", p) :
            p \in { <<Node("import_declaration", <<Leaf("identifier", "F")>>), class("struct", "A", <<typed("m")>>), protocol>>,
                    <<class("enum", "A", <<entry, typed("m")>>), typed("f"), Node("typealias_declaration", <<Named("type_identifier", "T")>>)>> } }

CSharpFiles ==
    LET field == Node("field_declaration", <<Leaf("modifier", "public"), Node("variable_declaration",
                     <<Leaf("identifier", "A"), Node("variable_declarator", <<Named("identifier", "u")>>),
                       Node("variable_declarator", <<Leaf("identifier", "v")>>)>>)>>)
        property == Node("property_declaration", <<Leaf("identifier", "A"), Named("identifier", "P")>>)
        make == Node("object_creation_expression", <<As("type", Leaf("identifier", "B"))>>)
        member == Node("invocation_expression", <<As("function", Node("member_access_expression",
                      <<As("expression", Leaf("identifier", "B")), Named("identifier", "k")>>))>>)
        method == Node("constructor_declaration", <<As("returns", Leaf("identifier", "A")), Named("identifier", "m"),
                      As("parameters", Node("parameter_list", <<Node("parameter", <<As("type", Leaf("identifier", "B"))>>)>>)),
                      Block(<<make, member>>)>>)
        type(kind, b) == Node(kind, <<Leaf("comment", "why"), Named("identifier", "A"),
                             Node("base_list", <<Leaf("identifier", "B")>>), Block(b)>>)
        enum == Node("enum_declaration", <<Named("identifier", "B"), Block(<<Node("enum_member_declaration", <<Named("identifier", "a")>>)>>)>>)
    IN  { InFile("csharp", "compilation_unit", p) :
            p \in { <<Node("using_directive", <<Leaf("identifier", "S")>>), Leaf("comment", "doc"), type("class_declaration", <<field, property, method>>)>>,
                    <<Node("namespace_declaration", <<Block(<<type("struct_declaration", <<method>>), enum>>)>>), field>>,
                    <<type("interface_declaration", <<property>>), enum>> } }

\* Down past the cap: declarations below statements that nothing handles.
Nested(k, n) == FoldLeft(LAMBDA inner, i : Node("if_statement", <<inner>>), n, [i \in 1..k |-> i])
DeepFiles ==
    LET call(lang) == CallTo(lang, "g", <<CallTo(lang, "h", <<CallTo(lang, "i", << >>)>>)>>)
        items(lang) == {FunctionIn(lang, "m", <<Nested(1, call(lang))>>),
                        TypeIn(lang, "A", <<TypeIn(lang, "B", <<FunctionIn(lang, "m", <<call(lang)>>)>>)>>)}
    IN  UNION { { InFile(lang, RootOf[lang], <<Nested(k, n), FunctionIn(lang, "f", << >>)>>) : n \in items(lang), k \in 0..5 }
                : lang \in {"ruby", "kotlin", "csharp"} }
        \cup { InFile("kotlin", "source_file", <<Nested(k, n)>>) : n \in KotlinDeclarations, k \in 1..5 }
        \cup { InFile("ruby", "program", <<Nested(k, ModuleIn("T", << >>))>>) : k \in 1..5 }

\* What the grammar could not read has no name, or no body.
Erased(f, word) ==
    [f EXCEPT !.tree = [i \in DOMAIN f.tree |->
        [f.tree[i] EXCEPT !.text = IF @ = <<word>> THEN NoText ELSE @]], !.state = "broken"]
BrokenFiles == { Erased(f, w) : w \in {"A", "B", "T", "m"},
                 f \in RubyFiles \cup PhpFiles \cup ScalaFiles \cup SwiftFiles \cup CSharpFiles }

-----------------------------------------------------------------------------
\* Receivers: a struct or class with a field, and a method that calls on things.
Ident(x) == Leaf("identifier", x)
MemberOf(lang, object, m) ==
    Node(Member(lang).kind, <<As(Member(lang).of, object), As(Member(lang).name, Leaf("identifier", m))>>)
CallOn(lang, object, m) ==
    Node(IF lang = "python" THEN "call" ELSE "call_expression",
         <<As("function", MemberOf(lang, object, m)), As("arguments", Node("arguments", << >>))>>)
Let(lang, x, value) ==
    CASE lang = "rust"   -> Node("let_declaration", <<As("pattern", Ident(x)), As("value", value)>>)
      [] lang = "python" -> Node("expression_statement",
                                 <<Node("assignment", <<As("left", Ident(x)), As("right", value)>>)>>)
      [] OTHER -> Node("lexical_declaration",
                       <<Node("variable_declarator", <<Named("identifier", x), As("value", value)>>)>>)
Make(lang, T) ==
    CASE lang = "rust"   -> Node("struct_expression", <<Named("type_identifier", T)>>)
      [] lang = "python" -> CallTo(lang, T, << >>)
      [] OTHER -> Node("new_expression", <<As("constructor", Ident(T))>>)
Self(lang) == IF lang = "python" THEN Ident("self")
              ELSE Token(IF lang = "rust" THEN "self" ELSE "this")

\* A callable's statements: one or two bindings of a name, around calls on it.
Uses(lang) ==
    LET v == Ident("v")
        on == CallOn(lang, v, "m")
        a == Let(lang, "v", Make(lang, "A"))
        unclear == Let(lang, "v", Ident("w"))
    IN  { <<a, on>>, <<on>>, <<unclear, on>>,
          <<a, CallOn(lang, CallOn(lang, v, "m"), "k")>>,
          <<CallOn(lang, Self(lang), "m"), CallOn(lang, MemberOf(lang, Self(lang), "x"), "m")>> }
Rebinds(lang) ==
    LET on == CallOn(lang, Ident("v"), "m")
    IN  { <<Let(lang, "v", Make(lang, "A")), on, Let(lang, "v", Make(lang, "B")), on>>,
          <<Let(lang, "v", Make(lang, "A")), Let(lang, "v", Ident("w")), on>> }

RustStruct(T, type) ==
    Node("struct_item", <<Named("type_identifier", T), As("body", Node("field_declaration_list",
        <<Node("field_declaration", <<Named("field_identifier", "x"), As("type", type)>>)>>))>>)
OwnerOf(lang, stmts) ==
    CASE lang = "rust" ->
             <<RustStruct("A", N("type", "", <<"&", "B">>, << >>)),
               TypeIn(lang, "A", <<Node("function_item", <<Named("identifier", "f"),
                   As("parameters", Node("parameters", <<Node("parameter", <<As("pattern", Ident("p")),
                       As("type", Leaf("type_identifier", "B"))>>)>>)),
                   Block(stmts \o <<CallOn(lang, Ident("p"), "m")>>)>>)>>)>>
      [] lang = "python" -> <<TypeIn(lang, "A", <<FunctionIn(lang, "f", stmts)>>)>>
      [] OTHER -> <<TypeIn(lang, "A", <<Node("public_field_definition", <<Named("property_identifier", "x"),
                       As("type", Node("type_annotation", <<Leaf("type_identifier", "B")>>))>>),
                       Node("method_definition", <<Named("property_identifier", "f"), Params, Block(stmts)>>)>>)>>

ReceiverFiles == UNION { { InFile(lang, RootOf[lang], OwnerOf(lang, u)) : u \in Uses(lang) } : lang \in TierOneLangs }
ReboundFiles  == UNION { { InFile(lang, RootOf[lang], OwnerOf(lang, u)) : u \in Rebinds(lang) } : lang \in TierOneLangs }

-----------------------------------------------------------------------------
\* What only one queried language has.
RustFiles ==
    LET use == Node("use_declaration", <<Node("scoped_identifier", <<Ident("p"), Ident("A")>>)>>)
        path(T) == Node("generic_type", <<Leaf("type_identifier", T)>>)
        trait == Node("trait_item", <<Named("type_identifier", "T"), Node("trait_bounds", <<path("B")>>),
                     Block(<<FunctionIn("rust", "m", <<use>>)>>)>>)
        enum == Node("enum_item", <<Named("type_identifier", "B"), Block(<<Node("enum_variant", <<Named("identifier", "a")>>)>>)>>)
        impl(trait_, T, b) == Node("impl_item", <<As("trait", Leaf("type_identifier", trait_)),
                                  As("type", Leaf("type_identifier", T)), Block(b)>>)
        typed == Node("function_item", <<Named("identifier", "m"),
                     As("parameters", Node("parameters", <<Node("self_parameter", << >>)>>)),
                     As("return_type", Leaf("type_identifier", "B")), Block(<<CallTo("rust", "g", << >>)>>)>>)
        mod(b) == Node("mod_item", <<Named("identifier", "q"), Block(b)>>)
        items == { <<use, trait, enum, impl("T", "B", <<typed>>)>>, <<mod(<<enum, impl("T", "B", <<typed>>)>>), use>>,
                   <<impl("T", "A", <<typed>>), RustStruct("A", path("B")), Node("const_item", <<Named("identifier", "k")>>)>>,
                   <<Node("function_item", <<Named("identifier", "f"), Block(<<impl("T", "A", <<typed>>)>>)>>), Node("type_item", <<Named("type_identifier", "T")>>)>> }
    IN  { InFile("rust", "source_file", p) : p \in items }

PythonFiles ==
    LET class(b) == Node("class_definition", <<Named("identifier", "B"),
                        As("superclasses", Node("argument_list", <<Ident("A")>>)), Block(b)>>)
        from(p) == Node("import_from_statement", <<As("module_name", Leaf("dotted_name", p))>>)
        param == Node("typed_parameter", <<Ident("v"), As("type", Node("type", <<Ident("A")>>))>>)
        loop == Node("for_statement", <<As("left", Ident("v")), As("right", CallTo("python", "g", << >>)),
                    As("body", Node("block", <<CallOn("python", Ident("v"), "m")>>))>>)
        def(f, b) == Node("function_definition", <<Named("identifier", f), As("parameters", Node("parameters", <<param>>)), Block(b)>>)
        top(x) == Node("expression_statement", <<Node("assignment", <<As("left", Ident(x)), As("right", CallTo("python", "g", << >>))>>)>>)
    IN  { InFile("python", "module", p) :
            p \in { <<from("p"), from("__future__"), Node("import_statement", <<Leaf("dotted_name", "os")>>), class(<<def("f", <<loop>>)>>)>>,
                    <<top("v"), def("f", <<from("p"), CallOn("python", Ident("v"), "m"), top("w")>>)>>,
                    <<def("f", <<class(<<def("m", <<def("n", <<CallTo("python", "g", << >>)>>)>>)>>)>>)>> } }

TypeScriptFiles ==
    LET clause(kind, T) == Node(kind, <<As("value", Node("generic_type", <<Ident(T)>>))>>)
        class(b) == Node("class_declaration", <<Named("type_identifier", "A"),
                        Node("class_heritage", <<clause("extends_clause", "B"), clause("implements_clause", "T")>>), Block(b)>>)
        enum == Node("enum_declaration", <<Named("identifier", "B"), As("body", Node("enum_body",
                    <<Leaf("property_identifier", "a"), Node("enum_assignment", <<Named("property_identifier", "b")>>)>>))>>)
        arrow == Node("public_field_definition", <<Named("property_identifier", "k"), As("value", Node("arrow_function", <<Block(<<CallTo("typescript", "g", << >>)>>)>>))>>)
        import == Node("import_statement", <<Leaf("string", "./a")>>)
        param == Node("required_parameter", <<As("pattern", Ident("v")), As("type", Node("type_annotation", <<Leaf("type_identifier", "A")>>))>>)
        fun == Node("function_declaration", <<Named("identifier", "f"), As("parameters", Node("formal_parameters", <<param>>)),
                   Block(<<CallOn("typescript", Node("await_expression", <<CallTo("typescript", "g", << >>)>>), "m"), CallOn("typescript", Ident("v"), "k")>>)>>)
    IN  { InFile("typescript", "program", p) :
            p \in { <<import, class(<<arrow>>), fun>>, <<enum, Node("interface_declaration", <<Named("type_identifier", "T")>>),
                    Node("type_alias_declaration", <<Named("type_identifier", "T")>>)>> } }

CFiles ==
    LET method == Node("function_definition", <<As("declarator", Node("function_declarator",
                      <<As("declarator", N("qualified_identifier", "", <<"A", "m">>, << >>))>>)),
                      Block(<<CallOn("cpp", Ident("v"), "k"), Node("new_expression", <<As("type", Leaf("type_identifier", "B"))>>),
                              Node("call_expression", <<As("function", Node("qualified_identifier",
                                  <<As("scope", Leaf("namespace_identifier", "B")), Named("identifier", "g")>>))>>)>>)>>)
        class == Node("class_specifier", <<Named("type_identifier", "A"), Node("base_class_clause",
                     <<Leaf("type_identifier", "B")>>), Block(<<FunctionIn("cpp", "m", << >>)>>)>>)
        enum == Node("enum_specifier", <<Named("type_identifier", "B"), Block(<<Node("enumerator", <<Named("identifier", "a")>>)>>)>>)
        forward == Node("struct_specifier", <<Named("type_identifier", "A")>>)
        alias == Node("type_definition", <<enum, As("declarator", Leaf("type_identifier", "T"))>>)
        include == Node("preproc_include", <<As("path", Leaf("string_literal", "a.h"))>>)
    IN  { InFile(lang, "translation_unit", p) : lang \in {"c", "cpp"},
            p \in { <<include, forward, alias, FunctionIn("c", "f", <<CallTo("c", "g", << >>)>>)>>, <<include, class, enum, method>> } }

GoFiles ==
    LET spec(T, type) == Node("type_declaration", <<Node("type_spec", <<Named("type_identifier", T), As("type", type)>>)>>)
        embeds == Node("struct_type", <<Node("field_declaration_list", <<Node("field_declaration",
                      <<As("type", Node("pointer_type", <<Leaf("type_identifier", "B")>>))>>)>>)>>)
        method(recv) == Node("method_declaration", <<As("receiver", Node("parameter_list",
                            <<Node("parameter_declaration", <<As("type", recv)>>)>>)), Named("field_identifier", "m"),
                            As("parameters", Node("parameter_list", <<Leaf("type_identifier", "T")>>)),
                            Block(<<CallTo("go", "g", << >>), CallOn("go", Ident("v"), "k")>>)>>)
        specs == <<Node("const_declaration", <<Node("const_spec", <<Named("identifier", "k")>>)>>),
                   Node("import_declaration", <<Node("import_spec", <<As("path", Leaf("string", "fmt"))>>)>>),
                   Node("var_declaration", <<Node("var_spec", <<Ident("v")>>)>>)>>
        value == method(Leaf("type_identifier", "A"))
        pointer == method(N("pointer_type", "", <<"*", "A">>, <<Leaf("type_identifier", "A")>>))
    IN  { InFile("go", "source_file", p) :
            p \in { specs \o <<spec("A", embeds), value>>, <<pointer, spec("A", embeds), spec("B", Leaf("type_identifier", "A"))>>,
                    <<spec("T", Node("interface_type", <<Node("type_elem", <<Leaf("type_identifier", "B")>>)>>)), value>> } }

JavaFiles ==
    LET package == Node("package_declaration", <<N("scoped_identifier", "", <<"p", "q">>, << >>)>>)
        import == Node("import_declaration", <<N("scoped_identifier", "", <<"p", "T">>, << >>)>>)
        param == Node("formal_parameter", <<As("type", Leaf("type_identifier", "B")), Named("identifier", "v")>>)
        on(x, m) == Node("method_invocation", <<As("object", Ident(x)), Named("identifier", m)>>)
        local == Node("local_variable_declaration", <<As("type", Leaf("type_identifier", "A")),
                     Node("variable_declarator", <<Named("identifier", "w"), As("value", Node("object_creation_expression",
                         <<As("type", Leaf("type_identifier", "A"))>>))>>)>>)
        method == Node("method_declaration", <<As("type", Leaf("type_identifier", "B")), Named("identifier", "m"),
                      As("parameters", Node("formal_parameters", <<param>>)),
                      Block(<<local, on("v", "k"), on("w", "m"), on("B", "g"), on("u", "g"), CallTo("java", "k", << >>)>>)>>)
        field == Node("field_declaration", <<As("type", Leaf("type_identifier", "B")), Node("variable_declarator", <<Named("identifier", "x")>>)>>)
        class(T) == Node("class_declaration", <<Named("identifier", T), As("superclass", Node("superclass", <<Leaf("type_identifier", "B")>>)),
                        As("interfaces", Node("super_interfaces", <<Node("type_list", <<Leaf("type_identifier", "T"),
                            Node("generic_type", <<Node("type_arguments", <<Leaf("type_identifier", "A")>>)>>)>>)>>)), Block(<<field, method>>)>>)
        enum == Node("enum_declaration", <<Named("identifier", "B"), Block(<<Node("enum_constant", <<Named("identifier", "a")>>)>>)>>)
        interface == Node("interface_declaration", <<Named("identifier", "T"), Node("extends_interfaces", <<Leaf("type_identifier", "B")>>)>>)
    IN  { InFile("java", "program", p) : p \in { <<package, import, class("A"), enum>>, <<import, interface, class("B")>> } }

FaultyFiles == { [f EXCEPT !.state = s] : f \in RustFiles \cup RubyFiles, s \in {"broken", "unreadable"} }

MCSources == CommonFiles \cup KotlinFiles \cup RubyFiles \cup PhpFiles \cup ScalaFiles \cup SwiftFiles
                 \cup CSharpFiles \cup DeepFiles \cup ReceiverFiles \cup RustFiles \cup PythonFiles
                 \cup TypeScriptFiles \cup CFiles \cup BrokenFiles \cup GoFiles \cup JavaFiles \cup FaultyFiles
=============================================================================
