---------------------------- MODULE LanguagePacks ----------------------------
(***************************************************************************)
(* The six language packs of semgraph's shared extractor (tier3/*.rs): for *)
(* each language the grammar kinds that are definitions, imports and calls *)
(* (LangSpec), and the hooks that read a name, a body, a call or a heritage*)
(* clause off a syntax node.                                               *)
(***************************************************************************)
EXTENDS SyntaxTree

Plain ==
    [function |-> {}, method |-> {}, class |-> {}, extraClass |-> {}, interface |-> {},
     struct |-> {}, enum |-> {}, enumMember |-> {}, alias |-> {}, import |-> {}, call |-> {},
     new |-> {}, variable |-> {}, field |-> {}, property |-> {}, package |-> {},
     interfaceKind |-> "interface", bodyField |-> "body",
     marks |-> {}, access |-> << >>, default |-> "public"]    \* where access is written

Access == <<"public", "private", "protected">>

RubyPack ==
    [Plain EXCEPT !.function = {"method"}, !.method = {"method", "singleton_method"},
                  !.class = {"class"}, !.import = {"call"}, !.call = {"call", "method_call"},
                  !.variable = {"assignment"}]

PhpPack ==
    [Plain EXCEPT !.function = {"function_definition"}, !.method = {"method_declaration"},
                  !.class = {"class_declaration", "trait_declaration"},
                  !.interface = {"interface_declaration"}, !.enum = {"enum_declaration"},
                  !.enumMember = {"enum_case"}, !.import = {"namespace_use_declaration"},
                  !.call = {"function_call_expression", "member_call_expression",
                            "scoped_call_expression"},
                  !.new = {"object_creation_expression"}, !.field = {"property_declaration"},
                  !.marks = {"visibility_modifier"}, !.access = Access]

KotlinPack ==
    [Plain EXCEPT !.function = {"function_declaration"}, !.method = {"function_declaration"},
                  !.class = {"class_declaration"}, !.extraClass = {"object_declaration"},
                  !.enumMember = {"enum_entry"}, !.alias = {"type_alias"},
                  !.import = {"import"}, !.call = {"call_expression"},
                  !.package = {"package_header"}, !.bodyField = "class_body",
                  !.marks = {"modifiers"}, !.access = <<"private", "protected", "internal">>]

SwiftPack ==
    [Plain EXCEPT !.function = {"function_declaration"}, !.method = {"function_declaration"},
                  !.class = {"class_declaration"}, !.interface = {"protocol_declaration"},
                  !.enumMember = {"enum_entry"}, !.alias = {"typealias_declaration"},
                  !.import = {"import_declaration"}, !.call = {"call_expression"},
                  !.marks = {"modifiers"}, !.access = <<"public", "private", "internal">>,
                  !.default = "internal"]

ScalaPack ==
    [Plain EXCEPT !.method = {"function_definition", "function_declaration"},
                  !.class = {"class_definition", "object_definition", "trait_definition"},
                  !.enum = {"enum_definition"}, !.alias = {"type_definition"},
                  !.import = {"import_declaration"}, !.call = {"call_expression"},
                  !.interfaceKind = "trait", !.marks = {"modifiers", "access_modifier"},
                  !.access = <<"private", "protected">>]

CSharpPack ==
    [Plain EXCEPT !.method = {"method_declaration", "constructor_declaration"},
                  !.class = {"class_declaration"}, !.interface = {"interface_declaration"},
                  !.struct = {"struct_declaration"}, !.enum = {"enum_declaration"},
                  !.enumMember = {"enum_member_declaration"}, !.import = {"using_directive"},
                  !.call = {"invocation_expression"}, !.new = {"object_creation_expression"},
                  !.field = {"field_declaration"}, !.property = {"property_declaration"},
                  !.marks = {"modifier"}, !.access = Access \o <<"internal">>, !.default = "private"]

Packs == [ruby |-> RubyPack, php |-> PhpPack, kotlin |-> KotlinPack,
          swift |-> SwiftPack, scala |-> ScalaPack, csharp |-> CSharpPack]

ClassLike == {"class", "struct", "interface", "trait", "enum", "module"}

-----------------------------------------------------------------------------
(***************************************************************************)
(* What a reference site asks of the resolver.                             *)
(***************************************************************************)
Ask(what, of, name) == [ask |-> what, of |-> of, name |-> name, via |-> << >>]
NoSite              == Ask("none", NoText, NoText)
CallOrCtor(name)    == Ask("call", NoText, name)
QualifiedCall(q, name) == Ask("qualified", q, name)
New(name)           == Ask("new", NoText, name)

-----------------------------------------------------------------------------
(***************************************************************************)
(* Names, bodies and kinds of definitions.                                 *)
(***************************************************************************)
KotlinName(t, n) ==
    LET params == FirstOf(OfKinds(t, Children(t, n), {"function_value_parameters"}))
        idents == OfKinds(t, Children(t, n), {"identifier"})
        ahead  == Those(idents, {c \in DOMAIN t : params = NoNode \/ c < params})
    IN  IF Kind(t, n) = "function_declaration" THEN Text(t, LastOf(ahead))
        ELSE Text(t, FirstOf(idents))

\* fun T.m(): the named child just before the dot.
ReceiverType(t, n, lang) ==
    LET dot   == FirstOf(OfKinds(t, AllChildren(t, n), {"."}))
        recv  == LastOf(SelectSeq(Children(t, n), LAMBDA c : c < dot))
        inner == ChildOf(t, recv, {"type_identifier", "identifier"})
    IN  IF lang # "kotlin" \/ dot = NoNode THEN NoText ELSE Text(t, Else(inner, recv))

ExtractName(t, n, lang) ==
    LET own   == IF lang = "kotlin" THEN KotlinName(t, n) ELSE NoText
        named == Text(t, Field(t, n, "name"))
        idents == OfKinds(t, Children(t, n), {"identifier", "type_identifier",
                                              "simple_identifier", "constant", "name"})
    IN  IF own # NoText THEN own ELSE IF named # NoText THEN named
        ELSE Text(t, FirstOf(Those(idents, {c \in DOMAIN t : Text(t, c) # NoText})))

BodyOf(t, n, lang) ==
    LET own == IF lang = "kotlin"
               THEN ChildOf(t, n, {"function_body", "class_body", "enum_class_body"}) ELSE NoNode
    IN  Else(own, Field(t, n, Packs[lang].bodyField))

\* classify_class: one grammar kind for several kinds of type.
Classify(t, n, lang) ==
    LET keyword == Kind(t, FirstOf(OfKinds(t, AllChildren(t, n), {"struct", "enum"})))
        enum    == "enum_class_body" \in KindsBelow(t, n)
    IN  CASE lang = "php"    -> IF Kind(t, n) = "trait_declaration" THEN "trait" ELSE "class"
          [] lang = "scala"  -> IF Kind(t, n) = "trait_definition" THEN "trait" ELSE "class"
          [] lang = "kotlin" -> IF "interface" \in KindsBelow(t, n) THEN "interface"
                                ELSE IF enum THEN "enum" ELSE "class"
          [] lang = "swift"  -> IF keyword # "" THEN keyword
                                ELSE IF enum THEN "enum" ELSE "class"
          [] OTHER           -> "class"

-----------------------------------------------------------------------------
(***************************************************************************)
(* Imports and calls.                                                      *)
(***************************************************************************)
RubyRequire(t, n) ==
    LET args == ChildOf(t, n, {"argument_list"})
    IN  IF Text(t, ChildOf(t, n, {"identifier"})) \in {<<"require">>, <<"require_relative">>}
        THEN Text(t, ChildOf(t, ChildOf(t, args, {"string"}), {"string_content"}))
        ELSE NoText

ImportOf(t, n, lang) ==
    LET child(kinds) == Text(t, ChildOf(t, n, kinds))
        path == Field(t, n, "path")
    IN  CASE lang = "ruby"   -> RubyRequire(t, n)
          [] lang = "php"    -> Text(t, ChildOf(t, ChildOf(t, n, {"namespace_use_clause"}),
                                                {"qualified_name", "name"}))
          [] lang = "kotlin" -> child({"qualified_identifier", "identifier"})
          [] lang = "swift"  -> child({"identifier"})
          [] lang = "scala"  -> IF path # NoNode THEN Text(t, path)
                                ELSE child({"identifier", "stable_identifier"})
          [] lang = "csharp" -> child({"qualified_name", "identifier"})

RubyCall(t, n) ==
    LET method == Text(t, Field(t, n, "method"))
        recv   == Field(t, n, "receiver")
    IN  CASE method = NoText      -> NoSite
          [] recv = NoNode        -> CallOrCtor(method)
          [] method = <<"new">>   -> New(Segment(Text(t, recv)))
          [] OTHER                -> QualifiedCall(Segment(Text(t, recv)), method)

PhpCall(t, n, ctor) ==
    LET class == ChildOf(t, n, {"name", "qualified_name"})
        func  == Field(t, n, "function")
        scope == Field(t, n, "scope")
        name  == Field(t, n, "name")
    IN  CASE ctor -> IF class = NoNode THEN NoSite ELSE New(Segment(Text(t, class)))
          [] Kind(t, n) = "function_call_expression" /\ func # NoNode ->
                 CallOrCtor(Text(t, func))
          [] Kind(t, n) = "scoped_call_expression" /\ scope # NoNode /\ name # NoNode ->
                 QualifiedCall(Segment(Text(t, scope)), Text(t, name))
          [] OTHER -> NoSite

CSharpCall(t, n, ctor) ==
    LET type == Else(Field(t, n, "type"), FirstOf(Children(t, n)))
        func == Field(t, n, "function")
        expr == Field(t, func, "expression")
        name == Field(t, func, "name")
    IN  CASE ctor -> IF type = NoNode THEN NoSite ELSE New(Segment(Text(t, type)))
          [] Kind(t, func) = "identifier" -> CallOrCtor(Text(t, func))
          [] Kind(t, func) = "member_access_expression" /\ expr # NoNode /\ name # NoNode ->
                 QualifiedCall(Segment(Text(t, expr)), Text(t, name))
          [] OTHER -> NoSite

\* Kotlin, Swift and Scala: a call of a plain name; a member call is dropped.
NameCall(t, callee, kind) ==
    IF Kind(t, callee) = kind THEN CallOrCtor(Text(t, callee)) ELSE NoSite

PackCall(t, n, lang, ctor) ==
    CASE lang = "ruby"   -> RubyCall(t, n)
      [] lang = "php"    -> PhpCall(t, n, ctor)
      [] lang = "kotlin" -> NameCall(t, FirstOf(Children(t, n)), "identifier")
      [] lang = "swift"  -> NameCall(t, FirstOf(Children(t, n)), "simple_identifier")
      [] lang = "scala"  -> NameCall(t, Field(t, n, "function"), "identifier")
      [] lang = "csharp" -> CSharpCall(t, n, ctor)

\* The last marker above decides in Ruby, whatever its arguments are.
RubyVisibility(t, n) ==
    LET marker(c) == IF Kind(t, c) = "call" THEN Field(t, c, "method")
                     ELSE IF Kind(t, c) = "identifier" THEN c ELSE NoNode
        above == SelectSeq(Children(t, Up(t, n)),
                     LAMBDA c : c < n /\ Text(t, marker(c)) \in {<<w>> : w \in SomeOf(Access)})
    IN  IF above = << >> THEN "public" ELSE Text(t, marker(LastOf(above)))[1]

Visibility(t, n, lang) ==
    LET pack == Packs[lang]
        says(c, w) == \E i \in DOMAIN Text(t, c) : Text(t, c)[i] = w
        marks == SelectSeq(OfKinds(t, AllChildren(t, n), pack.marks),
                           LAMBDA c : \E w \in SomeOf(pack.access) : says(c, w))
    IN  IF lang = "ruby" THEN RubyVisibility(t, n)
        ELSE IF marks = << >> THEN pack.default
        ELSE Head(SelectSeq(pack.access, LAMBDA w : says(Head(marks), w)))

\* Ruby: an identifier that is a statement is a call without arguments.
BareCall(t, n, lang) ==
    IF /\ lang = "ruby" /\ Kind(t, n) = "identifier"
       /\ Kind(t, Up(t, n)) \in {"body_statement", "then", "else", "do", "begin", "rescue",
                                 "ensure", "when"}
       /\ Text(t, n) \notin Uppercase
       /\ Text(t, n) \notin {<<k>> : k \in {"true", "false", "nil", "self", "super",
                                            "__FILE__", "__LINE__", "__dir__"}}
    THEN CallOrCtor(Text(t, n)) ELSE NoSite

-----------------------------------------------------------------------------
(***************************************************************************)
(* Heritage clauses and the types a signature mentions.  "auto": the kind  *)
(* of the target decides between extends and implements.                   *)
(***************************************************************************)
Inherits(t, at, name, edge) == <<[at |-> at, name |-> Segment(name), edge |-> edge]>>
EachOf(t, nodes, edge) ==
    FlattenSeq([i \in DOMAIN nodes |-> Inherits(t, nodes[i], Text(t, nodes[i]), edge)])

PhpHeritage(t, n) ==
    LET names(c) == OfKinds(t, Children(t, c), {"name", "qualified_name"})
        uses(c)  == OfKinds(t, Children(t, c), {"use_declaration"})
        ofUse(d) == [i \in DOMAIN names(d) |->
                        [at |-> d, name |-> Segment(Text(t, names(d)[i])), edge |-> "implements"]]
        clause(c) ==
            CASE Kind(t, c) = "base_clause"            -> EachOf(t, names(c), "extends")
              [] Kind(t, c) = "class_interface_clause" -> EachOf(t, names(c), "implements")
              [] Kind(t, c) = "declaration_list" ->
                     FlattenSeq([i \in DOMAIN uses(c) |-> ofUse(uses(c)[i])])
              [] OTHER -> << >>
        kids == Children(t, n)
    IN  FlattenSeq([i \in DOMAIN kids |-> clause(kids[i])])

\* A delegate that is called is the superclass, a bare one an interface.
KotlinHeritage(t, n) ==
    LET specs == OfKinds(t, Children(t, ChildOf(t, n, {"delegation_specifiers"})),
                         {"delegation_specifier"})
        leaf(type) == LastOf(OfKinds(t, Children(t, type),
                                     {"identifier", "type_identifier", "simple_identifier"}))
        base(s) ==
            LET child == FirstOf(Children(t, s))
                called == Kind(t, child) = "constructor_invocation"
                type == IF called THEN FirstOf(Children(t, child)) ELSE child
            IN  IF Kind(t, child) \notin {"constructor_invocation", "user_type"}
                   \/ leaf(type) = NoNode THEN << >>
                ELSE Inherits(t, leaf(type), Text(t, leaf(type)),
                              IF called THEN "extends" ELSE "implements")
    IN  FlattenSeq([i \in DOMAIN specs |-> base(specs[i])])

SwiftHeritage(t, n) ==
    LET specs == OfKinds(t, Children(t, n), {"inheritance_specifier"})
        ident(s) == ChildOf(t, Else(Field(t, s, "inherits_from"), FirstOf(Children(t, s))),
                            {"type_identifier"})
        all == [i \in DOMAIN specs |-> ident(specs[i])]
    IN  EachOf(t, Present(all), "auto")

TypeNames == {"identifier", "qualified_name", "generic_name"}

PackHeritage(t, n, lang) ==
    LET super == FirstOf(Children(t, Field(t, n, "superclass")))
        first == Field(t, Field(t, n, "extend"), "type")
        bases == OfKinds(t, Children(t, ChildOf(t, n, {"base_list"})), TypeNames)
    IN  CASE lang = "ruby"   -> EachOf(t, Present(<<super>>), "extends")
          [] lang = "php"    -> PhpHeritage(t, n)
          [] lang = "kotlin" -> KotlinHeritage(t, n)
          [] lang = "swift"  -> SwiftHeritage(t, n)
          [] lang = "scala"  -> EachOf(t, Present(<<first>>), "extends")
          [] lang = "csharp" -> EachOf(t, bases, "auto")

SwiftTypeRefs(t, n) ==
    LET types == OfKinds(t, Children(t, n), {"user_type"})
        all   == [i \in DOMAIN types |-> ChildOf(t, types[i], {"type_identifier"})]
    IN  Present(all)

CSharpTypeRefs(t, n) ==
    LET params == OfKinds(t, Children(t, Field(t, n, "parameters")), {"parameter"})
        all == <<Field(t, n, "returns")>> \o [i \in DOMAIN params |-> Field(t, params[i], "type")]
    IN  Those(all, {c \in DOMAIN t : Kind(t, c) \in TypeNames})

PackTypeRefs(t, n, lang) ==
    LET ids == IF lang = "swift" THEN SwiftTypeRefs(t, n)
               ELSE IF lang = "csharp" THEN CSharpTypeRefs(t, n) ELSE << >>
    IN  [i \in DOMAIN ids |-> [at |-> ids[i], name |-> Segment(Text(t, ids[i]))]]
=============================================================================
