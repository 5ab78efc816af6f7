------------------------------ MODULE TierOne ------------------------------
(***************************************************************************)
(* What semgraph reads off a syntax tree of the languages that it extracts *)
(* with queries (parse.rs and queries/*.scm): which nodes are definitions, *)
(* their kinds and names, and what they inherit from.                      *)
(***************************************************************************)
EXTENDS SyntaxTree

TierOneLangs == {"rust", "python", "typescript"}        \* Language::is_tier1

Kinds(kinds, def) == [k \in kinds |-> def]

\* queries/*.scm: the grammar kinds that each language captures, and as what.
Captures ==
  [rust |-> Kinds({"function_item"}, "function") @@ Kinds({"trait_item"}, "trait")
            @@ Kinds({"struct_item"}, "struct") @@ Kinds({"enum_item"}, "enum")
            @@ Kinds({"enum_variant"}, "enum_member") @@ Kinds({"type_item"}, "type_alias")
            @@ Kinds({"const_item", "static_item"}, "variable")
            @@ Kinds({"use_declaration"}, "import"),
   python |-> Kinds({"function_definition"}, "function") @@ Kinds({"class_definition"}, "class")
            @@ Kinds({"import_statement", "import_from_statement"}, "import")
            @@ Kinds({"type_alias_statement"}, "type_alias") @@ Kinds({"assignment"}, "variable"),
   typescript |->
            Kinds({"function_declaration", "generator_function_declaration"}, "function")
            @@ Kinds({"class_declaration", "abstract_class_declaration"}, "class")
            @@ Kinds({"interface_declaration"}, "interface")
            @@ Kinds({"method_definition", "public_field_definition"}, "method")
            @@ Kinds({"enum_declaration"}, "enum")
            @@ Kinds({"property_identifier", "enum_assignment"}, "enum_member")
            @@ Kinds({"type_alias_declaration"}, "type_alias")
            @@ Kinds({"import_statement"}, "import"),
   c    |-> Kinds({"function_definition"}, "function") @@ Kinds({"struct_specifier"}, "struct")
            @@ Kinds({"enum_specifier"}, "enum") @@ Kinds({"enumerator"}, "enum_member")
            @@ Kinds({"type_definition"}, "type_alias") @@ Kinds({"preproc_include"}, "import"),
   cpp  |-> Kinds({"function_definition"}, "function") @@ Kinds({"class_specifier"}, "class")
            @@ Kinds({"struct_specifier"}, "struct") @@ Kinds({"enum_specifier"}, "enum")
            @@ Kinds({"enumerator"}, "enum_member")
            @@ Kinds({"type_definition", "alias_declaration"}, "type_alias")
            @@ Kinds({"preproc_include"}, "import"),
   go   |-> Kinds({"function_declaration"}, "function") @@ Kinds({"method_declaration"}, "method")
            @@ Kinds({"type_spec"}, "type_alias") @@ Kinds({"const_spec"}, "constant")
            @@ Kinds({"var_spec"}, "variable") @@ Kinds({"import_spec"}, "import"),
   java |-> Kinds({"package_declaration"}, "namespace") @@ Kinds({"class_declaration"}, "class")
            @@ Kinds({"interface_declaration"}, "interface") @@ Kinds({"enum_declaration"}, "enum")
            @@ Kinds({"enum_constant"}, "enum_member")
            @@ Kinds({"method_declaration", "constructor_declaration"}, "method")
            @@ Kinds({"field_declaration"}, "field") @@ Kinds({"import_declaration"}, "import")]

\* The patterns that say more than a kind: where the node is and what it has.
InPlace(t, n) ==
    LET up == Kind(t, Up(t, n))
        top == Kind(t, Up(t, Up(t, n)))
    IN  CASE Kind(t, n) = "assignment" ->
                 up = "expression_statement" /\ top = "module"
                 /\ Kind(t, Field(t, n, "left")) = "identifier"
          [] Kind(t, n) = "property_identifier" -> up = "enum_body"
          [] Kind(t, n) = "enum_assignment" ->
                 up = "enum_body" /\ Kind(t, Field(t, n, "name")) = "property_identifier"
          [] Kind(t, n) \in {"struct_specifier", "class_specifier", "enum_specifier"} ->
                 Field(t, n, "name") # NoNode /\ Field(t, n, "body") # NoNode
          [] Kind(t, n) \in {"type_spec", "const_spec", "var_spec"} -> top = "source_file"
          [] OTHER -> TRUE

Captured(t, lang) ==
    Those(Positions(t), {n \in DOMAIN t : Kind(t, n) \in DOMAIN Captures[lang] /\ InPlace(t, n)})

\* queries/*.refs.scm
CallKinds == {"call_expression", "call", "method_invocation"}
NewKinds(lang) == CASE lang \in {"typescript", "cpp"} -> {"new_expression"}
                    [] lang = "java" -> {"object_creation_expression"}
                    [] OTHER -> {}
CallsIn(t, lang) ==
    Those(Positions(t), {n \in DOMAIN t : Kind(t, n) \in CallKinds \cup NewKinds(lang)})

-----------------------------------------------------------------------------
(***************************************************************************)
(* Names.                                                                  *)
(***************************************************************************)
\* Down the declarator fields of a C or C++ function to the name it declares.
CppDeclaratorId(t, n) ==
    LET end[m \in 0..Len(t)] ==
            IF Field(t, m, "declarator") = NoNode THEN m ELSE end[Field(t, m, "declarator")]
    IN  end[Field(t, n, "declarator")]

\* bare_type_name: references go, and the first word is the type, if there is one.
BareTypeName(text) ==
    LET rest == SelectSeq(text, LAMBDA w : w \notin {"&", "mut"})
    IN  IF rest = << >> \/ Head(rest) \in {"*", "(", "[", "'"} THEN NoText ELSE <<Head(rest)>>

GoReceiverType(t, n) ==
    BareTypeName(Text(t, Field(t, ChildOf(t, Field(t, n, "receiver"), {"parameter_declaration"}),
                               "type")))

JavaPackage(t) ==
    Text(t, ChildOf(t, ChildOf(t, 1, {"package_declaration"}), {"scoped_identifier", "identifier"}))

\* The leftmost segment of a use tree.
RustUseRoot(t, n) ==
    LET arg == ChildOf(t, n, {"scoped_use_list", "scoped_identifier", "use_list", "identifier"})
        left[m \in 0..Len(t)] ==
            LET first == FirstOf(Children(t, m))
            IN  IF first = NoNode THEN Text(t, m)
                ELSE IF Kind(t, first) \in {"scoped_identifier", "scoped_use_list"}
                     THEN left[first] ELSE Text(t, first)
    IN  left[arg]

ImportName(t, n, lang) ==
    LET module == Text(t, Field(t, n, "module_name"))
        listed == ChildOf(t, n, {"dotted_name", "aliased_import"})
        path   == Field(t, n, "path")
    IN  CASE lang = "rust" -> RustUseRoot(t, n)
          [] lang = "python" ->
                 IF Kind(t, n) = "import_from_statement"
                 THEN IF module = <<"__future__">> THEN NoText ELSE module
                 ELSE Text(t, IF Kind(t, listed) = "aliased_import"
                              THEN Field(t, listed, "name") ELSE listed)
          [] lang = "typescript" -> Text(t, ChildOf(t, n, {"string"}))
          [] lang \in {"c", "cpp"} -> Text(t, path)
          [] lang = "go"   -> Text(t, Else(path, LastOf(Children(t, n))))
          [] lang = "java" -> Text(t, ChildOf(t, n, {"scoped_identifier", "identifier"}))

DefName(t, n, raw, lang) ==
    LET field(f) == Field(t, n, f)
    IN  CASE lang \in {"c", "cpp"} /\ raw = "function" -> Segment(Text(t, CppDeclaratorId(t, n)))
          [] lang \in {"c", "cpp"} /\ raw = "type_alias" ->
                 Text(t, Else(field("name"), field("declarator")))
          [] lang = "go" /\ raw \in {"constant", "variable"} ->
                 Text(t, Else(field("name"), ChildOf(t, n, {"identifier"})))
          [] lang = "java" /\ raw = "namespace" ->
                 Text(t, ChildOf(t, n, {"scoped_identifier", "identifier"}))
          [] lang = "java" /\ raw = "field" ->
                 Text(t, Field(t, ChildOf(t, n, {"variable_declarator"}), "name"))
          [] raw = "import"   -> ImportName(t, n, lang)
          [] lang # "go" /\ raw = "variable" -> Text(t, Else(field("left"), field("name")))
          [] raw = "enum_member" -> Text(t, Else(field("name"), n))
          [] OTHER -> Text(t, field("name"))

\* The containers that make a function a method.
MethodContainers(lang) ==
    CASE lang = "rust"       -> {"impl_item", "trait_item"}
      [] lang = "python"     -> {"class_definition"}
      [] lang = "typescript" -> {"class_declaration", "abstract_class_declaration"}
      [] OTHER               -> {}

Reclassify(t, n, raw, lang) ==
    LET type == Kind(t, Field(t, n, "type"))
    IN  CASE lang = "go" /\ raw = "type_alias" ->
                 IF type = "struct_type" THEN "struct"
                 ELSE IF type = "interface_type" THEN "interface" ELSE "type_alias"
          [] lang = "cpp" /\ raw = "function" ->
                 IF Kind(t, CppDeclaratorId(t, n)) = "qualified_identifier"
                 THEN "method" ELSE "function"
          [] raw = "function" /\ Around(t, n, MethodContainers(lang)) # NoNode -> "method"
          [] OTHER -> raw

\* What qualifies the names of the definitions inside it.
NamingContainers(lang) ==
    CASE lang = "rust" -> {"impl_item", "struct_item", "enum_item", "trait_item", "mod_item"}
      [] lang = "python" -> {"class_definition"}
      [] lang = "typescript" -> {"class_declaration", "abstract_class_declaration",
                                 "enum_declaration", "interface_declaration"}
      [] lang \in {"c", "cpp"} -> {"enum_specifier"}
      [] lang = "go"   -> {}
      [] lang = "java" -> {"class_declaration", "interface_declaration", "enum_declaration"}

ImplType(t, n) == Segment(Text(t, Field(t, n, "type")))
QualContainerName(t, n) ==
    IF Kind(t, n) = "impl_item" THEN ImplType(t, n) ELSE Text(t, Field(t, n, "name"))

QualifiedByNesting(t, n, name, lang) ==
    LET around == Reverse(OfKinds(t, Ancestors(t, n), NamingContainers(lang)))
        package == IF lang = "java" /\ Kind(t, n) # "package_declaration"
                   THEN JavaPackage(t) ELSE NoText
    IN  package \o FlattenSeq([i \in DOMAIN around |-> QualContainerName(t, around[i])]) \o name

QualName(t, n, name, lang) ==
    LET id == CppDeclaratorId(t, n)
    IN  IF lang = "cpp" /\ Kind(t, n) = "function_definition"
           /\ Kind(t, id) = "qualified_identifier" THEN Text(t, id)
        ELSE IF Kind(t, n) = "method_declaration" /\ lang = "go"
                /\ GoReceiverType(t, n) # NoText THEN GoReceiverType(t, n) \o name
        ELSE QualifiedByNesting(t, n, name, lang)

\* The type a method belongs to beside the place where it is written.
OwningType(t, n, lang) ==
    CASE lang = "rust" -> ImplType(t, Around(t, n, {"impl_item"}))
      [] lang = "go"   -> GoReceiverType(t, n)
      [] OTHER         -> NoText

ImportInFunctionBody(t, n, lang) ==
    LET bodies == CASE lang = "rust" -> {"function_item", "closure_expression"}
                    [] lang = "python" -> {"function_definition", "lambda"}
                    [] lang = "typescript" ->
                           {"function_declaration", "function_expression", "arrow_function",
                            "generator_function_declaration", "method_definition"}
                    [] OTHER -> {}
    IN  Around(t, n, bodies) # NoNode

-----------------------------------------------------------------------------
(***************************************************************************)
(* Heritage and the types a signature mentions.                            *)
(***************************************************************************)
Base(at, edge, name) == [at |-> at, edge |-> edge, name |-> name]
Bases(t, ids, edge)  == [i \in DOMAIN ids |-> Base(ids[i], edge, Text(t, ids[i]))]

\* The type identifiers of a clause, its type arguments apart.
HeritageTypeIdents(t, clause) ==
    Those(Descendants(t, clause, {"type_identifier"}),
          {n \in DOMAIN t : Around(t, n, {"type_arguments"}) < clause})

\* bound_type_names: a type, or the head of a generic one; all at the bounds.
RustBounds(t, n) ==
    LET bounds == ChildOf(t, n, {"trait_bounds"})
        each == OfKinds(t, Children(t, bounds), {"type_identifier", "generic_type"})
        head(b) == IF Kind(t, b) = "generic_type" THEN ChildOf(t, b, {"type_identifier"}) ELSE b
    IN  [i \in DOMAIN each |-> Base(bounds, "extends", Text(t, head(each[i])))]

LeftmostIdentifier(t, n) ==
    LET left[m \in 0..Len(t)] ==
            IF m = NoNode \/ Kind(t, m) \in {"identifier", "type_identifier", "property_identifier"}
            THEN m ELSE left[FirstOf(Children(t, m))]
    IN  left[n]

TsHeritage(t, n) ==
    LET clauses == OfKinds(t, Children(t, ChildOf(t, n, {"class_heritage"})),
                           {"extends_clause", "implements_clause"})
        listed(c) == Those(Children(t, c), {m \in DOMAIN t :
                         Kind(t, m) # "type_arguments" /\ LeftmostIdentifier(t, m) # NoNode})
        edge(c) == IF Kind(t, c) = "extends_clause" THEN "extends" ELSE "implements"
        of(c) == [i \in DOMAIN listed(c) |->
                     Base(listed(c)[i], edge(c), Text(t, LeftmostIdentifier(t, listed(c)[i])))]
    IN  FlattenSeq([i \in DOMAIN clauses |-> of(clauses[i])])

\* A wrapper's own type identifier, or that of its first child.
GoBaseTypeId(t, n) ==
    LET base[m \in 0..Len(t)] ==
            LET own == ChildOf(t, m, {"type_identifier"})
            IN  IF m = NoNode \/ Kind(t, m) = "type_identifier" THEN m
                ELSE IF own # NoNode THEN own ELSE base[FirstOf(Children(t, m))]
    IN  base[n]

GoEmbedded(t, n) ==
    LET type == Field(t, n, "type")
        fields == Those(Children(t, ChildOf(t, type, {"field_declaration_list"})), {f \in DOMAIN t :
                      Kind(t, f) = "field_declaration" /\ Field(t, f, "name") = NoNode})
        elems == OfKinds(t, Children(t, type), {"type_elem"})
        ids == IF Kind(t, type) = "struct_type"
               THEN [i \in DOMAIN fields |-> GoBaseTypeId(t, Field(t, fields[i], "type"))]
               ELSE IF Kind(t, type) = "interface_type"
               THEN [i \in DOMAIN elems |-> GoBaseTypeId(t, elems[i])] ELSE << >>
    IN  Bases(t, Present(ids), "extends")

\* The bases that a definition of some kind names itself.
Heritage(t, n, kind, lang) ==
    LET supers == OfKinds(t, Children(t, Field(t, n, "superclasses")), {"identifier", "attribute"})
        idents(clause) == HeritageTypeIdents(t, clause)
    IN  CASE lang = "rust" /\ kind = "trait" -> RustBounds(t, n)
          [] lang = "python" /\ kind = "class" -> Bases(t, supers, "extends")
          [] lang = "typescript" /\ kind = "class" -> TsHeritage(t, n)
          [] lang = "cpp" /\ kind \in {"class", "struct"} ->
                 Bases(t, idents(ChildOf(t, n, {"base_class_clause"})), "extends")
          [] lang = "go" -> GoEmbedded(t, n)
          [] lang = "java" /\ kind = "class" ->
                 Bases(t, idents(Field(t, n, "superclass")), "extends")
                 \o Bases(t, idents(Field(t, n, "interfaces")), "implements")
          [] lang = "java" /\ kind = "interface" ->
                 Bases(t, idents(ChildOf(t, n, {"extends_interfaces"})), "extends")
          [] OTHER -> << >>

\* impl Trait for Type: the type, and the trait it implements.
RustImpls(t) ==
    LET impls == Those(Positions(t), {n \in DOMAIN t :
                     Kind(t, n) = "impl_item" /\ Field(t, n, "trait") # NoNode})
    IN  [i \in DOMAIN impls |->
            [type |-> ImplType(t, impls[i]),
             base |-> Base(Field(t, impls[i], "trait"), "implements",
                           Segment(Text(t, Field(t, impls[i], "trait"))))]]

\* The regions of a callable whose type identifiers are references.
SignatureParts(t, n, lang) ==
    CASE lang \in {"rust", "typescript"} ->
             IF Kind(t, n) = "public_field_definition" THEN <<Field(t, n, "type")>>
             ELSE <<Field(t, n, "parameters"), Field(t, n, "return_type")>>
      [] lang = "go"   -> <<Field(t, n, "parameters"), Field(t, n, "result")>>
      [] lang = "java" -> <<Field(t, n, "parameters"), Field(t, n, "type")>>
      [] OTHER         -> << >>

TypeIdentifiers(t, n, lang) ==
    LET parts == SignatureParts(t, n, lang)
        in(r) == IF r = NoNode THEN << >>
                 ELSE IF Kind(t, r) = "type_identifier" THEN <<r>>
                 ELSE Descendants(t, r, {"type_identifier"})
    IN  FlattenSeq([i \in DOMAIN parts |-> in(parts[i])])
=============================================================================
