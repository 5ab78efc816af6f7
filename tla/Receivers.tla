----------------------------- MODULE Receivers -----------------------------
(***************************************************************************)
(* How the query-driven extractor types the receiver of a method call from *)
(* what the enclosing callable shows: its parameters, its assignments, its *)
(* loops and the declared fields of its type (parse.rs, RecvCtx).          *)
(***************************************************************************)
EXTENDS TierOne

\* RecvExpr: a type, what a call returns, an element of what a call returns.
Typed(name)   == [how |-> "type", name |-> name, call |-> << >>]
Return(call)  == [how |-> "return", name |-> NoText, call |-> <<call>>]
Element(call) == [how |-> "element", name |-> NoText, call |-> <<call>>]
Unknown       == [how |-> "none", name |-> NoText, call |-> << >>]
IfTyped(text) == IF text = NoText THEN Unknown ELSE Typed(text)

\* CallRef
CallOf(shape, of, name, recv) == [shape |-> shape, of |-> of, name |-> name, recv |-> recv]
NoCall == CallOf("none", NoText, NoText, << >>)

Selves == {<<"self">>, <<"this">>}
Calling == {"call_expression", "call"}
Wrappers == {"try_expression", "await_expression", "parenthesized_expression",
             "reference_expression"}

\* The fields of a member access: its object and its member.
Member(lang) ==
    CASE lang = "rust"       -> [kind |-> "field_expression", of |-> "value", name |-> "field"]
      [] lang = "python"     -> [kind |-> "attribute", of |-> "object", name |-> "attribute"]
      [] lang = "typescript" -> [kind |-> "member_expression", of |-> "object", name |-> "property"]
      [] lang = "cpp"        -> [kind |-> "field_expression", of |-> "argument", name |-> "field"]
      [] lang = "go"         -> [kind |-> "selector_expression", of |-> "operand", name |-> "field"]
      [] OTHER               -> [kind |-> "none", of |-> "none", name |-> "none"]

\* self.field: the field's name.
SelfFieldName(t, n, lang) ==
    LET object == Field(t, n, Member(lang).of)
        field  == Field(t, n, Member(lang).name)
    IN  IF /\ lang \in TierOneLangs
           /\ Kind(t, n) = Member(lang).kind
           /\ Kind(t, object) \in {"self", "this"} \/ Text(t, object) \in Selves
           /\ Kind(t, field) \in {"field_identifier", "property_identifier", "identifier"}
        THEN Text(t, field) ELSE NoText

\* collect_field_types: the declared fields of the file's structs or classes.
FieldTypes(t, lang) ==
    LET owners == CASE lang = "rust" -> Descendants(t, 1, {"struct_item"})
                    [] lang = "typescript" -> Descendants(t, 1, {"class_declaration"})
                           \o Descendants(t, 1, {"abstract_class_declaration"})
                    [] OTHER -> << >>
        declaration == IF lang = "rust" THEN "field_declaration" ELSE "public_field_definition"
        annotation(f) == LET type == Field(t, f, "type")
                         IN  IF lang = "rust" THEN type ELSE Else(FirstOf(Children(t, type)), type)
        of(o) == LET fields == OfKinds(t, Children(t, Field(t, o, "body")), {declaration})
                 IN  [i \in DOMAIN fields |-> [type  |-> Text(t, Field(t, o, "name")),
                                              field |-> Text(t, Field(t, fields[i], "name")),
                                              is    |-> BareTypeName(Text(t, annotation(fields[i])))]]
    IN  SelectSeq(FlattenSeq([i \in DOMAIN owners |-> of(owners[i])]), LAMBDA f : f.is # NoText)

\* A context: the tree, its language, the enclosing type and the field types.
Context(t, lang, encl, fields) == [t |-> t, lang |-> lang, encl |-> encl, fields |-> fields]

FieldType(ctx, field) ==
    LET mine == SelectSeq(ctx.fields, LAMBDA f : f.type = ctx.encl /\ f.field = field)
    IN  IF ctx.encl = NoText \/ mine = << >> THEN Unknown ELSE Typed(mine[Len(mine)].is)

\* The object of a method call.
Object(ctx, n) == Field(ctx.t, Field(ctx.t, n, "function"), Member(ctx.lang).of)

\* CallRef, of a call on an object with the receiver recv.
CallRefOn(ctx, n, recv) ==
    LET t == ctx.t
        func == Field(t, n, "function")
    IN  CASE ctx.lang \notin TierOneLangs -> NoCall
          [] Kind(t, func) = "identifier" -> CallOf("bare", NoText, Text(t, func), << >>)
          [] Kind(t, func) = "scoped_identifier" /\ ctx.lang = "rust" ->
                 CallOf("qualified", Segment(Text(t, Field(t, func, "path"))),
                        Text(t, Field(t, func, "name")), << >>)
          [] Kind(t, func) = Member(ctx.lang).kind ->
                 IF recv = Unknown THEN NoCall
                 ELSE CallOf("method", NoText, Text(t, Field(t, func, Member(ctx.lang).name)), <<recv>>)
          [] OTHER -> NoCall

Returned(call) == IF call = NoCall THEN Unknown ELSE Return(call)

\* Locals map names to receivers; a name that is not there is unknown.  The
\* recursion goes down the tree, into wrappers and the objects of calls.
RecvExpr(ctx, n, locals) ==
    LET t == ctx.t
        local(name) == IF name \in DOMAIN locals THEN locals[name] ELSE Unknown
        of[m \in 0 .. Len(t)] ==
            CASE Kind(t, m) \in {"self", "this"} -> IfTyped(ctx.encl)
              [] SelfFieldName(t, m, ctx.lang) # NoText ->
                     FieldType(ctx, SelfFieldName(t, m, ctx.lang))
              [] Kind(t, m) = "identifier" ->
                     IF Text(t, m) \in Selves THEN IfTyped(ctx.encl) ELSE local(Text(t, m))
              [] Kind(t, m) \in Calling -> Returned(CallRefOn(ctx, m, of[Object(ctx, m)]))
              [] Kind(t, m) \in Wrappers -> of[FirstOf(Children(t, m))]
              [] OTHER -> Unknown
    IN  of[n]

CallRef(ctx, n, locals) == CallRefOn(ctx, n, RecvExpr(ctx, Object(ctx, n), locals))

-----------------------------------------------------------------------------
(***************************************************************************)
(* The locals of a callable: one pass in document order, over parameters   *)
(* and then the whole body.                                                *)
(***************************************************************************)
Bind(locals, name, recv) == IF recv = Unknown THEN locals ELSE (name :> recv) @@ locals

InferParam(ctx, locals, p) ==
    LET t == ctx.t
        pattern == Field(t, p, "pattern")
        type == Field(t, p, "type")
        typed(name, of) == IF name = NoNode THEN locals
                           ELSE Bind(locals, Text(t, name), IfTyped(BareTypeName(Text(t, of))))
    IN  CASE ctx.lang = "rust" /\ Kind(t, p) = "self_parameter" ->
                 Bind(locals, <<"self">>, IfTyped(ctx.encl))
          [] ctx.lang = "rust" /\ Kind(t, p) = "parameter" /\ Kind(t, pattern) = "identifier" ->
                 typed(pattern, type)
          [] ctx.lang = "python" /\ Kind(t, p) = "typed_parameter" ->
                 typed(ChildOf(t, p, {"identifier"}), type)
          [] ctx.lang = "typescript" /\ Kind(t, pattern) = "identifier"
                 /\ Kind(t, p) \in {"required_parameter", "optional_parameter"} ->
                 typed(pattern, Else(FirstOf(Children(t, type)), type))
          [] ctx.lang = "java" /\ Kind(t, p) = "formal_parameter" -> typed(Field(t, p, "name"), type)
          [] OTHER -> locals

ValueType(ctx, n, locals) ==
    LET t == ctx.t
        ctor(m) == Field(t, m, "constructor")
        of[m \in 0 .. Len(t)] ==
            CASE Kind(t, m) \in Wrappers -> of[FirstOf(Children(t, m))]
              [] Kind(t, m) = "struct_expression" -> Typed(Segment(Text(t, Field(t, m, "name"))))
              [] Kind(t, m) = "new_expression" /\ Kind(t, ctor(m)) = "identifier" ->
                     Typed(Text(t, ctor(m)))
              [] Kind(t, m) \in Calling -> Returned(CallRef(ctx, m, locals))
              [] OTHER -> Unknown
    IN  of[n]

\* for x in call: x is an element of what the call returns.
ForBinding(ctx, locals, n) ==
    LET t == ctx.t
        loop == IF ctx.lang = "rust" THEN <<"for_expression", "pattern", "value">>
                ELSE IF ctx.lang = "python" THEN <<"for_statement", "left", "right">>
                ELSE <<"none", "none", "none">>
        var  == Field(t, n, loop[2])
        over == Field(t, n, loop[3])
        value == IF Kind(t, over) = "reference_expression" THEN LastOf(Children(t, over)) ELSE over
        call == CallRef(ctx, value, locals)
    IN  IF Kind(t, n) = loop[1] /\ Kind(t, var) = "identifier" /\ Kind(t, value) \in Calling
           /\ call # NoCall
        THEN Bind(locals, Text(t, var), Element(call)) ELSE locals

\* One node of walk_assignments.
Assign(ctx, before, n) ==
    LET t == ctx.t
        locals == ForBinding(ctx, before, n)
        type == Field(t, n, "type")
        inner == Else(FirstOf(Children(t, type)), type)
        form == CASE ctx.lang = "rust" -> <<"let_declaration", "pattern", "value", NoNode>>
                  [] ctx.lang = "python" -> <<"assignment", "left", "right", type>>
                  [] ctx.lang = "typescript" -> <<"variable_declarator", "name", "value", inner>>
                  [] OTHER -> <<"none", "none", "none", NoNode>>
        var == Field(t, n, form[2])
        value == Field(t, n, form[3])
        known == BareTypeName(Text(t, form[4]))
        declared == OfKinds(t, Children(t, n), {"variable_declarator"})
        put(m, d) == Bind(m, Text(t, Field(t, d, "name")), IfTyped(BareTypeName(Text(t, type))))
    IN  CASE /\ Kind(t, n) = form[1] /\ Kind(t, var) = "identifier"
             /\ ctx.lang = "typescript" => value # NoNode ->
                 Bind(locals, Text(t, var),
                      IF known # NoText THEN Typed(known) ELSE ValueType(ctx, value, locals))
          [] ctx.lang = "java" /\ Kind(t, n) = "local_variable_declaration" ->
                 FoldLeft(put, locals, declared)
          [] OTHER -> locals

\* Mutant of InferLocals: only the statements of the body itself are walked.
InferLocalsShallow(ctx, func) ==
    LET t == ctx.t
        self == IF ctx.encl = NoText THEN << >>
                ELSE [name \in Selves |-> Typed(ctx.encl)]
        param(m, p) == InferParam(ctx, m, p)
        node(m, n)  == Assign(ctx, m, n)
    IN  FoldLeft(node, FoldLeft(param, self, Children(t, Field(t, func, "parameters"))),
                 Children(t, Field(t, func, "body")))

InferLocals(ctx, func) ==
    LET t == ctx.t
        self == IF ctx.encl = NoText THEN << >>
                ELSE [name \in Selves |-> Typed(ctx.encl)]
        param(m, p) == InferParam(ctx, m, p)
        node(m, n)  == Assign(ctx, m, n)
        body == Field(t, func, "body")
        inside == IF body = NoNode THEN << >>
                  ELSE SelectSeq(Positions(t), LAMBDA m : m = body \/ m \in Below(t, body))
    IN  FoldLeft(node, FoldLeft(param, self, Children(t, Field(t, func, "parameters"))), inside)

-----------------------------------------------------------------------------
(***************************************************************************)
(* What a call asks for.                                                   *)
(***************************************************************************)
Asks(what, of, name, via) == [ask |-> what, of |-> of, name |-> name, via |-> via]
Nothing == Asks("none", NoText, NoText, << >>)

JavaCall(ctx, n, locals) ==
    LET t == ctx.t
        object == Field(t, n, "object")
        name == Text(t, Field(t, n, "name"))
        recv == RecvExpr(ctx, object, locals)
        \* qualify_java_type: a simple name gets the package.
        qualified(type) == IF Len(type) > 1 THEN type ELSE JavaPackage(t) \o type
    IN  CASE name = NoText -> Nothing
          [] object = NoNode -> Asks("call", NoText, name, << >>)
          [] recv.how = "type" -> Asks("qualified", qualified(recv.name), name, << >>)
          [] Kind(t, object) = "identifier" /\ Text(t, object) \in Uppercase ->
                 Asks("qualified", qualified(Text(t, object)), name, << >>)
          [] OTHER -> Nothing

\* An untyped receiver keeps the call, with nothing to resolve it by.
CallPayload(ctx, n, locals) ==
    LET t == ctx.t
        func == Field(t, n, "function")
        member == Text(t, Field(t, func, Member(ctx.lang).name))
        recv == RecvExpr(ctx, Field(t, func, Member(ctx.lang).of), locals)
        scope == Field(t, func, IF ctx.lang = "rust" THEN "path" ELSE "scope")
    IN  CASE ctx.lang = "java" -> JavaCall(ctx, n, locals)
          [] Kind(t, func) = "identifier" -> Asks("call", NoText, Text(t, func), << >>)
          [] <<ctx.lang, Kind(t, func)>> \in {<<"rust", "scoped_identifier">>,
                                             <<"cpp", "qualified_identifier">>} ->
                 Asks("qualified", Segment(Text(t, scope)), Text(t, Field(t, func, "name")), << >>)
          [] ctx.lang \in TierOneLangs /\ Kind(t, func) = Member(ctx.lang).kind ->
                 Asks("method", NoText, member, IF recv = Unknown THEN << >> ELSE <<recv>>)
          [] ctx.lang \in {"cpp", "go"} /\ Kind(t, func) = Member(ctx.lang).kind ->
                 Asks("call", NoText, member, << >>)
          [] OTHER -> Nothing

NewPayload(t, n, lang) ==
    LET ctor == Field(t, n, "constructor")
        type == Field(t, n, "type")
    IN  CASE lang = "typescript" /\ Kind(t, ctor) = "identifier" ->
                 Asks("new", NoText, Text(t, ctor), << >>)
          [] lang \in {"java", "cpp"} /\ type # NoNode ->
                 Asks("new", NoText, Segment(Text(t, type)), << >>)
          [] OTHER -> Nothing
=============================================================================
