----------------------------- MODULE SyntaxTree -----------------------------
(***************************************************************************)
(* Concrete syntax trees, as tree-sitter hands them to the extractors: a   *)
(* sequence of nodes in document order, each with its grammar kind, the    *)
(* field it fills in its parent, its ancestors (the parent first) and its  *)
(* text.  Number 0 is "no node".  A text is the sequence of the segments   *)
(* that the path separator of its language divides it into.                *)
(***************************************************************************)
EXTENDS Naturals, Sequences, SequencesExt

CONSTANT Uppercase      \* the texts that begin with a capital letter

NoNode == 0
NoText == << >>

\* Anonymous nodes: keywords and punctuation that named_children leaves out.
Tokens == {".", "interface", "struct", "enum", "async", "export", "static", "="}

Kind(t, n) == IF n = NoNode THEN "" ELSE t[n].kind

FirstOf(s) == IF s = << >> THEN NoNode ELSE Head(s)
LastOf(s)  == IF s = << >> THEN NoNode ELSE s[Len(s)]
SomeOf(s)  == {s[i] : i \in DOMAIN s}

\* Those of s that are in S, in their order: SelectSeq, without a test for an
\* operator, so that lemmas can speak of it.
Those(s, S) ==
    LET first[i \in 0 .. Len(s)] ==
            IF i = 0 THEN << >>
            ELSE IF s[i] \in S THEN Append(first[i - 1], s[i]) ELSE first[i - 1]
    IN  first[Len(s)]
Present(s) == Those(s, SomeOf(s) \ {NoNode})

Ancestors(t, n) == t[n].above
Up(t, n) == FirstOf(Ancestors(t, n))

\* What the parser hands over: a node comes after its parent and has the parent's
\* ancestors above that, and a token has no children.
IsTree(t) ==
    /\ t \in Seq([kind : STRING, field : STRING, text : Seq(STRING), above : Seq(Nat)])
    /\ \A c \in DOMAIN t : Ancestors(t, c) # << >> =>
           /\ Up(t, c) \in 1 .. c - 1 /\ t[Up(t, c)].kind \notin Tokens
           /\ Ancestors(t, c) = <<Up(t, c)>> \o Ancestors(t, Up(t, c))

Positions(t) == [i \in 1..Len(t) |-> i]
Earliest(S)  == IF S = {} THEN NoNode ELSE CHOOSE n \in S : \A m \in S : n <= m

\* node.children(), node.named_children(): the nodes, and these in order.
Inside(t, n)      == {c \in DOMAIN t : Ancestors(t, c) # << >> /\ Head(Ancestors(t, c)) = n}
NamedInside(t, n) == {c \in Inside(t, n) : t[c].kind \notin Tokens}
AllChildren(t, n) == Those(Positions(t), Inside(t, n))
Children(t, n)    == Those(Positions(t), NamedInside(t, n))

OfKinds(t, s, kinds)  == Those(s, {c \in DOMAIN t : t[c].kind \in kinds})
KindsBelow(t, n)      == {t[c].kind : c \in Inside(t, n)}
ChildOf(t, n, kinds)  == Earliest({c \in NamedInside(t, n) : t[c].kind \in kinds})

\* child_by_field_name, of no node as well.
Field(t, n, f) == Earliest({c \in Inside(t, n) : t[c].field = f})

\* The first of two optional nodes that is there: Option::or.
Else(a, b) == IF a # NoNode THEN a ELSE b

Text(t, n) == IF n = NoNode THEN NoText ELSE t[n].text
\* rsplit(separator).next()
Segment(text) == IF text = NoText THEN NoText ELSE <<text[Len(text)]>>

Below(t, n) == {m \in 1..Len(t) : n \in SomeOf(t[m].above)}

\* All nodes below n of some kinds, in document order.
Descendants(t, n, kinds) ==
    Those(Positions(t), {m \in Below(t, n) : t[m].kind \in kinds})

\* The first ancestor of one of the kinds.
Around(t, n, kinds) == FirstOf(OfKinds(t, Ancestors(t, n), kinds))
=============================================================================
