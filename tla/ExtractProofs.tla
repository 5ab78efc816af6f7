---------------------------- MODULE ExtractProofs ----------------------------
(***************************************************************************)
(* For any tree, any language and any cap on the depth: no edge and no     *)
(* reference site that an extraction leaves hangs in the air, and in the   *)
(* walked languages each belongs to the scope that the tree puts it in.    *)
(*                                                                         *)
(* The walker takes the ends from its stack, so a scope must be there for  *)
(* every "leave" that the agenda still holds (Pending), and every scope    *)
(* must be a definition that was emitted or the file (Graph).  The phases  *)
(* of parse::extract look their ends up among the definitions that were    *)
(* captured: they may not run before "define" has, and "define", which     *)
(* begins anew, may not run after them (Plan); and the ancestors of a      *)
(* definition are read off the tree, so it must be a node of it (Located). *)
(*                                                                         *)
(* That it is the right scope (WInv) needs to be known of every call that  *)
(* is still to be made, not only of the next: what the stack will be then  *)
(* are the scopes around the node that is visited (Fits), and no node is   *)
(* visited that was visited before or that another call will visit (Apart).*)
(*                                                                         *)
(* The rest is what the helpers that read a tree return: sequences, those  *)
(* of the definitions emitted, elements of nodes, nodes below their        *)
(* argument, each once and none inside another.                            *)
(***************************************************************************)
EXTENDS Extract, SequenceTheorems, FiniteSetTheorems, TLAPS

OfLoops == INSTANCE LoopProofs

-----------------------------------------------------------------------------
(* Sequences                                                               *)

\* A sequence, of whatever is in it.
IsSeq(s) == s \in Seq(SomeOf(s))

LEMMA SeqIs ==
    ASSUME NEW S, NEW s \in Seq(S)
    PROVE  /\ IsSeq(s) /\ SomeOf(s) \subseteq S
           /\ Len(s) \in Nat /\ DOMAIN s = 1 .. Len(s) /\ s \in [1 .. Len(s) -> S]
<1>1. Len(s) \in Nat /\ DOMAIN s = 1 .. Len(s) /\ s \in [1 .. Len(s) -> S]
    OBVIOUS
<1>2. s \in [1 .. Len(s) -> SomeOf(s)]
    BY <1>1 DEF SomeOf
<1>3. SomeOf(s) \subseteq S
    BY <1>1 DEF SomeOf
<1>4. s \in Seq(SomeOf(s))
    BY <1>1, <1>2, SeqDef
<1> QED BY <1>1, <1>3, <1>4 DEF IsSeq

LEMMA MapIs ==
    ASSUME NEW n \in Nat, NEW f, f = [i \in 1 .. n |-> f[i]]
    PROVE  IsSeq(f) /\ Len(f) = n /\ SomeOf(f) = {f[i] : i \in 1 .. n}
<1>1. SomeOf(f) = {f[i] : i \in 1 .. n}
    BY DEF SomeOf
<1>2. f \in [1 .. n -> SomeOf(f)]
    BY <1>1
<1>3. f \in Seq(SomeOf(f)) /\ Len(f) = n
    BY <1>2, SeqDef
<1> QED BY <1>1, <1>3 DEF IsSeq

LEMMA ConcatIs ==
    ASSUME NEW s, IsSeq(s), NEW t, IsSeq(t)
    PROVE  IsSeq(s \o t) /\ SomeOf(s \o t) = SomeOf(s) \cup SomeOf(t)
<1> DEFINE S == SomeOf(s) \cup SomeOf(t)
           q == s \o t
<1>1. s \in Seq(S) /\ t \in Seq(S)
    <2>1. s \in Seq(SomeOf(s)) /\ t \in Seq(SomeOf(t))
        BY DEF IsSeq
    <2> HIDE DEF S
    <2>2. SomeOf(s) \subseteq S /\ SomeOf(t) \subseteq S
        BY DEF S
    <2> QED BY <2>1, <2>2
<1>2. /\ q \in Seq(S) /\ Len(q) = Len(s) + Len(t)
      /\ \A i \in 1 .. Len(s) + Len(t) :
            q[i] = IF i <= Len(s) THEN s[i] ELSE t[i - Len(s)]
    <2> HIDE DEF S
    <2> QED BY <1>1, ConcatProperties
<1>3. /\ Len(s) \in Nat /\ DOMAIN s = 1 .. Len(s) /\ Len(t) \in Nat /\ DOMAIN t = 1 .. Len(t)
      /\ IsSeq(q) /\ SomeOf(q) \subseteq S /\ DOMAIN q = 1 .. Len(q)
    BY <1>1, <1>2, SeqIs
<1> HIDE DEF q
<1>4. SomeOf(s) \subseteq SomeOf(q)
    <2> SUFFICES ASSUME NEW i \in 1 .. Len(s) PROVE s[i] \in SomeOf(q)
        BY <1>3 DEF SomeOf
    <2>1. i \in 1 .. Len(s) + Len(t) /\ i <= Len(s)
        BY <1>3
    <2>2. i \in DOMAIN q /\ q[i] = s[i]
        BY <1>2, <1>3, <2>1
    <2> QED BY <2>2 DEF SomeOf
<1>5. SomeOf(t) \subseteq SomeOf(q)
    <2> SUFFICES ASSUME NEW i \in 1 .. Len(t) PROVE t[i] \in SomeOf(q)
        BY <1>3 DEF SomeOf
    <2>1. /\ Len(s) + i \in 1 .. Len(s) + Len(t) /\ ~ (Len(s) + i <= Len(s))
          /\ (Len(s) + i) - Len(s) = i
        BY <1>3
    <2>2. Len(s) + i \in DOMAIN q /\ q[Len(s) + i] = t[i]
        BY <1>2, <1>3, <2>1
    <2> QED BY <2>2 DEF SomeOf
<1> QED BY <1>3, <1>4, <1>5 DEF q

LEMMA EmptyIs == IsSeq(<< >>) /\ SomeOf(<< >>) = {}
BY DEF IsSeq, SomeOf

LEMMA OneIs == ASSUME NEW x PROVE IsSeq(<<x>>) /\ SomeOf(<<x>>) = {x}
<1>1. SomeOf(<<x>>) = {x}
    BY DEF SomeOf
<1> QED BY <1>1 DEF IsSeq

\* The loop that Those is.
Taking(f, s, S) ==
    /\ f \in [0 .. Len(s) -> Seq(SomeOf(s) \cap S)] /\ f[0] = << >>
    /\ \A i \in 1 .. Len(s) :
           f[i] = IF s[i] \in S THEN Append(f[i - 1], s[i]) ELSE f[i - 1]

LEMMA ThoseRun ==
    ASSUME NEW s, IsSeq(s), NEW S
    PROVE  \E f : Taking(f, s, S) /\ Those(s, S) = f[Len(s)]
<1> DEFINE n == Len(s)
           T == Seq(SomeOf(s) \cap S)
           step == [i \in 1 .. n |->
                       [q \in T |-> IF s[i] \in S THEN Append(q, s[i]) ELSE q]]
           Looped(f) == f = [i \in 0 .. n |->
                                IF i = 0 THEN << >>
                                ELSE IF s[i] \in S THEN Append(f[i - 1], s[i]) ELSE f[i - 1]]
           acc == CHOOSE f : Looped(f)
<1>1. n \in Nat /\ DOMAIN s = 1 .. n /\ \A i \in 1 .. n : s[i] \in SomeOf(s)
    BY SeqIs DEF IsSeq, SomeOf
<1>2. Those(s, S) = acc[n]
    BY DEF Those
<1>3. OfLoops!IsLoop(n, T, << >>, step)
    <2>1. << >> \in T
        OBVIOUS
    <2>2. step \in [1 .. n -> [T -> T]]
        BY <1>1
    <2> QED BY <1>1, <2>1, <2>2 DEF OfLoops!IsLoop
<1>4. PICK f : OfLoops!IsRun(f, n, T, << >>, step)
    <2> HIDE DEF step, T, n
    <2> QED BY <1>3, OfLoops!LoopRuns
<1>5. Looped(f)
    <2>1. f \in [0 .. n -> T] /\ f[0] = << >> /\ \A i \in 1 .. n : f[i] = step[i][f[i - 1]]
        BY <1>4 DEF OfLoops!IsRun
    <2>2. \A i \in 1 .. n : f[i - 1] \in T
        BY <1>1, <2>1
    <2>3. \A i \in 1 .. n : f[i] = IF s[i] \in S THEN Append(f[i - 1], s[i]) ELSE f[i - 1]
        BY <2>1, <2>2
    <2>4. \A i \in 0 .. n : i # 0 => i \in 1 .. n
        BY <1>1
    <2> HIDE DEF T, step, n
    <2> QED BY <2>1, <2>3, <2>4
<1>6. Looped(acc)
    <2> HIDE DEF Looped
    <2> QED BY <1>5
<1> HIDE DEF acc
<1>7. OfLoops!IsRun(acc, n, T, << >>, step)
    <2>1. acc = [i \in 0 .. n |-> acc[i]] /\ acc[0] = << >>
        BY <1>1, <1>6
    <2>2. \A i \in 1 .. n : acc[i - 1] \in T => acc[i] = step[i][acc[i - 1]]
        <3> TAKE i \in 1 .. n
        <3>1. i \in 0 .. n /\ i # 0
            BY <1>1
        <3> QED BY <1>6, <3>1
    <2> HIDE DEF step, T, n, Looped
    <2> QED BY <1>3, <2>1, <2>2, OfLoops!RunOfLoop
<1>8. acc \in [0 .. n -> T]
    BY <1>7 DEF OfLoops!IsRun
<1>9. /\ acc[0] = << >>
      /\ \A i \in 1 .. n : acc[i] = IF s[i] \in S THEN Append(acc[i - 1], s[i]) ELSE acc[i - 1]
    <2>1. 0 \in 0 .. n /\ \A i \in 1 .. n : i \in 0 .. n /\ i # 0
        BY <1>1
    <2> HIDE DEF n
    <2> QED BY <1>6, <2>1
<1>10. Taking(acc, s, S)
    BY <1>8, <1>9 DEF Taking
<1> QED BY <1>2, <1>10

LEMMA ThoseAre ==
    ASSUME NEW s, IsSeq(s), NEW S
    PROVE  IsSeq(Those(s, S)) /\ SomeOf(Those(s, S)) \subseteq SomeOf(s) \cap S
<1> DEFINE T == Seq(SomeOf(s) \cap S)
<1>1. PICK f : Taking(f, s, S) /\ Those(s, S) = f[Len(s)]
    BY ThoseRun
<1>2. Len(s) \in 0 .. Len(s)
    BY SeqIs DEF IsSeq
<1>3. Those(s, S) \in T
    BY <1>1, <1>2 DEF Taking
<1> QED BY <1>3, SeqIs

\* The loop that FlattenSeq is.
Joining(f, s) ==
    /\ f \in [0 .. Len(s) -> Seq(UNION {SomeOf(q) : q \in SomeOf(s)})] /\ f[0] = << >>
    /\ \A i \in 1 .. Len(s) : f[i] = f[i - 1] \o s[i]

LEMMA FlattenRun ==
    ASSUME NEW s, IsSeq(s), \A q \in SomeOf(s) : IsSeq(q)
    PROVE  \E f : Joining(f, s) /\ FlattenSeq(s) = f[Len(s)]
<1> DEFINE n == Len(s)
           S == UNION {SomeOf(q) : q \in SomeOf(s)}
           T == Seq(S)
           step == [i \in 1 .. n |-> [q \in T |-> IF i = 1 THEN s[i] ELSE q \o s[i]]]
           Looped(f) == f = [i \in 1 .. n |-> IF i = 1 THEN s[i] ELSE f[i - 1] \o s[i]]
           acc == CHOOSE f : Looped(f)
           from0 == [i \in 0 .. n |-> IF i = 0 THEN << >> ELSE acc[i]]
<1>1. n \in Nat /\ DOMAIN s = 1 .. n /\ \A i \in 1 .. n : s[i] \in SomeOf(s)
    BY SeqIs DEF IsSeq, SomeOf
<1>2. \A i \in 1 .. n : s[i] \in T
    <2> TAKE i \in 1 .. n
    <2>1. s[i] \in Seq(SomeOf(s[i])) /\ SomeOf(s[i]) \subseteq S
        BY <1>1 DEF IsSeq
    <2> HIDE DEF S
    <2> QED BY <2>1
<1> HIDE DEF S
<1>3. \A p, q \in T : p \o q \in T
    OBVIOUS
<1>4. << >> \in T
    OBVIOUS
<1>5. OfLoops!IsLoop(n, T, << >>, step)
    <2>1. step \in [1 .. n -> [T -> T]]
        <3> HIDE DEF T
        <3> QED BY <1>1, <1>2, <1>3
    <2> QED BY <1>1, <1>4, <2>1 DEF OfLoops!IsLoop
<1> HIDE DEF T
<1>6. PICK f : OfLoops!IsRun(f, n, T, << >>, step)
    <2> HIDE DEF step, n
    <2> QED BY <1>5, OfLoops!LoopRuns
<1>7. Looped([i \in 1 .. n |-> f[i]])
    <2>1. f \in [0 .. n -> T] /\ \A i \in 1 .. n : f[i] = step[i][f[i - 1]]
        BY <1>6 DEF OfLoops!IsRun
    <2>2. \A i \in 1 .. n : f[i - 1] \in T /\ (i # 1 => i - 1 \in 1 .. n)
        BY <1>1, <2>1
    <2>3. \A i \in 1 .. n : f[i] = IF i = 1 THEN s[i] ELSE f[i - 1] \o s[i]
        BY <2>1, <2>2
    <2> HIDE DEF step, n
    <2> QED BY <2>2, <2>3
<1>8. Looped(acc)
    <2> HIDE DEF Looped
    <2> QED BY <1>7
<1> HIDE DEF acc
<1>9. OfLoops!IsRun(from0, n, T, << >>, step)
    <2>1. from0 = [i \in 0 .. n |-> from0[i]] /\ from0[0] = << >>
        BY <1>1
    <2>2. \A i \in 1 .. n : from0[i - 1] \in T => from0[i] = step[i][from0[i - 1]]
        <3> TAKE i \in 1 .. n
        <3>1. i \in 0 .. n /\ i # 0 /\ i - 1 \in 0 .. n /\ (i # 1 => i - 1 # 0)
            BY <1>1
        <3>2. from0[i] = IF i = 1 THEN s[i] ELSE acc[i - 1] \o s[i]
            BY <1>8, <3>1
        <3>3. i # 1 => from0[i - 1] = acc[i - 1]
            BY <3>1
        <3> HIDE DEF from0
        <3> QED BY <3>2, <3>3
    <2> HIDE DEF step, n, Looped, from0
    <2> QED BY <1>5, <2>1, <2>2, OfLoops!RunOfLoop
<1>10. from0 \in [0 .. n -> T] /\ \A i \in 1 .. n : from0[i] = step[i][from0[i - 1]]
    BY <1>9 DEF OfLoops!IsRun
<1>11. from0[0] = << >>
    BY <1>1
<1>12. \A i \in 1 .. n : from0[i] = from0[i - 1] \o s[i]
    <2> TAKE i \in 1 .. n
    <2>1. from0[i - 1] \in T /\ (i = 1 => i - 1 = 0)
        BY <1>1, <1>10
    <2>2. from0[i] = IF i = 1 THEN s[i] ELSE from0[i - 1] \o s[i]
        BY <1>10, <2>1
    <2>3. << >> \o s[i] = s[i]
        BY <1>2, ConcatEmptySeq DEF T
    <2> HIDE DEF from0
    <2> QED BY <1>11, <2>1, <2>2, <2>3
<1>13. FlattenSeq(s) = from0[n]
    <2>1. CASE n = 0
        <3>1. FlattenSeq(s) = s /\ s = << >>
            BY <1>1, <2>1 DEF FlattenSeq, IsSeq
        <3> QED BY <1>11, <2>1, <3>1
    <2>2. CASE n # 0
        <3>1. FlattenSeq(s) = acc[n]
            BY <2>2 DEF FlattenSeq, acc
        <3> QED BY <1>1, <2>2, <3>1
    <2> QED BY <2>1, <2>2
<1> HIDE DEF from0
<1>14. Joining(from0, s)
    BY <1>10, <1>11, <1>12 DEF Joining, S, T
<1> QED BY <1>13, <1>14

LEMMA FlattenIs ==
    ASSUME NEW s, IsSeq(s), \A q \in SomeOf(s) : IsSeq(q)
    PROVE  /\ IsSeq(FlattenSeq(s))
           /\ \A x \in SomeOf(FlattenSeq(s)) : \E q \in SomeOf(s) : x \in SomeOf(q)
<1> DEFINE S == UNION {SomeOf(q) : q \in SomeOf(s)}
<1>1. PICK f : Joining(f, s) /\ FlattenSeq(s) = f[Len(s)]
    BY FlattenRun
<1>2. Len(s) \in 0 .. Len(s)
    BY SeqIs DEF IsSeq
<1>3. FlattenSeq(s) \in Seq(S)
    BY <1>1, <1>2 DEF Joining
<1>4. IsSeq(FlattenSeq(s)) /\ SomeOf(FlattenSeq(s)) \subseteq S
    <2> HIDE DEF S
    <2> QED BY <1>3, SeqIs
<1> QED BY <1>4

\* A sequence that is made of another one, element by element.
LEMMA MapOf ==
    ASSUME NEW s, IsSeq(s), NEW f, f = [i \in DOMAIN s |-> f[i]]
    PROVE  IsSeq(f) /\ DOMAIN f = DOMAIN s /\ SomeOf(f) = {f[i] : i \in DOMAIN s}
<1>1. Len(s) \in Nat /\ DOMAIN s = 1 .. Len(s)
    BY SeqIs DEF IsSeq
<1> QED BY <1>1, MapIs

LEMMA FlatMapOf ==
    ASSUME NEW s, IsSeq(s), NEW f, f = [i \in DOMAIN s |-> f[i]],
           \A i \in DOMAIN s : IsSeq(f[i])
    PROVE  /\ IsSeq(FlattenSeq(f))
           /\ \A x \in SomeOf(FlattenSeq(f)) : \E i \in DOMAIN s : x \in SomeOf(f[i])
<1>1. IsSeq(f) /\ SomeOf(f) = {f[i] : i \in DOMAIN s}
    BY MapOf
<1>2. \A q \in SomeOf(f) : IsSeq(q)
    BY <1>1
<1>3. /\ IsSeq(FlattenSeq(f))
      /\ \A x \in SomeOf(FlattenSeq(f)) : \E q \in SomeOf(f) : x \in SomeOf(q)
    BY <1>1, <1>2, FlattenIs
<1> QED BY <1>1, <1>3

-----------------------------------------------------------------------------
(* What is read off a tree comes in sequences                              *)

LEMMA PositionsAre == ASSUME NEW t, IsTree(t) PROVE IsSeq(Positions(t))
<1>1. Len(t) \in Nat
    BY DEF IsTree
<1>2. Positions(t) = [i \in 1 .. Len(t) |-> Positions(t)[i]]
    BY DEF Positions
<1> QED BY <1>1, <1>2, MapIs

LEMMA ChildrenAre ==
    ASSUME NEW t, IsTree(t), NEW n
    PROVE  IsSeq(AllChildren(t, n)) /\ IsSeq(Children(t, n))
BY PositionsAre, ThoseAre DEF AllChildren, Children

LEMMA OfKindsAre ==
    ASSUME NEW t, IsTree(t), NEW n, NEW kinds
    PROVE  IsSeq(OfKinds(t, Children(t, n), kinds)) /\ IsSeq(Descendants(t, n, kinds))
BY PositionsAre, ChildrenAre, ThoseAre DEF OfKinds, Descendants

\* Heritage clauses: none of them is a call.
Clauses(s) == IsSeq(s) /\ \A b \in SomeOf(s) : b.edge # "call"

LEMMA NoClauses == Clauses(<< >>)
BY EmptyIs DEF Clauses

LEMMA OneClause ==
    ASSUME NEW t, NEW at, NEW name, NEW edge, edge # "call" PROVE Clauses(Inherits(t, at, name, edge))
<1> DEFINE b == [at |-> at, name |-> Segment(name), edge |-> edge]
<1>1. b.edge # "call"
    OBVIOUS
<1>2. Inherits(t, at, name, edge) = <<b>>
    BY DEF Inherits
<1> HIDE DEF b
<1> QED BY <1>1, <1>2, OneIs DEF Clauses

LEMMA FlatClauses ==
    ASSUME NEW s, IsSeq(s), NEW f, f = [i \in DOMAIN s |-> f[i]], \A i \in DOMAIN s : Clauses(f[i])
    PROVE  Clauses(FlattenSeq(f))
<1>1. /\ IsSeq(FlattenSeq(f))
      /\ \A x \in SomeOf(FlattenSeq(f)) : \E i \in DOMAIN s : x \in SomeOf(f[i])
    BY FlatMapOf DEF Clauses
<1> QED BY <1>1 DEF Clauses

LEMMA EachOfIs ==
    ASSUME NEW t, NEW s, IsSeq(s), NEW edge, edge # "call"
    PROVE  Clauses(EachOf(t, s, edge))
<1> DEFINE f == [i \in DOMAIN s |-> Inherits(t, s[i], Text(t, s[i]), edge)]
<1>1. \A i \in DOMAIN s : Clauses(f[i])
    BY OneClause
<1>2. f = [i \in DOMAIN s |-> f[i]]
    OBVIOUS
<1> HIDE DEF f
<1>3. Clauses(FlattenSeq(f))
    BY <1>1, <1>2, FlatClauses
<1> QED BY <1>3 DEF EachOf, f

LEMMA PhpHeritageIs == ASSUME NEW t, IsTree(t), NEW n PROVE Clauses(PhpHeritage(t, n))
<1> DEFINE names(c) == OfKinds(t, Children(t, c), {"name", "qualified_name"})
           uses(c)  == OfKinds(t, Children(t, c), {"use_declaration"})
           ofUse(d) == [i \in DOMAIN names(d) |->
                           [at |-> d, name |-> Segment(Text(t, names(d)[i])), edge |-> "implements"]]
           used(c)  == [i \in DOMAIN uses(c) |-> ofUse(uses(c)[i])]
           clause(c) ==
               CASE Kind(t, c) = "base_clause"            -> EachOf(t, names(c), "extends")
                 [] Kind(t, c) = "class_interface_clause" -> EachOf(t, names(c), "implements")
                 [] Kind(t, c) = "declaration_list"       -> FlattenSeq(used(c))
                 [] OTHER -> << >>
           kids == Children(t, n)
           f == [i \in DOMAIN kids |-> clause(kids[i])]
<1>1. \A c : IsSeq(names(c)) /\ IsSeq(uses(c)) /\ IsSeq(kids)
    BY OfKindsAre, ChildrenAre
<1>2. ASSUME NEW d PROVE Clauses(ofUse(d))
    <2>1. /\ ofUse(d) = [i \in DOMAIN names(d) |-> ofUse(d)[i]]
          /\ \A i \in DOMAIN names(d) : ofUse(d)[i].edge = "implements"
        OBVIOUS
    <2> HIDE DEF names, ofUse
    <2>2. IsSeq(ofUse(d)) /\ SomeOf(ofUse(d)) = {ofUse(d)[i] : i \in DOMAIN names(d)}
        BY <1>1, <2>1, MapOf
    <2> QED BY <2>1, <2>2 DEF Clauses
<1>3. ASSUME NEW c PROVE Clauses(FlattenSeq(used(c)))
    <2>1. used(c) = [i \in DOMAIN uses(c) |-> used(c)[i]]
        OBVIOUS
    <2>2. \A i \in DOMAIN uses(c) : Clauses(used(c)[i])
        <3> HIDE DEF ofUse, uses
        <3> QED BY <1>2
    <2> HIDE DEF used, uses
    <2> QED BY <1>1, <2>1, <2>2, FlatClauses
<1>4. ASSUME NEW c PROVE Clauses(clause(c))
    <2> HIDE DEF names, used
    <2> QED BY <1>1, <1>3, EachOfIs, NoClauses
<1>5. f = [i \in DOMAIN kids |-> f[i]] /\ \A i \in DOMAIN kids : Clauses(f[i])
    <2> HIDE DEF clause, kids
    <2> QED BY <1>4
<1>6. Clauses(FlattenSeq(f))
    <2> HIDE DEF f, kids
    <2> QED BY <1>1, <1>5, FlatClauses
<1> QED BY <1>6 DEF PhpHeritage

LEMMA KotlinHeritageIs == ASSUME NEW t, IsTree(t), NEW n PROVE Clauses(KotlinHeritage(t, n))
<1> DEFINE specs == OfKinds(t, Children(t, ChildOf(t, n, {"delegation_specifiers"})),
                            {"delegation_specifier"})
           leaf(type) == LastOf(OfKinds(t, Children(t, type),
                                        {"identifier", "type_identifier", "simple_identifier"}))
           base(s) ==
               LET child == FirstOf(Children(t, s))
                   called == Kind(t, child) = "constructor_invocation"
                   type == IF called THEN FirstOf(Children(t, child)) ELSE child
               IN  IF Kind(t, child) \notin {"constructor_invocation", "user_type"}
                      \/ leaf(type) = NoNode THEN << >>
                   ELSE Inherits(t, leaf(type), Text(t, leaf(type)),
                                 IF called THEN "extends" ELSE "implements")
           f == [i \in DOMAIN specs |-> base(specs[i])]
<1>1. IsSeq(specs)
    BY OfKindsAre
<1>2. \A s : Clauses(base(s))
    <2> HIDE DEF leaf
    <2> QED BY NoClauses, OneClause
<1>3. f = [i \in DOMAIN specs |-> f[i]] /\ \A i \in DOMAIN specs : Clauses(f[i])
    <2> HIDE DEF base, specs
    <2> QED BY <1>2
<1>4. Clauses(FlattenSeq(f))
    <2> HIDE DEF f, specs
    <2> QED BY <1>1, <1>3, FlatClauses
<1> QED BY <1>4 DEF KotlinHeritage

LEMMA PackHeritageIs ==
    ASSUME NEW t, IsTree(t), NEW n, NEW lang \in DOMAIN Packs
    PROVE  Clauses(PackHeritage(t, n, lang))
<1>1. \A s : IsSeq(s) => IsSeq(Present(s))
    BY ThoseAre DEF Present
<1>2. \A x : IsSeq(Present(<<x>>))
    BY <1>1, OneIs
<1>3. Clauses(SwiftHeritage(t, n))
    <2> DEFINE specs == OfKinds(t, Children(t, n), {"inheritance_specifier"})
               ident(s) == ChildOf(t, Else(Field(t, s, "inherits_from"), FirstOf(Children(t, s))),
                                   {"type_identifier"})
               all == [i \in DOMAIN specs |-> ident(specs[i])]
    <2>1. IsSeq(specs)
        BY OfKindsAre
    <2>2. all = [i \in DOMAIN specs |-> all[i]]
        OBVIOUS
    <2>3. IsSeq(all)
        <3> HIDE DEF all, specs
        <3> QED BY <2>1, <2>2, MapOf
    <2>4. Clauses(EachOf(t, Present(all), "auto"))
        <3> HIDE DEF all
        <3> QED BY <1>1, <2>3, EachOfIs
    <2> QED BY <2>4 DEF SwiftHeritage
<1>4. IsSeq(OfKinds(t, Children(t, ChildOf(t, n, {"base_list"})), TypeNames))
    BY OfKindsAre
<1>5. lang \in {"ruby", "php", "kotlin", "swift", "scala", "csharp"}
    BY DEF Packs
<1> QED BY <1>2, <1>3, <1>4, <1>5, EachOfIs, PhpHeritageIs, KotlinHeritageIs DEF PackHeritage

LEMMA PackTypeRefsAre ==
    ASSUME NEW t, IsTree(t), NEW n, NEW lang PROVE IsSeq(PackTypeRefs(t, n, lang))
<1>1. IsSeq(SwiftTypeRefs(t, n))
    <2> DEFINE types == OfKinds(t, Children(t, n), {"user_type"})
               all   == [i \in DOMAIN types |-> ChildOf(t, types[i], {"type_identifier"})]
    <2>1. IsSeq(types)
        BY OfKindsAre
    <2>2. all = [i \in DOMAIN types |-> all[i]]
        OBVIOUS
    <2>3. IsSeq(all)
        <3> HIDE DEF all, types
        <3> QED BY <2>1, <2>2, MapOf
    <2> HIDE DEF all
    <2>4. IsSeq(Present(all))
        BY <2>3, ThoseAre DEF Present
    <2> QED BY <2>4 DEF SwiftTypeRefs, all
<1>2. IsSeq(CSharpTypeRefs(t, n))
    <2> DEFINE params == OfKinds(t, Children(t, Field(t, n, "parameters")), {"parameter"})
               types == [i \in DOMAIN params |-> Field(t, params[i], "type")]
               all == <<Field(t, n, "returns")>> \o types
    <2>1. IsSeq(params)
        BY OfKindsAre
    <2>2. types = [i \in DOMAIN params |-> types[i]]
        OBVIOUS
    <2>3. IsSeq(types)
        <3> HIDE DEF types, params
        <3> QED BY <2>1, <2>2, MapOf
    <2>4. IsSeq(all)
        <3> HIDE DEF types
        <3> QED BY <2>3, OneIs, ConcatIs
    <2>5. IsSeq(Those(all, {c \in DOMAIN t : Kind(t, c) \in TypeNames}))
        <3> HIDE DEF all
        <3> QED BY <2>4, ThoseAre
    <2> QED BY <2>5 DEF CSharpTypeRefs
<1> DEFINE ids == IF lang = "swift" THEN SwiftTypeRefs(t, n)
                  ELSE IF lang = "csharp" THEN CSharpTypeRefs(t, n) ELSE << >>
           f == [i \in DOMAIN ids |-> [at |-> ids[i], name |-> Segment(Text(t, ids[i]))]]
<1>3. IsSeq(ids)
    BY <1>1, <1>2, EmptyIs
<1>4. f = [i \in DOMAIN ids |-> f[i]]
    OBVIOUS
<1>5. IsSeq(f)
    <2> HIDE DEF f, ids
    <2> QED BY <1>3, <1>4, MapOf
<1> QED BY <1>5 DEF PackTypeRefs

LEMMA BasesAre ==
    ASSUME NEW t, NEW ids, IsSeq(ids), NEW edge
    PROVE  IsSeq(Bases(t, ids, edge))
<1>1. Bases(t, ids, edge) = [i \in DOMAIN ids |-> Bases(t, ids, edge)[i]]
    BY DEF Bases
<1> QED BY <1>1, MapOf

LEMMA TsHeritageIs == ASSUME NEW t, IsTree(t), NEW n PROVE IsSeq(TsHeritage(t, n))
<1> DEFINE clauses == OfKinds(t, Children(t, ChildOf(t, n, {"class_heritage"})),
                              {"extends_clause", "implements_clause"})
           listed(c) == Those(Children(t, c), {m \in DOMAIN t :
                            Kind(t, m) # "type_arguments" /\ LeftmostIdentifier(t, m) # NoNode})
           edge(c) == IF Kind(t, c) = "extends_clause" THEN "extends" ELSE "implements"
           of(c) == [i \in DOMAIN listed(c) |->
                        Base(listed(c)[i], edge(c), Text(t, LeftmostIdentifier(t, listed(c)[i])))]
           f == [i \in DOMAIN clauses |-> of(clauses[i])]
<1>1. IsSeq(clauses) /\ \A c : IsSeq(listed(c))
    BY OfKindsAre, ChildrenAre, ThoseAre
<1>2. ASSUME NEW c PROVE IsSeq(of(c))
    <2>1. of(c) = [i \in DOMAIN listed(c) |-> of(c)[i]]
        OBVIOUS
    <2> HIDE DEF of, listed
    <2> QED BY <1>1, <2>1, MapOf
<1>3. f = [i \in DOMAIN clauses |-> f[i]] /\ \A i \in DOMAIN clauses : IsSeq(f[i])
    <2> HIDE DEF of, clauses
    <2> QED BY <1>2
<1>4. IsSeq(FlattenSeq(f))
    <2> HIDE DEF f, clauses
    <2> QED BY <1>1, <1>3, FlatMapOf
<1> QED BY <1>4 DEF TsHeritage

LEMMA GoEmbeddedIs == ASSUME NEW t, IsTree(t), NEW n PROVE IsSeq(GoEmbedded(t, n))
<1> DEFINE type == Field(t, n, "type")
           fields == Those(Children(t, ChildOf(t, type, {"field_declaration_list"})),
                           {f \in DOMAIN t : Kind(t, f) = "field_declaration"
                                                 /\ Field(t, f, "name") = NoNode})
           elems == OfKinds(t, Children(t, type), {"type_elem"})
           ofFields == [i \in DOMAIN fields |-> GoBaseTypeId(t, Field(t, fields[i], "type"))]
           ofElems == [i \in DOMAIN elems |-> GoBaseTypeId(t, elems[i])]
           ids == IF Kind(t, type) = "struct_type" THEN ofFields
                  ELSE IF Kind(t, type) = "interface_type" THEN ofElems ELSE << >>
<1>1. IsSeq(fields) /\ IsSeq(elems)
    BY OfKindsAre, ChildrenAre, ThoseAre
<1>2. /\ ofFields = [i \in DOMAIN fields |-> ofFields[i]]
      /\ ofElems = [i \in DOMAIN elems |-> ofElems[i]]
    OBVIOUS
<1>3. IsSeq(ofFields) /\ IsSeq(ofElems)
    <2> HIDE DEF ofFields, ofElems, fields, elems
    <2> QED BY <1>1, <1>2, MapOf
<1>4. IsSeq(ids)
    <2> HIDE DEF ofFields, ofElems
    <2> QED BY <1>3, EmptyIs
<1>5. IsSeq(Bases(t, Present(ids), "extends"))
    <2> HIDE DEF ids
    <2> QED BY <1>4, ThoseAre, BasesAre DEF Present
<1> QED BY <1>5 DEF GoEmbedded

LEMMA HeritageIs ==
    ASSUME NEW t, IsTree(t), NEW n, NEW kind, NEW lang PROVE IsSeq(Heritage(t, n, kind, lang))
<1>1. IsSeq(RustBounds(t, n))
    <2> DEFINE bounds == ChildOf(t, n, {"trait_bounds"})
               each == OfKinds(t, Children(t, bounds), {"type_identifier", "generic_type"})
               head(b) == IF Kind(t, b) = "generic_type" THEN ChildOf(t, b, {"type_identifier"})
                          ELSE b
               f == [i \in DOMAIN each |-> Base(bounds, "extends", Text(t, head(each[i])))]
    <2>1. IsSeq(each) /\ f = [i \in DOMAIN each |-> f[i]]
        BY OfKindsAre
    <2>2. IsSeq(f)
        <3> HIDE DEF f, each
        <3> QED BY <2>1, MapOf
    <2> QED BY <2>2 DEF RustBounds
<1>2. \A clause, edge : IsSeq(Bases(t, HeritageTypeIdents(t, clause), edge))
    <2> TAKE clause, edge
    <2>1. IsSeq(HeritageTypeIdents(t, clause))
        BY OfKindsAre, ThoseAre DEF HeritageTypeIdents
    <2> QED BY <2>1, BasesAre
<1>3. IsSeq(Bases(t, OfKinds(t, Children(t, Field(t, n, "superclasses")),
                             {"identifier", "attribute"}), "extends"))
    BY OfKindsAre, BasesAre
<1>4. \A a, b : IsSeq(a) /\ IsSeq(b) => IsSeq(a \o b)
    BY ConcatIs
<1> QED BY <1>1, <1>2, <1>3, <1>4, TsHeritageIs, GoEmbeddedIs, EmptyIs DEF Heritage

LEMMA RustImplsAre == ASSUME NEW t, IsTree(t) PROVE IsSeq(RustImpls(t))
<1> DEFINE impls == Those(Positions(t), {n \in DOMAIN t :
                        Kind(t, n) = "impl_item" /\ Field(t, n, "trait") # NoNode})
           f == [i \in DOMAIN impls |->
                    [type |-> ImplType(t, impls[i]),
                     base |-> Base(Field(t, impls[i], "trait"), "implements",
                                   Segment(Text(t, Field(t, impls[i], "trait"))))]]
<1>1. IsSeq(impls) /\ f = [i \in DOMAIN impls |-> f[i]]
    BY PositionsAre, ThoseAre
<1>2. IsSeq(f)
    <2> HIDE DEF f, impls
    <2> QED BY <1>1, MapOf
<1> QED BY <1>2 DEF RustImpls

LEMMA TypeIdentifiersAre ==
    ASSUME NEW t, IsTree(t), NEW n, NEW lang PROVE IsSeq(TypeIdentifiers(t, n, lang))
<1> DEFINE parts == SignatureParts(t, n, lang)
           in(r) == IF r = NoNode THEN << >>
                    ELSE IF Kind(t, r) = "type_identifier" THEN <<r>>
                    ELSE Descendants(t, r, {"type_identifier"})
           f == [i \in DOMAIN parts |-> in(parts[i])]
<1>1. IsSeq(parts)
    <2>1. \A x, y : IsSeq(<<x, y>>)
        BY DEF IsSeq, SomeOf
    <2> QED BY <2>1, OneIs, EmptyIs DEF SignatureParts
<1>2. \A r : IsSeq(in(r))
    BY OfKindsAre, OneIs, EmptyIs
<1>3. f = [i \in DOMAIN parts |-> f[i]] /\ \A i \in DOMAIN parts : IsSeq(f[i])
    <2> HIDE DEF in, parts
    <2> QED BY <1>2
<1>4. IsSeq(FlattenSeq(f))
    <2> HIDE DEF f, parts
    <2> QED BY <1>1, <1>3, FlatMapOf
<1> QED BY <1>4 DEF TypeIdentifiers

-----------------------------------------------------------------------------
(* Calls that are still to make                                            *)

\* The "leave" calls of an agenda, and how many there are.
Leaving(a) == {i \in DOMAIN a : a[i].do = "leave"}
Leaves(a) == Cardinality(Leaving(a))

LEMMA LeavesAre ==
    ASSUME NEW a, IsSeq(a)
    PROVE  IsFiniteSet(Leaving(a)) /\ Leaves(a) \in Nat
<1>1. Len(a) \in Nat /\ DOMAIN a = 1 .. Len(a)
    BY SeqIs DEF IsSeq
<1>2. IsFiniteSet(1 .. Len(a))
    BY <1>1, FS_Interval
<1>3. Leaving(a) \in SUBSET (1 .. Len(a))
    BY <1>1 DEF Leaving
<1>4. IsFiniteSet(Leaving(a))
    BY <1>2, <1>3, FS_Subset
<1> QED BY <1>4, FS_CardinalityType DEF Leaves

LEMMA LeavesOfConcat ==
    ASSUME NEW a, IsSeq(a), NEW b, IsSeq(b)
    PROVE  Leaves(a \o b) = Leaves(a) + Leaves(b)
<1> DEFINE n == Len(a)
           q == a \o b
           late == {i + n : i \in Leaving(b)}
<1>1. /\ n \in Nat /\ DOMAIN a = 1 .. n /\ Len(b) \in Nat /\ DOMAIN b = 1 .. Len(b)
      /\ IsSeq(q) /\ Len(q) \in Nat /\ DOMAIN q = 1 .. Len(q)
    BY ConcatIs, SeqIs DEF IsSeq
<1>2. /\ Len(q) = n + Len(b)
      /\ \A i \in 1 .. n : q[i] = a[i]
      /\ \A i \in 1 .. Len(b) : q[i + n] = b[i]
    <2> DEFINE S == SomeOf(a) \cup SomeOf(b)
    <2>1. a \in Seq(S) /\ b \in Seq(S)
        <3>1. a \in Seq(SomeOf(a)) /\ b \in Seq(SomeOf(b)) /\ SomeOf(a) \subseteq S /\ SomeOf(b) \subseteq S
            BY DEF IsSeq
        <3> HIDE DEF S
        <3> QED BY <3>1
    <2> HIDE DEF S, q
    <2>2. /\ Len(q) = Len(a) + Len(b)
          /\ \A i \in 1 .. Len(a) + Len(b) : q[i] = IF i <= Len(a) THEN a[i] ELSE b[i - Len(a)]
        BY <2>1, ConcatProperties DEF q
    <2>3. \A i \in 1 .. n : i \in 1 .. Len(a) + Len(b) /\ i <= Len(a)
        BY <1>1
    <2>4. \A i \in 1 .. Len(b) : /\ i + n \in 1 .. Len(a) + Len(b) /\ ~ (i + n <= Len(a))
                                 /\ (i + n) - Len(a) = i
        BY <1>1
    <2> QED BY <2>2, <2>3, <2>4
<1> HIDE DEF n, q
<1>3. Leaving(q) = Leaving(a) \cup late
    <2>1. ASSUME NEW i \in Leaving(q) PROVE i \in Leaving(a) \cup late
        <3>1. i \in 1 .. n + Len(b) /\ q[i].do = "leave"
            BY <1>1, <1>2, <2>1 DEF Leaving
        <3>2. CASE i \in 1 .. n
            BY <1>1, <1>2, <3>1, <3>2 DEF Leaving
        <3>3. CASE i \notin 1 .. n
            <4>1. i - n \in 1 .. Len(b) /\ (i - n) + n = i
                BY <1>1, <3>1, <3>3
            <4>2. i - n \in Leaving(b)
                BY <1>1, <1>2, <3>1, <4>1 DEF Leaving
            <4> QED BY <4>1, <4>2
        <3> QED BY <3>2, <3>3
    <2>2. ASSUME NEW i \in Leaving(a) PROVE i \in Leaving(q)
        <3>1. i \in 1 .. n /\ a[i].do = "leave" /\ i \in 1 .. n + Len(b)
            BY <1>1, <2>2 DEF Leaving
        <3> QED BY <1>1, <1>2, <3>1 DEF Leaving
    <2>3. ASSUME NEW i \in Leaving(b) PROVE i + n \in Leaving(q)
        <3>1. i \in 1 .. Len(b) /\ b[i].do = "leave" /\ i + n \in 1 .. n + Len(b)
            BY <1>1, <2>3 DEF Leaving
        <3> QED BY <1>1, <1>2, <3>1 DEF Leaving
    <2> QED BY <2>1, <2>2, <2>3
<1>4. IsFiniteSet(late) /\ Cardinality(late) = Leaves(b)
    <2> DEFINE f == [i \in Leaving(b) |-> i + n]
    <2>1. \A i \in Leaving(b) : i \in Int
        BY <1>1 DEF Leaving
    <2>2. f \in Bijection(Leaving(b), late)
        <3>1. f \in [Leaving(b) -> late]
            OBVIOUS
        <3>2. \A i, j \in Leaving(b) : f[i] = f[j] => i = j
            BY <1>1, <2>1
        <3>3. \A x \in late : \E i \in Leaving(b) : f[i] = x
            OBVIOUS
        <3> QED BY <3>1, <3>2, <3>3 DEF Bijection, Injection, Surjection, IsInjective
    <2>3. ExistsBijection(Leaving(b), late)
        BY <2>2 DEF ExistsBijection
    <2> QED BY <2>3, LeavesAre, FS_Bijection DEF Leaves
<1>5. Leaving(a) \cap late = {}
    BY <1>1 DEF Leaving
<1>6. Cardinality(Leaving(a) \cup late) = Cardinality(Leaving(a)) + Cardinality(late)
    <2>1. IsFiniteSet(Leaving(a)) /\ Cardinality(Leaving(a)) \in Nat
        BY LeavesAre DEF Leaves
    <2>2. Cardinality(Leaving(a) \cap late) = 0
        BY <1>5, FS_EmptySet
    <2>3. Cardinality(late) \in Nat
        BY <1>4, FS_CardinalityType
    <2>4. \A T : IsFiniteSet(T) => Cardinality(Leaving(a) \cup T)
                     = Cardinality(Leaving(a)) + Cardinality(T) - Cardinality(Leaving(a) \cap T)
        BY <2>1, FS_Union
    <2> HIDE DEF late
    <2>5. Cardinality(Leaving(a) \cup late)
             = Cardinality(Leaving(a)) + Cardinality(late) - Cardinality(Leaving(a) \cap late)
        BY <1>4, <2>4
    <2> QED BY <2>1, <2>2, <2>3, <2>5
<1> QED BY <1>3, <1>4, <1>6 DEF Leaves, q

LEMMA LeavesOfOne ==
    ASSUME NEW c PROVE Leaves(<<c>>) = (IF c.do = "leave" THEN 1 ELSE 0)
<1>1. CASE c.do = "leave"
    <2>1. Leaving(<<c>>) = {1}
        BY <1>1 DEF Leaving
    <2> QED BY <1>1, <2>1, FS_Singleton DEF Leaves
<1>2. CASE c.do # "leave"
    <2>1. Leaving(<<c>>) = {}
        BY <1>2 DEF Leaving
    <2> QED BY <1>2, <2>1, FS_EmptySet DEF Leaves
<1> QED BY <1>1, <1>2

LEMMA NoLeaves ==
    ASSUME NEW a, \A i \in DOMAIN a : a[i].do # "leave" PROVE Leaves(a) = 0
BY FS_EmptySet DEF Leaves, Leaving

LEMMA HeadAndTail ==
    ASSUME NEW a, IsSeq(a), a # << >>
    PROVE  /\ IsSeq(Tail(a)) /\ a = <<Head(a)>> \o Tail(a)
           /\ Leaves(a) = Leaves(<<Head(a)>>) + Leaves(Tail(a))
           /\ Head(a) = a[1] /\ 1 \in DOMAIN a
           /\ \A i \in DOMAIN Tail(a) : i + 1 \in DOMAIN a /\ i \in Nat \ {0} /\ Tail(a)[i] = a[i + 1]
<1>1. a \in Seq(SomeOf(a))
    BY DEF IsSeq
<1>2. /\ Tail(a) \in Seq(SomeOf(a)) /\ Head(a) = a[1] /\ 1 \in DOMAIN a
      /\ \A i \in DOMAIN Tail(a) : i + 1 \in DOMAIN a /\ i \in Nat \ {0} /\ Tail(a)[i] = a[i + 1]
    BY <1>1
<1>3. a = <<Head(a)>> \o Tail(a)
    BY <1>1
<1>4. IsSeq(Tail(a))
    BY <1>2, SeqIs
<1>5. Leaves(<<Head(a)>> \o Tail(a)) = Leaves(<<Head(a)>>) + Leaves(Tail(a))
    BY <1>4, OneIs, LeavesOfConcat
<1> QED BY <1>2, <1>3, <1>4, <1>5

LEMMA HeadAndTailWithin ==
    ASSUME NEW a, IsSeq(a), a # << >>
    PROVE  IsSeq(Tail(a)) /\ Head(a) \in SomeOf(a) /\ SomeOf(Tail(a)) \subseteq SomeOf(a)
<1>1. /\ IsSeq(Tail(a)) /\ Head(a) = a[1] /\ 1 \in DOMAIN a
      /\ \A i \in DOMAIN Tail(a) : i + 1 \in DOMAIN a /\ Tail(a)[i] = a[i + 1]
    BY HeadAndTail
<1>2. Head(a) \in SomeOf(a)
    BY <1>1 DEF SomeOf
<1>3. SomeOf(Tail(a)) \subseteq SomeOf(a)
    BY <1>1 DEF SomeOf
<1> QED BY <1>1, <1>2, <1>3

\* The agenda a is pending on the scopes st: each but the file's has a "leave" to come.
Pending(a, st) == IsSeq(a) /\ Len(st) >= 1 + Leaves(a)

LEMMA PendingMoves ==
    ASSUME NEW a, a # << >>, NEW st, IsSeq(st), Pending(a, st), NEW new, IsSeq(new),
           NEW later, Len(later) = Len(st) + Leaves(new) - (IF Head(a).do = "leave" THEN 1 ELSE 0)
    PROVE  Pending(new \o Tail(a), later)
<1>1. /\ IsSeq(Tail(a)) /\ Leaves(a) = Leaves(<<Head(a)>>) + Leaves(Tail(a))
      /\ Leaves(<<Head(a)>>) = IF Head(a).do = "leave" THEN 1 ELSE 0
    BY HeadAndTail, LeavesOfOne DEF Pending
<1>2. Leaves(new) \in Nat /\ Leaves(Tail(a)) \in Nat /\ Len(st) \in Nat
    BY <1>1, LeavesAre, SeqIs DEF IsSeq
<1>3. IsSeq(new \o Tail(a)) /\ Leaves(new \o Tail(a)) = Leaves(new) + Leaves(Tail(a))
    BY <1>1, ConcatIs, LeavesOfConcat
<1>4. Len(st) >= 1 + Leaves(a)
    BY DEF Pending
<1> QED BY <1>1, <1>2, <1>3, <1>4 DEF Pending

-----------------------------------------------------------------------------
(* Ends of edges, sites and scopes                                         *)

IdsOf(ns) == {File} \cup {r.id : r \in SomeOf(ns)}

EdgesIn(es, I)  == IsSeq(es) /\ \A e \in SomeOf(es) : {e[1], e[2]} \subseteq I
SitesIn(ss, I)  == IsSeq(ss) /\ \A s \in SomeOf(ss) : {s.from} \cup s.to \subseteq I
ScopesIn(st, I) == IsSeq(st) /\ \A s \in SomeOf(st) : s.id \in I

LEMMA IdsGrow ==
    ASSUME NEW a, IsSeq(a), NEW b, IsSeq(b)
    PROVE  IsSeq(a \o b) /\ IdsOf(a \o b) = IdsOf(a) \cup {r.id : r \in SomeOf(b)}
BY ConcatIs DEF IdsOf

LEMMA GrowIn ==
    ASSUME NEW I, NEW J, I \subseteq J
    PROVE  /\ \A es, more : EdgesIn(es, I) /\ EdgesIn(more, J) => EdgesIn(es \o more, J)
           /\ \A ss, more : SitesIn(ss, I) /\ SitesIn(more, J) => SitesIn(ss \o more, J)
           /\ \A st, more : ScopesIn(st, I) /\ ScopesIn(more, J) => ScopesIn(st \o more, J)
<1>1. ASSUME NEW es, NEW more, EdgesIn(es, I), EdgesIn(more, J) PROVE EdgesIn(es \o more, J)
    <2>1. IsSeq(es \o more) /\ SomeOf(es \o more) = SomeOf(es) \cup SomeOf(more)
        BY <1>1, ConcatIs DEF EdgesIn
    <2> QED BY <1>1, <2>1 DEF EdgesIn
<1>2. ASSUME NEW ss, NEW more, SitesIn(ss, I), SitesIn(more, J) PROVE SitesIn(ss \o more, J)
    <2>1. IsSeq(ss \o more) /\ SomeOf(ss \o more) = SomeOf(ss) \cup SomeOf(more)
        BY <1>2, ConcatIs DEF SitesIn
    <2> QED BY <1>2, <2>1 DEF SitesIn
<1>3. ASSUME NEW st, NEW more, ScopesIn(st, I), ScopesIn(more, J) PROVE ScopesIn(st \o more, J)
    <2>1. IsSeq(st \o more) /\ SomeOf(st \o more) = SomeOf(st) \cup SomeOf(more)
        BY <1>3, ConcatIs DEF ScopesIn
    <2> QED BY <1>3, <2>1 DEF ScopesIn
<1> QED BY <1>1, <1>2, <1>3

LEMMA StillIn ==
    ASSUME NEW I, NEW J, I \subseteq J
    PROVE  /\ \A es : EdgesIn(es, I) => EdgesIn(es, J)
           /\ \A ss : SitesIn(ss, I) => SitesIn(ss, J)
           /\ \A st : ScopesIn(st, I) => ScopesIn(st, J)
<1>1. \A es : EdgesIn(es, I) => EdgesIn(es, J)
    BY DEF EdgesIn
<1>2. \A ss : SitesIn(ss, I) => SitesIn(ss, J)
    BY DEF SitesIn
<1>3. \A st : ScopesIn(st, I) => ScopesIn(st, J)
    BY DEF ScopesIn
<1> QED BY <1>1, <1>2, <1>3

LEMMA NoneIn ==
    ASSUME NEW I PROVE EdgesIn(<< >>, I) /\ SitesIn(<< >>, I) /\ ScopesIn(<< >>, I)
BY EmptyIs DEF EdgesIn, SitesIn, ScopesIn

LEMMA OneIn ==
    ASSUME NEW I
    PROVE  /\ \A a, b \in I : EdgesIn(<<<<a, b>>>>, I)
           /\ \A s : s.from \in I /\ s.to \subseteq I => SitesIn(<<s>>, I)
           /\ \A s : s.id \in I => ScopesIn(<<s>>, I)
<1>1. ASSUME NEW a \in I, NEW b \in I PROVE EdgesIn(<<<<a, b>>>>, I)
    <2>1. IsSeq(<<<<a, b>>>>) /\ SomeOf(<<<<a, b>>>>) = {<<a, b>>}
        BY OneIs
    <2> QED BY <2>1 DEF EdgesIn
<1>2. ASSUME NEW s, s.from \in I, s.to \subseteq I PROVE SitesIn(<<s>>, I)
    BY <1>2, OneIs DEF SitesIn
<1>3. ASSUME NEW s, s.id \in I PROVE ScopesIn(<<s>>, I)
    BY <1>3, OneIs DEF ScopesIn
<1> QED BY <1>1, <1>2, <1>3

LEMMA EachEdgeIn ==
    ASSUME NEW new, IsSeq(new), NEW top, NEW I, top \in I, {r.id : r \in SomeOf(new)} \subseteq I
    PROVE  EdgesIn([i \in DOMAIN new |-> <<top, new[i].id>>], I)
<1> DEFINE f == [i \in DOMAIN new |-> <<top, new[i].id>>]
<1>1. f = [i \in DOMAIN new |-> f[i]]
    OBVIOUS
<1>2. \A i \in DOMAIN new : new[i].id \in I
    BY DEF SomeOf
<1>3. \A i \in DOMAIN new : f[i] = <<top, new[i].id>>
    OBVIOUS
<1> HIDE DEF f
<1>4. IsSeq(f) /\ SomeOf(f) = {f[i] : i \in DOMAIN new}
    BY <1>1, MapOf
<1>5. ASSUME NEW e \in SomeOf(f) PROVE {e[1], e[2]} \subseteq I
    <2>1. PICK i \in DOMAIN new : e = f[i]
        BY <1>4, <1>5
    <2> QED BY <1>2, <1>3, <2>1
<1> QED BY <1>4, <1>5 DEF EdgesIn, f

\* Sites made of the elements of a sequence.
LEMMA EachSiteIn ==
    ASSUME NEW s, IsSeq(s), NEW f, f = [i \in DOMAIN s |-> f[i]], NEW I,
           \A i \in DOMAIN s : f[i].from \in I /\ f[i].to \subseteq I
    PROVE  SitesIn(f, I)
<1>1. IsSeq(f) /\ SomeOf(f) = {f[i] : i \in DOMAIN s}
    BY MapOf
<1> QED BY <1>1 DEF SitesIn

LEMMA FlatSitesIn ==
    ASSUME NEW s, IsSeq(s), NEW f, f = [i \in DOMAIN s |-> f[i]], NEW I,
           \A i \in DOMAIN s : SitesIn(f[i], I)
    PROVE  SitesIn(FlattenSeq(f), I)
<1>1. /\ IsSeq(FlattenSeq(f))
      /\ \A x \in SomeOf(FlattenSeq(f)) : \E i \in DOMAIN s : x \in SomeOf(f[i])
    BY FlatMapOf DEF SitesIn
<1> QED BY <1>1 DEF SitesIn

LEMMA FlatEdgesIn ==
    ASSUME NEW s, IsSeq(s), NEW f, f = [i \in DOMAIN s |-> f[i]], NEW I,
           \A i \in DOMAIN s : EdgesIn(f[i], I)
    PROVE  EdgesIn(FlattenSeq(f), I)
<1>1. /\ IsSeq(FlattenSeq(f))
      /\ \A x \in SomeOf(FlattenSeq(f)) : \E i \in DOMAIN s : x \in SomeOf(f[i])
    BY FlatMapOf DEF EdgesIn
<1> QED BY <1>1 DEF EdgesIn

-----------------------------------------------------------------------------
(* The inductive invariant                                                 *)

PhaseDos == {"start", "record", "define", "contain", "refer", "types", "imports", "inherit"}
FileScope == <<[id |-> File, name |-> NoText]>>

NotWalked == PhaseDos \cup {"leave"}

\* Nothing that begins a file is to come: edges may then be there.
Mid(a) == \A c \in SomeOf(a) : c.do \notin {"start", "define"}
\* Calls of the walk alone.
Walked(a) == \A c \in SomeOf(a) : c.do \notin PhaseDos
Located(ns) == \A r \in SomeOf(ns) : r.id.at \in DOMAIN Tree

Graph ==
    /\ IsSeq(nodes) /\ EdgesIn(edges, IdsOf(nodes))
    /\ SitesIn(sites, IdsOf(nodes)) /\ ScopesIn(stack, IdsOf(nodes))

Plan ==
    /\ Pending(agenda, stack)
    /\ agenda # << >> => Mid(Tail(agenda))
    /\ Mid(agenda) \/ (stack = FileScope /\ edges = << >> /\ sites = << >>)
    /\ IF TierThree THEN \A c \in SomeOf(agenda) : c.do \notin PhaseDos \ {"start", "record"}
       ELSE Located(nodes) /\ \A c \in SomeOf(agenda) : c.do \in PhaseDos

IInv == source \in Sources /\ Graph /\ Plan

USE DEF NotWalked, PhaseDos

LEMMA TreeIs == ASSUME source \in Sources PROVE IsTree(Tree)
BY SourcesAssumption DEF Tree

LEMMA TopIs == ASSUME IInv PROVE TopId \in IdsOf(nodes) /\ Len(stack) \in Nat
<1>1. IsSeq(stack) /\ IsSeq(agenda) /\ Len(stack) >= 1 + Leaves(agenda)
    BY DEF IInv, Graph, Plan, ScopesIn, Pending
<1>2. Leaves(agenda) \in Nat /\ Len(stack) \in Nat /\ DOMAIN stack = 1 .. Len(stack)
    BY <1>1, LeavesAre, SeqIs DEF IsSeq
<1>3. Len(stack) \in DOMAIN stack
    BY <1>1, <1>2
<1>4. stack[Len(stack)] \in SomeOf(stack)
    BY <1>3 DEF SomeOf
<1> QED BY <1>2, <1>4 DEF TopId, IInv, Graph, ScopesIn

LEMMA HeadIs ==
    ASSUME IInv, agenda # << >>, Head(agenda).do \notin PhaseDos PROVE TierThree
<1>1. IsSeq(agenda)
    BY DEF IInv, Plan, Pending
<1>2. Head(agenda) \in SomeOf(agenda)
    BY <1>1, HeadAndTailWithin
<1> QED BY <1>2 DEF IInv, Plan

LEMMA CallsAre ==
    ASSUME NEW s, IsSeq(s), NEW do, do \notin NotWalked
    PROVE  IsSeq(Calls(do, s)) /\ Walked(Calls(do, s)) /\ Leaves(Calls(do, s)) = 0
<1> DEFINE f == [i \in DOMAIN s |-> Call(do, s[i])]
<1>1. f = [i \in DOMAIN s |-> f[i]] /\ DOMAIN f = DOMAIN s
    OBVIOUS
<1>2. \A i \in DOMAIN s : f[i].do = do
    BY DEF Call
<1> HIDE DEF f
<1>3. IsSeq(f) /\ SomeOf(f) = {f[i] : i \in DOMAIN s}
    BY <1>1, MapOf
<1>4. Walked(f)
    BY <1>2, <1>3 DEF Walked
<1>5. Leaves(f) = 0
    BY <1>1, <1>2, NoLeaves
<1> QED BY <1>3, <1>4, <1>5 DEF Calls, f

LEMMA WalkedOfConcat ==
    ASSUME NEW a, IsSeq(a), Walked(a), NEW b, IsSeq(b), Walked(b) PROVE Walked(a \o b)
BY ConcatIs DEF Walked

LEMMA OneCall ==
    ASSUME NEW do, do \notin PhaseDos, NEW n
    PROVE  /\ IsSeq(<<Call(do, n)>>) /\ Walked(<<Call(do, n)>>)
           /\ Leaves(<<Call(do, n)>>) = (IF do = "leave" THEN 1 ELSE 0)
<1>1. Call(do, n).do = do
    BY DEF Call
<1> QED BY <1>1, OneIs, LeavesOfOne DEF Walked

LEMMA NoneToMake == IsSeq(<< >>) /\ Walked(<< >>) /\ Leaves(<< >>) = 0
<1>1. Leaving(<< >>) = {}
    BY DEF Leaving
<1>2. Leaves(<< >>) = 0
    BY <1>1, FS_EmptySet DEF Leaves
<1>3. Walked(<< >>)
    BY EmptyIs DEF Walked
<1> QED BY <1>2, <1>3, EmptyIs

LEMMA DescendsIs ==
    ASSUME IsTree(Tree), NEW do, do \notin NotWalked, NEW n,
           NEW after, IsSeq(after), Walked(after), Descends(do, n, after)
    PROVE  \E new : /\ agenda' = new \o Tail(agenda)
                    /\ IsSeq(new) /\ Walked(new) /\ Leaves(new) = Leaves(after)
<1>1. CASE n = NoNode \/ depth >= MaxDepth
    <2>1. agenda' = after \o Tail(agenda)
        BY <1>1 DEF Descends
    <2> QED BY <2>1
<1>2. CASE ~ (n = NoNode \/ depth >= MaxDepth)
    <2> DEFINE kids == Calls(do, Children(Tree, n))
               up == <<Call("ascend", n)>>
    <2>1. agenda' = ((kids \o up) \o after) \o Tail(agenda)
        BY <1>2 DEF Descends
    <2>2. IsSeq(kids) /\ Walked(kids) /\ Leaves(kids) = 0
        BY ChildrenAre, CallsAre
    <2>3. IsSeq(up) /\ Walked(up) /\ Leaves(up) = 0
        BY OneCall
    <2> HIDE DEF kids, up
    <2>4. IsSeq(kids \o up) /\ Walked(kids \o up) /\ Leaves(kids \o up) = 0
        BY <2>2, <2>3, ConcatIs, WalkedOfConcat, LeavesOfConcat
    <2>5. /\ IsSeq((kids \o up) \o after) /\ Walked((kids \o up) \o after)
          /\ Leaves((kids \o up) \o after) = 0 + Leaves(after)
        BY <2>4, ConcatIs, WalkedOfConcat, LeavesOfConcat
    <2>6. 0 + Leaves(after) = Leaves(after)
        BY LeavesAre
    <2> QED BY <2>1, <2>5, <2>6
<1> QED BY <1>1, <1>2

LEMMA PlanMoves ==
    ASSUME IInv, TierThree, agenda # << >>, Head(agenda).do \notin PhaseDos,
           source' = source,
           NEW new, IsSeq(new), Walked(new), agenda' = new \o Tail(agenda),
           Len(stack') = Len(stack) + Leaves(new) - (IF Head(agenda).do = "leave" THEN 1 ELSE 0)
    PROVE  Plan'
<1>1. IsSeq(agenda) /\ IsSeq(stack) /\ Pending(agenda, stack) /\ Mid(Tail(agenda))
    BY DEF IInv, Graph, Plan, ScopesIn, Pending
<1>2. IsSeq(Tail(agenda))
    BY <1>1, HeadAndTail
<1>3. Pending(agenda', stack')
    BY <1>1, PendingMoves
<1>4. IsSeq(agenda') /\ SomeOf(agenda') = SomeOf(new) \cup SomeOf(Tail(agenda))
    BY <1>2, ConcatIs
<1>5. Mid(agenda')
    BY <1>1, <1>4 DEF Mid, Walked, PhaseDos
<1>6. agenda' # << >> => Mid(Tail(agenda'))
    <2> SUFFICES ASSUME agenda' # << >> PROVE Mid(Tail(agenda'))
        OBVIOUS
    <2>1. SomeOf(Tail(agenda')) \subseteq SomeOf(agenda')
        BY <1>4, HeadAndTailWithin
    <2> QED BY <1>5, <2>1 DEF Mid
<1>7. TierThree'
    BY DEF TierThree, Lang
<1>8. \A c \in SomeOf(agenda') : c.do \notin PhaseDos \ {"start", "record"}
    <2>1. SomeOf(Tail(agenda)) \subseteq SomeOf(agenda)
        BY <1>1, HeadAndTailWithin
    <2>2. \A c \in SomeOf(agenda) : c.do \notin PhaseDos \ {"start", "record"}
        BY DEF IInv, Plan
    <2> QED BY <1>4, <2>1, <2>2 DEF Walked
<1> QED BY <1>3, <1>5, <1>6, <1>7, <1>8 DEF Plan, Pending, Mid

-----------------------------------------------------------------------------
(* The three ways in which a call of the walk ends                         *)

LEMMA ReturnsMoves ==
    ASSUME IInv, TierThree, agenda # << >>, Head(agenda).do \notin NotWalked,
           source' = source, stack' = stack, Returns
    PROVE  Plan'
<1>1. IsSeq(agenda) /\ Len(stack) \in Nat
    BY TopIs DEF IInv, Plan, Pending
<1>2. Tail(agenda) = << >> \o Tail(agenda)
    BY <1>1, HeadAndTail DEF IsSeq
<1>3. agenda' = << >> \o Tail(agenda)
    BY <1>2 DEF Returns
<1>4. Len(stack') = Len(stack) + Leaves(<< >>) - (IF Head(agenda).do = "leave" THEN 1 ELSE 0)
    BY <1>1, NoneToMake
<1> QED BY <1>3, <1>4, NoneToMake, PlanMoves

LEMMA DescendsMoves ==
    ASSUME IInv, TierThree, agenda # << >>, Head(agenda).do \notin NotWalked,
           source' = source, stack' = stack,
           NEW do, do \notin NotWalked, NEW n, Descends(do, n, << >>)
    PROVE  Plan'
<1>1. PICK new : /\ agenda' = new \o Tail(agenda)
                 /\ IsSeq(new) /\ Walked(new) /\ Leaves(new) = Leaves(<< >>)
    BY NoneToMake, TreeIs, DescendsIs DEF IInv
<1>2. Len(stack') = Len(stack) + Leaves(new) - (IF Head(agenda).do = "leave" THEN 1 ELSE 0)
    BY <1>1, NoneToMake, TopIs
<1> QED BY <1>1, <1>2, PlanMoves

LEMMA EntersMoves ==
    ASSUME IInv, TierThree, agenda # << >>, Head(agenda).do \notin NotWalked,
           source' = source, NEW id, NEW name, Enters(id, name),
           NEW do, do \notin NotWalked, NEW n, Descends(do, n, <<Leave>>)
    PROVE  Plan'
<1>1. IsSeq(<<Leave>>) /\ Walked(<<Leave>>) /\ Leaves(<<Leave>>) = 1
    BY OneCall DEF Leave
<1>2. PICK new : /\ agenda' = new \o Tail(agenda)
                 /\ IsSeq(new) /\ Walked(new) /\ Leaves(new) = Leaves(<<Leave>>)
    BY <1>1, TreeIs, DescendsIs DEF IInv
<1>3. Len(stack') = Len(stack) + 1
    BY DEF Enters, IInv, Graph, ScopesIn, IsSeq
<1>4. Len(stack') = Len(stack) + Leaves(new) - (IF Head(agenda).do = "leave" THEN 1 ELSE 0)
    BY <1>1, <1>2, <1>3, TopIs
<1> QED BY <1>2, <1>4, PlanMoves

LEMMA EntersScope ==
    ASSUME NEW I, ScopesIn(stack, I), NEW id \in I, NEW name, Enters(id, name)
    PROVE  ScopesIn(stack', I)
<1> DEFINE new == [id |-> id, name |-> name]
<1>1. stack' = stack \o <<new>>
    BY DEF Enters, ScopesIn, IsSeq
<1>2. ScopesIn(<<new>>, I)
    BY OneIn
<1> HIDE DEF new
<1> QED BY <1>1, <1>2, GrowIn

-----------------------------------------------------------------------------
(* What is emitted                                                         *)

\* What a step leaves in place when it adds definitions.
Grown ==
    /\ IsSeq(nodes') /\ IdsOf(nodes) \subseteq IdsOf(nodes')
    /\ EdgesIn(edges', IdsOf(nodes')) /\ SitesIn(sites, IdsOf(nodes'))
    /\ ScopesIn(stack, IdsOf(nodes'))

LEMMA EmitsGrows ==
    ASSUME IInv, NEW new, IsSeq(new), Emits(new)
    PROVE  Grown /\ {r.id : r \in SomeOf(new)} \subseteq IdsOf(nodes')
<1>1. IsSeq(nodes') /\ IdsOf(nodes') = IdsOf(nodes) \cup {r.id : r \in SomeOf(new)}
    BY IdsGrow DEF Emits, IInv, Graph
<1>2. EdgesIn([i \in DOMAIN new |-> <<TopId, new[i].id>>], IdsOf(nodes'))
    <2>1. TopId \in IdsOf(nodes') /\ {r.id : r \in SomeOf(new)} \subseteq IdsOf(nodes')
        BY <1>1, TopIs
    <2> HIDE DEF IdsOf, TopId
    <2> QED BY <2>1, EachEdgeIn
<1>3. EdgesIn(edges', IdsOf(nodes'))
    <2>1. EdgesIn(edges, IdsOf(nodes)) /\ IdsOf(nodes) \subseteq IdsOf(nodes')
        BY <1>1 DEF IInv, Graph
    <2>2. edges' = edges \o [i \in DOMAIN new |-> <<TopId, new[i].id>>]
        BY DEF Emits
    <2> QED BY <1>2, <2>1, <2>2, GrowIn
<1> QED BY <1>1, <1>3, StillIn DEF Grown, IInv, Graph

LEMMA NothingGrows == ASSUME IInv, EmitsNothing PROVE Grown
BY DEF EmitsNothing, IInv, Graph, Grown

LEMMA SomeIs ==
    ASSUME NEW kind, NEW name, NEW n, NEW props
    PROVE  /\ IsSeq(Some(kind, name, n, props))
           /\ name # NoText => Some(kind, name, n, props)
                                  = <<Record(NewId(kind, name, n), name, props)>>
BY EmptyIs, OneIs DEF Some

-----------------------------------------------------------------------------
(* The steps of the walk                                                   *)

WalkDos == {"visit", "body", "function", "member", "file"}

LEMMA HeadOfWalk ==
    ASSUME IInv, NEW do \in WalkDos, Doing(do)
    PROVE  /\ TierThree /\ Lang \in DOMAIN Packs /\ agenda # << >>
           /\ Head(agenda).do \notin NotWalked
<1>1. agenda # << >> /\ Head(agenda).do = do
    BY DEF Doing
<1>2. do \notin PhaseDos /\ do \notin NotWalked
    BY DEF WalkDos, PhaseDos
<1> QED BY <1>1, <1>2, HeadIs DEF TierThree

LEMMA GraphKept ==
    ASSUME IInv, source' = source, Grown, SitesIn(sites', IdsOf(nodes')),
           ScopesIn(stack', IdsOf(nodes')), Plan'
    PROVE  IInv'
<1>1. Graph'
    BY DEF Graph, Grown, IdsOf, IsSeq, EdgesIn, SitesIn, ScopesIn, File, SomeOf
<1> QED BY <1>1 DEF IInv

\* A handler that gives up, or has nothing to say.
LEMMA NothingDone ==
    ASSUME IInv, NEW do \in WalkDos, Doing(do),
           Returns, EmitsNothing, UNCHANGED <<source, stack, sites>>
    PROVE  IInv'
<1>1. Plan'
    BY HeadOfWalk, ReturnsMoves
<1> QED BY <1>1, NothingGrows, GraphKept DEF Grown

\* Definitions without a scope of their own.
LEMMA LeafEmitted ==
    ASSUME IInv, NEW do \in WalkDos, Doing(do), NEW new, IsSeq(new), Emits(new),
           Returns, UNCHANGED <<source, stack, sites>>
    PROVE  IInv'
<1>1. Plan'
    BY HeadOfWalk, ReturnsMoves
<1>2. Grown
    BY EmitsGrows
<1> QED BY <1>1, <1>2, GraphKept DEF Grown

\* Sites of the scope around, and the walk goes on below.
LEMMA SitesAdded ==
    ASSUME IInv, NEW do \in WalkDos, Doing(do), Grown, UNCHANGED <<source, stack>>,
           NEW more, SitesIn(more, IdsOf(nodes')), sites' = sites \o more,
           NEW next, next \notin NotWalked, NEW n, Descends(next, n, << >>)
    PROVE  IInv'
<1>1. Plan'
    BY HeadOfWalk, DescendsMoves
<1>2. SitesIn(sites', IdsOf(nodes'))
    <2>1. SitesIn(sites, IdsOf(nodes'))
        BY DEF Grown
    <2> QED BY <2>1, GrowIn
<1> QED BY <1>1, <1>2, GraphKept DEF Grown

\* A definition with a scope, the sites of its header, and what is inside.
LEMMA ScopeEntered ==
    ASSUME IInv, NEW do \in WalkDos, Doing(do), Grown, source' = source,
           NEW id, id \in IdsOf(nodes'), NEW name, Enters(id, name),
           NEW more, SitesIn(more, IdsOf(nodes')), sites' = sites \o more,
           NEW next, next \notin NotWalked, NEW n,
           Descends(next, n, <<Leave>>)
    PROVE  IInv'
<1>1. Plan'
    BY HeadOfWalk, EntersMoves
<1>2. SitesIn(sites', IdsOf(nodes'))
    <2>1. SitesIn(sites, IdsOf(nodes'))
        BY DEF Grown
    <2> QED BY <2>1, GrowIn
<1>3. ScopesIn(stack', IdsOf(nodes'))
    BY EntersScope DEF Grown
<1> QED BY <1>1, <1>2, <1>3, GraphKept

LEMMA NoMoreSites ==
    ASSUME IInv, sites' = sites
    PROVE  sites' = sites \o << >> /\ \A I : SitesIn(<< >>, I)
<1>1. sites \in Seq(SomeOf(sites))
    BY DEF IInv, Graph, SitesIn, IsSeq
<1>2. sites = sites \o << >>
    BY <1>1
<1> QED BY <1>2, NoneIn

LEMMA HeaderSites ==
    ASSUME IInv, Lang \in DOMAIN Packs, NEW n, NEW I, NEW id \in I
    PROVE  SitesIn(HeritageSites(id, n), I) /\ SitesIn(TypeRefSites(id, n), I)
<1>1. IsTree(Tree)
    BY TreeIs DEF IInv
<1>2. SitesIn(HeritageSites(id, n), I)
    <2> DEFINE all == PackHeritage(Tree, n, Lang)
               f == [i \in DOMAIN all |->
                        SiteAt(id, all[i].at, Ask(all[i].edge, NoText, all[i].name))]
    <2>1. IsSeq(all)
        BY <1>1, PackHeritageIs DEF Clauses
    <2> HIDE DEF all
    <2>2. f = [i \in DOMAIN all |-> f[i]]
        OBVIOUS
    <2>3. \A i \in DOMAIN all : f[i].from \in I /\ f[i].to \subseteq I
        BY DEF SiteAt
    <2> HIDE DEF f
    <2>4. SitesIn(f, I)
        BY <2>1, <2>2, <2>3, EachSiteIn
    <2> QED BY <2>4 DEF HeritageSites, f, all
<1>3. SitesIn(TypeRefSites(id, n), I)
    <2> DEFINE all == PackTypeRefs(Tree, n, Lang)
               f == [i \in DOMAIN all |-> SiteAt(id, all[i].at, Ask("type", NoText, all[i].name))]
    <2>1. IsSeq(all)
        BY <1>1, PackTypeRefsAre
    <2> HIDE DEF all
    <2>2. f = [i \in DOMAIN all |-> f[i]]
        OBVIOUS
    <2>3. \A i \in DOMAIN all : f[i].from \in I /\ f[i].to \subseteq I
        BY DEF SiteAt
    <2> HIDE DEF f
    <2>4. SitesIn(f, I)
        BY <2>1, <2>2, <2>3, EachSiteIn
    <2> QED BY <2>4 DEF TypeRefSites, f, all
<1> QED BY <1>2, <1>3

LEMMA CallSitesIn ==
    ASSUME IInv, NEW I, TopId \in I, NEW n, NEW ask
    PROVE  SitesIn(CallSites(n, ask), I)
<1>1. SiteAt(TopId, n, ask).from \in I /\ SiteAt(TopId, n, ask).to \subseteq I
    BY DEF SiteAt
<1> HIDE DEF TopId
<1>2. SitesIn(<<SiteAt(TopId, n, ask)>>, I)
    BY <1>1, OneIn
<1> QED BY <1>2, NoneIn DEF CallSites

LEMMA HeadOfThose ==
    ASSUME NEW s, IsSeq(s), NEW S, Those(s, S) # << >>
    PROVE  /\ Head(Those(s, S)) \in SomeOf(s) \cap S
           /\ Those(s, S)[1] \in SomeOf(s) \cap S
<1>1. IsSeq(Those(s, S)) /\ SomeOf(Those(s, S)) \subseteq SomeOf(s) \cap S
    BY ThoseAre
<1>2. Head(Those(s, S)) = Those(s, S)[1] /\ 1 \in DOMAIN Those(s, S)
    BY <1>1, HeadAndTail
<1> QED BY <1>1, <1>2 DEF SomeOf

LEMMA ExtractCallableKeeps == ASSUME IInv, ExtractCallable PROVE IInv'
<1>1. PICK do \in WalkDos : Doing(do)
    BY DEF ExtractCallable, AsMethod, AsFunction, Visiting, WalkDos
<1> DEFINE receiver == ReceiverType(Tree, At, Lang)
           method == receiver # NoText \/ (AsMethod /\ InsideClassLike)
           id == [kind |-> IF method THEN "method" ELSE "function", at |-> At,
                  qn |-> IF receiver # NoText THEN receiver \o Name ELSE QualifiedName(Name)]
           owner == IF receiver = NoText \/ InsideClassLike THEN << >> ELSE OwnerType(receiver)
           ofOwner == IF owner = << >> THEN << >> ELSE <<<<Head(owner).id, id>>>>
           rec == Record(id, Name, Props(At))
<1>2. CASE Name = NoText
    <2>1. Returns /\ EmitsNothing /\ UNCHANGED <<source, stack, sites>>
        BY <1>2 DEF ExtractCallable
    <2> QED BY <1>1, <2>1, NothingDone
<1>3. CASE Name # NoText
    <2>1. /\ nodes' = Append(nodes, rec) /\ source' = source
          /\ edges' = (edges \o <<<<TopId, id>>>>) \o ofOwner
          /\ sites' = sites \o TypeRefSites(id, At)
          /\ Enters(id, Name) /\ Descends("body", Body, <<Leave>>)
        BY <1>3 DEF ExtractCallable
    <2>2. rec.id = id
        BY DEF Record
    <2>3. owner # << >> => Head(owner).id \in IdsOf(nodes)
        <3>1. IsSeq(nodes)
            BY DEF IInv, Graph
        <3>2. OwnerType(receiver) # << >> => Head(OwnerType(receiver)) \in SomeOf(nodes)
            BY <3>1, HeadOfThose DEF OwnerType
        <3> QED BY <3>2 DEF IdsOf
    <2> HIDE DEF id, owner, rec
    <2>4. IsSeq(nodes') /\ IdsOf(nodes') = IdsOf(nodes) \cup {id}
        <3>1. nodes \in Seq(SomeOf(nodes)) /\ IsSeq(nodes)
            BY DEF IInv, Graph, IsSeq
        <3>2. nodes' = nodes \o <<rec>>
            BY <2>1, <3>1
        <3>3. IsSeq(<<rec>>) /\ SomeOf(<<rec>>) = {rec}
            BY OneIs
        <3> QED BY <2>2, <3>1, <3>2, <3>3, IdsGrow
    <2>5. TopId \in IdsOf(nodes) /\ IdsOf(nodes) \subseteq IdsOf(nodes') /\ id \in IdsOf(nodes')
        BY <2>4, TopIs
    <2> HIDE DEF TopId
    <2>6. EdgesIn(edges', IdsOf(nodes'))
        <3>1. EdgesIn(edges, IdsOf(nodes))
            BY DEF IInv, Graph
        <3>2. EdgesIn(<<<<TopId, id>>>>, IdsOf(nodes'))
            BY <2>5, OneIn
        <3>3. EdgesIn(edges \o <<<<TopId, id>>>>, IdsOf(nodes'))
            BY <2>5, <3>1, <3>2, GrowIn
        <3>4. EdgesIn(ofOwner, IdsOf(nodes'))
            BY <2>3, <2>5, OneIn, NoneIn
        <3> HIDE DEF ofOwner
        <3>5. EdgesIn((edges \o <<<<TopId, id>>>>) \o ofOwner, IdsOf(nodes'))
            BY <3>3, <3>4, GrowIn
        <3> QED BY <2>1, <3>5
    <2>7. Grown
        BY <2>4, <2>5, <2>6, StillIn DEF Grown, IInv, Graph
    <2>8. SitesIn(TypeRefSites(id, At), IdsOf(nodes'))
        BY <1>1, <2>5, HeadOfWalk, HeaderSites
    <2>9. "body" \notin NotWalked
        OBVIOUS
    <2> QED BY <1>1, <2>1, <2>5, <2>7, <2>8, <2>9, ScopeEntered
<1> QED BY <1>2, <1>3

LEMMA EmittedScope ==
    ASSUME IInv, NEW do \in WalkDos, Doing(do), source' = source,
           NEW id, NEW name, NEW props, Emits(<<Record(id, name, props)>>), Enters(id, name),
           NEW more, SitesIn(more, {id}), sites' = sites \o more,
           NEW next, next \notin NotWalked, NEW n,
           Descends(next, n, <<Leave>>)
    PROVE  IInv'
<1>1. IsSeq(<<Record(id, name, props)>>)
    BY OneIs
<1>2. Grown /\ id \in IdsOf(nodes')
    <2>1. /\ Grown
          /\ {r.id : r \in SomeOf(<<Record(id, name, props)>>)} \subseteq IdsOf(nodes')
        BY <1>1, EmitsGrows
    <2>2. Record(id, name, props) \in SomeOf(<<Record(id, name, props)>>)
        BY OneIs
    <2>3. Record(id, name, props).id = id
        BY DEF Record
    <2> QED BY <2>1, <2>2, <2>3
<1>3. SitesIn(more, IdsOf(nodes'))
    BY <1>2, StillIn
<1> QED BY <1>2, <1>3, ScopeEntered

LEMMA ExtractContainerKeeps == ASSUME IInv, ExtractContainer PROVE IInv'
<1>1. PICK do \in WalkDos : Doing(do)
    BY DEF ExtractContainer, Visiting, WalkDos
<1> DEFINE kind == IF Visiting("class") THEN ClassKind
                   ELSE IF Visiting("interface") THEN Pack.interfaceKind ELSE "class"
           id   == NewId(kind, Name, At)
           seen == Visiting("extraClass") \/ (Visiting("class") /\ kind # "interface")
           props == [Props(At) EXCEPT !.vis = IF seen THEN @ ELSE "none"]
<1>2. CASE Name = NoText
    <2>1. Returns /\ EmitsNothing /\ UNCHANGED <<source, stack, sites>>
        BY <1>2 DEF ExtractContainer
    <2> QED BY <1>1, <2>1, NothingDone
<1>3. CASE Name # NoText
    <2>1. /\ source' = source /\ Emits(<<Record(id, Name, props)>>)
          /\ sites' = sites \o HeritageSites(id, At) /\ Enters(id, Name)
          /\ Descends("visit", Else(Body, At), <<Leave>>)
        BY <1>3 DEF ExtractContainer
    <2> HIDE DEF id, props
    <2>2. SitesIn(HeritageSites(id, At), {id})
        BY <1>1, HeadOfWalk, HeaderSites
    <2>3. "visit" \notin NotWalked
        OBVIOUS
    <2> QED BY <1>1, <2>1, <2>2, <2>3, EmittedScope
<1> QED BY <1>2, <1>3

LEMMA ExtractStructKeeps == ASSUME IInv, ExtractStruct PROVE IInv'
<1>1. PICK do \in WalkDos : Doing(do)
    BY DEF ExtractStruct, Visiting, WalkDos
<1> DEFINE id == NewId("struct", Name, At)
<1>2. CASE Body = NoNode \/ Name = NoText
    <2>1. Returns /\ EmitsNothing /\ UNCHANGED <<source, stack, sites>>
        BY <1>2 DEF ExtractStruct
    <2> QED BY <1>1, <2>1, NothingDone
<1>3. CASE ~ (Body = NoNode \/ Name = NoText)
    <2>1. /\ source' = source /\ Emits(<<Record(id, Name, Props(At))>>)
          /\ sites' = sites \o HeritageSites(id, At) /\ Enters(id, Name)
          /\ Descends("visit", Body, <<Leave>>)
        BY <1>3 DEF ExtractStruct
    <2> HIDE DEF id
    <2>2. SitesIn(HeritageSites(id, At), {id})
        BY <1>1, HeadOfWalk, HeaderSites
    <2>3. "visit" \notin NotWalked
        OBVIOUS
    <2> QED BY <1>1, <2>1, <2>2, <2>3, EmittedScope
<1> QED BY <1>2, <1>3

LEMMA ExtractEnumKeeps == ASSUME IInv, ExtractEnum PROVE IInv'
<1>1. PICK do \in WalkDos : Doing(do)
    BY DEF ExtractEnum, Visiting, WalkDos
<1> DEFINE id   == NewId("enum", Name, At)
           kids == Children(Tree, Body)
           task(c) == Call(IF Kind(Tree, c) \in Pack.enumMember THEN "member" ELSE "visit", c)
           tasks == [i \in DOMAIN kids |-> task(kids[i])]
           up == <<Call("ascend", At), Leave>>
<1>2. CASE Body = NoNode \/ Name = NoText
    <2>1. Returns /\ EmitsNothing /\ UNCHANGED <<source, stack, sites>>
        BY <1>2 DEF ExtractEnum
    <2> QED BY <1>1, <2>1, NothingDone
<1>3. CASE ~ (Body = NoNode \/ Name = NoText)
    <2>1. /\ source' = source /\ Emits(<<Record(id, Name, Props(At))>>)
          /\ Enters(id, Name) /\ sites' = sites
          /\ \/ Descends("visit", Body, <<Leave>>)
             \/ agenda' = (tasks \o up) \o Tail(agenda)
        BY <1>3 DEF ExtractEnum
    <2> HIDE DEF id
    <2>2. sites' = sites \o << >> /\ SitesIn(<< >>, {id})
        BY <2>1, NoMoreSites
    <2>3. "visit" \notin NotWalked
        OBVIOUS
    <2>4. CASE Descends("visit", Body, <<Leave>>)
        BY <1>1, <2>1, <2>2, <2>3, <2>4, EmittedScope
    <2>5. CASE agenda' = (tasks \o up) \o Tail(agenda)
        <3>1. IsSeq(kids)
            BY TreeIs, ChildrenAre DEF IInv
        <3>2. \A c : task(c).do \notin NotWalked
            BY DEF Call
        <3> HIDE DEF kids, task
        <3>3. tasks = [i \in DOMAIN kids |-> tasks[i]] /\ DOMAIN tasks = DOMAIN kids
            OBVIOUS
        <3>4. \A i \in DOMAIN kids : tasks[i].do \notin NotWalked
            BY <3>2
        <3> HIDE DEF tasks
        <3>5. IsSeq(tasks) /\ SomeOf(tasks) = {tasks[i] : i \in DOMAIN kids}
            BY <3>1, <3>3, MapOf
        <3>6. Walked(tasks) /\ Leaves(tasks) = 0
            <4>1. \A i \in DOMAIN tasks : tasks[i].do # "leave"
                BY <3>3, <3>4
            <4> QED BY <3>4, <3>5, <4>1, NoLeaves DEF Walked
        <3>7. IsSeq(up) /\ Walked(up) /\ Leaves(up) = 1
            <4>1. up = <<Call("ascend", At)>> \o <<Leave>>
                OBVIOUS
            <4>2. /\ IsSeq(<<Call("ascend", At)>>) /\ Walked(<<Call("ascend", At)>>)
                  /\ Leaves(<<Call("ascend", At)>>) = 0
                BY OneCall
            <4>3. IsSeq(<<Leave>>) /\ Walked(<<Leave>>) /\ Leaves(<<Leave>>) = 1
                BY OneCall DEF Leave
            <4>4. Leaves(<<Call("ascend", At)>> \o <<Leave>>) = 0 + 1
                BY <4>2, <4>3, LeavesOfConcat
            <4>5. /\ IsSeq(<<Call("ascend", At)>> \o <<Leave>>)
                  /\ Walked(<<Call("ascend", At)>> \o <<Leave>>)
                BY <4>2, <4>3, ConcatIs, WalkedOfConcat
            <4> HIDE DEF up
            <4>6. Leaves(up) = 1
                BY <4>1, <4>4
            <4> QED BY <4>1, <4>5, <4>6
        <3> HIDE DEF up
        <3>8. IsSeq(tasks \o up) /\ Walked(tasks \o up) /\ Leaves(tasks \o up) = 0 + 1
            BY <3>5, <3>6, <3>7, ConcatIs, WalkedOfConcat, LeavesOfConcat
        <3>9. Len(stack') = Len(stack) + 1
            BY <2>1 DEF Enters, IInv, Graph, ScopesIn, IsSeq
        <3>10. Plan'
            <4>1. /\ TierThree /\ agenda # << >>
                  /\ Head(agenda).do \notin NotWalked
                BY <1>1, HeadOfWalk
            <4>2. Len(stack') = Len(stack) + Leaves(tasks \o up)
                                - (IF Head(agenda).do = "leave" THEN 1 ELSE 0)
                BY <3>8, <3>9, <4>1, TopIs
            <4> QED BY <2>1, <2>5, <3>8, <4>1, <4>2, PlanMoves
        <3>11. Grown /\ id \in IdsOf(nodes')
            <4> DEFINE rec == Record(id, Name, Props(At))
            <4>1. rec.id = id
                BY DEF Record
            <4>2. Emits(<<rec>>)
                BY <2>1
            <4> HIDE DEF rec
            <4>3. IsSeq(<<rec>>) /\ SomeOf(<<rec>>) = {rec}
                BY OneIs
            <4> QED BY <4>1, <4>2, <4>3, EmitsGrows
        <3>12. ScopesIn(stack', IdsOf(nodes'))
            BY <2>1, <3>11, EntersScope DEF Grown
        <3> QED BY <2>1, <3>10, <3>11, <3>12, GraphKept DEF Grown
    <2> QED BY <2>1, <2>4, <2>5
<1> QED BY <1>2, <1>3

\* Each definition of a sequence of nodes, whatever it is called.
LEMMA EachEmits ==
    ASSUME NEW kind, NEW s, IsSeq(s), NEW props, NEW f, f = [i \in DOMAIN s |-> f[i]],
           \A i \in DOMAIN s : \E name : f[i] = Some(kind, name, s[i], props)
    PROVE  IsSeq(FlattenSeq(f))
<1>1. \A i \in DOMAIN s : IsSeq(f[i])
    BY SomeIs
<1> QED BY <1>1, FlatMapOf

LEMMA ExtractEnumMembersKeeps == ASSUME IInv, ExtractEnumMembers PROVE IInv'
<1> DEFINE named == Field(Tree, At, "name")
           kids  == OfKinds(Tree, Children(Tree, At), {"simple_identifier", "identifier",
                                                       "property_identifier", "constant"})
           text(c) == Text(Tree, c)
           s == IF kids = << >> THEN <<At>> ELSE kids
           f == [i \in DOMAIN s |-> Some("enum_member", text(s[i]), s[i], Bare)]
           new == IF named # NoNode THEN Some("enum_member", Text(Tree, named), At, Bare)
                  ELSE FlattenSeq(f)
<1>1. Doing("member") /\ "member" \in WalkDos
    BY DEF ExtractEnumMembers, WalkDos
<1>2. Emits(new) /\ Returns /\ UNCHANGED <<source, stack, sites>>
    BY DEF ExtractEnumMembers, Each
<1>3. IsSeq(s)
    BY TreeIs, OfKindsAre, OneIs DEF IInv
<1>4. f = [i \in DOMAIN s |-> f[i]]
    OBVIOUS
<1>5. \A i \in DOMAIN s : \E name : f[i] = Some("enum_member", name, s[i], Bare)
    <2> HIDE DEF s
    <2> QED OBVIOUS
<1> HIDE DEF f, s
<1>6. IsSeq(FlattenSeq(f))
    BY <1>3, <1>4, <1>5, EachEmits
<1>7. IsSeq(new)
    BY <1>6, SomeIs
<1> HIDE DEF new
<1> QED BY <1>1, <1>2, <1>7, LeafEmitted

LEMMA ExtractFieldKeeps == ASSUME IInv, ExtractField PROVE IInv'
<1> DEFINE decl == ChildOf(Tree, At, {"variable_declaration"})
           s == IF Lang = "php" THEN OfKinds(Tree, Children(Tree, At), {"property_element"})
                ELSE OfKinds(Tree, Children(Tree, Else(decl, At)), {"variable_declarator"})
           name(d) == IF Lang = "php"
                   THEN Text(Tree, ChildOf(Tree, ChildOf(Tree, d, {"variable_name"}), {"name"}))
                   ELSE Text(Tree, Else(Field(Tree, d, "name"), ChildOf(Tree, d, {"identifier"})))
           docs == IF Lang = "php" THEN << >> ELSE Docstring(At)
           props == [Props(At) EXCEPT !.docs = docs]
           f == [i \in DOMAIN s |-> Some("field", name(s[i]), s[i], props)]
<1>1. Doing("visit") /\ "visit" \in WalkDos
    BY DEF ExtractField, Visiting, WalkDos
<1>2. Emits(FlattenSeq(f)) /\ Returns /\ UNCHANGED <<source, stack, sites>>
    BY DEF ExtractField, Each
<1>3. IsSeq(s)
    BY TreeIs, OfKindsAre DEF IInv
<1>4. f = [i \in DOMAIN s |-> f[i]]
    OBVIOUS
<1> HIDE DEF name, props, s
<1>5. \A i \in DOMAIN s : \E x : f[i] = Some("field", x, s[i], props)
    OBVIOUS
<1> HIDE DEF f
<1>6. IsSeq(FlattenSeq(f))
    BY <1>3, <1>4, <1>5, EachEmits
<1> QED BY <1>1, <1>2, <1>6, LeafEmitted

LEMMA PhpConstantsKeeps == ASSUME IInv, PhpConstants PROVE IInv'
<1> DEFINE s == OfKinds(Tree, Children(Tree, At), {"const_element"})
           name(c) == Text(Tree, ChildOf(Tree, c, {"name"}))
           f == [i \in DOMAIN s |-> Some("constant", name(s[i]), s[i], Bare)]
<1>1. Doing("visit") /\ "visit" \in WalkDos
    BY DEF PhpConstants, Hooked, WalkDos
<1>2. Emits(FlattenSeq(f)) /\ Returns /\ UNCHANGED <<source, stack, sites>>
    BY DEF PhpConstants, Each
<1>3. IsSeq(s)
    BY TreeIs, OfKindsAre DEF IInv
<1>4. f = [i \in DOMAIN s |-> f[i]]
    OBVIOUS
<1> HIDE DEF name, s
<1>5. \A i \in DOMAIN s : \E x : f[i] = Some("constant", x, s[i], Bare)
    OBVIOUS
<1> HIDE DEF f
<1>6. IsSeq(FlattenSeq(f))
    BY <1>3, <1>4, <1>5, EachEmits
<1> QED BY <1>1, <1>2, <1>6, LeafEmitted

LEMMA ScalaCasesKeeps == ASSUME IInv, ScalaCases PROVE IInv'
<1> DEFINE s == OfKinds(Tree, Children(Tree, At), {"simple_enum_case", "full_enum_case"})
           name(c) == Text(Tree, Field(Tree, c, "name"))
           f == [i \in DOMAIN s |-> Some("enum_member", name(s[i]), s[i], Bare)]
<1>1. Doing("visit") /\ "visit" \in WalkDos
    BY DEF ScalaCases, Hooked, WalkDos
<1>2. Emits(FlattenSeq(f)) /\ Returns /\ UNCHANGED <<source, stack, sites>>
    BY DEF ScalaCases, Each
<1>3. IsSeq(s)
    BY TreeIs, OfKindsAre DEF IInv
<1>4. f = [i \in DOMAIN s |-> f[i]]
    OBVIOUS
<1> HIDE DEF name, s
<1>5. \A i \in DOMAIN s : \E x : f[i] = Some("enum_member", x, s[i], Bare)
    OBVIOUS
<1> HIDE DEF f
<1>6. IsSeq(FlattenSeq(f))
    BY <1>3, <1>4, <1>5, EachEmits
<1> QED BY <1>1, <1>2, <1>6, LeafEmitted

\* The handlers that emit one definition at the most.
LEMMA LeavesKeep ==
    ASSUME IInv, ExtractTypeAlias \/ ExtractProperty \/ ExtractVariable \/ ScalaValue
    PROVE  IInv'
<1>1. Doing("visit") /\ "visit" \in WalkDos
    BY DEF ExtractTypeAlias, ExtractProperty, ExtractVariable, ScalaValue, Visiting, Hooked, WalkDos
<1>2. Returns /\ UNCHANGED <<source, stack, sites>>
    BY DEF ExtractTypeAlias, ExtractProperty, ExtractVariable, ScalaValue
<1>3. \E new : IsSeq(new) /\ Emits(new)
    <2>1. \A kind, name, n, props :
              IsSeq(Some(kind, name, n, props)) /\ IsSeq(<< >>)
        BY SomeIs, EmptyIs
    <2>2. CASE ExtractTypeAlias
        BY <2>1, <2>2 DEF ExtractTypeAlias
    <2>3. CASE ExtractProperty
        BY <2>1, <2>3 DEF ExtractProperty
    <2>4. CASE ExtractVariable
        BY <2>1, <2>4 DEF ExtractVariable
    <2>5. CASE ScalaValue
        BY <2>1, <2>5 DEF ScalaValue
    <2> QED BY <2>2, <2>3, <2>4, <2>5
<1> QED BY <1>1, <1>2, <1>3, LeafEmitted

LEMMA ExtractImportKeeps == ASSUME IInv, ExtractImport PROVE IInv'
<1> DEFINE module == ImportOf(Tree, At, Lang)
           id     == NewId("import", module, At)
           site   == [SiteAt(TopId, At, Ask("import", NoText, module)) EXCEPT !.to = {id}]
           more   == IF module = NoText THEN << >> ELSE <<site>>
           new    == Some("import", module, At, Bare)
<1>1. Doing("visit") /\ "visit" \in WalkDos
    BY DEF ExtractImport, Visiting, WalkDos
<1>2. /\ Emits(new) /\ UNCHANGED <<source, stack>> /\ Descends("visit", At, << >>)
      /\ sites' = IF module = NoText THEN sites ELSE Append(sites, site)
    BY DEF ExtractImport
<1>3. Grown /\ {r.id : r \in SomeOf(new)} \subseteq IdsOf(nodes')
    BY <1>2, SomeIs, EmitsGrows
<1>4. sites' = sites \o more
    <2>1. sites \in Seq(SomeOf(sites))
        BY DEF IInv, Graph, SitesIn, IsSeq
    <2> HIDE DEF module, site
    <2> QED BY <1>2, <2>1
<1>5. SitesIn(more, IdsOf(nodes'))
    <2>1. CASE module = NoText
        BY <2>1, NoneIn
    <2>2. CASE module # NoText
        <3>1. new = <<Record(id, module, Bare)>>
            BY <2>2, SomeIs
        <3>2. Record(id, module, Bare).id = id
            BY DEF Record
        <3>3. id \in IdsOf(nodes')
            <4> HIDE DEF new, id, module
            <4>1. SomeOf(new) = {Record(id, module, Bare)}
                BY <3>1, OneIs
            <4> QED BY <1>3, <3>2, <4>1
        <3>4. TopId \in IdsOf(nodes')
            BY <1>3, TopIs DEF Grown
        <3>5. site.from = TopId /\ site.to = {id}
            BY DEF SiteAt
        <3>6. site.from \in IdsOf(nodes') /\ site.to \subseteq IdsOf(nodes')
            BY <3>3, <3>4, <3>5
        <3> HIDE DEF site, id, module
        <3>7. SitesIn(<<site>>, IdsOf(nodes'))
            BY <3>6, OneIn
        <3> QED BY <2>2, <3>7
    <2> QED BY <2>1, <2>2
<1>6. "visit" \notin NotWalked
    OBVIOUS
<1> HIDE DEF more
<1> QED BY <1>1, <1>2, <1>3, <1>4, <1>5, <1>6, SitesAdded

LEMMA ExtractCallKeeps ==
    ASSUME IInv, NEW do \in {"visit", "body"}, ExtractCall(do) PROVE IInv'
<1> DEFINE role == IF do = "visit" THEN Role(VisitOrder, At) ELSE Role(BodyOrder, At)
           more == CallSites(At, PackCall(Tree, At, Lang, role = "new"))
<1>1. Doing(do) /\ do \in WalkDos /\ do \notin NotWalked
    BY DEF ExtractCall, Visiting, InBody, WalkDos
<1>2. /\ sites' = sites \o more /\ Descends(do, At, << >>)
      /\ UNCHANGED <<source, stack>> /\ EmitsNothing
    BY DEF ExtractCall, EmitsNothing
<1>3. Grown
    BY <1>2, NothingGrows
<1>4. SitesIn(more, IdsOf(nodes'))
    BY <1>3, TopIs, CallSitesIn DEF Grown
<1> HIDE DEF more
<1> QED BY <1>1, <1>2, <1>3, <1>4, SitesAdded

LEMMA DescendBodyKeeps == ASSUME IInv, DescendBody PROVE IInv'
<1> DEFINE more == IF InBody("other") THEN CallSites(At, BareCall(Tree, At, Lang)) ELSE << >>
<1>1. /\ Doing("body") /\ "body" \in WalkDos /\ "body" \notin NotWalked
    BY DEF DescendBody, InBody, WalkDos
<1>2. /\ sites' = sites \o more /\ Descends("body", At, << >>)
      /\ UNCHANGED <<source, stack>> /\ EmitsNothing
    BY DEF DescendBody, EmitsNothing
<1>3. Grown
    BY <1>2, NothingGrows
<1>4. SitesIn(more, IdsOf(nodes'))
    BY <1>3, TopIs, CallSitesIn, NoneIn DEF Grown
<1> HIDE DEF more
<1> QED BY <1>1, <1>2, <1>3, <1>4, SitesAdded

LEMMA DescendKeeps == ASSUME IInv, Descend \/ ScalaExtension PROVE IInv'
<1>1. /\ Doing("visit") /\ "visit" \in WalkDos /\ "visit" \notin NotWalked
    BY DEF Descend, ScalaExtension, Visiting, Hooked, WalkDos
<1>2. PICK n : Descends("visit", n, << >>)
    BY DEF Descend, ScalaExtension
<1>3. sites' = sites /\ UNCHANGED <<source, stack>> /\ EmitsNothing
    BY DEF Descend, ScalaExtension, EmitsNothing
<1>4. Grown /\ sites' = sites \o << >> /\ SitesIn(<< >>, IdsOf(nodes'))
    BY <1>3, NothingGrows, NoMoreSites
<1> QED BY <1>1, <1>2, <1>3, <1>4, SitesAdded

LEMMA NestedDefinitionKeeps == ASSUME IInv, NestedDefinition PROVE IInv'
<1> DEFINE do == IF InBody("function") THEN "function" ELSE "visit"
           new == <<Call(do, At)>>
<1>1. Doing("body") /\ "body" \in WalkDos
    BY DEF NestedDefinition, InBody, WalkDos
<1>2. agenda' = new \o Tail(agenda) /\ UNCHANGED <<source, stack, nodes, edges, sites>>
    BY DEF NestedDefinition
<1>3. IsSeq(new) /\ Walked(new) /\ Leaves(new) = 0
    <2>1. do \notin PhaseDos /\ do # "leave"
        OBVIOUS
    <2> HIDE DEF do
    <2> QED BY <2>1, OneCall
<1> HIDE DEF new
<1>4. /\ TierThree /\ agenda # << >>
      /\ Head(agenda).do \notin NotWalked
    BY <1>1, HeadOfWalk
<1>5. Len(stack') = Len(stack) + Leaves(new) - (IF Head(agenda).do = "leave" THEN 1 ELSE 0)
    BY <1>2, <1>3, <1>4, TopIs
<1>6. Plan'
    BY <1>2, <1>3, <1>4, <1>5, PlanMoves
<1>7. Grown
    BY <1>2, NothingGrows DEF EmitsNothing
<1> QED BY <1>2, <1>6, <1>7, GraphKept DEF Grown

LEMMA RubyModuleKeeps == ASSUME IInv, RubyModule PROVE IInv'
<1> DEFINE id == NewId("module", Name, At)
<1>1. Doing("visit") /\ "visit" \in WalkDos
    BY DEF RubyModule, Hooked, WalkDos
<1>2. CASE Name = NoText
    <2>1. Returns /\ EmitsNothing /\ UNCHANGED <<source, stack, sites>>
        BY <1>2 DEF RubyModule
    <2> QED BY <1>1, <2>1, NothingDone
<1>3. CASE Name # NoText
    <2>1. /\ source' = source /\ Emits(<<Record(id, Name, Bare)>>) /\ sites' = sites
          /\ Enters(id, Name) /\ Descends("visit", Field(Tree, At, "body"), <<Leave>>)
        BY <1>3 DEF RubyModule
    <2> HIDE DEF id
    <2>2. sites' = sites \o << >> /\ SitesIn(<< >>, {id})
        BY <2>1, NoMoreSites
    <2>3. "visit" \notin NotWalked
        OBVIOUS
    <2> QED BY <1>1, <2>1, <2>2, <2>3, EmittedScope
<1> QED BY <1>2, <1>3

LEMMA ExtractFileKeeps == ASSUME IInv, ExtractFile PROVE IInv'
<1> DEFINE header == ChildOf(Tree, Root, Pack.package)
           name   == Text(Tree, ChildOf(Tree, header, {"qualified_identifier", "identifier"}))
           id     == NewId("namespace", name, header)
<1>1. /\ Doing("file") /\ "file" \in WalkDos /\ "visit" \notin NotWalked
    BY DEF ExtractFile, WalkDos
<1>2. CASE name = NoText
    <2>1. /\ EmitsNothing /\ UNCHANGED <<source, stack>> /\ sites' = sites
          /\ Descends("visit", Root, << >>)
        BY <1>2 DEF ExtractFile
    <2>2. Grown /\ sites' = sites \o << >> /\ SitesIn(<< >>, IdsOf(nodes'))
        BY <2>1, NothingGrows, NoMoreSites
    <2> QED BY <1>1, <2>1, <2>2, SitesAdded
<1>3. CASE name # NoText
    <2>1. /\ source' = source /\ Emits(<<Record(id, name, Bare)>>) /\ sites' = sites
          /\ Enters(id, name) /\ Descends("visit", Root, <<Leave>>)
        BY <1>3 DEF ExtractFile
    <2> HIDE DEF id, name
    <2>2. sites' = sites \o << >> /\ SitesIn(<< >>, {id})
        BY <2>1, NoMoreSites
    <2> QED BY <1>1, <2>1, <2>2, EmittedScope
<1> QED BY <1>2, <1>3

LEMMA LeaveScopeKeeps == ASSUME IInv, Ascend \/ LeaveScope PROVE IInv'
<1>1. /\ agenda # << >> /\ agenda' = Tail(agenda)
      /\ UNCHANGED <<source, nodes, edges, sites>>
      /\ Head(agenda).do \in {"ascend", "leave"}
    BY DEF Ascend, LeaveScope, Doing
<1>2. TierThree /\ Head(agenda).do \notin PhaseDos
    BY <1>1, HeadIs DEF PhaseDos
<1>3. IsSeq(agenda) /\ IsSeq(stack) /\ Len(stack) >= 1 + Leaves(agenda) /\ Len(stack) \in Nat
    BY TopIs DEF IInv, Graph, Plan, Pending, ScopesIn
<1>4. agenda' = << >> \o Tail(agenda)
    BY <1>1, <1>3, HeadAndTail DEF IsSeq
<1>5. Head(agenda).do = "leave" => Len(stack) > 1
    <2>1. Leaves(agenda) = Leaves(<<Head(agenda)>>) + Leaves(Tail(agenda))
        BY <1>1, <1>3, HeadAndTail
    <2>2. Leaves(Tail(agenda)) \in Nat
        BY <1>1, <1>3, HeadAndTail, LeavesAre
    <2>3. Head(agenda).do = "leave" => Leaves(<<Head(agenda)>>) = 1
        BY LeavesOfOne
    <2> QED BY <1>3, <2>1, <2>2, <2>3
<1>6. IF Head(agenda).do = "leave" THEN stack' = SubSeq(stack, 1, Len(stack) - 1)
      ELSE stack' = stack
    BY <1>1 DEF Ascend, LeaveScope, Doing
<1>7. /\ ScopesIn(stack', IdsOf(nodes))
      /\ Len(stack') = Len(stack) - (IF Head(agenda).do = "leave" THEN 1 ELSE 0)
    <2>1. ScopesIn(stack, IdsOf(nodes))
        BY DEF IInv, Graph
    <2>2. CASE Head(agenda).do = "leave"
        <3> DEFINE front == SubSeq(stack, 1, Len(stack) - 1)
                   S == SomeOf(stack)
        <3>1. stack \in Seq(S)
            BY <1>3 DEF IsSeq
        <3> HIDE DEF S
        <3>2. front \in Seq(S) /\ Len(front) = Len(stack) - 1
            BY <1>3, <1>5, <2>2, <3>1
        <3> HIDE DEF front
        <3>3. IsSeq(front) /\ SomeOf(front) \subseteq S
            BY <3>2, SeqIs
        <3>4. stack' = front
            BY <1>6, <2>2 DEF front
        <3> QED BY <2>1, <2>2, <3>2, <3>3, <3>4 DEF ScopesIn, S
    <2>3. CASE Head(agenda).do # "leave"
        BY <1>3, <1>6, <2>1, <2>3
    <2> QED BY <2>2, <2>3
<1>8. Plan'
    <2>1. Len(stack') = Len(stack) + Leaves(<< >>) - (IF Head(agenda).do = "leave" THEN 1 ELSE 0)
        BY <1>3, <1>7, NoneToMake
    <2> QED BY <1>1, <1>2, <1>4, <2>1, NoneToMake, PlanMoves
<1>9. Grown
    BY <1>1, NothingGrows DEF EmitsNothing
<1> QED BY <1>1, <1>7, <1>8, <1>9, GraphKept DEF Grown

LEMMA WalkKeeps == ASSUME IInv, Walk PROVE IInv'
<1>1. CASE ExtractFile                      BY <1>1, ExtractFileKeeps
<1>2. CASE ExtractCallable                  BY <1>2, ExtractCallableKeeps
<1>3. CASE ExtractContainer                 BY <1>3, ExtractContainerKeeps
<1>4. CASE ExtractStruct                    BY <1>4, ExtractStructKeeps
<1>5. CASE ExtractEnum                      BY <1>5, ExtractEnumKeeps
<1>6. CASE ExtractEnumMembers               BY <1>6, ExtractEnumMembersKeeps
<1>7. CASE ExtractTypeAlias \/ ExtractProperty \/ ExtractVariable \/ ScalaValue
    BY <1>7, LeavesKeep
<1>8. CASE ExtractField                     BY <1>8, ExtractFieldKeeps
<1>9. CASE ExtractImport                    BY <1>9, ExtractImportKeeps
<1>10. CASE ExtractCall("visit") \/ ExtractCall("body")
    BY <1>10, ExtractCallKeeps
<1>11. CASE NestedDefinition                BY <1>11, NestedDefinitionKeeps
<1>12. CASE DescendBody                     BY <1>12, DescendBodyKeeps
<1>13. CASE Descend \/ ScalaExtension       BY <1>13, DescendKeeps
<1>14. CASE RubyModule                      BY <1>14, RubyModuleKeeps
<1>15. CASE PhpConstants                    BY <1>15, PhpConstantsKeeps
<1>16. CASE ScalaCases                      BY <1>16, ScalaCasesKeeps
<1>17. CASE Ascend \/ LeaveScope            BY <1>17, LeaveScopeKeeps
<1> QED BY <1>1, <1>2, <1>3, <1>4, <1>5, <1>6, <1>7, <1>8, <1>9, <1>10, <1>11, <1>12, <1>13,
           <1>14, <1>15, <1>16, <1>17 DEF Walk

-----------------------------------------------------------------------------
(* The phases of the queried languages                                     *)

Phased == PhaseDos \ {"start", "record"}

LEMMA PhaseMoves ==
    ASSUME IInv, NEW do \in Phased, Phase(do)
    PROVE  /\ Located(nodes) /\ UNCHANGED <<source, stack>>
           /\ (\A r \in SomeOf(nodes') : r.id.at \in DOMAIN Tree) => Plan'
           /\ do = "define" => stack = FileScope /\ edges = << >> /\ sites = << >>
<1>1. /\ agenda # << >> /\ Head(agenda).do = do /\ agenda' = Tail(agenda)
      /\ UNCHANGED <<source, stack>>
    BY DEF Phase, Doing
<1>2. /\ IsSeq(agenda) /\ IsSeq(stack) /\ Pending(agenda, stack) /\ Len(stack) \in Nat
      /\ Mid(Tail(agenda))
    BY <1>1, TopIs DEF IInv, Graph, Plan, Pending, ScopesIn
<1>3. /\ IsSeq(Tail(agenda)) /\ SomeOf(Tail(agenda)) \subseteq SomeOf(agenda)
      /\ Head(agenda) \in SomeOf(agenda)
    BY <1>1, <1>2, HeadAndTailWithin
<1>4. do # "leave" /\ do \in PhaseDos \ {"start", "record"}
    BY DEF Phased
<1>5. ~ TierThree /\ Located(nodes) /\ \A c \in SomeOf(agenda) : c.do \in PhaseDos
    <2>1. ~ (Head(agenda).do \notin PhaseDos \ {"start", "record"})
        BY <1>1, <1>4
    <2> HIDE DEF PhaseDos
    <2> QED BY <1>3, <2>1 DEF IInv, Plan
<1>6. Pending(agenda', stack')
    <2>1. agenda' = << >> \o Tail(agenda)
        BY <1>1, <1>3 DEF IsSeq
    <2>2. Len(stack') = Len(stack) + Leaves(<< >>) - (IF Head(agenda).do = "leave" THEN 1 ELSE 0)
        BY <1>1, <1>2, <1>4, NoneToMake
    <2> QED BY <1>1, <1>2, <2>1, <2>2, NoneToMake, PendingMoves
<1>7. agenda' # << >> => Mid(Tail(agenda'))
    <2> SUFFICES ASSUME agenda' # << >> PROVE Mid(Tail(agenda'))
        OBVIOUS
    <2>1. SomeOf(Tail(agenda')) \subseteq SomeOf(agenda')
        BY <1>1, <1>3, HeadAndTailWithin
    <2> QED BY <1>1, <1>2, <2>1 DEF Mid
<1>8. ~ TierThree' /\ Tree' = Tree
    BY <1>1, <1>5 DEF TierThree, Lang, Tree
<1>9. (\A r \in SomeOf(nodes') : r.id.at \in DOMAIN Tree) => Plan'
    <2> SUFFICES ASSUME \A r \in SomeOf(nodes') : r.id.at \in DOMAIN Tree PROVE Plan'
        OBVIOUS
    <2>1. Located(nodes)'
        BY <1>8 DEF Located, SomeOf
    <2>2. \A c \in SomeOf(agenda') : c.do \in PhaseDos
        BY <1>1, <1>3, <1>5
    <2>3. Mid(agenda')
        BY <1>1, <1>2
    <2> HIDE DEF PhaseDos
    <2> QED BY <1>6, <1>7, <1>8, <2>1, <2>2, <2>3 DEF Plan, Pending, Mid, Located, SomeOf
<1>10. do = "define" => stack = FileScope /\ edges = << >> /\ sites = << >>
    BY <1>1, <1>3 DEF IInv, Plan, Mid
<1> QED BY <1>1, <1>5, <1>9, <1>10

LEMMA SitesKept ==
    ASSUME IInv, NEW do \in Phased, Phase(do), nodes' = nodes, edges' = edges,
           SitesIn(sites', IdsOf(nodes))
    PROVE  IInv'
<1>1. Plan' /\ UNCHANGED <<source, stack>>
    BY PhaseMoves DEF Located
<1>2. Graph'
    BY <1>1 DEF IInv, Graph
<1> QED BY <1>1, <1>2 DEF IInv

LEMMA DefineKeeps == ASSUME IInv, Define PROVE IInv'
<1> DEFINE captured == Captured(Tree, Lang)
           f == [i \in DOMAIN captured |-> Defined(captured[i])]
<1>1. Phase("define") /\ nodes' = FlattenSeq(f) /\ edges' = edges /\ sites' = sites
    BY DEF Define
<1>2. /\ UNCHANGED <<source, stack>> /\ stack = FileScope /\ edges = << >> /\ sites = << >>
      /\ (\A r \in SomeOf(nodes') : r.id.at \in DOMAIN Tree) => Plan'
    BY <1>1, PhaseMoves DEF Phased
<1>3. IsSeq(captured) /\ SomeOf(captured) \subseteq DOMAIN Tree
    <2>1. IsTree(Tree)
        BY TreeIs DEF IInv
    <2>2. IsSeq(Positions(Tree)) /\ SomeOf(Positions(Tree)) = DOMAIN Tree
        <3>1. Len(Tree) \in Nat /\ DOMAIN Tree = 1 .. Len(Tree)
            BY <2>1 DEF IsTree
        <3>2. SomeOf(Positions(Tree)) = 1 .. Len(Tree)
            BY <3>1 DEF Positions, SomeOf
        <3> QED BY <2>1, <3>1, <3>2, PositionsAre
    <2> QED BY <2>2, ThoseAre DEF Captured
<1>4. \A n : IsSeq(Defined(n)) /\ \A r \in SomeOf(Defined(n)) : r.id.at = n
    <2> TAKE n
    <2>1. CASE Defined(n) = << >>
        BY <2>1, EmptyIs
    <2>2. CASE \E r : Defined(n) = <<r>> /\ r.id.at = n
        BY <2>2, OneIs
    <2>3. \A kind, qn, name : Record([kind |-> kind, qn |-> qn, at |-> n], name, Bare).id.at = n
        BY DEF Record
    <2> QED BY <2>1, <2>2, <2>3 DEF Defined
<1>5. f = [i \in DOMAIN captured |-> f[i]]
      /\ \A i \in DOMAIN captured : IsSeq(f[i]) /\ \A r \in SomeOf(f[i]) : r.id.at \in DOMAIN Tree
    <2> HIDE DEF captured
    <2>1. \A i \in DOMAIN captured : captured[i] \in DOMAIN Tree
        BY <1>3 DEF SomeOf
    <2> QED BY <1>4, <2>1
<1> HIDE DEF f, captured
<1>6. IsSeq(FlattenSeq(f)) /\ \A r \in SomeOf(FlattenSeq(f)) : r.id.at \in DOMAIN Tree
    <2>1. /\ IsSeq(FlattenSeq(f))
          /\ \A x \in SomeOf(FlattenSeq(f)) : \E i \in DOMAIN captured : x \in SomeOf(f[i])
        BY <1>3, <1>5, FlatMapOf
    <2> QED BY <1>5, <2>1
<1>7. Plan' /\ IsSeq(nodes')
    BY <1>1, <1>2, <1>6
<1>8. ScopesIn(stack', IdsOf(nodes'))
    <2>1. File \in IdsOf(nodes') /\ [id |-> File, name |-> NoText].id = File
        BY DEF IdsOf
    <2> HIDE DEF IdsOf
    <2>2. ScopesIn(FileScope, IdsOf(nodes'))
        BY <2>1, OneIn DEF FileScope
    <2> QED BY <1>2, <2>2
<1>9. EdgesIn(edges', IdsOf(nodes')) /\ SitesIn(sites', IdsOf(nodes'))
    BY <1>1, <1>2, NoneIn
<1>10. Graph'
    BY <1>7, <1>8, <1>9 DEF Graph, IdsOf, IsSeq, EdgesIn, SitesIn, ScopesIn, File, SomeOf
<1> QED BY <1>2, <1>7, <1>10 DEF IInv

LEMMA EmittedAtIs ==
    ASSUME IsSeq(nodes), NEW n, EmittedAt(n) # << >>
    PROVE  EmittedAt(n)[1].id \in IdsOf(nodes)
<1>1. EmittedAt(n)[1] \in SomeOf(nodes)
    BY HeadOfThose DEF EmittedAt
<1> QED BY <1>1 DEF IdsOf

LEMMA NearestIs ==
    ASSUME IsTree(Tree), IsSeq(nodes), NEW n \in DOMAIN Tree
    PROVE  NearestEmitted(n) \in IdsOf(nodes)
<1> DEFINE S == {a \in DOMAIN Tree : EmittedAt(a) # << >>}
           around == Those(Ancestors(Tree, n), S)
<1>1. NearestEmitted(n) = IF around = << >> THEN File ELSE EmittedAt(Head(around))[1].id
    BY DEF NearestEmitted
<1>2. CASE around = << >>
    BY <1>1, <1>2 DEF IdsOf
<1>3. CASE around # << >>
    <2>1. IsSeq(Ancestors(Tree, n))
        <3>1. Ancestors(Tree, n) \in Seq(Nat)
            <4> DEFINE R == [kind : STRING, field : STRING, text : Seq(STRING), above : Seq(Nat)]
            <4>1. Tree \in Seq(R)
                BY DEF IsTree
            <4>2. \A r \in R : r.above \in Seq(Nat)
                OBVIOUS
            <4> HIDE DEF R
            <4>3. Tree[n] \in R
                BY <4>1
            <4> QED BY <4>2, <4>3 DEF Ancestors
        <3> QED BY <3>1, SeqIs
    <2>2. Head(around) \in S
        <3> HIDE DEF S
        <3> QED BY <1>3, <2>1, HeadOfThose
    <2>3. EmittedAt(Head(around)) # << >>
        BY <2>2
    <2> HIDE DEF around
    <2>4. EmittedAt(Head(around))[1].id \in IdsOf(nodes)
        BY <2>3, EmittedAtIs
    <2> QED BY <1>1, <1>3, <2>4
<1> QED BY <1>2, <1>3

LEMMA TypeNodeIs ==
    ASSUME IsSeq(nodes), NEW name, TypeNode(name) # << >>
    PROVE  TypeNode(name)[1].id \in IdsOf(nodes)
<1>1. TypeNode(name)[1] \in SomeOf(nodes)
    BY HeadOfThose DEF TypeNode
<1> QED BY <1>1 DEF IdsOf

LEMMA TopOfIs == ASSUME IsSeq(nodes) PROVE TopOf(File) \in IdsOf(nodes)
<1>1. Package # << >> => Package[1] \in SomeOf(nodes)
    BY HeadOfThose DEF Package
<1> QED BY <1>1 DEF TopOf, IdsOf

LEMMA ContainKeeps == ASSUME IInv, Contain PROVE IInv'
<1> DEFINE I == IdsOf(nodes)
           f == [i \in DOMAIN nodes |-> Containing(nodes[i].id)]
<1>1. Phase("contain") /\ edges' = FlattenSeq(f) /\ nodes' = nodes /\ sites' = sites
    BY DEF Contain
<1>2. UNCHANGED <<source, stack>> /\ Located(nodes) /\ Plan'
    BY <1>1, PhaseMoves DEF Phased, Located
<1>3. IsTree(Tree) /\ IsSeq(nodes)
    BY TreeIs DEF IInv, Graph
<1>4. ASSUME NEW r \in SomeOf(nodes) PROVE EdgesIn(Containing(r.id), I)
    <2> DEFINE id == r.id
               nearest == NearestEmitted(id.at)
               parent == IF nearest = File /\ id.kind # "namespace" THEN TopOf(File) ELSE nearest
               owner  == IF id.kind # "method" THEN << >>
                         ELSE TypeNode(OwningType(Tree, id.at, Lang))
               one == <<<<parent, id>>>>
               two == IF owner = << >> \/ owner[1].id = parent THEN << >>
                      ELSE <<<<owner[1].id, id>>>>
    <2>1. id \in I /\ id.at \in DOMAIN Tree
        BY <1>2, <1>4 DEF Located, IdsOf
    <2>2. nearest \in I /\ TopOf(File) \in I
        BY <1>3, <2>1, NearestIs, TopOfIs
    <2> HIDE DEF nearest
    <2>3. parent \in I
        BY <2>2
    <2>4. owner # << >> => owner[1].id \in I
        BY <1>3, TypeNodeIs
    <2>5. Containing(r.id) = one \o two
        BY DEF Containing, nearest
    <2> HIDE DEF I, id, parent, owner
    <2>6. EdgesIn(one, I)
        BY <2>1, <2>3, OneIn
    <2>7. EdgesIn(two, I)
        BY <2>1, <2>4, OneIn, NoneIn
    <2> HIDE DEF one, two
    <2> QED BY <2>5, <2>6, <2>7, GrowIn
<1>5. f = [i \in DOMAIN nodes |-> f[i]] /\ \A i \in DOMAIN nodes : EdgesIn(f[i], I)
    <2> HIDE DEF I
    <2> QED BY <1>4 DEF SomeOf
<1> HIDE DEF f
<1>6. EdgesIn(edges', I)
    BY <1>1, <1>3, <1>5, FlatEdgesIn
<1>7. Graph'
    BY <1>1, <1>2, <1>6 DEF IInv, Graph
<1> QED BY <1>2, <1>7 DEF IInv

LEMMA ReferKeeps == ASSUME IInv, Refer PROVE IInv'
<1> DEFINE I == IdsOf(nodes)
           calls == CallsIn(Tree, Lang)
           fields == FieldTypes(Tree, Lang)
           f == [i \in DOMAIN calls |-> CallSite(calls[i], fields)]
<1>1. Phase("refer") /\ sites' = FlattenSeq(f) /\ nodes' = nodes /\ edges' = edges
    BY DEF Refer
<1>2. IsTree(Tree) /\ IsSeq(nodes)
    BY TreeIs DEF IInv, Graph
<1>3. IsSeq(calls) /\ SomeOf(calls) \subseteq DOMAIN Tree
    <2>1. Len(Tree) \in Nat /\ DOMAIN Tree = 1 .. Len(Tree)
        BY <1>2 DEF IsTree
    <2>2. SomeOf(Positions(Tree)) = 1 .. Len(Tree)
        BY <2>1 DEF Positions, SomeOf
    <2> QED BY <1>2, <2>1, <2>2, PositionsAre, ThoseAre DEF CallsIn
<1>4. ASSUME NEW n \in DOMAIN Tree PROVE SitesIn(CallSite(n, fields), I)
    <2> DEFINE from == NearestEmitted(n)
    <2>1. from \in I
        BY <1>2, NearestIs
    <2>2. \A ask : SiteAt(from, n, ask).from = from /\ SiteAt(from, n, ask).to = {}
        BY DEF SiteAt
    <2>3. \/ CallSite(n, fields) = << >>
          \/ \E ask : CallSite(n, fields) = <<SiteAt(from, n, ask)>>
        BY DEF CallSite
    <2> HIDE DEF from, I
    <2> QED BY <2>1, <2>2, <2>3, OneIn, NoneIn
<1>5. f = [i \in DOMAIN calls |-> f[i]] /\ \A i \in DOMAIN calls : SitesIn(f[i], I)
    <2> HIDE DEF I, calls, fields
    <2>1. \A i \in DOMAIN calls : calls[i] \in DOMAIN Tree
        BY <1>3 DEF SomeOf
    <2> QED BY <1>4, <2>1
<1> HIDE DEF f, calls
<1>6. SitesIn(FlattenSeq(f), I)
    BY <1>3, <1>5, FlatSitesIn
<1> QED BY <1>1, <1>6, SitesKept DEF Phased

LEMMA ReferToTypesKeeps == ASSUME IInv, ReferToTypes PROVE IInv'
<1> DEFINE I == IdsOf(nodes)
           callables == Those(nodes, {r \in SomeOf(nodes) : r.id.kind \in {"function", "method"}})
           ask == IF Lang \in {"go", "java"} THEN "concrete" ELSE "type"
           ids(id) == TypeIdentifiers(Tree, id.at, Lang)
           of(id) == [i \in DOMAIN ids(id) |->
                         SiteAt(id, ids(id)[i], Asks(ask, NoText, Text(Tree, ids(id)[i]), << >>))]
           f == [i \in DOMAIN callables |-> of(callables[i].id)]
<1>1. /\ Phase("types") /\ sites' = sites \o FlattenSeq(f) /\ nodes' = nodes /\ edges' = edges
    BY DEF ReferToTypes
<1>2. IsTree(Tree) /\ IsSeq(nodes) /\ SitesIn(sites, I)
    BY TreeIs DEF IInv, Graph
<1>3. IsSeq(callables) /\ \A i \in DOMAIN callables : callables[i].id \in I
    <2>1. IsSeq(callables) /\ SomeOf(callables) \subseteq SomeOf(nodes)
        BY <1>2, ThoseAre
    <2> HIDE DEF callables
    <2>2. \A i \in DOMAIN callables : callables[i] \in SomeOf(nodes)
        BY <2>1 DEF SomeOf
    <2> QED BY <2>1, <2>2 DEF IdsOf
<1>4. ASSUME NEW id \in I PROVE SitesIn(of(id), I)
    <2>1. IsSeq(ids(id))
        BY <1>2, TypeIdentifiersAre
    <2>2. of(id) = [i \in DOMAIN ids(id) |-> of(id)[i]]
        OBVIOUS
    <2>3. \A i \in DOMAIN ids(id) : of(id)[i].from \in I /\ of(id)[i].to \subseteq I
        <3> HIDE DEF ids, ask, I
        <3> QED BY DEF SiteAt
    <2> HIDE DEF of, ids, I
    <2> QED BY <2>1, <2>2, <2>3, EachSiteIn
<1>5. f = [i \in DOMAIN callables |-> f[i]] /\ \A i \in DOMAIN callables : SitesIn(f[i], I)
    <2> HIDE DEF I, callables, of
    <2> QED BY <1>3, <1>4
<1> HIDE DEF f, callables
<1>6. SitesIn(FlattenSeq(f), I)
    BY <1>3, <1>5, FlatSitesIn
<1> HIDE DEF I
<1>7. SitesIn(sites', I)
    BY <1>1, <1>2, <1>6, GrowIn
<1> QED BY <1>1, <1>7, SitesKept DEF Phased, I

LEMMA ImportKeeps == ASSUME IInv, Import PROVE IInv'
<1> DEFINE I == IdsOf(nodes)
           imports == Those(nodes, {r \in SomeOf(nodes) : r.id.kind = "import"
                          /\ ~(Lang = "python" /\ Kind(Tree, r.id.at) = "import_statement")})
           of(r) == [SiteAt(TopOf(File), r.id.at, Asks("import", NoText, r.name, << >>))
                        EXCEPT !.to = {r.id}]
           f == [i \in DOMAIN imports |-> of(imports[i])]
<1>1. /\ Phase("imports") /\ sites' = sites \o f /\ nodes' = nodes /\ edges' = edges
    BY DEF Import
<1>2. IsSeq(nodes) /\ SitesIn(sites, I) /\ TopOf(File) \in I
    BY TopOfIs DEF IInv, Graph
<1>3. IsSeq(imports) /\ \A i \in DOMAIN imports : imports[i].id \in I
    <2>1. IsSeq(imports) /\ SomeOf(imports) \subseteq SomeOf(nodes)
        BY <1>2, ThoseAre
    <2> HIDE DEF imports
    <2>2. \A i \in DOMAIN imports : imports[i] \in SomeOf(nodes)
        BY <2>1 DEF SomeOf
    <2> QED BY <2>1, <2>2 DEF IdsOf
<1>4. \A r : of(r).from = TopOf(File) /\ of(r).to = {r.id}
    BY DEF SiteAt
<1>5. f = [i \in DOMAIN imports |-> f[i]]
      /\ \A i \in DOMAIN imports : f[i].from \in I /\ f[i].to \subseteq I
    <2> HIDE DEF I, imports, of
    <2> QED BY <1>2, <1>3, <1>4
<1> HIDE DEF f, imports
<1>6. SitesIn(f, I)
    BY <1>3, <1>5, EachSiteIn
<1> HIDE DEF I
<1>7. SitesIn(sites', I)
    BY <1>1, <1>2, <1>6, GrowIn
<1> QED BY <1>1, <1>7, SitesKept DEF Phased, I

LEMMA InheritKeeps == ASSUME IInv, Inherit PROVE IInv'
<1> DEFINE I == IdsOf(nodes)
           site(id, b) == SiteAt(id, b.at, Asks(b.edge, NoText, b.name, << >>))
           bases(id) == Heritage(Tree, id.at, id.kind, Lang)
           of(id) == [i \in DOMAIN bases(id) |-> site(id, bases(id)[i])]
           f == [i \in DOMAIN nodes |-> of(nodes[i].id)]
           impls == IF Lang = "rust" THEN RustImpls(Tree) ELSE << >>
           type(impl) == TypeNode(impl.type)
           ofImpl(impl) == IF type(impl) = << >> THEN << >>
                           ELSE <<site(type(impl)[1].id, impl.base)>>
           g == [i \in DOMAIN impls |-> ofImpl(impls[i])]
<1>1. /\ Phase("inherit") /\ sites' = (sites \o FlattenSeq(f)) \o FlattenSeq(g)
      /\ nodes' = nodes /\ edges' = edges
    BY DEF Inherit
<1>2. IsTree(Tree) /\ IsSeq(nodes) /\ SitesIn(sites, I)
    BY TreeIs DEF IInv, Graph
<1>3. \A id, b : site(id, b).from = id /\ site(id, b).to = {}
    BY DEF SiteAt
<1>4. ASSUME NEW id \in I PROVE SitesIn(of(id), I)
    <2>1. IsSeq(bases(id))
        BY <1>2, HeritageIs
    <2>2. of(id) = [i \in DOMAIN bases(id) |-> of(id)[i]]
        OBVIOUS
    <2>3. \A i \in DOMAIN bases(id) : of(id)[i].from \in I /\ of(id)[i].to \subseteq I
        <3> HIDE DEF bases, site, I
        <3> QED BY <1>3
    <2> HIDE DEF of, bases, I
    <2> QED BY <2>1, <2>2, <2>3, EachSiteIn
<1>5. f = [i \in DOMAIN nodes |-> f[i]] /\ \A i \in DOMAIN nodes : SitesIn(f[i], I)
    <2>1. \A i \in DOMAIN nodes : nodes[i].id \in I
        BY DEF IdsOf, SomeOf
    <2> HIDE DEF I, of
    <2> QED BY <1>4, <2>1
<1>6. IsSeq(impls)
    BY <1>2, RustImplsAre, EmptyIs
<1>7. ASSUME NEW impl PROVE SitesIn(ofImpl(impl), I)
    <2>1. type(impl) # << >> => type(impl)[1].id \in I
        BY <1>2, TypeNodeIs
    <2> HIDE DEF site, type, I
    <2> QED BY <1>3, <2>1, OneIn, NoneIn
<1>8. g = [i \in DOMAIN impls |-> g[i]] /\ \A i \in DOMAIN impls : SitesIn(g[i], I)
    <2> HIDE DEF I, impls, ofImpl
    <2> QED BY <1>7
<1> HIDE DEF f, g, impls
<1>9. SitesIn(FlattenSeq(f), I) /\ SitesIn(FlattenSeq(g), I)
    BY <1>2, <1>5, <1>6, <1>8, FlatSitesIn
<1> HIDE DEF I
<1>10. SitesIn(sites', I)
    <2>1. SitesIn(sites \o FlattenSeq(f), I)
        BY <1>2, <1>9, GrowIn
    <2> QED BY <1>1, <1>9, <2>1, GrowIn
<1> QED BY <1>1, <1>10, SitesKept DEF Phased, I

-----------------------------------------------------------------------------
(* The file as a whole                                                     *)

LEMMA BeginsWithInv == ASSUME Init PROVE IInv
<1> DEFINE call == Call("start", Root)
<1>1. /\ source \in Sources /\ agenda = <<call>> /\ stack = FileScope
      /\ nodes = << >> /\ edges = << >> /\ sites = << >>
    BY DEF Init, FileScope
<1>2. call.do = "start"
    BY DEF Call
<1> HIDE DEF call
<1>3. IsSeq(agenda) /\ SomeOf(agenda) = {call} /\ Leaves(agenda) = 0
    BY <1>1, <1>2, OneIs, LeavesOfOne
<1>4. IsSeq(stack) /\ Len(stack) = 1 + 0
    BY <1>1, OneIs DEF FileScope
<1>5. IsSeq(nodes) /\ SomeOf(nodes) = {} /\ File \in IdsOf(nodes)
    BY <1>1, EmptyIs DEF IdsOf
<1>6. Graph
    <2>1. ScopesIn(stack, IdsOf(nodes))
        BY <1>1, <1>5, OneIn DEF FileScope
    <2> QED BY <1>1, <1>5, <2>1, NoneIn DEF Graph
<1>7. Mid(Tail(agenda))
    <2>1. Tail(agenda) = << >>
        BY <1>1
    <2> QED BY <2>1, EmptyIs DEF Mid
<1>8. Plan
    BY <1>1, <1>2, <1>3, <1>4, <1>5, <1>7 DEF Plan, Pending, Located
<1> QED BY <1>1, <1>6, <1>8 DEF IInv

\* The agenda is done with, or given up.
LEMMA EndsWithInv ==
    ASSUME IInv, agenda' = << >>, UNCHANGED <<source, stack, nodes, edges, sites>>
    PROVE  IInv'
<1>1. IsSeq(agenda) /\ IsSeq(stack) /\ Len(stack) >= 1 + Leaves(agenda)
    BY DEF IInv, Graph, Plan, Pending, ScopesIn
<1>2. Leaves(agenda) \in Nat /\ Len(stack) \in Nat
    BY <1>1, LeavesAre, TopIs
<1>3. IsSeq(agenda') /\ SomeOf(agenda') = {} /\ Leaves(agenda') = 0
    BY EmptyIs, NoneToMake
<1>4. TierThree' = TierThree /\ Tree' = Tree
    BY DEF TierThree, Lang, Tree
<1>5. Plan'
    BY <1>1, <1>2, <1>3, <1>4 DEF Plan, Pending, Mid, IInv, Located, SomeOf
<1>6. Graph'
    BY DEF IInv, Graph
<1> QED BY <1>5, <1>6 DEF IInv

LEMMA LastOfConcat ==
    ASSUME NEW s, IsSeq(s), NEW t, IsSeq(t), Len(t) = 1
    PROVE  /\ IsSeq(s \o t) /\ DOMAIN (s \o t) = 1 .. (Len(s) + 1)
           /\ \A i \in 1 .. Len(s) : (s \o t)[i] = s[i]
           /\ (s \o t)[Len(s) + 1] = t[1]
<1> DEFINE S == SomeOf(s) \cup SomeOf(t)
<1>1. s \in Seq(S) /\ t \in Seq(S)
    <2>1. s \in Seq(SomeOf(s)) /\ t \in Seq(SomeOf(t))
        BY DEF IsSeq
    <2>2. SomeOf(s) \subseteq S /\ SomeOf(t) \subseteq S
        OBVIOUS
    <2> HIDE DEF S
    <2> QED BY <2>1, <2>2
<1> HIDE DEF S
<1>2. Len(s) \in Nat /\ IsSeq(s \o t)
    BY <1>1, ConcatIs
<1>3. /\ Len(s \o t) = Len(s) + Len(t) /\ s \o t \in Seq(S)
      /\ \A i \in 1 .. Len(s) + Len(t) :
            (s \o t)[i] = IF i <= Len(s) THEN s[i] ELSE t[i - Len(s)]
    BY <1>1, ConcatProperties
<1> DEFINE q == s \o t
<1> HIDE DEF q
<1>4. /\ Len(q) = Len(s) + 1 /\ q \in Seq(S)
      /\ \A i \in 1 .. Len(s) + 1 : q[i] = IF i <= Len(s) THEN s[i] ELSE t[i - Len(s)]
    BY <1>3 DEF q
<1>5. DOMAIN q = 1 .. (Len(s) + 1)
    BY <1>4
<1>6. \A i \in 1 .. Len(s) : i \in 1 .. Len(s) + 1 /\ i <= Len(s)
    BY <1>2
<1>7. /\ Len(s) + 1 \in 1 .. Len(s) + 1 /\ ~ (Len(s) + 1 <= Len(s))
      /\ (Len(s) + 1) - Len(s) = 1
    BY <1>2
<1>8. /\ \A i \in 1 .. Len(s) : q[i] = s[i]
      /\ q[Len(s) + 1] = t[1]
    BY <1>4, <1>6, <1>7
<1> QED BY <1>2, <1>5, <1>8 DEF q

LEMMA StartKeeps == ASSUME IInv, Start PROVE IInv'
<1> DEFINE first == IF TierThree THEN <<Call("file", Root)>> ELSE Phases
           last == <<Call("record", Root)>>
           new == first \o last
<1>1. /\ agenda # << >> /\ Head(agenda).do = "start" /\ agenda' = new
      /\ UNCHANGED <<source, stack, nodes, edges, sites>>
    BY DEF Start, Doing
<1>2. /\ IsSeq(agenda) /\ IsSeq(stack) /\ Len(stack) >= 1 + Leaves(agenda)
      /\ Leaves(agenda) \in Nat /\ Len(stack) \in Nat
    BY LeavesAre, TopIs DEF IInv, Graph, Plan, Pending, ScopesIn
<1>3. stack = FileScope /\ edges = << >> /\ sites = << >>
    <2>1. Head(agenda) \in SomeOf(agenda)
        BY <1>1, <1>2, HeadAndTailWithin
    <2> QED BY <1>1, <2>1 DEF IInv, Plan, Mid
<1>4. TierThree' = TierThree /\ Tree' = Tree
    BY <1>1 DEF TierThree, Lang, Tree
<1>0. IsSeq(last) /\ Len(last) = 1 /\ last[1].do = "record"
    BY OneIs DEF Call
<1>5. /\ IsSeq(new) /\ new # << >> /\ Mid(Tail(new)) /\ \A i \in DOMAIN new : new[i].do # "leave"
      /\ IF TierThree THEN \A c \in SomeOf(new) : c.do \notin Phased
         ELSE \A c \in SomeOf(new) : c.do \in PhaseDos
    <2> HIDE DEF new, last
    <2>1. CASE TierThree
        <3>1. first = <<Call("file", Root)>>
            BY <2>1
        <3>2. IsSeq(first) /\ Len(first) = 1 /\ first[1].do = "file"
            BY <3>1, OneIs DEF Call
        <3> HIDE DEF first
        <3>3. IsSeq(new) /\ DOMAIN new = 1 .. 2 /\ new[1] = first[1] /\ new[2] = last[1]
            <4>1. /\ IsSeq(new) /\ DOMAIN new = 1 .. (Len(first) + 1)
                  /\ \A i \in 1 .. Len(first) : new[i] = first[i]
                  /\ new[Len(first) + 1] = last[1]
                BY <1>0, <3>2, LastOfConcat DEF new
            <4> QED BY <3>2, <4>1
        <3>4. \A i \in DOMAIN new : new[i].do \in {"file", "record"}
            BY <1>0, <3>2, <3>3
        <3>5. \A c \in SomeOf(new) : c.do \in {"file", "record"}
            BY <3>4 DEF SomeOf
        <3>6. new # << >>
            BY <3>3
        <3>7. \A c \in SomeOf(Tail(new)) : c.do \in {"file", "record"}
            <4> SUFFICES ASSUME NEW i \in DOMAIN Tail(new)
                         PROVE  Tail(new)[i].do \in {"file", "record"}
                BY DEF SomeOf
            <4>1. i + 1 \in DOMAIN new /\ Tail(new)[i] = new[i + 1]
                BY <3>3, <3>6, HeadAndTail
            <4> QED BY <3>4, <4>1
        <3> QED BY <2>1, <3>3, <3>4, <3>5, <3>6, <3>7 DEF Mid, Phased
    <2>2. CASE ~ TierThree
        <3>1. first = <<Call("define", Root), Call("contain", Root), Call("refer", Root),
                        Call("types", Root), Call("imports", Root), Call("inherit", Root)>>
            BY <2>2 DEF Phases
        <3>2. /\ IsSeq(first) /\ Len(first) = 6
              /\ first[1].do = "define" /\ first[2].do = "contain" /\ first[3].do = "refer"
              /\ first[4].do = "types" /\ first[5].do = "imports" /\ first[6].do = "inherit"
            <4>1. /\ Len(first) = 6
                  /\ first[1] = Call("define", Root) /\ first[2] = Call("contain", Root)
                  /\ first[3] = Call("refer", Root) /\ first[4] = Call("types", Root)
                  /\ first[5] = Call("imports", Root) /\ first[6] = Call("inherit", Root)
                <5> HIDE DEF first
                <5> QED BY <3>1
            <4>2. IsSeq(first)
                BY <3>1 DEF IsSeq, SomeOf
            <4>3. \A do : Call(do, Root).do = do
                BY DEF Call
            <4> HIDE DEF first
            <4> QED BY <4>1, <4>2, <4>3
        <3> HIDE DEF first
        <3>3. /\ IsSeq(new) /\ DOMAIN new = 1 .. 7 /\ new[7] = last[1]
              /\ \A i \in 1 .. 6 : new[i] = first[i]
            <4>1. /\ IsSeq(new) /\ DOMAIN new = 1 .. (Len(first) + 1)
                  /\ \A i \in 1 .. Len(first) : new[i] = first[i]
                  /\ new[Len(first) + 1] = last[1]
                BY <1>0, <3>2, LastOfConcat DEF new
            <4> QED BY <3>2, <4>1
        <3>4. \A i \in 1 .. 7 : /\ new[i].do \in PhaseDos /\ new[i].do # "leave"
                                /\ i # 1 => new[i].do \notin {"start", "define"}
            BY <1>0, <3>2, <3>3
        <3>5. new # << >>
            BY <3>3
        <3>6. \A c \in SomeOf(Tail(new)) : c.do \notin {"start", "define"}
            <4> SUFFICES ASSUME NEW i \in DOMAIN Tail(new)
                         PROVE  Tail(new)[i].do \notin {"start", "define"}
                BY DEF SomeOf
            <4>1. i + 1 \in 1 .. 7 /\ i \in Nat \ {0} /\ Tail(new)[i] = new[i + 1]
                BY <3>3, <3>5, HeadAndTail
            <4>2. i + 1 # 1
                BY <4>1
            <4> QED BY <3>4, <4>1, <4>2
        <3>7. \A c \in SomeOf(new) : c.do \in PhaseDos
            BY <3>3, <3>4 DEF SomeOf
        <3> QED BY <2>2, <3>3, <3>4, <3>5, <3>6, <3>7 DEF Mid
    <2> QED BY <2>1, <2>2
<1> HIDE DEF new
<1>6. Leaves(new) = 0
    BY <1>5, NoLeaves
<1>7. Pending(agenda', stack')
    BY <1>1, <1>2, <1>5, <1>6 DEF Pending
<1>8. ~ TierThree => Located(nodes)'
    <2>1. ~ TierThree => Located(nodes)
        BY DEF IInv, Plan
    <2> QED BY <1>1, <1>4, <2>1 DEF Located
<1>9. Plan'
    <2>1. Mid(Tail(agenda'))
        BY <1>1, <1>5
    <2>2. IF TierThree' THEN \A c \in SomeOf(agenda') : c.do \notin PhaseDos \ {"start", "record"}
          ELSE Located(nodes)' /\ \A c \in SomeOf(agenda') : c.do \in PhaseDos
        BY <1>1, <1>4, <1>5, <1>8 DEF Phased
    <2> QED BY <1>1, <1>3, <1>7, <2>1, <2>2 DEF Plan, FileScope
<1>10. Graph'
    BY <1>1 DEF IInv, Graph
<1> QED BY <1>1, <1>9, <1>10 DEF IInv

LEMMA NextKeeps == ASSUME IInv, [Next]_extractVars PROVE IInv'
<1>1. CASE Unreadable \/ RecordFile
    BY <1>1, EndsWithInv DEF Unreadable, RecordFile
<1>2. CASE Start                            BY <1>2, StartKeeps
<1>3. CASE Finished \/ UNCHANGED extractVars
    <2>1. UNCHANGED <<source, agenda, stack, nodes, edges, sites>>
        BY <1>3 DEF Finished, extractVars
    <2>2. Graph'
        BY <2>1 DEF IInv, Graph
    <2>3. Plan'
        BY <2>1 DEF IInv, Plan, TierThree, Lang, Located, Tree
    <2> QED BY <2>1, <2>2, <2>3 DEF IInv
<1>4. CASE Walk                             BY <1>4, WalkKeeps
<1>5. CASE Define                           BY <1>5, DefineKeeps
<1>6. CASE Contain                          BY <1>6, ContainKeeps
<1>7. CASE Refer                            BY <1>7, ReferKeeps
<1>8. CASE ReferToTypes                     BY <1>8, ReferToTypesKeeps
<1>9. CASE Import                           BY <1>9, ImportKeeps
<1>10. CASE Inherit                         BY <1>10, InheritKeeps
<1> QED BY <1>1, <1>2, <1>3, <1>4, <1>5, <1>6, <1>7, <1>8, <1>9, <1>10 DEF Next

LEMMA InvAnchors == ASSUME IInv PROVE Anchored
<1>1. IdsOf(nodes) = Ids
    BY DEF IdsOf, Ids, SomeOf
<1>2. \A i \in DOMAIN edges : {edges[i][1], edges[i][2]} \subseteq IdsOf(nodes)
    BY DEF IInv, Graph, EdgesIn, SomeOf
<1>3. \A i \in DOMAIN sites : {sites[i].from} \cup sites[i].to \subseteq IdsOf(nodes)
    BY DEF IInv, Graph, SitesIn, SomeOf
<1> QED BY <1>1, <1>2, <1>3 DEF Anchored

\* No edge and no reference site of a file hangs in the air, whatever the tree, the
\* language and the cap are: each end is a definition that the extraction emitted
\* before, or the file.  (Walker's scopes and parse::extract's ancestors.)
THEOREM EdgesAndSitesAreAnchored == Spec => []Anchored
<1>1. Init => IInv
    BY BeginsWithInv
<1>2. IInv /\ [Next]_extractVars => IInv'
    BY NextKeeps
<1>3. IInv => Anchored
    BY InvAnchors
<1> QED BY <1>1, <1>2, <1>3, PTL DEF Spec

-----------------------------------------------------------------------------
(* Sequences that grow                                                     *)

LEMMA Widen ==
    ASSUME NEW s, IsSeq(s), NEW S, SomeOf(s) \subseteq S
    PROVE  s \in Seq(S)
BY DEF IsSeq

\* Induction over the sequences: good is the set of those for which it holds.
LEMMA SeqInduct ==
    ASSUME NEW S, NEW good, << >> \in good,
           \A u \in Seq(S), x \in S : u \in good => Append(u, x) \in good
    PROVE  Seq(S) \subseteq good
<1> SUFFICES ASSUME NEW q \in Seq(S) PROVE q \in good
    OBVIOUS
<1> DEFINE n == Len(q)
           ok == {i \in 0 .. n : SubSeq(q, 1, i) \in good}
<1>1. n \in Nat /\ \A i \in 1 .. n : q[i] \in S
    BY ElementOfSeq, LenProperties
<1>2. 0 \in ok
    <2>1. SubSeq(q, 1, 0) = << >>
        BY SubSeqEmpty
    <2>2. 0 \in 0 .. n
        BY <1>1
    <2> HIDE DEF n
    <2> QED BY <2>1, <2>2
<1>3. ASSUME NEW i \in 1 .. n, i - 1 \in ok PROVE i \in ok
    <2>1. 1 \in 1 .. n /\ i \in 1 .. n /\ i \in 0 .. n
        BY <1>1
    <2>2. SubSeq(q, 1, i) = SubSeq(q, 1, i - 1) \o <<q[i]>>
        BY <2>1, SubSeqRecursiveSecond
    <2>3. SubSeq(q, 1, i - 1) \in Seq(S)
        BY <1>1, SubSeqProperties
    <2>4. Append(SubSeq(q, 1, i - 1), q[i]) = SubSeq(q, 1, i)
        BY <1>1, <2>2, <2>3, AppendIsConcat
    <2>5. Append(SubSeq(q, 1, i - 1), q[i]) \in good
        BY <1>1, <1>3, <2>3
    <2> QED BY <2>1, <2>4, <2>5
<1>4. 0 .. n \subseteq ok
    <2> HIDE DEF ok, n
    <2> QED BY <1>1, <1>2, <1>3, OfLoops!UpTo
<1>5. SubSeq(q, 1, n) = q /\ n \in 0 .. n
    BY <1>1, SubSeqFull
<1> QED BY <1>4, <1>5

LEMMA AppendIs ==
    ASSUME NEW s, IsSeq(s), NEW x
    PROVE  /\ IsSeq(Append(s, x)) /\ SomeOf(Append(s, x)) = SomeOf(s) \cup {x}
           /\ Append(s, x) = s \o <<x>> /\ Append(s, x) # << >>
           /\ Len(Append(s, x)) = Len(s) + 1 /\ Append(s, x)[Len(s) + 1] = x
           /\ \A i \in 1 .. Len(s) : Append(s, x)[i] = s[i]
<1> DEFINE S == SomeOf(s) \cup {x}
<1>1. s \in Seq(S) /\ x \in S
    BY Widen
<1>2. Append(s, x) = s \o <<x>>
    BY <1>1, AppendIsConcat
<1>3. IsSeq(s \o <<x>>) /\ SomeOf(s \o <<x>>) = SomeOf(s) \cup {x}
    BY ConcatIs, OneIs
<1> HIDE DEF S
<1> QED BY <1>1, <1>2, <1>3, AppendProperties

LEMMA ConcatOf ==
    ASSUME NEW s, IsSeq(s), NEW t, IsSeq(t), NEW u, IsSeq(u)
    PROVE  /\ (s \o t) \o u = s \o (t \o u) /\ s \o << >> = s /\ << >> \o s = s
           /\ \A x : s \o Append(t, x) = Append(s \o t, x)
<1> DEFINE S == SomeOf(s) \cup SomeOf(t) \cup SomeOf(u)
<1>1. s \in Seq(S) /\ t \in Seq(S) /\ u \in Seq(S)
    BY Widen
<1>2. (s \o t) \o u = s \o (t \o u) /\ s \o << >> = s /\ << >> \o s = s
    <2> HIDE DEF S
    <2> QED BY <1>1, ConcatAssociative, ConcatEmptySeq
<1>3. ASSUME NEW x PROVE s \o Append(t, x) = Append(s \o t, x)
    <2> DEFINE R == S \cup {x}
    <2>1. s \in Seq(R) /\ t \in Seq(R) /\ <<x>> \in Seq(R)
        BY Widen, OneIs
    <2>2. (s \o t) \o <<x>> = s \o (t \o <<x>>)
        <3> HIDE DEF R
        <3> QED BY <2>1, ConcatAssociative
    <2>3. Append(t, x) = t \o <<x>> /\ Append(s \o t, x) = (s \o t) \o <<x>>
        BY AppendIs, ConcatIs
    <2> QED BY <2>2, <2>3
<1> QED BY <1>2, <1>3

LEMMA EmptySeqIs ==
    ASSUME NEW s, IsSeq(s)
    PROVE  /\ s = << >> <=> SomeOf(s) = {}
           /\ s = << >> <=> Len(s) = 0
<1>1. s \in [1 .. Len(s) -> SomeOf(s)] /\ Len(s) \in Nat /\ DOMAIN s = 1 .. Len(s)
    BY SeqIs DEF IsSeq
<1>2. s # << >> => Len(s) # 0
    BY EmptySeq DEF IsSeq
<1>3. s = << >> => Len(s) = 0 /\ SomeOf(s) = {}
    BY EmptySeq, EmptyIs
<1>4. Len(s) # 0 => 1 \in DOMAIN s
    BY <1>1
<1>5. 1 \in DOMAIN s => SomeOf(s) # {}
    BY DEF SomeOf
<1> QED BY <1>2, <1>3, <1>4, <1>5

-----------------------------------------------------------------------------
(* Those                                                                   *)

LEMMA ThoseOfNone == ASSUME NEW S PROVE Those(<< >>, S) = << >>
<1>1. IsSeq(<< >>) /\ Len(<< >>) = 0
    BY EmptyIs
<1>2. PICK f : Taking(f, << >>, S) /\ Those(<< >>, S) = f[Len(<< >>)]
    BY <1>1, ThoseRun
<1> QED BY <1>1, <1>2 DEF Taking

LEMMA ThoseOfAppend ==
    ASSUME NEW s, IsSeq(s), NEW x, NEW S
    PROVE  Those(Append(s, x), S)
               = IF x \in S THEN Append(Those(s, S), x) ELSE Those(s, S)
<1> DEFINE n == Len(s)
           s2 == Append(s, x)
<1>0. n \in Nat
    BY SeqIs DEF IsSeq
<1>1. /\ IsSeq(s2) /\ Len(s2) = n + 1 /\ n \in Nat
      /\ s2[n + 1] = x /\ \A i \in 1 .. n : s2[i] = s[i]
    BY <1>0, AppendIs, ZenonT(30)
<1> HIDE DEF s2
<1>2. PICK f : Taking(f, s, S) /\ Those(s, S) = f[n]
    BY ThoseRun
<1>3. PICK g : Taking(g, s2, S) /\ Those(s2, S) = g[n + 1]
    BY <1>1, ThoseRun
<1> DEFINE ok == {i \in 0 .. n : g[i] = f[i]}
<1>4. 0 \in ok
    BY <1>1, <1>2, <1>3 DEF Taking
<1>5. ASSUME NEW i \in 1 .. n, i - 1 \in ok PROVE i \in ok
    <2>1. i \in 1 .. n + 1 /\ i \in 0 .. n /\ s2[i] = s[i]
        BY <1>1
    <2> QED BY <1>1, <1>2, <1>3, <1>5, <2>1 DEF Taking
<1>6. 0 .. n \subseteq ok
    <2> HIDE DEF ok, n
    <2> QED BY <1>1, <1>4, <1>5, OfLoops!UpTo
<1>7. n \in 0 .. n /\ n + 1 \in 1 .. n + 1 /\ (n + 1) - 1 = n
    BY <1>1
<1>8. g[n] = f[n]
    BY <1>6, <1>7
<1>9. g[n + 1] = IF x \in S THEN Append(g[n], x) ELSE g[n]
    <2> HIDE DEF n
    <2> QED BY <1>1, <1>3, <1>7 DEF Taking
<1> QED BY <1>2, <1>3, <1>8, <1>9 DEF s2

LEMMA ThoseOfConcat ==
    ASSUME NEW s, IsSeq(s), NEW q, IsSeq(q), NEW S
    PROVE  Those(s \o q, S) = Those(s, S) \o Those(q, S)
<1> DEFINE T == SomeOf(q)
           good == {u \in Seq(T) : Those(s \o u, S) = Those(s, S) \o Those(u, S)}
<1>0. IsSeq(Those(s, S))
    BY ThoseAre
<1>1. << >> \in good
    <2>1. Those(s, S) \o << >> = Those(s, S) /\ s \o << >> = s
        BY <1>0, ConcatOf
    <2>2. << >> \in Seq(T)
        OBVIOUS
    <2> HIDE DEF T
    <2> QED BY <2>1, <2>2, ThoseOfNone
<1>2. ASSUME NEW u \in Seq(T), NEW x \in T, u \in good PROVE Append(u, x) \in good
    <2>1. IsSeq(u) /\ IsSeq(s \o u) /\ IsSeq(Those(u, S))
        BY SeqIs, ConcatIs, ThoseAre
    <2>2. s \o Append(u, x) = Append(s \o u, x)
        BY <2>1, ConcatOf
    <2>3. Those(s, S) \o Append(Those(u, S), x) = Append(Those(s, S) \o Those(u, S), x)
        <3> DEFINE p == Those(s, S)
                   r == Those(u, S)
        <3>1. IsSeq(p) /\ IsSeq(r)
            BY <1>0, <2>1
        <3> HIDE DEF p, r
        <3>2. p \o Append(r, x) = Append(p \o r, x)
            BY <3>1, ConcatOf
        <3> QED BY <3>2 DEF p, r
    <2>4. Those(Append(u, x), S) = IF x \in S THEN Append(Those(u, S), x) ELSE Those(u, S)
        BY <2>1, ThoseOfAppend
    <2>5. Those(Append(s \o u, x), S)
              = IF x \in S THEN Append(Those(s \o u, S), x) ELSE Those(s \o u, S)
        BY <2>1, ThoseOfAppend
    <2>6. Append(u, x) \in Seq(T)
        BY AppendProperties
    <2> QED BY <1>2, <2>2, <2>3, <2>4, <2>5, <2>6
<1>3. q \in Seq(T)
    BY DEF IsSeq
<1>4. Seq(T) \subseteq good
    <2> HIDE DEF good, T
    <2> QED BY <1>1, <1>2, SeqInduct
<1> QED BY <1>3, <1>4

LEMMA ThoseOfOne ==
    ASSUME NEW x, NEW S PROVE Those(<<x>>, S) = IF x \in S THEN <<x>> ELSE << >>
<1>1. Append(<< >>, x) = <<x>>
    OBVIOUS
<1>2. Those(Append(<< >>, x), S)
          = IF x \in S THEN Append(Those(<< >>, S), x) ELSE Those(<< >>, S)
    BY EmptyIs, ThoseOfAppend
<1> QED BY <1>1, <1>2, ThoseOfNone

\* Which of s: that is all that Those depends on.
LEMMA ThoseAlike ==
    ASSUME NEW s, IsSeq(s), NEW S, NEW R, SomeOf(s) \cap S = SomeOf(s) \cap R
    PROVE  Those(s, S) = Those(s, R)
<1> DEFINE T == SomeOf(s)
           good == {u \in Seq(T) : Those(u, S) = Those(u, R)}
<1>1. << >> \in good
    BY ThoseOfNone
<1>2. ASSUME NEW u \in Seq(T), NEW x \in T, u \in good PROVE Append(u, x) \in good
    <2>1. IsSeq(u) /\ Append(u, x) \in Seq(T) /\ (x \in S <=> x \in R)
        BY SeqIs, AppendProperties
    <2>2. /\ Those(Append(u, x), S) = IF x \in S THEN Append(Those(u, S), x) ELSE Those(u, S)
          /\ Those(Append(u, x), R) = IF x \in R THEN Append(Those(u, R), x) ELSE Those(u, R)
        BY <2>1, ThoseOfAppend
    <2> QED BY <1>2, <2>1, <2>2
<1>3. s \in Seq(T)
    BY DEF IsSeq
<1>4. Seq(T) \subseteq good
    <2> HIDE DEF good, T
    <2> QED BY <1>1, <1>2, SeqInduct
<1> QED BY <1>3, <1>4

\* All of those, and no others.
LEMMA ThoseExactly ==
    ASSUME NEW s, IsSeq(s), NEW S
    PROVE  SomeOf(Those(s, S)) = SomeOf(s) \cap S
<1> DEFINE T == SomeOf(s)
           good == {u \in Seq(T) : SomeOf(Those(u, S)) = SomeOf(u) \cap S}
<1>1. << >> \in good
    BY ThoseOfNone, EmptyIs
<1>2. ASSUME NEW u \in Seq(T), NEW x \in T, u \in good PROVE Append(u, x) \in good
    <2>1. IsSeq(u) /\ Append(u, x) \in Seq(T) /\ IsSeq(Those(u, S))
        BY SeqIs, AppendProperties, ThoseAre
    <2>2. /\ SomeOf(Append(u, x)) = SomeOf(u) \cup {x}
          /\ SomeOf(Append(Those(u, S), x)) = SomeOf(Those(u, S)) \cup {x}
        BY <2>1, AppendIs
    <2>3. Those(Append(u, x), S) = IF x \in S THEN Append(Those(u, S), x) ELSE Those(u, S)
        BY <2>1, ThoseOfAppend
    <2> QED BY <1>2, <2>1, <2>2, <2>3
<1>3. s \in Seq(T)
    BY DEF IsSeq
<1>4. Seq(T) \subseteq good
    <2> HIDE DEF good, T
    <2> QED BY <1>1, <1>2, SeqInduct
<1> QED BY <1>3, <1>4

LEMMA ThoseNone ==
    ASSUME NEW s, IsSeq(s), NEW S
    PROVE  Those(s, S) = << >> <=> SomeOf(s) \cap S = {}
BY ThoseAre, ThoseExactly, EmptySeqIs

-----------------------------------------------------------------------------
(* FlattenSeq and Reverse                                                  *)

SeqOfSeqs(s) == IsSeq(s) /\ \A q \in SomeOf(s) : IsSeq(q)

LEMMA FlattenOfAppend ==
    ASSUME NEW s, SeqOfSeqs(s), NEW x, IsSeq(x)
    PROVE  SeqOfSeqs(Append(s, x)) /\ FlattenSeq(Append(s, x)) = FlattenSeq(s) \o x
<1> DEFINE n == Len(s)
           s2 == Append(s, x)
<1>0. n \in Nat /\ IsSeq(s)
    BY SeqIs DEF IsSeq, SeqOfSeqs
<1>1. /\ IsSeq(s2) /\ Len(s2) = n + 1 /\ SomeOf(s2) = SomeOf(s) \cup {x}
      /\ s2[n + 1] = x /\ \A i \in 1 .. n : s2[i] = s[i]
    BY <1>0, AppendIs, ZenonT(30)
<1>2. SeqOfSeqs(s2)
    <2> HIDE DEF s2
    <2> QED BY <1>1 DEF SeqOfSeqs
<1> HIDE DEF s2
<1>3. PICK f : Joining(f, s) /\ FlattenSeq(s) = f[n]
    BY FlattenRun DEF SeqOfSeqs
<1>4. PICK g : Joining(g, s2) /\ FlattenSeq(s2) = g[n + 1]
    BY <1>1, <1>2, FlattenRun DEF SeqOfSeqs
<1> DEFINE ok == {i \in 0 .. n : g[i] = f[i]}
<1>5. 0 \in ok
    BY <1>0, <1>3, <1>4 DEF Joining
<1>6. ASSUME NEW i \in 1 .. n, i - 1 \in ok PROVE i \in ok
    <2>1. i \in 1 .. n + 1 /\ i \in 0 .. n /\ s2[i] = s[i]
        BY <1>0, <1>1
    <2> QED BY <1>1, <1>3, <1>4, <1>6, <2>1 DEF Joining
<1>7. 0 .. n \subseteq ok
    <2> HIDE DEF ok, n
    <2> QED BY <1>0, <1>5, <1>6, OfLoops!UpTo
<1>8. n \in 0 .. n /\ n + 1 \in 1 .. n + 1 /\ (n + 1) - 1 = n
    BY <1>0
<1>9. g[n] = f[n]
    BY <1>7, <1>8
<1>10. g[n + 1] = g[n] \o x
    <2> HIDE DEF n
    <2> QED BY <1>1, <1>4, <1>8 DEF Joining
<1> QED BY <1>2, <1>3, <1>4, <1>9, <1>10 DEF s2

LEMMA FlattenOfNone == FlattenSeq(<< >>) = << >> /\ SeqOfSeqs(<< >>)
<1>1. SeqOfSeqs(<< >>) /\ Len(<< >>) = 0
    BY EmptyIs DEF SeqOfSeqs
<1> QED BY <1>1 DEF FlattenSeq

\* An empty first part adds nothing.
LEMMA FlattenOfFirst ==
    ASSUME NEW s, SeqOfSeqs(s)
    PROVE  FlattenSeq(<< << >> >> \o s) = FlattenSeq(s) /\ SeqOfSeqs(<< << >> >> \o s)
<1> DEFINE T == SomeOf(s)
           e == << << >> >>
           good == {u \in Seq(T) : FlattenSeq(e \o u) = FlattenSeq(u) /\ SeqOfSeqs(e \o u)}
<1>1. SeqOfSeqs(e) /\ FlattenSeq(e) = << >>
    <2>1. Append(<< >>, << >>) = e
        OBVIOUS
    <2>2. /\ SeqOfSeqs(Append(<< >>, << >>))
          /\ FlattenSeq(Append(<< >>, << >>)) = FlattenSeq(<< >>) \o << >>
        BY EmptyIs, FlattenOfNone, FlattenOfAppend
    <2>3. << >> \o << >> = << >>
        BY EmptyIs, ConcatOf
    <2> QED BY <2>1, <2>2, <2>3, FlattenOfNone
<1> HIDE DEF e
<1>2. << >> \in good
    <2>1. e \o << >> = e
        BY <1>1, ConcatOf DEF SeqOfSeqs
    <2>2. << >> \in Seq(T)
        OBVIOUS
    <2> QED BY <1>1, <2>1, <2>2, FlattenOfNone
<1>3. ASSUME NEW u \in Seq(T), NEW x \in T, u \in good PROVE Append(u, x) \in good
    <2>1. IsSeq(u) /\ SomeOf(u) \subseteq T /\ Append(u, x) \in Seq(T)
        BY SeqIs, AppendProperties
    <2>2. SeqOfSeqs(u) /\ IsSeq(x)
        BY <2>1 DEF SeqOfSeqs
    <2>3. e \o Append(u, x) = Append(e \o u, x)
        BY <1>1, <2>1, ConcatOf DEF SeqOfSeqs
    <2>4. /\ SeqOfSeqs(Append(e \o u, x))
          /\ FlattenSeq(Append(e \o u, x)) = FlattenSeq(e \o u) \o x
        BY <1>3, <2>2, FlattenOfAppend
    <2>5. FlattenSeq(Append(u, x)) = FlattenSeq(u) \o x
        BY <2>2, FlattenOfAppend
    <2> QED BY <1>3, <2>1, <2>3, <2>4, <2>5
<1>4. Seq(T) \subseteq good
    <2> HIDE DEF good, T
    <2> QED BY <1>2, <1>3, SeqInduct
<1>5. s \in Seq(T)
    BY DEF SeqOfSeqs, IsSeq
<1> QED BY <1>4, <1>5 DEF e

LEMMA ReverseIs ==
    ASSUME NEW s, IsSeq(s)
    PROVE  /\ IsSeq(Reverse(s)) /\ Len(Reverse(s)) = Len(s) /\ SomeOf(Reverse(s)) = SomeOf(s)
           /\ \A i \in 1 .. Len(s) : Reverse(s)[i] = s[(Len(s) - i) + 1]
<1> DEFINE n == Len(s)
           r == Reverse(s)
<1>1. n \in Nat /\ DOMAIN s = 1 .. n
    BY SeqIs DEF IsSeq
<1>2. r = [i \in 1 .. n |-> r[i]] /\ \A i \in 1 .. n : r[i] = s[(n - i) + 1]
    BY DEF Reverse
<1>3. IsSeq(r) /\ Len(r) = n /\ SomeOf(r) = {r[i] : i \in 1 .. n}
    <2> HIDE DEF r, n
    <2> QED BY <1>1, <1>2, MapIs
<1> HIDE DEF r
<1>4. SomeOf(r) \subseteq SomeOf(s)
    <2> SUFFICES ASSUME NEW i \in 1 .. n PROVE r[i] \in SomeOf(s)
        BY <1>3
    <2>1. (n - i) + 1 \in 1 .. n
        BY <1>1
    <2> QED BY <1>1, <1>2, <2>1 DEF SomeOf
<1>5. SomeOf(s) \subseteq SomeOf(r)
    <2> SUFFICES ASSUME NEW i \in 1 .. n PROVE s[i] \in SomeOf(r)
        BY <1>1 DEF SomeOf
    <2>1. (n - i) + 1 \in 1 .. n /\ (n - ((n - i) + 1)) + 1 = i
        BY <1>1
    <2>2. r[(n - i) + 1] = s[i]
        BY <1>2, <2>1
    <2> QED BY <1>3, <2>1, <2>2
<1> QED BY <1>2, <1>3, <1>4, <1>5 DEF r

LEMMA ReverseOfFirst ==
    ASSUME NEW s, IsSeq(s), NEW p
    PROVE  Reverse(<<p>> \o s) = Append(Reverse(s), p)
<1> DEFINE n == Len(s)
           S == SomeOf(s) \cup {p}
           q == <<p>> \o s
           left == Reverse(q)
           right == Append(Reverse(s), p)
<1>0. n \in Nat
    BY SeqIs DEF IsSeq
<1>1. /\ IsSeq(q) /\ Len(q) = n + 1 /\ SomeOf(q) = S
      /\ q[1] = p /\ \A i \in 1 .. n : q[i + 1] = s[i]
    <2>1. IsSeq(q) /\ SomeOf(q) = S
        BY OneIs, ConcatIs
    <2>2. <<p>> \in Seq(S) /\ s \in Seq(S) /\ Len(<<p>>) = 1
        BY Widen, OneIs
    <2>3. Len(q) = 1 + n /\ \A i \in 1 .. 1 + n : q[i] = IF i <= 1 THEN <<p>>[i] ELSE s[i - 1]
        <3> HIDE DEF S
        <3> QED BY <2>2, ConcatProperties
    <2>4. \A i \in 1 .. n : i + 1 \in 1 .. 1 + n /\ ~(i + 1 <= 1) /\ (i + 1) - 1 = i
        BY <1>0
    <2>5. 1 \in 1 .. 1 + n /\ 1 + n = n + 1 /\ 1 <= 1 /\ <<p>>[1] = p
        BY <1>0
    <2> HIDE DEF q, n, S
    <2> QED BY <2>1, <2>3, <2>4, <2>5
<1> HIDE DEF q
<1>2. /\ IsSeq(left) /\ Len(left) = n + 1 /\ SomeOf(left) = S
      /\ \A i \in 1 .. n + 1 : left[i] = q[((n + 1) - i) + 1]
    <2> HIDE DEF n, S
    <2> QED BY <1>1, ReverseIs
<1>3. /\ IsSeq(Reverse(s)) /\ Len(Reverse(s)) = n /\ SomeOf(Reverse(s)) = SomeOf(s)
      /\ \A i \in 1 .. n : Reverse(s)[i] = s[(n - i) + 1]
    BY ReverseIs
<1>4. /\ IsSeq(right) /\ Len(right) = n + 1 /\ SomeOf(right) = S /\ right[n + 1] = p
      /\ \A i \in 1 .. n : right[i] = Reverse(s)[i]
    <2> DEFINE r == Reverse(s)
    <2>1. IsSeq(r) /\ Len(r) = n /\ SomeOf(r) = SomeOf(s)
        BY <1>3
    <2> HIDE DEF r, n
    <2>2. /\ IsSeq(Append(r, p)) /\ Len(Append(r, p)) = Len(r) + 1
          /\ SomeOf(Append(r, p)) = SomeOf(r) \cup {p} /\ Append(r, p)[Len(r) + 1] = p
          /\ \A i \in 1 .. Len(r) : Append(r, p)[i] = r[i]
        BY <2>1, AppendIs, ZenonT(30)
    <2> QED BY <2>1, <2>2 DEF r
<1>5. left \in Seq(S) /\ right \in Seq(S)
    BY <1>2, <1>4 DEF IsSeq
<1> HIDE DEF left, right
<1>6. ASSUME NEW i \in 1 .. n + 1 PROVE left[i] = right[i]
    <2>1. CASE i = n + 1
        <3>1. ((n + 1) - i) + 1 = 1
            BY <1>0, <2>1
        <3> QED BY <1>1, <1>2, <1>4, <2>1, <3>1
    <2>2. CASE i # n + 1
        <3>1. i \in 1 .. n /\ (n - i) + 1 \in 1 .. n /\ ((n + 1) - i) + 1 = ((n - i) + 1) + 1
            BY <1>0, <2>2
        <3>2. q[((n - i) + 1) + 1] = s[(n - i) + 1]
            BY <1>1, <3>1
        <3> QED BY <1>2, <1>3, <1>4, <3>1, <3>2
    <2> QED BY <2>1, <2>2
<1>7. left = right
    <2> HIDE DEF n, S
    <2> QED BY <1>2, <1>4, <1>5, <1>6, SeqEqual
<1> QED BY <1>7 DEF left, right, q

-----------------------------------------------------------------------------
(* Trees                                                                   *)

\* A number is good if all those before it are.
LEMMA FromBelow ==
    ASSUME NEW n \in Nat, NEW good,
           \A c \in 1 .. n : 1 .. c - 1 \subseteq good => c \in good
    PROVE  1 .. n \subseteq good
<1> DEFINE ok == {i \in 0 .. n : 1 .. i \subseteq good}
<1>1. 0 \in ok
    OBVIOUS
<1>2. ASSUME NEW i \in 1 .. n, i - 1 \in ok PROVE i \in ok
    <2>1. 1 .. i - 1 \subseteq good /\ i \in 0 .. n
        BY <1>2
    <2>2. \A j \in 1 .. i : j = i \/ j \in 1 .. i - 1
        OBVIOUS
    <2> QED BY <2>1, <2>2
<1>3. 0 .. n \subseteq ok
    <2> HIDE DEF ok
    <2> QED BY <1>1, <1>2, OfLoops!UpTo
<1>4. n \in 0 .. n
    OBVIOUS
<1> QED BY <1>3, <1>4

Above(t, n) == SomeOf(Ancestors(t, n))
\* A node and all that is below it.
Under(t, n) == {n} \cup Below(t, n)

LEMMA NodesAre ==
    ASSUME NEW t, IsTree(t)
    PROVE  /\ Len(t) \in Nat /\ DOMAIN t = 1 .. Len(t) /\ SomeOf(Positions(t)) = DOMAIN t
           /\ \A c \in DOMAIN t :
                  /\ IsSeq(Ancestors(t, c)) /\ t[c].text \in Seq(STRING) /\ t[c].kind \in STRING
                  /\ Ancestors(t, c) # << >> =>
                         /\ Up(t, c) \in 1 .. c - 1 /\ Up(t, c) \in DOMAIN t
                         /\ Head(Ancestors(t, c)) = Up(t, c) /\ t[Up(t, c)].kind \notin Tokens
                         /\ Ancestors(t, c) = <<Up(t, c)>> \o Ancestors(t, Up(t, c))
                         /\ Above(t, c) = {Up(t, c)} \cup Above(t, Up(t, c))
<1> DEFINE R == [kind : STRING, field : STRING, text : Seq(STRING), above : Seq(Nat)]
<1>1. t \in Seq(R)
    BY DEF IsTree
<1>2. Len(t) \in Nat /\ DOMAIN t = 1 .. Len(t) /\ \A c \in DOMAIN t : t[c] \in R
    <2> HIDE DEF R
    <2> QED BY <1>1, LenProperties, ElementOfSeq
<1>3. \A c \in DOMAIN t : /\ t[c].above \in Seq(Nat)
                          /\ t[c].text \in Seq(STRING) /\ t[c].kind \in STRING
    BY <1>2
<1>4. SomeOf(Positions(t)) = DOMAIN t
    BY <1>2 DEF Positions, SomeOf
<1> HIDE DEF R
<1>5. ASSUME NEW c \in DOMAIN t
      PROVE  /\ IsSeq(Ancestors(t, c))
             /\ Ancestors(t, c) # << >> =>
                  /\ Up(t, c) \in 1 .. c - 1 /\ Up(t, c) \in DOMAIN t
                  /\ Head(Ancestors(t, c)) = Up(t, c) /\ t[Up(t, c)].kind \notin Tokens
                  /\ Ancestors(t, c) = <<Up(t, c)>> \o Ancestors(t, Up(t, c))
                  /\ Above(t, c) = {Up(t, c)} \cup Above(t, Up(t, c))
    <2>1. IsSeq(Ancestors(t, c))
        BY <1>3, SeqIs DEF Ancestors
    <2>2. ASSUME Ancestors(t, c) # << >>
          PROVE  /\ Up(t, c) \in 1 .. c - 1 /\ Up(t, c) \in DOMAIN t
                 /\ Head(Ancestors(t, c)) = Up(t, c) /\ t[Up(t, c)].kind \notin Tokens
                 /\ Ancestors(t, c) = <<Up(t, c)>> \o Ancestors(t, Up(t, c))
                 /\ Above(t, c) = {Up(t, c)} \cup Above(t, Up(t, c))
        <3>1. /\ Up(t, c) \in 1 .. c - 1 /\ t[Up(t, c)].kind \notin Tokens
              /\ Ancestors(t, c) = <<Up(t, c)>> \o Ancestors(t, Up(t, c))
            BY <2>2 DEF IsTree
        <3>2. Up(t, c) \in DOMAIN t
            BY <1>2, <3>1
        <3>3. Head(Ancestors(t, c)) = Up(t, c)
            BY <2>2 DEF Up, FirstOf
        <3>4. IsSeq(Ancestors(t, Up(t, c)))
            BY <1>3, <3>2, SeqIs DEF Ancestors
        <3>5. Above(t, c) = {Up(t, c)} \cup Above(t, Up(t, c))
            BY <3>1, <3>4, OneIs, ConcatIs DEF Above
        <3> QED BY <3>1, <3>2, <3>3, <3>5
    <2> QED BY <2>1, <2>2
<1> QED BY <1>2, <1>3, <1>4, <1>5

LEMMA NoneAbove ==
    ASSUME NEW t, NEW n, Ancestors(t, n) = << >> PROVE Above(t, n) = {}
BY EmptyIs DEF Above

LEMMA AncestorsBefore ==
    ASSUME NEW t, IsTree(t), NEW c \in DOMAIN t
    PROVE  Above(t, c) \subseteq 1 .. c - 1 /\ Above(t, c) \subseteq DOMAIN t
<1> DEFINE good == {b \in DOMAIN t : Above(t, b) \subseteq 1 .. b - 1}
<1>1. Len(t) \in Nat /\ DOMAIN t = 1 .. Len(t)
    BY NodesAre
<1>2. ASSUME NEW b \in 1 .. Len(t), 1 .. b - 1 \subseteq good PROVE b \in good
    <2>1. CASE Ancestors(t, b) = << >>
        BY <1>1, <2>1, NoneAbove
    <2>2. CASE Ancestors(t, b) # << >>
        <3>1. Up(t, b) \in 1 .. b - 1 /\ Above(t, b) = {Up(t, b)} \cup Above(t, Up(t, b))
            BY <1>1, <2>2, NodesAre
        <3>2. Above(t, Up(t, b)) \subseteq 1 .. Up(t, b) - 1
            BY <1>2, <3>1
        <3>3. 1 .. Up(t, b) - 1 \subseteq 1 .. b - 1
            BY <1>1, <3>1
        <3> QED BY <1>1, <3>1, <3>2, <3>3
    <2> QED BY <2>1, <2>2
<1>3. 1 .. Len(t) \subseteq good
    <2> HIDE DEF good
    <2> QED BY <1>1, <1>2, FromBelow
<1>4. 1 .. c - 1 \subseteq DOMAIN t
    BY <1>1
<1> QED BY <1>1, <1>3, <1>4

LEMMA AncestorsOfAncestors ==
    ASSUME NEW t, IsTree(t), NEW c \in DOMAIN t, NEW a \in Above(t, c)
    PROVE  Above(t, a) \subseteq Above(t, c)
<1> DEFINE good == {b \in DOMAIN t : \A x \in Above(t, b) : Above(t, x) \subseteq Above(t, b)}
<1>1. Len(t) \in Nat /\ DOMAIN t = 1 .. Len(t)
    BY NodesAre
<1>2. ASSUME NEW b \in 1 .. Len(t), 1 .. b - 1 \subseteq good PROVE b \in good
    <2>1. CASE Ancestors(t, b) = << >>
        BY <1>1, <2>1, NoneAbove
    <2>2. CASE Ancestors(t, b) # << >>
        <3>1. Up(t, b) \in 1 .. b - 1 /\ Above(t, b) = {Up(t, b)} \cup Above(t, Up(t, b))
            BY <1>1, <2>2, NodesAre
        <3>2. \A x \in Above(t, Up(t, b)) : Above(t, x) \subseteq Above(t, Up(t, b))
            BY <1>2, <3>1
        <3> QED BY <1>1, <3>1, <3>2
    <2> QED BY <2>1, <2>2
<1>3. 1 .. Len(t) \subseteq good
    <2> HIDE DEF good
    <2> QED BY <1>1, <1>2, FromBelow
<1> QED BY <1>1, <1>3

\* Two ancestors of a node are one above the other.
LEMMA AncestorsInLine ==
    ASSUME NEW t, IsTree(t), NEW c \in DOMAIN t, NEW x \in Above(t, c), NEW y \in Above(t, c)
    PROVE  x = y \/ x \in Above(t, y) \/ y \in Above(t, x)
<1> DEFINE line(b) == \A u, v \in Above(t, b) : u = v \/ u \in Above(t, v) \/ v \in Above(t, u)
           good == {b \in DOMAIN t : line(b)}
<1>1. Len(t) \in Nat /\ DOMAIN t = 1 .. Len(t)
    BY NodesAre
<1>2. ASSUME NEW b \in 1 .. Len(t), 1 .. b - 1 \subseteq good PROVE b \in good
    <2>1. CASE Ancestors(t, b) = << >>
        BY <1>1, <2>1, NoneAbove
    <2>2. CASE Ancestors(t, b) # << >>
        <3>1. Up(t, b) \in 1 .. b - 1 /\ Above(t, b) = {Up(t, b)} \cup Above(t, Up(t, b))
            BY <1>1, <2>2, NodesAre
        <3>2. line(Up(t, b))
            BY <1>2, <3>1
        <3> QED BY <1>1, <3>1, <3>2
    <2> QED BY <2>1, <2>2
<1>3. 1 .. Len(t) \subseteq good
    <2> HIDE DEF good
    <2> QED BY <1>1, <1>2, FromBelow
<1>4. line(c)
    BY <1>1, <1>3
<1> QED BY <1>4

LEMMA BelowIs ==
    ASSUME NEW t, IsTree(t), NEW n
    PROVE  /\ Below(t, n) = {m \in DOMAIN t : n \in Above(t, m)}
           /\ \A m \in Below(t, n) : m \in DOMAIN t /\ n \in DOMAIN t /\ n < m
           /\ \A m \in Under(t, n) : m = n \/ (m \in DOMAIN t /\ n \in Above(t, m))
<1>1. Below(t, n) = {m \in DOMAIN t : n \in Above(t, m)}
    BY NodesAre DEF Below, Above, Ancestors
<1>2. ASSUME NEW m \in Below(t, n) PROVE m \in DOMAIN t /\ n \in DOMAIN t /\ n < m
    <2>1. m \in DOMAIN t /\ n \in Above(t, m)
        BY <1>1
    <2>2. n \in 1 .. m - 1 /\ n \in DOMAIN t /\ m \in Nat
        BY <2>1, AncestorsBefore, NodesAre
    <2> QED BY <2>1, <2>2
<1> QED BY <1>1, <1>2 DEF Under

LEMMA UnderUnder ==
    ASSUME NEW t, IsTree(t), NEW n, NEW m \in Under(t, n)
    PROVE  Under(t, m) \subseteq Under(t, n) /\ Below(t, m) \subseteq Below(t, n)
<1> SUFFICES ASSUME m # n, NEW d \in Below(t, m) PROVE d \in Below(t, n)
    BY DEF Under
<1>1. d \in DOMAIN t /\ m \in Above(t, d) /\ n \in Above(t, m)
    BY BelowIs
<1>2. n \in Above(t, d)
    BY <1>1, AncestorsOfAncestors
<1> QED BY <1>1, <1>2, BelowIs

LEMMA InsideIs ==
    ASSUME NEW t, IsTree(t), NEW n, NEW k \in Inside(t, n)
    PROVE  /\ k \in DOMAIN t /\ n \in DOMAIN t /\ Up(t, k) = n /\ k \in Below(t, n)
           /\ Under(t, k) \subseteq Below(t, n) /\ n \notin Under(t, k)
           /\ t[n].kind \notin Tokens
           /\ Ancestors(t, k) = <<n>> \o Ancestors(t, n) /\ Above(t, k) = {n} \cup Above(t, n)
<1>1. /\ k \in DOMAIN t /\ Up(t, k) = n /\ n \in DOMAIN t /\ t[n].kind \notin Tokens
      /\ Ancestors(t, k) = <<n>> \o Ancestors(t, n) /\ Above(t, k) = {n} \cup Above(t, n)
    <2>1. k \in DOMAIN t /\ Ancestors(t, k) # << >> /\ Head(Ancestors(t, k)) = n
        BY DEF Inside
    <2>2. n = Up(t, k)
        BY <2>1, NodesAre
    <2> QED BY <2>1, <2>2, NodesAre
<1>2. k \in Below(t, n)
    BY <1>1, BelowIs
<1>3. Under(t, k) \subseteq Below(t, n)
    BY <1>2, UnderUnder DEF Under
<1>4. n \notin Below(t, n)
    <2>1. n \in Nat /\ ~(n < n)
        BY <1>1, NodesAre
    <2> QED BY <2>1, BelowIs
<1> QED BY <1>1, <1>2, <1>3, <1>4

\* What is below a node is under one of its children.
LEMMA BelowAChild ==
    ASSUME NEW t, IsTree(t), NEW n, NEW c \in Below(t, n)
    PROVE  \E k \in Inside(t, n) : c \in Under(t, k)
<1> DEFINE good == {b \in DOMAIN t : n \in Above(t, b) => \E k \in Inside(t, n) : b \in Under(t, k)}
<1>1. Len(t) \in Nat /\ DOMAIN t = 1 .. Len(t)
    BY NodesAre
<1>2. ASSUME NEW b \in 1 .. Len(t), 1 .. b - 1 \subseteq good PROVE b \in good
    <2> SUFFICES ASSUME n \in Above(t, b) PROVE \E k \in Inside(t, n) : b \in Under(t, k)
        BY <1>1
    <2>1. Ancestors(t, b) # << >>
        BY NoneAbove
    <2>2. /\ Up(t, b) \in 1 .. b - 1 /\ Above(t, b) = {Up(t, b)} \cup Above(t, Up(t, b))
          /\ Head(Ancestors(t, b)) = Up(t, b)
        BY <1>1, <2>1, NodesAre
    <2>3. CASE Up(t, b) = n
        <3>1. b \in Inside(t, n)
            BY <1>1, <2>1, <2>2, <2>3 DEF Inside
        <3> QED BY <3>1 DEF Under
    <2>4. CASE Up(t, b) # n
        <3>1. PICK k \in Inside(t, n) : Up(t, b) \in Under(t, k)
            BY <1>2, <2>2, <2>4
        <3>2. b \in Below(t, Up(t, b))
            BY <1>1, <2>2, BelowIs
        <3>3. b \in Under(t, k)
            BY <3>1, <3>2, UnderUnder DEF Under
        <3> QED BY <3>3
    <2> QED BY <2>3, <2>4
<1>3. 1 .. Len(t) \subseteq good
    <2> HIDE DEF good
    <2> QED BY <1>1, <1>2, FromBelow
<1>4. c \in DOMAIN t /\ n \in Above(t, c)
    BY BelowIs
<1> QED BY <1>1, <1>3, <1>4

LEMMA SiblingsApart ==
    ASSUME NEW t, IsTree(t), NEW n, NEW j \in Inside(t, n), NEW k \in Inside(t, n), j # k
    PROVE  Under(t, j) \cap Under(t, k) = {}
<1>0. \A a \in Inside(t, n), b \in Inside(t, n) : a \notin Above(t, b)
    <2> TAKE a \in Inside(t, n), b \in Inside(t, n)
    <2>1. Above(t, b) = {n} \cup Above(t, n) /\ n \in DOMAIN t /\ a \in Below(t, n)
        BY InsideIs
    <2>2. n < a /\ a \in Nat /\ n \in Nat /\ Above(t, n) \subseteq 1 .. n - 1
        BY <2>1, BelowIs, NodesAre, AncestorsBefore
    <2> QED BY <2>1, <2>2
<1> SUFFICES ASSUME NEW d \in Under(t, j), d \in Under(t, k) PROVE FALSE
    OBVIOUS
<1>1. (d = j \/ (d \in DOMAIN t /\ j \in Above(t, d))) /\ (d = k \/ (d \in DOMAIN t /\ k \in Above(t, d)))
    BY BelowIs
<1>2. CASE d = j
    BY <1>0, <1>1, <1>2
<1>3. CASE d = k
    BY <1>0, <1>1, <1>3
<1>4. CASE d # j /\ d # k
    <2>1. j \in Above(t, k) \/ k \in Above(t, j)
        BY <1>1, <1>4, AncestorsInLine
    <2> QED BY <1>0, <2>1
<1> QED BY <1>2, <1>3, <1>4

Distinct(s) == \A i, j \in DOMAIN s : s[i] = s[j] => i = j

LEMMA ThoseDistinct ==
    ASSUME NEW s, IsSeq(s), Distinct(s), NEW S PROVE Distinct(Those(s, S))
<1> DEFINE T == SomeOf(s)
           good == {u \in Seq(T) : Distinct(u) => Distinct(Those(u, S))}
<1>1. << >> \in good
    <2>1. Distinct(<< >>) /\ << >> \in Seq(T)
        BY DEF Distinct
    <2> QED BY <2>1, ThoseOfNone
<1>2. ASSUME NEW u, IsSeq(u), NEW x
      PROVE  Distinct(Append(u, x)) <=> Distinct(u) /\ x \notin SomeOf(u)
    <2> DEFINE n == Len(u)
               v == Append(u, x)
    <2>1. n \in Nat /\ DOMAIN u = 1 .. n
        BY <1>2, SeqIs DEF IsSeq
    <2>2. IsSeq(v) /\ Len(v) = n + 1 /\ v[n + 1] = x /\ \A i \in 1 .. n : v[i] = u[i]
        BY <1>2, <2>1, AppendIs, ZenonT(30)
    <2>3. DOMAIN v = 1 .. n + 1
        BY <2>2, SeqIs DEF IsSeq
    <2> HIDE DEF v, n
    <2>4. /\ \A i \in 1 .. n : i \in 1 .. n + 1 /\ i # n + 1
          /\ \A i \in 1 .. n + 1 : i = n + 1 \/ i \in 1 .. n
          /\ n + 1 \in 1 .. n + 1
        BY <2>1
    <2>5. Distinct(v) => Distinct(u) /\ x \notin SomeOf(u)
        BY <2>1, <2>2, <2>3, <2>4 DEF Distinct, SomeOf
    <2>6. Distinct(u) /\ x \notin SomeOf(u) => Distinct(v)
        BY <2>1, <2>2, <2>3, <2>4 DEF Distinct, SomeOf
    <2> QED BY <2>5, <2>6 DEF v
<1>3. ASSUME NEW u \in Seq(T), NEW x \in T, u \in good PROVE Append(u, x) \in good
    <2>1. IsSeq(u) /\ Append(u, x) \in Seq(T) /\ IsSeq(Those(u, S))
        BY SeqIs, AppendProperties, ThoseAre
    <2>2. SomeOf(Those(u, S)) \subseteq SomeOf(u)
        BY <2>1, ThoseAre
    <2>3. Those(Append(u, x), S) = IF x \in S THEN Append(Those(u, S), x) ELSE Those(u, S)
        BY <2>1, ThoseOfAppend
    <2>4. /\ Distinct(Append(u, x)) <=> Distinct(u) /\ x \notin SomeOf(u)
          /\ Distinct(Append(Those(u, S), x)) <=> Distinct(Those(u, S)) /\ x \notin SomeOf(Those(u, S))
        BY <1>2, <2>1
    <2> QED BY <1>3, <2>1, <2>2, <2>3, <2>4
<1>4. s \in Seq(T)
    BY DEF IsSeq
<1>5. Seq(T) \subseteq good
    <2> HIDE DEF good, T
    <2> QED BY <1>1, <1>3, SeqInduct
<1> QED BY <1>4, <1>5

LEMMA ChildrenOf ==
    ASSUME NEW t, IsTree(t), NEW n
    PROVE  /\ IsSeq(Children(t, n)) /\ Distinct(Children(t, n))
           /\ SomeOf(Children(t, n)) = NamedInside(t, n) /\ NamedInside(t, n) \subseteq Inside(t, n)
           /\ \A kinds : /\ IsSeq(OfKinds(t, Children(t, n), kinds))
                         /\ Distinct(OfKinds(t, Children(t, n), kinds))
                         /\ SomeOf(OfKinds(t, Children(t, n), kinds)) \subseteq NamedInside(t, n)
<1>1. IsSeq(Positions(t)) /\ SomeOf(Positions(t)) = DOMAIN t
    BY PositionsAre, NodesAre
<1>2. Distinct(Positions(t))
    BY NodesAre DEF Positions, Distinct
<1>3. NamedInside(t, n) \subseteq Inside(t, n) /\ Inside(t, n) \subseteq DOMAIN t
    BY DEF NamedInside, Inside
<1>4. /\ IsSeq(Children(t, n)) /\ Distinct(Children(t, n))
      /\ SomeOf(Children(t, n)) = NamedInside(t, n)
    BY <1>1, <1>2, <1>3, ThoseAre, ThoseDistinct, ThoseExactly DEF Children
<1> QED BY <1>3, <1>4, ThoseAre, ThoseDistinct DEF OfKinds

\* What a field or a kind picks, if anything, is a child.
LEMMA EarliestIs ==
    ASSUME NEW t, IsTree(t), NEW S, S \subseteq DOMAIN t
    PROVE  (Earliest(S) = NoNode /\ S = {}) \/ Earliest(S) \in S
<1>1. SUFFICES ASSUME S # {} PROVE Earliest(S) \in S
    BY DEF Earliest
<1>2. DOMAIN t \subseteq Nat
    BY NodesAre
<1> DEFINE good == {i \in DOMAIN t : i \notin S}
<1>3. \E n \in S : \A m \in S : n <= m
    <2> SUFFICES ASSUME \A n \in S : \E m \in S : ~(n <= m) PROVE FALSE
        OBVIOUS
    <2>1. Len(t) \in Nat /\ DOMAIN t = 1 .. Len(t)
        BY NodesAre
    <2>2. ASSUME NEW c \in 1 .. Len(t), 1 .. c - 1 \subseteq good PROVE c \in good
        <3> SUFFICES ASSUME c \in S PROVE FALSE
            BY <2>1
        <3>1. PICK m \in S : ~(c <= m)
            OBVIOUS
        <3>2. m \in 1 .. c - 1
            BY <2>1, <3>1
        <3> QED BY <2>2, <3>2
    <2>3. 1 .. Len(t) \subseteq good
        <3> HIDE DEF good
        <3> QED BY <2>1, <2>2, FromBelow
    <2> QED BY <1>1, <2>1, <2>3
<1> QED BY <1>1, <1>3 DEF Earliest

LEMMA PickedIs ==
    ASSUME NEW t, IsTree(t), NEW n
    PROVE  /\ \A f : Field(t, n, f) = NoNode \/ Field(t, n, f) \in Inside(t, n)
           /\ \A kinds : ChildOf(t, n, kinds) = NoNode \/ ChildOf(t, n, kinds) \in NamedInside(t, n)
<1>1. Inside(t, n) \subseteq DOMAIN t /\ NamedInside(t, n) \subseteq Inside(t, n)
    BY DEF Inside, NamedInside
<1>2. ASSUME NEW f PROVE Field(t, n, f) = NoNode \/ Field(t, n, f) \in Inside(t, n)
    <2> DEFINE S == {c \in Inside(t, n) : t[c].field = f}
    <2>1. S \subseteq DOMAIN t /\ S \subseteq Inside(t, n)
        BY <1>1
    <2> HIDE DEF S
    <2>2. Earliest(S) = NoNode \/ Earliest(S) \in S
        BY <2>1, EarliestIs
    <2> QED BY <2>1, <2>2 DEF Field, S
<1>3. ASSUME NEW kinds PROVE ChildOf(t, n, kinds) = NoNode \/ ChildOf(t, n, kinds) \in NamedInside(t, n)
    <2> DEFINE S == {c \in NamedInside(t, n) : t[c].kind \in kinds}
    <2>1. S \subseteq DOMAIN t /\ S \subseteq NamedInside(t, n)
        BY <1>1
    <2> HIDE DEF S
    <2>2. Earliest(S) = NoNode \/ Earliest(S) \in S
        BY <2>1, EarliestIs
    <2> QED BY <2>1, <2>2 DEF ChildOf, S
<1> QED BY <1>2, <1>3

-----------------------------------------------------------------------------
(* The scopes around a node                                                *)
\* Those of the definitions ns that open a scope, at a node, and around one.
Opening(ns)     == {r \in SomeOf(ns) : r.id.kind \in ScopeKinds}
Opened(ns, a)   == Those(Those(ns, {r \in SomeOf(ns) : r.id.at = a}), Opening(ns))
Openings(ns, s) == [i \in DOMAIN s |-> Opened(ns, s[i])]
HeaderIn(lang, ns) == Those(ns, {r \in SomeOf(ns) : lang = "kotlin" /\ r.id.kind = "namespace"})
AroundIn(t, lang, ns, n) ==
    HeaderIn(lang, ns) \o FlattenSeq(Openings(ns, Reverse(Ancestors(t, n))))
\* Those that the children of a node have around them.
AroundInside(t, lang, ns, n) == AroundIn(t, lang, ns, n) \o Opened(ns, n)
ScopeIn(t, lang, ns, n) ==
    LET around == AroundIn(t, lang, ns, n)
    IN  IF around = << >> THEN File ELSE Reverse(around)[1].id
\* What the stack holds for them.
Entry(r) == [id |-> r.id, name |-> r.name]
Entries(s) == FileScope \o [i \in DOMAIN s |-> Entry(s[i])]
Chain(t, lang, ns, n) == Entries(AroundIn(t, lang, ns, n))
\* With the scope that the definition r opens at n.
Deeper(st, r) == Append(st, Entry(r))
ChainBelow(t, lang, ns, n, r) == Entries(Append(AroundIn(t, lang, ns, n), r))
\* Nothing of ns opens a scope at a node.
Closed(ns, a) == \A r \in SomeOf(ns) : r.id.at = a => r.id.kind \notin ScopeKinds

LEMMA AndNone == ASSUME NEW s, IsSeq(s) PROVE s \o << >> = s /\ << >> \o s = s
BY ConcatOf, EmptyIs

LEMMA OpenedIs ==
    ASSUME NEW ns, IsSeq(ns), NEW a
    PROVE  /\ IsSeq(Opened(ns, a)) /\ SomeOf(Opened(ns, a)) \subseteq SomeOf(ns)
           /\ Closed(ns, a) => Opened(ns, a) = << >>
<1> DEFINE at == {r \in SomeOf(ns) : r.id.at = a}
<1>1. IsSeq(Those(ns, at)) /\ SomeOf(Those(ns, at)) \subseteq SomeOf(ns) \cap at
    BY ThoseAre
<1>2. Opened(ns, a) = Those(Those(ns, at), Opening(ns))
    BY DEF Opened
<1>3. Closed(ns, a) => SomeOf(Those(ns, at)) \cap Opening(ns) = {}
    BY <1>1 DEF Opening, Closed
<1> QED BY <1>1, <1>2, <1>3, ThoseAre, ThoseNone

LEMMA OpenedGrows ==
    ASSUME NEW ns, IsSeq(ns), NEW nr, IsSeq(nr), NEW a
    PROVE  Opened(ns \o nr, a) = Opened(ns, a) \o Opened(nr, a)
<1> DEFINE all == ns \o nr
           at(s) == {r \in SomeOf(s) : r.id.at = a}
<1>1. IsSeq(all) /\ SomeOf(all) = SomeOf(ns) \cup SomeOf(nr)
    BY ConcatIs
<1>2. /\ SomeOf(ns) \cap at(all) = SomeOf(ns) \cap at(ns)
      /\ SomeOf(nr) \cap at(all) = SomeOf(nr) \cap at(nr)
    BY <1>1
<1>3. Those(ns, at(all)) = Those(ns, at(ns)) /\ Those(nr, at(all)) = Those(nr, at(nr))
    <2> HIDE DEF at, all
    <2> QED BY <1>2, ThoseAlike
<1>4. /\ IsSeq(Those(ns, at(ns))) /\ SomeOf(Those(ns, at(ns))) \subseteq SomeOf(ns)
      /\ IsSeq(Those(nr, at(nr))) /\ SomeOf(Those(nr, at(nr))) \subseteq SomeOf(nr)
    BY ThoseAre
<1>5. /\ SomeOf(Those(ns, at(ns))) \cap Opening(all) = SomeOf(Those(ns, at(ns))) \cap Opening(ns)
      /\ SomeOf(Those(nr, at(nr))) \cap Opening(all) = SomeOf(Those(nr, at(nr))) \cap Opening(nr)
    <2> HIDE DEF at, all
    <2> QED BY <1>1, <1>4 DEF Opening
<1>6. /\ Those(Those(ns, at(ns)), Opening(all)) = Opened(ns, a)
      /\ Those(Those(nr, at(nr)), Opening(all)) = Opened(nr, a)
    <2>1. /\ Those(Those(ns, at(ns)), Opening(all)) = Those(Those(ns, at(ns)), Opening(ns))
          /\ Those(Those(nr, at(nr)), Opening(all)) = Those(Those(nr, at(nr)), Opening(nr))
        <3> HIDE DEF at, all
        <3> QED BY <1>4, <1>5, ThoseAlike
    <2> QED BY <2>1 DEF Opened
<1>7. Opened(all, a) = Those(Those(all, at(all)), Opening(all))
    BY DEF Opened
<1>8. Those(all, at(all)) = Those(ns, at(ns)) \o Those(nr, at(nr))
    <2>1. Those(all, at(all)) = Those(ns, at(all)) \o Those(nr, at(all))
        <3> HIDE DEF at
        <3> QED BY ThoseOfConcat
    <2> QED BY <2>1, <1>3
<1>9. Those(Those(ns, at(ns)) \o Those(nr, at(nr)), Opening(all))
          = Those(Those(ns, at(ns)), Opening(all)) \o Those(Those(nr, at(nr)), Opening(all))
    <2> DEFINE U == Those(ns, at(ns))
               V == Those(nr, at(nr))
               O == Opening(all)
    <2>1. IsSeq(U) /\ IsSeq(V)
        BY <1>4
    <2> HIDE DEF U, V, O
    <2>2. Those(U \o V, O) = Those(U, O) \o Those(V, O)
        BY <2>1, ThoseOfConcat
    <2> QED BY <2>2 DEF U, V, O
<1> HIDE DEF at
<1> QED BY <1>6, <1>7, <1>8, <1>9

LEMMA HeaderGrows ==
    ASSUME NEW lang, NEW ns, IsSeq(ns), NEW nr, IsSeq(nr)
    PROVE  /\ IsSeq(HeaderIn(lang, ns)) /\ SomeOf(HeaderIn(lang, ns)) \subseteq SomeOf(ns)
           /\ (\A r \in SomeOf(nr) : r.id.kind # "namespace")
                  => HeaderIn(lang, ns \o nr) = HeaderIn(lang, ns)
<1> DEFINE heads(s) == {r \in SomeOf(s) : lang = "kotlin" /\ r.id.kind = "namespace"}
<1>1. IsSeq(HeaderIn(lang, ns)) /\ SomeOf(HeaderIn(lang, ns)) \subseteq SomeOf(ns)
    BY ThoseAre DEF HeaderIn
<1>2. ASSUME \A r \in SomeOf(nr) : r.id.kind # "namespace"
      PROVE  HeaderIn(lang, ns \o nr) = HeaderIn(lang, ns)
    <2>1. SomeOf(ns \o nr) = SomeOf(ns) \cup SomeOf(nr)
        BY ConcatIs
    <2>2. /\ SomeOf(ns) \cap heads(ns \o nr) = SomeOf(ns) \cap heads(ns)
          /\ SomeOf(nr) \cap heads(ns \o nr) = {}
        BY <1>2, <2>1
    <2> DEFINE S == heads(ns \o nr)
               R == heads(ns)
    <2>3. HeaderIn(lang, ns \o nr) = Those(ns \o nr, S) /\ HeaderIn(lang, ns) = Those(ns, R)
        BY DEF HeaderIn
    <2>4. SomeOf(ns) \cap S = SomeOf(ns) \cap R /\ SomeOf(nr) \cap S = {}
        BY <2>2
    <2> HIDE DEF S, R
    <2>5. Those(ns \o nr, S) = Those(ns, S) \o Those(nr, S)
        BY ThoseOfConcat
    <2>6. Those(ns, S) = Those(ns, R) /\ Those(nr, S) = << >> /\ IsSeq(Those(ns, R))
        BY <2>4, ThoseAlike, ThoseNone, ThoseAre
    <2>7. Those(ns, R) \o << >> = Those(ns, R)
        BY <2>6, ConcatOf, EmptyIs
    <2> QED BY <2>3, <2>5, <2>6, <2>7
<1> QED BY <1>1, <1>2

LEMMA OpeningsAre ==
    ASSUME NEW ns, IsSeq(ns), NEW s, IsSeq(s)
    PROVE  /\ SeqOfSeqs(Openings(ns, s))
           /\ \A x : Openings(ns, Append(s, x)) = Append(Openings(ns, s), Opened(ns, x))
           /\ SomeOf(FlattenSeq(Openings(ns, s))) \subseteq SomeOf(ns)
<1>1. IsSeq(Openings(ns, s)) /\ SomeOf(Openings(ns, s)) = {Opened(ns, s[i]) : i \in DOMAIN s}
      /\ DOMAIN Openings(ns, s) = DOMAIN s
    <2> DEFINE f == Openings(ns, s)
    <2>1. f = [i \in DOMAIN s |-> f[i]]
        BY DEF Openings
    <2>2. SomeOf(f) = {f[i] : i \in DOMAIN s} /\ IsSeq(f) /\ DOMAIN f = DOMAIN s
        <3> HIDE DEF f
        <3> QED BY <2>1, MapOf
    <2>3. \A i \in DOMAIN s : f[i] = Opened(ns, s[i])
        BY DEF Openings
    <2> HIDE DEF f
    <2>4. SomeOf(f) = {Opened(ns, s[i]) : i \in DOMAIN s}
        BY <2>2, <2>3
    <2> QED BY <2>2, <2>4 DEF f
<1>2. SeqOfSeqs(Openings(ns, s))
    BY <1>1, OpenedIs DEF SeqOfSeqs
<1>3. ASSUME NEW x PROVE Openings(ns, Append(s, x)) = Append(Openings(ns, s), Opened(ns, x))
    <2> DEFINE f == Openings(ns, s)
               y == Opened(ns, x)
               l == Len(s)
    <2>0. l \in Nat /\ DOMAIN s = 1 .. l
        BY DEF IsSeq
    <2>1. /\ DOMAIN Append(s, x) = 1 .. (l + 1) /\ Append(s, x)[l + 1] = x
          /\ \A i \in 1 .. l : Append(s, x)[i] = s[i]
        BY AppendIs DEF IsSeq
    <2>2. IsSeq(f) /\ DOMAIN f = 1 .. l /\ Len(f) = l
        <3>1. IsSeq(f) /\ DOMAIN f = 1 .. l
            BY <1>1, <2>0
        <3> HIDE DEF f, l
        <3> QED BY <3>1, <2>0 DEF IsSeq
    <2>3. f = [i \in 1 .. l |-> Opened(ns, s[i])]
        BY <2>0 DEF Openings
    <2>4. Openings(ns, Append(s, x)) = [i \in 1 .. (l + 1) |-> Opened(ns, Append(s, x)[i])]
        BY <2>1 DEF Openings
    <2>5. Append(f, y) = [i \in 1 .. (l + 1) |-> IF i \in 1 .. l THEN f[i] ELSE y]
        <3> DEFINE S == SomeOf(f) \cup {y}
        <3>1. f \in Seq(S) /\ y \in S
            <4> HIDE DEF f, y
            <4> QED BY <2>2, Widen
        <3>2. Append(f, y) = [i \in 1 .. Len(f) + 1 |-> IF i \in 1 .. Len(f) THEN f[i] ELSE y]
            <4> HIDE DEF f, y, S
            <4>1. /\ Append(f, y) \in Seq(S) /\ Len(Append(f, y)) = Len(f) + 1
                  /\ DOMAIN Append(f, y) = 1 .. Len(Append(f, y)) 
                  /\ \A i \in 1 .. Len(f) + 1 : Append(f, y)[i] = IF i \in 1 .. Len(f) THEN f[i] ELSE y
                BY <3>1, AppendProperties, LenProperties
            <4>2. Append(f, y) \in [1 .. Len(f) + 1 -> S]
                BY <4>1, SeqIs
            <4>3. Append(f, y) = [i \in 1 .. Len(f) + 1 |-> Append(f, y)[i]]
                BY <4>2
            <4> QED BY <4>1, <4>3
        <3> HIDE DEF f, y, l, S
        <3> QED BY <3>2, <2>2
    <2>6. \A i \in 1 .. (l + 1) : IF i \in 1 .. l THEN Append(s, x)[i] = s[i] /\ f[i] = Opened(ns, s[i])
                                  ELSE Append(s, x)[i] = x
        <3>1. \A i \in 1 .. l : f[i] = Opened(ns, s[i])
            BY <2>3
        <3>2. \A i \in 1 .. (l + 1) : i \in 1 .. l \/ i = l + 1
            BY <2>0
        <3> HIDE DEF f, l
        <3> QED BY <2>1, <3>1, <3>2
    <2>7. \A i \in 1 .. (l + 1) : (IF i \in 1 .. l THEN f[i] ELSE y) = Opened(ns, Append(s, x)[i])
        <3> HIDE DEF f, l
        <3> QED BY <2>6
    <2> HIDE DEF f, l, y
    <2>8. Append(f, y) = [i \in 1 .. (l + 1) |-> Opened(ns, Append(s, x)[i])]
        BY <2>5, <2>7
    <2> QED BY <2>4, <2>8 DEF f, y
<1>4. SomeOf(FlattenSeq(Openings(ns, s))) \subseteq SomeOf(ns)
    <2>1. \A x \in SomeOf(FlattenSeq(Openings(ns, s))) :
             \E q \in SomeOf(Openings(ns, s)) : x \in SomeOf(q)
        BY <1>2, FlattenIs DEF SeqOfSeqs
    <2> QED BY <2>1, <1>1, OpenedIs
<1> QED BY <1>2, <1>3, <1>4

LEMMA AroundIs ==
    ASSUME NEW t, IsTree(t), NEW lang, NEW ns, IsSeq(ns), NEW n \in DOMAIN t
    PROVE  IsSeq(AroundIn(t, lang, ns, n)) /\ SomeOf(AroundIn(t, lang, ns, n)) \subseteq SomeOf(ns)
<1> DEFINE s == Reverse(Ancestors(t, n))
<1>1. IsSeq(s)
    BY NodesAre, ReverseIs
<1>2. SeqOfSeqs(Openings(ns, s)) /\ SomeOf(FlattenSeq(Openings(ns, s))) \subseteq SomeOf(ns)
    <2> HIDE DEF s
    <2> QED BY <1>1, OpeningsAre
<1>3. IsSeq(FlattenSeq(Openings(ns, s)))
    <2> HIDE DEF s
    <2> QED BY <1>2, FlattenIs DEF SeqOfSeqs
<1>4. IsSeq(HeaderIn(lang, ns)) /\ SomeOf(HeaderIn(lang, ns)) \subseteq SomeOf(ns)
    BY HeaderGrows
<1>5. AroundIn(t, lang, ns, n) = HeaderIn(lang, ns) \o FlattenSeq(Openings(ns, s))
    BY DEF AroundIn
<1> HIDE DEF s
<1> QED BY <1>2, <1>3, <1>4, <1>5, ConcatIs

\* The scopes around a child: those around its parent, and those that this one opens.
LEMMA AroundAChild ==
    ASSUME NEW t, IsTree(t), NEW lang, NEW ns, IsSeq(ns), NEW n, NEW k, k \in Inside(t, n)
    PROVE  AroundIn(t, lang, ns, k) = AroundInside(t, lang, ns, n)
<1> DEFINE s == Reverse(Ancestors(t, n))
           header == HeaderIn(lang, ns)
           o == Opened(ns, n)
           f == Openings(ns, s)
<1>1. n \in DOMAIN t /\ Ancestors(t, k) = <<n>> \o Ancestors(t, n) /\ IsSeq(Ancestors(t, n))
    BY InsideIs, NodesAre
<1>2. Reverse(Ancestors(t, k)) = Append(s, n) /\ IsSeq(s)
    BY <1>1, ReverseOfFirst, ReverseIs
<1>3. Openings(ns, Append(s, n)) = Append(f, o) /\ SeqOfSeqs(f)
    <2> HIDE DEF s
    <2> QED BY <1>2, OpeningsAre
<1>4. IsSeq(o) /\ IsSeq(header)
    BY OpenedIs, HeaderGrows
<1>5. FlattenSeq(Append(f, o)) = FlattenSeq(f) \o o /\ IsSeq(FlattenSeq(f))
    <2> HIDE DEF f, o
    <2> QED BY <1>3, <1>4, FlattenOfAppend, FlattenIs DEF SeqOfSeqs
<1>6. AroundIn(t, lang, ns, k) = header \o (FlattenSeq(f) \o o)
    BY <1>2, <1>3, <1>5 DEF AroundIn
<1>7. AroundIn(t, lang, ns, n) = header \o FlattenSeq(f)
    BY DEF AroundIn
<1>8. (header \o FlattenSeq(f)) \o o = header \o (FlattenSeq(f) \o o)
    <2> HIDE DEF f, o, header
    <2> QED BY <1>4, <1>5, ConcatOf, SMTT(30)
<1> QED BY <1>6, <1>7, <1>8 DEF AroundInside

\* What is emitted elsewhere does not change them.
LEMMA AroundGrows ==
    ASSUME NEW t, IsTree(t), NEW lang, NEW ns, IsSeq(ns), NEW nr, IsSeq(nr),
           NEW n \in DOMAIN t,
           \A r \in SomeOf(nr) : /\ r.id.kind # "namespace"
                                 /\ r.id.kind \in ScopeKinds => r.id.at \notin Above(t, n)
    PROVE  AroundIn(t, lang, ns \o nr, n) = AroundIn(t, lang, ns, n)
<1> DEFINE s == Reverse(Ancestors(t, n))
<1>1. HeaderIn(lang, ns \o nr) = HeaderIn(lang, ns)
    BY HeaderGrows
<1>2. IsSeq(s) /\ SomeOf(s) = Above(t, n)
    BY NodesAre, ReverseIs DEF Above
<1>3. ASSUME NEW a \in Above(t, n) PROVE Opened(ns \o nr, a) = Opened(ns, a)
    <2>1. Closed(nr, a)
        BY DEF Closed
    <2>2. Opened(nr, a) = << >> /\ IsSeq(Opened(ns, a))
        BY <2>1, OpenedIs
    <2>3. Opened(ns \o nr, a) = Opened(ns, a) \o Opened(nr, a)
        BY OpenedGrows
    <2> QED BY <2>2, <2>3, AndNone
<1>4. Openings(ns \o nr, s) = Openings(ns, s)
    <2>1. \A i \in DOMAIN s : s[i] \in Above(t, n)
        BY <1>2 DEF SomeOf
    <2> HIDE DEF s
    <2> QED BY <2>1, <1>3 DEF Openings
<1> QED BY <1>1, <1>4 DEF AroundIn

\* Below a node in which no scope is opened they are the node's.
LEMMA AroundWithin ==
    ASSUME NEW t, IsTree(t), NEW lang, NEW ns, IsSeq(ns), NEW n \in DOMAIN t,
           \A a \in Under(t, n) : Closed(ns, a), NEW d \in Under(t, n)
    PROVE  AroundIn(t, lang, ns, d) = AroundIn(t, lang, ns, n)
<1> DEFINE same(b) == AroundIn(t, lang, ns, b) = AroundIn(t, lang, ns, n)
           good == {b \in DOMAIN t : b \in Under(t, n) => same(b)}
<1>1. Len(t) \in Nat /\ DOMAIN t = 1 .. Len(t)
    BY NodesAre
<1>2. ASSUME NEW b \in 1 .. Len(t), 1 .. b - 1 \subseteq good PROVE b \in good
    <2> SUFFICES ASSUME b \in Under(t, n), b # n PROVE same(b)
        BY <1>1
    <2>1. b \in DOMAIN t /\ n \in Above(t, b)
        BY BelowIs
    <2>2. Ancestors(t, b) # << >>
        BY <2>1, NoneAbove
    <2>3. /\ Up(t, b) \in 1 .. b - 1 /\ Up(t, b) \in DOMAIN t
          /\ Head(Ancestors(t, b)) = Up(t, b) /\ Above(t, b) = {Up(t, b)} \cup Above(t, Up(t, b))
        BY <2>1, <2>2, NodesAre
    <2>4. b \in Inside(t, Up(t, b))
        BY <2>1, <2>2, <2>3 DEF Inside
    <2>5. Up(t, b) \in Under(t, n)
        BY <2>1, <2>3, BelowIs DEF Under
    <2>6. same(Up(t, b))
        BY <1>2, <2>3, <2>5
    <2>7. Opened(ns, Up(t, b)) = << >>
        BY <2>5, OpenedIs
    <2>8. AroundIn(t, lang, ns, b) = AroundInside(t, lang, ns, Up(t, b))
        BY <2>4, AroundAChild
    <2>9. IsSeq(AroundIn(t, lang, ns, n))
        BY AroundIs
    <2> QED BY <2>6, <2>7, <2>8, <2>9, AndNone DEF AroundInside
<1>3. 1 .. Len(t) \subseteq good
    <2> HIDE DEF good
    <2> QED BY <1>1, <1>2, FromBelow
<1>4. d \in DOMAIN t
    BY BelowIs
<1> QED BY <1>1, <1>3, <1>4

\* Below one that opens a scope there is that one more.
LEMMA AroundBelow ==
    ASSUME NEW t, IsTree(t), NEW lang, NEW ns, IsSeq(ns), NEW n \in DOMAIN t,
           \A a \in Under(t, n) : Closed(ns, a),
           NEW x, x.id.at = n, x.id.kind \in ScopeKinds, x.id.kind # "namespace",
           NEW d \in Below(t, n), NEW more, more = Append(ns, x)
    PROVE  Chain(t, lang, more, d) = ChainBelow(t, lang, ns, n, x)
<1> DEFINE all == ns \o <<x>>
<1>1. PICK k \in Inside(t, n) : d \in Under(t, k)
    BY BelowAChild
<1>2. k \in DOMAIN t /\ Under(t, k) \subseteq Below(t, n) /\ n \notin Under(t, k)
    BY InsideIs
<1>3. IsSeq(<<x>>) /\ SomeOf(<<x>>) = {x} /\ IsSeq(all) /\ SomeOf(all) = SomeOf(ns) \cup {x}
    BY OneIs, ConcatIs
<1>4. ASSUME NEW a \in Under(t, k) PROVE Closed(all, a)
    <2>1. a \in Under(t, n) /\ a # n
        BY <1>2 DEF Under
    <2>2. Closed(ns, a)
        BY <2>1
    <2> QED BY <2>1, <2>2, <1>3 DEF Closed
<1>5. AroundIn(t, lang, all, d) = AroundIn(t, lang, all, k)
    <2> HIDE DEF all
    <2> QED BY <1>1, <1>2, <1>3, <1>4, AroundWithin
<1>6. AroundIn(t, lang, all, k) = AroundInside(t, lang, all, n)
    <2>1. IsSeq(all)
        BY <1>3
    <2> HIDE DEF all
    <2> QED BY <2>1, AroundAChild
<1>7. AroundIn(t, lang, all, n) = AroundIn(t, lang, ns, n)
    <2>1. n \notin Above(t, n)
        BY AncestorsBefore, NodesAre
    <2> QED BY <2>1, <1>3, AroundGrows
<1>8. Opened(all, n) = <<x>>
    <2>1. Opened(ns, n) = << >>
        BY OpenedIs DEF Under
    <2>2. Opened(<<x>>, n) = <<x>>
        <3>1. x \in {r \in SomeOf(<<x>>) : r.id.at = n} /\ x \in Opening(<<x>>)
            BY <1>3 DEF Opening
        <3>2. Those(<<x>>, {r \in SomeOf(<<x>>) : r.id.at = n}) = <<x>>
            BY <3>1, ThoseOfOne
        <3>3. Those(<<x>>, Opening(<<x>>)) = <<x>>
            BY <3>1, ThoseOfOne
        <3> QED BY <3>2, <3>3 DEF Opened
    <2>3. Opened(all, n) = Opened(ns, n) \o Opened(<<x>>, n)
        <3> DEFINE one == <<x>>
        <3>1. IsSeq(one)
            BY <1>3
        <3> HIDE DEF one
        <3>2. Opened(ns \o one, n) = Opened(ns, n) \o Opened(one, n)
            BY <3>1, OpenedGrows
        <3> QED BY <3>2 DEF one
    <2> QED BY <2>1, <2>2, <2>3, <1>3, AndNone
<1>9. IsSeq(AroundIn(t, lang, ns, n))
    BY AroundIs
<1>10. /\ Append(AroundIn(t, lang, ns, n), x) = AroundIn(t, lang, ns, n) \o <<x>>
       /\ Append(ns, x) = all
    BY <1>9, AppendIs
<1> QED BY <1>5, <1>6, <1>7, <1>8, <1>10 DEF AroundInside, Chain, ChainBelow

-----------------------------------------------------------------------------
(* What the walk keeps                                                     *)
Visits == {"visit", "body", "function", "member"}
\* The nodes that definitions and calls have been made of.
Spent(ns, ss) == {r.id.at : r \in {q \in SomeOf(ns) : q.id.kind # "namespace"}}
                     \cup {s.at : s \in {c \in SomeOf(ss) : c.ask.ask = "call"}}
\* What is to be visited has not been, and will be once.
Apart(t, ag, spent) ==
    \A i \in DOMAIN ag : ag[i].do \in Visits =>
        /\ ag[i].at \in DOMAIN t /\ Under(t, ag[i].at) \cap spent = {}
        /\ \A j \in DOMAIN ag : j # i /\ ag[j].do \in Visits =>
               Under(t, ag[i].at) \cap Under(t, ag[j].at) = {}
\* The stack as it will be when each call of the agenda is made: lv.
After(c, st) == IF c.do = "leave" THEN Front(st) ELSE st
Levels(lv, ag, st) == lv[1] = st /\ \A i \in DOMAIN ag : lv[i + 1] = After(ag[i], lv[i])
\* What is visited then finds the scopes around it there.
FitsOn(t, lang, ns, ag, st, lv) ==
    /\ Levels(lv, ag, st)
    /\ \A i \in DOMAIN ag : ag[i].do \in Visits => lv[i] = Chain(t, lang, ns, ag[i].at)
Fits(t, lang, ns, ag, st) == \E lv : FitsOn(t, lang, ns, ag, st, lv)
\* The properties, for the definitions and the calls there are so far.
OneEdge(es, e) == \E j \in DOMAIN es : \A k \in DOMAIN es : (es[k] = e) <=> (k = j)
Spelling(scopes) == FlattenSeq([j \in DOMAIN scopes |-> scopes[j].name])
Spelt(t, lang, scopes, r) ==
    (IF ReceiverType(t, r.id.at, lang) # NoText /\ r.id.kind = "method"
     THEN ReceiverType(t, r.id.at, lang)
     ELSE Spelling(scopes)) \o r.name
PlacedIn(t, lang, ns, es, r) ==
    /\ r.id.at \in DOMAIN t
    /\ OneEdge(es, <<ScopeIn(t, lang, ns, r.id.at), r.id>>)
    /\ r.id.qn = Spelt(t, lang, AroundIn(t, lang, ns, r.id.at), r)
Placed(t, lang, ns, es) ==
    \A r \in SomeOf(ns) : r.id.kind # "namespace" => PlacedIn(t, lang, ns, es, r)
Given(t, lang, ns, ss) ==
    \A s \in SomeOf(ss) : s.ask.ask = "call" =>
        s.at \in DOMAIN t /\ s.from = ScopeIn(t, lang, ns, s.at)
Named(ns) == \A r \in SomeOf(ns) : IsSeq(r.name)

-----------------------------------------------------------------------------
(* One edge                                                                *)
LEMMA ConcatAt ==
    ASSUME NEW s, IsSeq(s), NEW q, IsSeq(q)
    PROVE  /\ Len(s) \in Nat /\ DOMAIN s = 1 .. Len(s) /\ Len(q) \in Nat /\ DOMAIN q = 1 .. Len(q)
           /\ DOMAIN (s \o q) = 1 .. (Len(s) + Len(q))
           /\ \A i \in DOMAIN s : i \in DOMAIN (s \o q) /\ (s \o q)[i] = s[i]
           /\ \A i \in DOMAIN q : Len(s) + i \in DOMAIN (s \o q) /\ (s \o q)[Len(s) + i] = q[i]
           /\ \A i \in DOMAIN (s \o q) :
                  \/ i \in DOMAIN s
                  \/ i - Len(s) \in DOMAIN q /\ (s \o q)[i] = q[i - Len(s)] /\ i = Len(s) + (i - Len(s))
<1> DEFINE S == SomeOf(s) \cup SomeOf(q)
<1>1. s \in Seq(S) /\ q \in Seq(S)
    BY Widen
<1> HIDE DEF S
<1> QED BY <1>1, ConcatProperties

LEMMA OneEdgeGrows ==
    ASSUME NEW es, IsSeq(es), NEW er, IsSeq(er), NEW e
    PROVE  /\ OneEdge(es, e) /\ e \notin SomeOf(er) => OneEdge(es \o er, e)
           /\ OneEdge(er, e) /\ e \notin SomeOf(es) => OneEdge(es \o er, e)
<1> DEFINE all == es \o er
           l == Len(es)
<1>1. /\ l \in Nat /\ DOMAIN es = 1 .. l /\ Len(er) \in Nat /\ DOMAIN er = 1 .. Len(er)
      /\ \A i \in DOMAIN es : i \in DOMAIN all /\ all[i] = es[i]
      /\ \A i \in DOMAIN er : l + i \in DOMAIN all /\ all[l + i] = er[i]
      /\ \A i \in DOMAIN all :
             \/ i \in DOMAIN es
             \/ i - l \in DOMAIN er /\ all[i] = er[i - l] /\ i = l + (i - l)
    BY ConcatAt
<1>2. ASSUME OneEdge(es, e), e \notin SomeOf(er) PROVE OneEdge(all, e)
    <2>1. PICK j \in DOMAIN es : \A k \in DOMAIN es : (es[k] = e) <=> (k = j)
        BY <1>2 DEF OneEdge
    <2>2. \A i \in DOMAIN er : er[i] # e
        BY <1>2 DEF SomeOf
    <2> HIDE DEF all, l
    <2>3. ASSUME NEW k \in DOMAIN all PROVE (all[k] = e) <=> (k = j)
        <3>1. CASE k \in DOMAIN es
            BY <3>1, <2>1, <1>1
        <3>2. CASE k \notin DOMAIN es
            BY <3>2, <2>1, <2>2, <1>1
        <3> QED BY <3>1, <3>2
    <2>4. j \in DOMAIN all
        BY <2>1, <1>1
    <2> QED BY <2>3, <2>4 DEF OneEdge
<1>3. ASSUME OneEdge(er, e), e \notin SomeOf(es) PROVE OneEdge(all, e)
    <2>1. PICK j \in DOMAIN er : \A k \in DOMAIN er : (er[k] = e) <=> (k = j)
        BY <1>3 DEF OneEdge
    <2>2. \A i \in DOMAIN es : es[i] # e
        BY <1>3 DEF SomeOf
    <2> HIDE DEF all, l
    <2>3. ASSUME NEW k \in DOMAIN all PROVE (all[k] = e) <=> (k = l + j)
        <3>1. CASE k \in DOMAIN es
            BY <3>1, <2>1, <2>2, <1>1
        <3>2. CASE k \notin DOMAIN es
            BY <3>2, <2>1, <1>1
        <3> QED BY <3>1, <3>2
    <2>4. l + j \in DOMAIN all
        BY <2>1, <1>1
    <2> QED BY <2>3, <2>4 DEF OneEdge
<1> QED BY <1>2, <1>3

LEMMA OneEdgeOfOne ==
    ASSUME NEW e PROVE OneEdge(<<e>>, e)
<1>1. DOMAIN <<e>> = {1} /\ <<e>>[1] = e
    OBVIOUS
<1> QED BY <1>1 DEF OneEdge

LEMMA OneEdgeEach ==
    ASSUME NEW nr, IsSeq(nr), \A i, j \in DOMAIN nr : nr[i].id = nr[j].id => i = j,
           NEW top, NEW r \in SomeOf(nr)
    PROVE  OneEdge([i \in DOMAIN nr |-> <<top, nr[i].id>>], <<top, r.id>>)
<1> DEFINE f == [i \in DOMAIN nr |-> <<top, nr[i].id>>]
<1>1. PICK j \in DOMAIN nr : r = nr[j]
    BY DEF SomeOf
<1>2. j \in DOMAIN f /\ \A k \in DOMAIN f : (f[k] = <<top, r.id>>) <=> (k = j)
    BY <1>1
<1> HIDE DEF f
<1> QED BY <1>2 DEF OneEdge, f

-----------------------------------------------------------------------------
(* What a call of the walk at n emits, below or at n                       *)
Local(t, n, nr) ==
    \A r \in SomeOf(nr) : r.id.at \in Under(t, n) /\ r.id.kind # "namespace" /\ IsSeq(r.name)

\* It does not change the scopes elsewhere.
LEMMA Elsewhere ==
    ASSUME NEW t, IsTree(t), NEW lang, NEW ns, IsSeq(ns), NEW n, NEW nr, IsSeq(nr), Local(t, n, nr),
           NEW c \in DOMAIN t, c \notin Under(t, n)
    PROVE  /\ AroundIn(t, lang, ns \o nr, c) = AroundIn(t, lang, ns, c)
           /\ ScopeIn(t, lang, ns \o nr, c) = ScopeIn(t, lang, ns, c)
           /\ Chain(t, lang, ns \o nr, c) = Chain(t, lang, ns, c)
<1>1. ASSUME NEW r \in SomeOf(nr) PROVE r.id.kind # "namespace" /\ r.id.at \notin Above(t, c)
    <2>1. r.id.kind # "namespace" /\ r.id.at \in Under(t, n)
        BY DEF Local
    <2>2. r.id.at \in Above(t, c) => c \in Below(t, r.id.at)
        BY BelowIs
    <2> DEFINE a == r.id.at
    <2>3. Below(t, a) \subseteq Under(t, n)
        <3>1. a \in Under(t, n)
            BY <2>1
        <3> HIDE DEF a
        <3> QED BY <3>1, UnderUnder DEF Under
    <2> QED BY <2>1, <2>2, <2>3
<1>2. AroundIn(t, lang, ns \o nr, c) = AroundIn(t, lang, ns, c)
    BY <1>1, AroundGrows
<1> QED BY <1>2 DEF ScopeIn, Chain

LEMMA SpentIs ==
    ASSUME NEW ns, NEW ss
    PROVE  /\ \A r \in SomeOf(ns) : r.id.kind # "namespace" => r.id.at \in Spent(ns, ss)
           /\ \A s \in SomeOf(ss) : s.ask.ask = "call" => s.at \in Spent(ns, ss)
BY DEF Spent

\* An identity of a node that is not spent is new.
LEMMA NewIds ==
    ASSUME NEW t, IsTree(t), NEW ns, NEW ss, NEW n \in DOMAIN t,
           Under(t, n) \cap Spent(ns, ss) = {},
           NEW id, id.at \in Under(t, n), id.kind # "namespace"
    PROVE  id \notin IdsOf(ns)
<1>1. id # File
    <2>1. id.at \in DOMAIN t
        BY BelowIs
    <2>2. id.at # 0
        BY <2>1, NodesAre
    <2> QED BY <2>2 DEF File, NoNode
<1>2. ASSUME NEW r \in SomeOf(ns), id = r.id PROVE FALSE
    <2>1. r.id.at \in Spent(ns, ss)
        BY <1>2, SpentIs
    <2> QED BY <2>1, <1>2
<1> QED BY <1>1, <1>2 DEF IdsOf

LEMMA PlacedMoves ==
    ASSUME NEW t, IsTree(t), NEW lang, NEW ns, IsSeq(ns), NEW es, NEW ss, NEW n \in DOMAIN t,
           Under(t, n) \cap Spent(ns, ss) = {}, Placed(t, lang, ns, es), EdgesIn(es, IdsOf(ns)),
           NEW nr, IsSeq(nr), Local(t, n, nr),
           NEW er, IsSeq(er), \A e \in SomeOf(er) : e[2].at \in Under(t, n),
           \A r \in SomeOf(nr) : PlacedIn(t, lang, ns \o nr, er, r)
    PROVE  Placed(t, lang, ns \o nr, es \o er)
<1> DEFINE all == ns \o nr
<1>1. SomeOf(all) = SomeOf(ns) \cup SomeOf(nr) /\ IsSeq(es)
    BY ConcatIs DEF EdgesIn
<1>2. ASSUME NEW r \in SomeOf(ns), r.id.kind # "namespace"
      PROVE  PlacedIn(t, lang, all, es \o er, r)
    <2>1. PlacedIn(t, lang, ns, es, r)
        BY <1>2 DEF Placed
    <2>2. r.id.at \in DOMAIN t /\ r.id.at \notin Under(t, n)
        BY <1>2, <2>1, SpentIs DEF PlacedIn
    <2> DEFINE a == r.id.at
    <2>3. /\ AroundIn(t, lang, all, a) = AroundIn(t, lang, ns, a)
          /\ ScopeIn(t, lang, all, a) = ScopeIn(t, lang, ns, a)
        <3>1. a \in DOMAIN t /\ a \notin Under(t, n)
            BY <2>2
        <3> HIDE DEF a
        <3> QED BY <3>1, Elsewhere
    <2> DEFINE e == <<ScopeIn(t, lang, ns, a), r.id>>
    <2>4. e[2].at = a
        OBVIOUS
    <2>5. e \notin SomeOf(er)
        BY <2>2, <2>4
    <2>6. OneEdge(es, e)
        BY <2>1 DEF PlacedIn
    <2>7. OneEdge(es \o er, e)
        <3> HIDE DEF e
        <3> QED BY <1>1, <2>5, <2>6, OneEdgeGrows
    <2> QED BY <2>1, <2>3, <2>7 DEF PlacedIn
<1>3. ASSUME NEW r \in SomeOf(nr) PROVE PlacedIn(t, lang, all, es \o er, r)
    <2> DEFINE e == <<ScopeIn(t, lang, all, r.id.at), r.id>>
    <2>1. PlacedIn(t, lang, all, er, r)
        OBVIOUS
    <2>2. OneEdge(er, e)
        BY <2>1 DEF PlacedIn
    <2>3. r.id \notin IdsOf(ns)
        <3> DEFINE id == r.id
        <3>1. id.at \in Under(t, n) /\ id.kind # "namespace"
            BY DEF Local
        <3> HIDE DEF id
        <3>2. id \notin IdsOf(ns)
            BY <3>1, NewIds
        <3> QED BY <3>2 DEF id
    <2>4. e \notin SomeOf(es)
        <3>1. e[2] = r.id
            OBVIOUS
        <3> HIDE DEF e
        <3> QED BY <2>3, <3>1 DEF EdgesIn
    <2>5. OneEdge(es \o er, e)
        <3> HIDE DEF e
        <3> QED BY <1>1, <2>2, <2>4, OneEdgeGrows
    <2> QED BY <2>1, <2>5 DEF PlacedIn
<1> QED BY <1>1, <1>2, <1>3 DEF Placed

LEMMA GivenMoves ==
    ASSUME NEW t, IsTree(t), NEW lang, NEW ns, IsSeq(ns), NEW ss, IsSeq(ss), NEW n,
           Under(t, n) \cap Spent(ns, ss) = {}, Given(t, lang, ns, ss),
           NEW nr, IsSeq(nr), Local(t, n, nr),
           NEW sr, IsSeq(sr), Given(t, lang, ns \o nr, sr)
    PROVE  Given(t, lang, ns \o nr, ss \o sr)
<1> DEFINE all == ns \o nr
<1>1. SomeOf(ss \o sr) = SomeOf(ss) \cup SomeOf(sr)
    BY ConcatIs
<1>2. ASSUME NEW s \in SomeOf(ss), s.ask.ask = "call"
      PROVE  s.at \in DOMAIN t /\ s.from = ScopeIn(t, lang, all, s.at)
    <2>1. s.at \in DOMAIN t /\ s.from = ScopeIn(t, lang, ns, s.at) /\ s.at \notin Under(t, n)
        BY <1>2, SpentIs DEF Given
    <2> DEFINE a == s.at
    <2>2. ScopeIn(t, lang, all, a) = ScopeIn(t, lang, ns, a)
        <3>1. a \in DOMAIN t /\ a \notin Under(t, n)
            BY <2>1
        <3> HIDE DEF a
        <3> QED BY <3>1, Elsewhere
    <2> QED BY <2>1, <2>2
<1> QED BY <1>1, <1>2 DEF Given

-----------------------------------------------------------------------------
(* The agenda                                                              *)
\* The calls of a handler come ahead of the rest.
Pushed(pre, ag) == pre \o Tail(ag)
\* Where a call of the rest was.
Was(pre, i) == (i - Len(pre)) + 1

LEMMA AgendaAt ==
    ASSUME NEW pre, IsSeq(pre), NEW ag, IsSeq(ag), ag # << >>
    PROVE  /\ Len(pre) \in Nat /\ DOMAIN pre = 1 .. Len(pre) /\ Len(ag) \in Nat \ {0}
           /\ DOMAIN ag = 1 .. Len(ag) /\ Head(ag) = ag[1]
           /\ IsSeq(Pushed(pre, ag)) /\ DOMAIN Pushed(pre, ag) = 1 .. (Len(pre) + (Len(ag) - 1))
           /\ \A i \in DOMAIN pre : Pushed(pre, ag)[i] = pre[i]
           /\ \A i \in DOMAIN Pushed(pre, ag) : i \notin DOMAIN pre =>
                  /\ Was(pre, i) \in DOMAIN ag /\ Was(pre, i) # 1
                  /\ Pushed(pre, ag)[i] = ag[Was(pre, i)]
           /\ \A i, j \in DOMAIN Pushed(pre, ag) : Was(pre, i) = Was(pre, j) => i = j
<1>1. /\ IsSeq(Tail(ag)) /\ Head(ag) = ag[1] /\ 1 \in DOMAIN ag
      /\ \A i \in DOMAIN Tail(ag) : i + 1 \in DOMAIN ag /\ i \in Nat \ {0} /\ Tail(ag)[i] = ag[i + 1]
    BY HeadAndTail
<1>2. Len(ag) \in Nat \ {0} /\ DOMAIN ag = 1 .. Len(ag) /\ Len(Tail(ag)) = Len(ag) - 1
    BY HeadTailProperties, LenProperties, EmptySeqIs, <1>1 DEF IsSeq
<1>3. IsSeq(Pushed(pre, ag))
    BY <1>1, ConcatIs DEF Pushed
<1> DEFINE q == Tail(ag)
           new == pre \o q
<1>4. /\ Len(pre) \in Nat /\ DOMAIN pre = 1 .. Len(pre)
      /\ DOMAIN new = 1 .. (Len(pre) + Len(q))
      /\ \A i \in DOMAIN pre : new[i] = pre[i]
      /\ \A i \in DOMAIN new :
             \/ i \in DOMAIN pre
             \/ i - Len(pre) \in DOMAIN q /\ new[i] = q[i - Len(pre)]
    <2>1. IsSeq(q)
        BY <1>1
    <2> HIDE DEF q
    <2> QED BY <2>1, ConcatAt
<1>5. /\ Len(q) = Len(ag) - 1
      /\ \A i \in DOMAIN q : i + 1 \in DOMAIN ag /\ i \in Nat \ {0} /\ q[i] = ag[i + 1]
    BY <1>1, <1>2
<1>6. ASSUME NEW i \in DOMAIN new, i \notin DOMAIN pre
      PROVE  /\ (i - Len(pre)) + 1 \in DOMAIN ag /\ (i - Len(pre)) + 1 # 1
             /\ new[i] = ag[(i - Len(pre)) + 1]
    <2> HIDE DEF q, new
    <2>1. i - Len(pre) \in DOMAIN q /\ new[i] = q[i - Len(pre)]
        BY <1>4, <1>6
    <2> QED BY <1>5, <2>1
<1>7. \A i, j \in DOMAIN new : (i - Len(pre)) + 1 = (j - Len(pre)) + 1 => i = j
    <2> HIDE DEF new, q
    <2> QED BY <1>4, <1>5, <1>2
<1> QED BY <1>1, <1>2, <1>3, <1>4, <1>5, <1>6, <1>7 DEF Pushed, Was

\* Calls below n, none of them of nodes in P, and none of a node twice.
Tasks(t, n, P, pre) ==
    \A i \in DOMAIN pre : pre[i].do \in Visits =>
        /\ pre[i].at \in DOMAIN t /\ Under(t, pre[i].at) \subseteq Under(t, n) \ P
        /\ \A j \in DOMAIN pre : j # i /\ pre[j].do \in Visits =>
               Under(t, pre[i].at) \cap Under(t, pre[j].at) = {}

LEMMA ApartMoves ==
    ASSUME NEW t, NEW ag, IsSeq(ag), ag # << >>, ag[1].do \in Visits,
           NEW spent, Apart(t, ag, spent), NEW P, NEW pre, IsSeq(pre), Tasks(t, ag[1].at, P, pre),
           P \subseteq Under(t, ag[1].at), NEW more, more \subseteq spent \cup P
    PROVE  Apart(t, Pushed(pre, ag), more)
<1> DEFINE new == Pushed(pre, ag)
           u(c) == Under(t, c.at)
           k(i) == Was(pre, i)
<1>0. Len(ag) \in Nat \ {0} /\ DOMAIN ag = 1 .. Len(ag)
    BY AgendaAt
<1>1. /\ 1 \in DOMAIN ag /\ \A i \in DOMAIN pre : new[i] = pre[i]
      /\ \A i \in DOMAIN new : i \notin DOMAIN pre =>
             k(i) \in DOMAIN ag /\ k(i) # 1 /\ new[i] = ag[k(i)]
    <2>1. 1 \in DOMAIN ag
        BY <1>0
    <2>2. \A i \in DOMAIN new : i \notin DOMAIN pre =>
                 k(i) \in DOMAIN ag /\ k(i) # 1 /\ new[i] = ag[k(i)]
        BY AgendaAt, Zenon
    <2>3. \A i \in DOMAIN pre : new[i] = pre[i]
        BY AgendaAt
    <2> QED BY <2>1, <2>2, <2>3
<1>2. \A i, j \in DOMAIN new : i \notin DOMAIN pre /\ j \notin DOMAIN pre /\ i # j => k(i) # k(j)
    BY AgendaAt
<1>3. ASSUME NEW i \in DOMAIN pre, pre[i].do \in Visits
      PROVE  /\ pre[i].at \in DOMAIN t /\ u(pre[i]) \cap more = {}
             /\ u(pre[i]) \subseteq u(ag[1])
    <2>1. u(ag[1]) \cap spent = {}
        BY <1>1 DEF Apart
    <2>2. pre[i].at \in DOMAIN t /\ u(pre[i]) \subseteq u(ag[1]) \ P
        BY <1>3 DEF Tasks
    <2> QED BY <2>1, <2>2
<1>4. ASSUME NEW i \in DOMAIN ag, i # 1, ag[i].do \in Visits
      PROVE  ag[i].at \in DOMAIN t /\ u(ag[i]) \cap more = {} /\ u(ag[i]) \cap u(ag[1]) = {}
    <2>1. ag[i].at \in DOMAIN t /\ u(ag[i]) \cap spent = {} /\ u(ag[i]) \cap u(ag[1]) = {}
        BY <1>1, <1>4 DEF Apart
    <2> QED BY <2>1
<1>5. ASSUME NEW i \in DOMAIN new, new[i].do \in Visits
      PROVE  new[i].at \in DOMAIN t /\ u(new[i]) \cap more = {}
    <2> HIDE DEF new, u, k
    <2>1. CASE i \in DOMAIN pre
        BY <1>5, <2>1, <1>1, <1>3
    <2>2. CASE i \notin DOMAIN pre
        BY <1>5, <2>2, <1>1, <1>4
    <2> QED BY <2>1, <2>2
<1>6. ASSUME NEW i \in DOMAIN new, NEW j \in DOMAIN new, j # i,
             new[i].do \in Visits, new[j].do \in Visits
      PROVE  u(new[i]) \cap u(new[j]) = {}
    <2>1. CASE i \in DOMAIN pre /\ j \in DOMAIN pre
        <3>1. new[i] = pre[i] /\ new[j] = pre[j]
            BY <2>1, <1>1
        <3> HIDE DEF new
        <3> QED BY <2>1, <3>1, <1>6 DEF Tasks
    <2>2. CASE i \in DOMAIN pre /\ j \notin DOMAIN pre
        <3> HIDE DEF new, u, k
        <3>1. u(new[i]) \subseteq u(ag[1])
            BY <2>2, <1>1, <1>3, <1>6
        <3>2. u(new[j]) \cap u(ag[1]) = {}
            BY <2>2, <1>1, <1>4, <1>6
        <3> QED BY <3>1, <3>2
    <2>3. CASE i \notin DOMAIN pre /\ j \in DOMAIN pre
        <3> HIDE DEF new, u, k
        <3>1. u(new[j]) \subseteq u(ag[1])
            BY <2>3, <1>1, <1>3, <1>6
        <3>2. u(new[i]) \cap u(ag[1]) = {}
            BY <2>3, <1>1, <1>4, <1>6
        <3> QED BY <3>1, <3>2
    <2>4. CASE i \notin DOMAIN pre /\ j \notin DOMAIN pre
        <3>1. /\ k(i) \in DOMAIN ag /\ new[i] = ag[k(i)] /\ k(j) \in DOMAIN ag /\ new[j] = ag[k(j)]
              /\ k(i) # k(j)
            <4> HIDE DEF new, k
            <4> QED BY <2>4, <1>1, <1>2, <1>6
        <3> HIDE DEF new, k
        <3> QED BY <3>1, <1>6 DEF Apart
    <2> QED BY <2>1, <2>2, <2>3, <2>4
<1> HIDE DEF new
<1> QED BY <1>5, <1>6 DEF Apart, new

LEMMA FitsMoves ==
    ASSUME NEW t, NEW lang, NEW ns, NEW all, NEW ag, IsSeq(ag), ag # << >>, NEW st,
           Fits(t, lang, ns, ag, st), NEW pre, IsSeq(pre), NEW later, NEW lp, Levels(lp, pre, later),
           lp[Len(pre) + 1] = After(ag[1], st),
           \A i \in DOMAIN pre : pre[i].do \in Visits => lp[i] = Chain(t, lang, all, pre[i].at),
           \A i \in DOMAIN ag : i # 1 /\ ag[i].do \in Visits =>
               Chain(t, lang, all, ag[i].at) = Chain(t, lang, ns, ag[i].at)
    PROVE  Fits(t, lang, all, Pushed(pre, ag), later)
<1> DEFINE new == Pushed(pre, ag)
           l == Len(pre)
           k(i) == Was(pre, i)
<1>1. /\ l \in Nat /\ DOMAIN pre = 1 .. l /\ Len(ag) \in Nat \ {0} /\ DOMAIN ag = 1 .. Len(ag)
      /\ DOMAIN new = 1 .. (l + (Len(ag) - 1))
      /\ \A i \in DOMAIN pre : new[i] = pre[i]
      /\ \A i \in DOMAIN new : i \notin DOMAIN pre =>
             k(i) \in DOMAIN ag /\ k(i) # 1 /\ new[i] = ag[k(i)]
    BY AgendaAt
<1>2. PICK lv : FitsOn(t, lang, ns, ag, st, lv)
    BY DEF Fits
<1>3. /\ lv[1] = st /\ \A i \in DOMAIN ag : lv[i + 1] = After(ag[i], lv[i])
      /\ \A i \in DOMAIN ag : ag[i].do \in Visits => lv[i] = Chain(t, lang, ns, ag[i].at)
    BY <1>2 DEF FitsOn, Levels
<1>4. lp[1] = later /\ \A i \in DOMAIN pre : lp[i + 1] = After(pre[i], lp[i])
    BY DEF Levels
<1> DEFINE lw == [i \in 1 .. (l + Len(ag)) |-> IF i <= l THEN lp[i] ELSE lv[k(i)]]
<1>5. lv[2] = After(ag[1], st) /\ lp[l + 1] = lv[2]
    BY <1>1, <1>3
<1>6. ASSUME NEW i \in 1 .. (l + Len(ag))
      PROVE  (i <= l + 1 => lw[i] = lp[i]) /\ (i > l => lw[i] = lv[k(i)])
    <2>1. lw[i] = IF i <= l THEN lp[i] ELSE lv[k(i)]
        OBVIOUS
    <2>2. k(l + 1) = 2 /\ (i <= l + 1 => i <= l \/ i = l + 1) /\ ~(l + 1 <= l) /\ (i > l <=> ~(i <= l))
        BY <1>1 DEF Was
    <2> HIDE DEF lw, k
    <2> QED BY <2>1, <2>2, <1>5
<1>7. lw[1] = later
    BY <1>1, <1>4, <1>6
<1>8. ASSUME NEW i \in DOMAIN new PROVE lw[i + 1] = After(new[i], lw[i])
    <2>1. CASE i \in DOMAIN pre
        <3>1. lw[i] = lp[i] /\ lw[i + 1] = lp[i + 1]
            <4>1. /\ i \in 1 .. (l + Len(ag)) /\ i <= l + 1
                  /\ i + 1 \in 1 .. (l + Len(ag)) /\ i + 1 <= l + 1
                BY <2>1, <1>1
            <4> HIDE DEF lw, new, k
            <4> QED BY <4>1, <1>6
        <3> HIDE DEF lw, new
        <3> QED BY <3>1, <2>1, <1>1, <1>4
    <2>2. CASE i \notin DOMAIN pre
        <3>1. lw[i] = lv[k(i)] /\ lw[i + 1] = lv[k(i) + 1]
            <4>1. i > l /\ i \in 1 .. (l + Len(ag)) /\ i + 1 \in 1 .. (l + Len(ag)) /\ i + 1 > l
                BY <2>2, <1>1
            <4>2. k(i + 1) = k(i) + 1
                BY <1>1 DEF Was
            <4> HIDE DEF lw, new, k
            <4> QED BY <4>1, <4>2, <1>6
        <3> HIDE DEF lw, new, k
        <3> QED BY <3>1, <2>2, <1>1, <1>3
    <2> QED BY <2>1, <2>2
<1>9. ASSUME NEW i \in DOMAIN new, new[i].do \in Visits
      PROVE  lw[i] = Chain(t, lang, all, new[i].at)
    <2>1. CASE i \in DOMAIN pre
        <3>1. lw[i] = lp[i]
            <4> HIDE DEF lw, new
            <4> QED BY <2>1, <1>1, <1>6
        <3> HIDE DEF lw, new
        <3> QED BY <3>1, <2>1, <1>1, <1>9
    <2>2. CASE i \notin DOMAIN pre
        <3>1. lw[i] = lv[k(i)]
            <4>1. i > l /\ i \in 1 .. (l + Len(ag))
                BY <2>2, <1>1
            <4> HIDE DEF lw, new, k
            <4> QED BY <4>1, <1>6
        <3> HIDE DEF lw, new, k
        <3> QED BY <3>1, <2>2, <1>1, <1>3, <1>9
    <2> QED BY <2>1, <2>2
<1> HIDE DEF lw, new
<1>10. FitsOn(t, lang, all, new, later, lw)
    BY <1>7, <1>8, <1>9 DEF FitsOn, Levels
<1> QED BY <1>10 DEF Fits, new

-----------------------------------------------------------------------------
(* The stack                                                               *)
LEMMA LenOf ==
    ASSUME NEW s, IsSeq(s), NEW m \in Nat, DOMAIN s = 1 .. m PROVE Len(s) = m
<1>1. Len(s) \in Nat /\ 1 .. Len(s) = 1 .. m
    BY ConcatAt
<1>2. CASE Len(s) < m
    <2>1. m \in 1 .. m /\ m \notin 1 .. Len(s)
        BY <1>1, <1>2
    <2> QED BY <2>1, <1>1
<1>3. CASE m < Len(s)
    <2>1. Len(s) \in 1 .. Len(s) /\ Len(s) \notin 1 .. m
        BY <1>1, <1>3
    <2> QED BY <2>1, <1>1
<1> QED BY <1>1, <1>2, <1>3

\* One element and then a sequence.
Ahead(x, q) == <<x>> \o q
LEMMA AheadIs ==
    ASSUME NEW x, NEW q, IsSeq(q)
    PROVE  /\ IsSeq(Ahead(x, q)) /\ Len(Ahead(x, q)) = Len(q) + 1
           /\ DOMAIN Ahead(x, q) = 1 .. (Len(q) + 1) /\ Ahead(x, q)[1] = x
           /\ \A i \in 1 .. Len(q) : Ahead(x, q)[i + 1] = q[i]
<1> DEFINE S == {x} \cup SomeOf(q)
           one == <<x>>
<1>1. q \in Seq(S) /\ one \in Seq(S) /\ Len(one) = 1 /\ one[1] = x
    BY Widen
<1>2. IsSeq(Ahead(x, q))
    BY OneIs, ConcatIs DEF Ahead
<1> HIDE DEF S, one
<1>3. /\ Len(one \o q) = 1 + Len(q) /\ Len(q) \in Nat /\ (one \o q)[1] = x
      /\ \A i \in 1 .. Len(q) : (one \o q)[i + 1] = q[i]
    BY <1>1, ConcatProperties, LenProperties, SMTT(30)
<1>4. Ahead(x, q) = one \o q
    BY DEF Ahead, one
<1>5. DOMAIN Ahead(x, q) = 1 .. Len(Ahead(x, q))
    BY <1>2, ConcatAt
<1> QED BY <1>2, <1>3, <1>4, <1>5

LEMMA EntriesAre ==
    ASSUME NEW s, IsSeq(s)
    PROVE  /\ IsSeq(Entries(s)) /\ Len(Entries(s)) = Len(s) + 1
           /\ Entries(s)[Len(s) + 1].id = (IF s = << >> THEN File ELSE Reverse(s)[1].id)
           /\ \A x : Entries(Append(s, x)) = Append(Entries(s), Entry(x))
<1> DEFINE f(q) == [i \in DOMAIN q |-> Entry(q[i])]
           first == [id |-> File, name |-> NoText]
<1>1. ASSUME NEW q, IsSeq(q)
      PROVE  IsSeq(f(q)) /\ Len(f(q)) = Len(q) /\ \A i \in 1 .. Len(q) : f(q)[i] = Entry(q[i])
    <2> DEFINE g == f(q)
    <2>1. g = [i \in DOMAIN q |-> g[i]] /\ \A i \in DOMAIN q : g[i] = Entry(q[i])
        OBVIOUS
    <2>2. IsSeq(g) /\ DOMAIN g = DOMAIN q
        <3> HIDE DEF g
        <3> QED BY <1>1, <2>1, MapOf
    <2>3. DOMAIN q = 1 .. Len(q) /\ Len(q) \in Nat
        BY <1>1, ConcatAt
    <2>4. Len(g) = Len(q)
        <3> HIDE DEF g
        <3> QED BY <2>2, <2>3, LenOf
    <2> HIDE DEF g
    <2> QED BY <2>1, <2>2, <2>3, <2>4 DEF g
<1>3. ASSUME NEW q, IsSeq(q)
      PROVE  /\ IsSeq(Entries(q)) /\ Len(Entries(q)) = Len(q) + 1 /\ Entries(q)[1] = first
             /\ \A i \in 1 .. Len(q) : Entries(q)[i + 1] = Entry(q[i])
    <2> DEFINE g == f(q)
    <2>1. IsSeq(g) /\ Len(g) = Len(q) /\ \A i \in 1 .. Len(q) : g[i] = Entry(q[i])
        BY <1>1, <1>3
    <2>2. Entries(q) = Ahead(first, g)
        BY DEF Entries, Ahead, FileScope
    <2> HIDE DEF g
    <2> QED BY <2>1, <2>2, AheadIs
<1>4. Len(s) \in Nat /\ DOMAIN s = 1 .. Len(s)
    BY ConcatAt
<1>5. Entries(s)[Len(s) + 1].id = (IF s = << >> THEN File ELSE Reverse(s)[1].id)
    <2>1. CASE s = << >>
        <3>1. Len(s) = 0
            BY <2>1
        <3>2. Entries(s)[1] = first
            BY <1>3
        <3> QED BY <2>1, <3>1, <3>2
    <2>2. CASE s # << >>
        <3>1. Len(s) \in 1 .. Len(s)
            BY <2>2, <1>4, EmptySeqIs
        <3>2. Entries(s)[Len(s) + 1] = Entry(s[Len(s)])
            BY <3>1, <1>3
        <3>3. Reverse(s)[1] = s[(Len(s) - 1) + 1] /\ (Len(s) - 1) + 1 = Len(s)
            BY <3>1, <1>4, ReverseIs
        <3> QED BY <2>2, <3>2, <3>3 DEF Entry
    <2> QED BY <2>1, <2>2
<1>6. ASSUME NEW x PROVE Entries(Append(s, x)) = Append(Entries(s), Entry(x))
    <2> DEFINE q == Append(s, x)
               e == Entries(s)
               l == Len(s)
    <2>1. IsSeq(q) /\ Len(q) = l + 1 /\ q[l + 1] = x /\ \A i \in 1 .. l : q[i] = s[i]
        BY AppendIs, ZenonT(30)
    <2>2. /\ IsSeq(Entries(q)) /\ Len(Entries(q)) = Len(q) + 1 /\ Entries(q)[1] = first
          /\ \A i \in 1 .. Len(q) : Entries(q)[i + 1] = Entry(q[i])
        <3> HIDE DEF q
        <3> QED BY <2>1, <1>3
    <2>3. /\ IsSeq(e) /\ Len(e) = l + 1 /\ e[1] = first
          /\ \A i \in 1 .. l : e[i + 1] = Entry(s[i])
        BY <1>3
    <2> DEFINE w == Append(e, Entry(x))
    <2>4. /\ IsSeq(w) /\ Len(w) = Len(e) + 1 /\ w[Len(e) + 1] = Entry(x)
          /\ \A i \in 1 .. Len(e) : w[i] = e[i]
        <3> DEFINE y == Entry(x)
        <3>1. IsSeq(e)
            BY <2>3
        <3> HIDE DEF e, y
        <3> QED BY <3>1, AppendIs, ZenonT(30)
    <2>5. ASSUME NEW i \in 1 .. (l + 2) PROVE Entries(q)[i] = w[i]
        <3>1. CASE i = 1
            <4>1. 1 \in 1 .. Len(e)
                BY <2>3, <1>4
            <4> HIDE DEF q, e, w, l
            <4> QED BY <3>1, <4>1, <2>2, <2>3, <2>4
        <3>2. CASE i = l + 2
            <4>1. l + 1 \in 1 .. Len(q) /\ l + 2 = (l + 1) + 1
                BY <2>1, <1>4
            <4>2. Entries(q)[(l + 1) + 1] = Entry(q[l + 1])
                <5> HIDE DEF q, l
                <5> QED BY <4>1, <2>2
            <4> HIDE DEF q, e, w
            <4> QED BY <3>2, <4>1, <4>2, <2>1, <2>3, <2>4
        <3>3. CASE i # 1 /\ i # l + 2
            <4> DEFINE j == i - 1
            <4>1. j \in 1 .. l /\ j \in 1 .. Len(q) /\ i = j + 1 /\ i \in 1 .. Len(e)
                BY <3>3, <1>4, <2>1, <2>3
            <4> HIDE DEF q, e, w, l, j
            <4> QED BY <4>1, <2>1, <2>2, <2>3, <2>4
        <3> QED BY <3>1, <3>2, <3>3
    <2>6. Len(Entries(q)) = l + 2 /\ Len(w) = l + 2
        BY <2>1, <2>2, <2>3, <2>4, <1>4
    <2> DEFINE a == Entries(q)
    <2>7. a = w
        <3>1. IsSeq(a) /\ IsSeq(w) /\ Len(a) = Len(w) /\ \A i \in 1 .. Len(a) : a[i] = w[i]
            BY <2>2, <2>4, <2>5, <2>6
        <3> HIDE DEF a, w
        <3>2. a = [i \in 1 .. Len(a) |-> a[i]] /\ w = [i \in 1 .. Len(w) |-> w[i]]
            BY <3>1, SeqIs DEF IsSeq
        <3> QED BY <3>1, <3>2
    <2> QED BY <2>7
<1> QED BY <1>3, <1>5, <1>6

\* The names on the stack spell what the scopes around spell.
LEMMA EntriesSpell ==
    ASSUME NEW s, IsSeq(s), \A r \in SomeOf(s) : IsSeq(r.name)
    PROVE  Spelling(Entries(s)) = Spelling(s)
<1> DEFINE names == [j \in DOMAIN s |-> s[j].name]
           all == [i \in DOMAIN Entries(s) |-> Entries(s)[i].name]
<1>1. Len(s) \in Nat /\ DOMAIN s = 1 .. Len(s)
    BY ConcatAt
<1>2. IsSeq(names) /\ DOMAIN names = DOMAIN s /\ SomeOf(names) = {names[i] : i \in DOMAIN s}
    <2>1. names = [j \in DOMAIN s |-> names[j]]
        OBVIOUS
    <2> HIDE DEF names
    <2> QED BY <2>1, MapOf
<1>3. SeqOfSeqs(names)
    <2>1. \A i \in DOMAIN s : IsSeq(names[i])
        BY DEF SomeOf
    <2> HIDE DEF names
    <2> QED BY <1>2, <2>1 DEF SeqOfSeqs
<1>4. all = Ahead(<< >>, names)
    <2> DEFINE first == [id |-> File, name |-> NoText]
               g == [i \in DOMAIN s |-> Entry(s[i])]
               w == Ahead(<< >>, names)
    <2>1. Entries(s) = Ahead(first, g) /\ first.name = << >>
        BY DEF Entries, Ahead, FileScope, NoText
    <2>2. \A i \in DOMAIN s : g[i].name = s[i].name /\ names[i] = s[i].name
        BY DEF Entry
    <2>3. IsSeq(g) /\ DOMAIN g = DOMAIN s
        <3>1. g = [i \in DOMAIN s |-> g[i]]
            OBVIOUS
        <3> HIDE DEF g
        <3> QED BY <3>1, MapOf
    <2>4. Len(g) = Len(s) /\ Len(names) = Len(s)
        <3> HIDE DEF g, names
        <3> QED BY <1>1, <1>2, <2>3, LenOf
    <2> HIDE DEF first, g, names
    <2>5. /\ DOMAIN Entries(s) = 1 .. (Len(s) + 1) /\ Entries(s)[1].name = << >>
          /\ \A i \in 1 .. Len(s) : Entries(s)[i + 1].name = s[i].name
        <3> DEFINE e == Ahead(first, g)
        <3>1. /\ DOMAIN e = 1 .. (Len(s) + 1) /\ e[1] = first
              /\ \A i \in 1 .. Len(s) : e[i + 1] = g[i]
            BY <2>3, <2>4, AheadIs
        <3> HIDE DEF e
        <3> QED BY <1>1, <2>1, <2>2, <3>1 DEF e
    <2>6. /\ IsSeq(w) /\ DOMAIN w = 1 .. (Len(s) + 1) /\ w[1] = << >>
          /\ \A i \in 1 .. Len(s) : w[i + 1] = s[i].name
        BY <1>1, <1>2, <2>2, <2>4, AheadIs
    <2> HIDE DEF w
    <2>7. ASSUME NEW i \in 1 .. (Len(s) + 1) PROVE Entries(s)[i].name = w[i]
        <3>1. CASE i = 1
            BY <3>1, <2>5, <2>6
        <3>2. CASE i # 1
            <4>1. i - 1 \in 1 .. Len(s) /\ i = (i - 1) + 1
                BY <3>2, <1>1
            <4> QED BY <4>1, <2>5, <2>6
        <3> QED BY <3>1, <3>2
    <2>8. w = [i \in 1 .. (Len(s) + 1) |-> w[i]]
        BY <2>6, SeqIs DEF IsSeq
    <2>9. all = [i \in 1 .. (Len(s) + 1) |-> w[i]]
        BY <2>5, <2>7
    <2> QED BY <2>8, <2>9 DEF w
<1>5. FlattenSeq(Ahead(<< >>, names)) = FlattenSeq(names)
    <2> HIDE DEF names
    <2> QED BY <1>3, FlattenOfFirst DEF Ahead
<1> QED BY <1>4, <1>5 DEF Spelling

-----------------------------------------------------------------------------
(* A step of the walk                                                      *)
\* A file that is still to be begun has nothing yet.
Begins == {"start", "file"}
Begun(ns, es, ss, ag, st) ==
    \A i \in DOMAIN ag : ag[i].do \in Begins =>
        /\ i = 1 /\ ns = << >> /\ es = << >> /\ ss = << >> /\ st = FileScope
        /\ \A j \in DOMAIN ag : ag[j].do \notin Visits
Walks(t, lang, ns, es, ss, ag, st) ==
    /\ Apart(t, ag, Spent(ns, ss)) /\ Fits(t, lang, ns, ag, st)
    /\ Placed(t, lang, ns, es) /\ Given(t, lang, ns, ss)
    /\ Named(ns) /\ Begun(ns, es, ss, ag, st)
\* The walk is about to do something.
AtWork(t, lang, ns, es, ss, ag, st) ==
    /\ IsTree(t) /\ IsSeq(ns) /\ EdgesIn(es, IdsOf(ns)) /\ IsSeq(ss) /\ IsSeq(ag) /\ IsSeq(st)
    /\ ag # << >> /\ Walks(t, lang, ns, es, ss, ag, st)

\* What a call finds on the stack: the scopes around its node.
LEMMA TopIsScope ==
    ASSUME NEW t, NEW lang, NEW ns, NEW es, NEW ss, NEW ag, NEW st,
           AtWork(t, lang, ns, es, ss, ag, st), ag[1].do \in Visits, NEW n, n = ag[1].at
    PROVE  /\ 1 \in DOMAIN ag /\ n \in DOMAIN t /\ Under(t, n) \cap Spent(ns, ss) = {}
           /\ \A a \in Under(t, n) : Closed(ns, a)
           /\ st = Chain(t, lang, ns, n) /\ st[Len(st)].id = ScopeIn(t, lang, ns, n)
           /\ \A x : Deeper(st, x) = ChainBelow(t, lang, ns, n, x)
           /\ Spelling(st) = Spelling(AroundIn(t, lang, ns, n))
<1> DEFINE scopes == AroundIn(t, lang, ns, n)
<1>1. /\ IsTree(t) /\ IsSeq(ns) /\ IsSeq(ag) /\ ag # << >> /\ Named(ns)
      /\ Apart(t, ag, Spent(ns, ss)) /\ Fits(t, lang, ns, ag, st)
    BY DEF AtWork, Walks
<1>2. 1 \in DOMAIN ag
    BY <1>1, HeadAndTail
<1>3. n \in DOMAIN t /\ Under(t, n) \cap Spent(ns, ss) = {}
    BY <1>1, <1>2 DEF Apart
<1>4. ASSUME NEW a \in Under(t, n) PROVE Closed(ns, a)
    <2>1. ASSUME NEW r \in SomeOf(ns), r.id.at = a PROVE r.id.kind \notin ScopeKinds
        <3>1. r.id.kind = "namespace"
            BY <1>3, <2>1, SpentIs
        <3> QED BY <3>1 DEF ScopeKinds, ClassLike
    <2> QED BY <2>1 DEF Closed
<1>5. st = Entries(scopes)
    <2>1. PICK lv : FitsOn(t, lang, ns, ag, st, lv)
        BY <1>1 DEF Fits
    <2>2. lv[1] = st /\ lv[1] = Chain(t, lang, ns, n)
        BY <2>1, <1>2 DEF FitsOn, Levels
    <2> QED BY <2>2 DEF Chain
<1>6. IsSeq(scopes) /\ SomeOf(scopes) \subseteq SomeOf(ns)
    BY <1>1, <1>3, AroundIs
<1>7. /\ Len(Entries(scopes)) = Len(scopes) + 1
      /\ Entries(scopes)[Len(scopes) + 1].id = (IF scopes = << >> THEN File ELSE Reverse(scopes)[1].id)
      /\ \A x : Entries(Append(scopes, x)) = Append(Entries(scopes), Entry(x))
    <2> HIDE DEF scopes
    <2> QED BY <1>6, EntriesAre
<1>8. st[Len(st)].id = ScopeIn(t, lang, ns, n)
    BY <1>5, <1>7 DEF ScopeIn
<1>9. Spelling(st) = Spelling(scopes)
    <2>1. \A r \in SomeOf(scopes) : IsSeq(r.name)
        BY <1>1, <1>6 DEF Named
    <2> HIDE DEF scopes
    <2>2. Spelling(Entries(scopes)) = Spelling(scopes)
        BY <1>6, <2>1, EntriesSpell
    <2> QED BY <1>5, <2>2
<1>10. \A x : Deeper(st, x) = ChainBelow(t, lang, ns, n, x)
    BY <1>5, <1>7 DEF Deeper, ChainBelow
<1> QED BY <1>2, <1>3, <1>4, <1>5, <1>8, <1>9, <1>10 DEF Chain

\* The nodes of P are made definitions and calls of, and nothing else is.
SpendsOnly(P, nr, sr) ==
    /\ \A r \in SomeOf(nr) : r.id.at \in P
    /\ \A s \in SomeOf(sr) : s.ask.ask = "call" => s.at \in P
\* What a handler that is at n leaves to be done.
Carries(pre) == \A i \in DOMAIN pre : pre[i].do \notin Begins

LEMMA WalksMoves ==
    ASSUME NEW t, NEW lang, NEW ns, NEW es, NEW ss, NEW ag, NEW st,
           AtWork(t, lang, ns, es, ss, ag, st), ag[1].do \in Visits, NEW n, n = ag[1].at,
           NEW nr, IsSeq(nr), Local(t, n, nr),
           NEW er, IsSeq(er), \A e \in SomeOf(er) : e[2].at \in Under(t, n),
           \A r \in SomeOf(nr) : PlacedIn(t, lang, ns \o nr, er, r),
           NEW sr, IsSeq(sr), Given(t, lang, ns \o nr, sr),
           NEW P, P \subseteq Under(t, n), SpendsOnly(P, nr, sr),
           NEW pre, IsSeq(pre), Tasks(t, n, P, pre), Carries(pre),
           NEW later, NEW lp, Levels(lp, pre, later), lp[Len(pre) + 1] = st,
           \A i \in DOMAIN pre : pre[i].do \in Visits => lp[i] = Chain(t, lang, ns \o nr, pre[i].at)
    PROVE  Walks(t, lang, ns \o nr, es \o er, ss \o sr, Pushed(pre, ag), later)
<1> DEFINE all == ns \o nr
<1>1. /\ IsTree(t) /\ IsSeq(ns) /\ IsSeq(ag) /\ ag # << >> /\ Named(ns) /\ IsSeq(ss)
      /\ EdgesIn(es, IdsOf(ns)) /\ Begun(ns, es, ss, ag, st)
      /\ Apart(t, ag, Spent(ns, ss)) /\ Fits(t, lang, ns, ag, st)
      /\ Placed(t, lang, ns, es) /\ Given(t, lang, ns, ss)
    BY DEF AtWork, Walks
<1>2. 1 \in DOMAIN ag /\ n \in DOMAIN t /\ Under(t, n) \cap Spent(ns, ss) = {}
    BY TopIsScope
<1>3. Placed(t, lang, all, es \o er)
    BY <1>1, <1>2, PlacedMoves
<1>4. Given(t, lang, all, ss \o sr)
    BY <1>1, <1>2, GivenMoves
<1>5. Named(all)
    BY <1>1, ConcatIs DEF Named, Local
<1>6. Spent(all, ss \o sr) \subseteq Spent(ns, ss) \cup P
    <2>1. SomeOf(all) = SomeOf(ns) \cup SomeOf(nr) /\ SomeOf(ss \o sr) = SomeOf(ss) \cup SomeOf(sr)
        BY <1>1, ConcatIs
    <2> HIDE DEF all
    <2> QED BY <2>1 DEF Spent, SpendsOnly
<1>7. Apart(t, Pushed(pre, ag), Spent(all, ss \o sr))
    <2> DEFINE spent == Spent(ns, ss)
               more == Spent(all, ss \o sr)
    <2>1. more \subseteq spent \cup P /\ Apart(t, ag, spent)
        BY <1>1, <1>6
    <2> HIDE DEF spent, more
    <2>2. Apart(t, Pushed(pre, ag), more)
        BY <1>1, <2>1, ApartMoves
    <2> QED BY <2>2 DEF more
<1>8. Fits(t, lang, all, Pushed(pre, ag), later)
    <2>1. After(ag[1], st) = st
        BY DEF After, Visits
    <2>2. ASSUME NEW i \in DOMAIN ag, i # 1, ag[i].do \in Visits
          PROVE  Chain(t, lang, all, ag[i].at) = Chain(t, lang, ns, ag[i].at)
        <3> DEFINE c == ag[i].at
        <3>1. c \in DOMAIN t /\ c \notin Under(t, n)
            <4>1. c \in DOMAIN t /\ Under(t, c) \cap Under(t, n) = {}
                BY <1>1, <1>2, <2>2 DEF Apart
            <4> QED BY <4>1 DEF Under
        <3> HIDE DEF c
        <3>2. Chain(t, lang, ns \o nr, c) = Chain(t, lang, ns, c)
            <4>1. IsTree(t) /\ IsSeq(ns)
                BY <1>1
            <4>2. \A b \in DOMAIN t : b \notin Under(t, n) =>
                     Chain(t, lang, ns \o nr, b) = Chain(t, lang, ns, b)
                <5> HIDE <1>1
                <5> QED BY <4>1, Elsewhere
            <4> QED BY <3>1, <4>2
        <3> QED BY <3>2 DEF c
    <2>3. /\ \A i \in DOMAIN pre : pre[i].do \in Visits => lp[i] = Chain(t, lang, all, pre[i].at)
          /\ \A i \in DOMAIN ag : i # 1 /\ ag[i].do \in Visits =>
                 Chain(t, lang, all, ag[i].at) = Chain(t, lang, ns, ag[i].at)
        BY <2>2
    <2> HIDE DEF all
    <2> QED BY <1>1, <2>1, <2>3, FitsMoves
<1>9. Begun(all, es \o er, ss \o sr, Pushed(pre, ag), later)
    <2>1. \A i \in DOMAIN ag : ag[i].do \notin Begins
        BY <1>1, <1>2 DEF Begun
    <2> DEFINE new == Pushed(pre, ag)
    <2>2. ASSUME NEW i \in DOMAIN new PROVE new[i].do \notin Begins
        <3>1. CASE i \in DOMAIN pre
            <4>1. new[i] = pre[i]
                BY <3>1, <1>1, AgendaAt
            <4> QED BY <3>1, <4>1 DEF Carries
        <3>2. CASE i \notin DOMAIN pre
            <4>1. Was(pre, i) \in DOMAIN ag /\ new[i] = ag[Was(pre, i)]
                BY <3>2, <1>1, AgendaAt
            <4> QED BY <4>1, <2>1
        <3> QED BY <3>1, <3>2
    <2> HIDE DEF new
    <2> QED BY <2>2 DEF Begun, new
<1> QED BY <1>3, <1>4, <1>5, <1>7, <1>8, <1>9 DEF Walks

-----------------------------------------------------------------------------
(* The two ways in which a call goes on: in the same scope, or in its own  *)
NoLeave(pre) == \A i \in DOMAIN pre : pre[i].do # "leave"

LEMMA Stays ==
    ASSUME NEW t, NEW lang, NEW ns, NEW es, NEW ss, NEW ag, NEW st,
           AtWork(t, lang, ns, es, ss, ag, st), ag[1].do \in Visits, NEW n, n = ag[1].at,
           NEW nr, IsSeq(nr), Local(t, n, nr),
           \A r \in SomeOf(nr) : r.id.kind \notin ScopeKinds,
           NEW er, IsSeq(er), \A e \in SomeOf(er) : e[2].at \in Under(t, n),
           \A r \in SomeOf(nr) :
               /\ OneEdge(er, <<st[Len(st)].id, r.id>>)
               /\ r.id.qn = Spelling(st) \o r.name,
           NEW sr, IsSeq(sr),
           \A s \in SomeOf(sr) : s.ask.ask = "call" => s.from = st[Len(st)].id,
           NEW P, P \subseteq Under(t, n), SpendsOnly(P, nr, sr),
           NEW pre, IsSeq(pre), Tasks(t, n, P, pre), Carries(pre), NoLeave(pre)
    PROVE  Walks(t, lang, ns \o nr, es \o er, ss \o sr, Pushed(pre, ag), st)
<1> DEFINE all == ns \o nr
           top == st[Len(st)].id
           around == AroundIn(t, lang, ns, n)
<1>1. /\ n \in DOMAIN t /\ \A a \in Under(t, n) : Closed(ns, a)
      /\ st = Chain(t, lang, ns, n) /\ top = ScopeIn(t, lang, ns, n)
      /\ Spelling(st) = Spelling(around)
    BY TopIsScope
<1>2. IsTree(t) /\ IsSeq(ns)
    BY DEF AtWork
<1>3. IsSeq(all) /\ SomeOf(all) = SomeOf(ns) \cup SomeOf(nr)
    BY <1>2, ConcatIs
<1>4. \A a \in Under(t, n) : Closed(all, a)
    BY <1>1, <1>3 DEF Closed
<1>5. AroundIn(t, lang, all, n) = around
    BY <1>1, <1>2, AroundGrows DEF Local
<1>6. ASSUME NEW d \in Under(t, n)
      PROVE  /\ d \in DOMAIN t /\ AroundIn(t, lang, all, d) = around
             /\ ScopeIn(t, lang, all, d) = top /\ Chain(t, lang, all, d) = st
    <2>1. AroundIn(t, lang, all, d) = AroundIn(t, lang, all, n)
        <3> HIDE DEF all
        <3> QED BY <1>1, <1>2, <1>3, <1>4, AroundWithin
    <2>2. d \in DOMAIN t
        BY <1>1, <1>2, BelowIs
    <2>3. AroundIn(t, lang, all, d) = AroundIn(t, lang, ns, n)
        BY <2>1, <1>5
    <2> HIDE DEF all
    <2>4. ScopeIn(t, lang, all, d) = ScopeIn(t, lang, ns, n) /\ Chain(t, lang, all, d) = Chain(t, lang, ns, n)
        BY <2>3 DEF ScopeIn, Chain
    <2> QED BY <2>2, <2>3, <2>4, <1>1
<1>7. ASSUME NEW r \in SomeOf(nr) PROVE PlacedIn(t, lang, all, er, r)
    <2>1. r.id.at \in Under(t, n) /\ r.id.kind # "method"
        BY DEF Local, ScopeKinds
    <2> DEFINE d == r.id.at
    <2>2. /\ d \in DOMAIN t /\ AroundIn(t, lang, all, d) = around
          /\ ScopeIn(t, lang, all, d) = top
        <3>1. d \in Under(t, n)
            BY <2>1
        <3> HIDE DEF d, all, top, around
        <3> QED BY <3>1, <1>6
    <2>3. r.id.qn = Spelling(around) \o r.name
        BY <1>1
    <2>4. r.id.qn = Spelt(t, lang, around, r)
        BY <2>1, <2>3 DEF Spelt
    <2> QED BY <2>2, <2>4 DEF PlacedIn
<1>8. Given(t, lang, all, sr)
    <2>1. ASSUME NEW s \in SomeOf(sr), s.ask.ask = "call"
          PROVE  s.at \in DOMAIN t /\ s.from = ScopeIn(t, lang, all, s.at)
        <3> DEFINE d == s.at
        <3>1. d \in Under(t, n) /\ s.from = top
            BY <2>1 DEF SpendsOnly
        <3>2. d \in DOMAIN t /\ ScopeIn(t, lang, all, d) = top
            <4> HIDE DEF d, all, top
            <4> QED BY <3>1, <1>6
        <3> QED BY <3>1, <3>2
    <2> HIDE DEF all
    <2> QED BY <2>1 DEF Given
<1> DEFINE lp == [i \in 1 .. (Len(pre) + 1) |-> st]
<1>9. Len(pre) \in Nat /\ DOMAIN pre = 1 .. Len(pre)
    BY ConcatAt
<1>10. Levels(lp, pre, st) /\ lp[Len(pre) + 1] = st
    <2>1. \A i \in 1 .. (Len(pre) + 1) : lp[i] = st
        OBVIOUS
    <2>2. /\ 1 \in 1 .. (Len(pre) + 1) /\ Len(pre) + 1 \in 1 .. (Len(pre) + 1)
          /\ \A i \in 1 .. Len(pre) : i \in 1 .. (Len(pre) + 1) /\ i + 1 \in 1 .. (Len(pre) + 1)
        BY <1>9
    <2> HIDE DEF lp
    <2> QED BY <2>1, <2>2, <1>9 DEF Levels, After, NoLeave
<1>11. ASSUME NEW i \in DOMAIN pre, pre[i].do \in Visits
       PROVE  lp[i] = Chain(t, lang, all, pre[i].at)
    <2> DEFINE d == pre[i].at
    <2>1. d \in Under(t, n)
        <3>1. d \in DOMAIN t /\ Under(t, d) \subseteq Under(t, n)
            BY <1>11 DEF Tasks
        <3> QED BY <3>1 DEF Under
    <2>2. Chain(t, lang, all, d) = st
        <3> HIDE DEF d, all
        <3> QED BY <2>1, <1>6
    <2>3. lp[i] = st
        BY <1>9
    <2> QED BY <2>2, <2>3
<1> HIDE DEF lp
<1> QED BY <1>7, <1>8, <1>10, <1>11, WalksMoves

\* The calls of a scope, and then the one that leaves it.
Scoped(kids) == kids \o <<Leave>>
LEMMA ScopedIs ==
    ASSUME NEW kids, IsSeq(kids)
    PROVE  /\ IsSeq(Scoped(kids)) /\ Len(kids) \in Nat /\ DOMAIN kids = 1 .. Len(kids)
           /\ Len(Scoped(kids)) = Len(kids) + 1 /\ DOMAIN Scoped(kids) = 1 .. (Len(kids) + 1)
           /\ Scoped(kids)[Len(kids) + 1] = Leave
           /\ \A i \in 1 .. Len(kids) : Scoped(kids)[i] = kids[i]
<1> DEFINE x == Leave
<1>1. Scoped(kids) = Append(kids, x)
    BY AppendIs DEF Scoped
<1>2. /\ IsSeq(Append(kids, x)) /\ Len(Append(kids, x)) = Len(kids) + 1
      /\ Append(kids, x)[Len(kids) + 1] = x
      /\ \A i \in 1 .. Len(kids) : Append(kids, x)[i] = kids[i]
    <2> HIDE DEF x
    <2> QED BY AppendIs, ZenonT(30)
<1> HIDE DEF x
<1> QED BY <1>1, <1>2, ConcatAt DEF x

LEMMA ScopedTasks ==
    ASSUME NEW t, NEW n, NEW P, NEW kids, IsSeq(kids), Tasks(t, n, P, kids), Carries(kids)
    PROVE  Tasks(t, n, P, Scoped(kids)) /\ Carries(Scoped(kids))
<1> DEFINE pre == Scoped(kids)
<1>1. /\ DOMAIN kids = 1 .. Len(kids) /\ DOMAIN pre = 1 .. (Len(kids) + 1) /\ Len(kids) \in Nat
      /\ pre[Len(kids) + 1] = Leave /\ \A i \in 1 .. Len(kids) : pre[i] = kids[i]
    BY ScopedIs
<1>2. Leave.do \notin Visits /\ Leave.do \notin Begins
    BY DEF Leave, Call, Visits, Begins
<1> HIDE DEF pre
<1>3. \A i \in DOMAIN pre : (i \in DOMAIN kids /\ pre[i] = kids[i]) \/ pre[i] = Leave
    BY <1>1
<1>4. Carries(pre)
    BY <1>2, <1>3 DEF Carries
<1>5. \A i \in DOMAIN pre : pre[i].do \in Visits => i \in DOMAIN kids /\ pre[i] = kids[i]
    BY <1>2, <1>3
<1>6. Tasks(t, n, P, pre)
    BY <1>5 DEF Tasks
<1> QED BY <1>4, <1>6 DEF pre

LEMMA FrontOf == ASSUME NEW st, IsSeq(st), NEW x PROVE Front(Deeper(st, x)) = st
<1> DEFINE S == SomeOf(st) \cup {Entry(x)}
           later == Deeper(st, x)
<1>1. st \in Seq(S) /\ Entry(x) \in S
    BY Widen
<1> HIDE DEF S
<1>2. Len(later) = Len(st) + 1 /\ Len(st) \in Nat
    BY <1>1, AppendProperties, LenProperties DEF Deeper
<1>3. SubSeq(later, 1, Len(st)) = st
    BY <1>1, SMTT(20) DEF Deeper
<1> QED BY <1>2, <1>3 DEF Front

LEMMA EntersWalks ==
    ASSUME NEW t, NEW lang, NEW ns, NEW es, NEW ss, NEW ag, NEW st,
           AtWork(t, lang, ns, es, ss, ag, st), ag[1].do \in Visits, NEW n, n = ag[1].at,
           NEW x, x.id.at = n, x.id.kind \in ScopeKinds, IsSeq(x.name),
           x.id.qn = Spelt(t, lang, AroundIn(t, lang, ns, n), x),
           NEW er, IsSeq(er), \A e \in SomeOf(er) : e[2].at = n,
           OneEdge(er, <<st[Len(st)].id, x.id>>),
           NEW sr, IsSeq(sr), \A s \in SomeOf(sr) : s.ask.ask # "call",
           NEW kids, IsSeq(kids), Tasks(t, n, {n}, kids), Carries(kids), NoLeave(kids)
    PROVE  Walks(t, lang, Append(ns, x), es \o er, ss \o sr, Pushed(Scoped(kids), ag),
                 Deeper(st, x))
<1> DEFINE nr == <<x>>
           all == ns \o nr
           top == st[Len(st)].id
           around == AroundIn(t, lang, ns, n)
           later == Deeper(st, x)
           pre == Scoped(kids)
           l == Len(kids)
<1>1. /\ n \in DOMAIN t /\ \A a \in Under(t, n) : Closed(ns, a)
      /\ st = Chain(t, lang, ns, n) /\ top = ScopeIn(t, lang, ns, n)
      /\ later = ChainBelow(t, lang, ns, n, x)
    BY TopIsScope
<1>2. IsTree(t) /\ IsSeq(ns) /\ IsSeq(st)
    BY DEF AtWork
<1>3. IsSeq(nr) /\ SomeOf(nr) = {x} /\ Append(ns, x) = all
    BY <1>2, OneIs, AppendIs
<1>4. n \in Under(t, n) /\ n \notin Below(t, n) /\ n \notin Above(t, n)
    <2>1. n \in Nat /\ n \notin 1 .. n - 1
        BY <1>1, <1>2, NodesAre
    <2>2. n \notin Above(t, n)
        BY <2>1, <1>1, <1>2, AncestorsBefore
    <2> QED BY <2>2, <1>2, BelowIs DEF Under
<1>5. x.id.kind # "namespace"
    BY DEF ScopeKinds, ClassLike
<1>6. Local(t, n, nr)
    <2> HIDE DEF nr
    <2> QED BY <1>3, <1>4, <1>5 DEF Local
<1>7. AroundIn(t, lang, all, n) = around
    <2> HIDE DEF nr
    <2> QED BY <1>1, <1>2, <1>3, <1>4, <1>5, AroundGrows
<1>8. ASSUME NEW d \in Below(t, n) PROVE Chain(t, lang, all, d) = later
    <2> HIDE DEF all, later
    <2> QED BY <1>1, <1>2, <1>3, <1>5, AroundBelow
<1>9. \A r \in SomeOf(nr) : PlacedIn(t, lang, all, er, r)
    <2>1. ScopeIn(t, lang, all, n) = top
        <3> HIDE DEF all
        <3> QED BY <1>1, <1>7 DEF ScopeIn
    <2>2. PlacedIn(t, lang, all, er, x)
        <3> HIDE DEF all
        <3> QED BY <1>1, <1>7, <2>1 DEF PlacedIn
    <2> HIDE DEF all, nr
    <2> QED BY <2>2, <1>3
<1>10. Given(t, lang, all, sr) /\ SpendsOnly({n}, nr, sr)
    <2> HIDE DEF all, nr
    <2> QED BY <1>3 DEF Given, SpendsOnly
<1>11. /\ IsSeq(pre) /\ Tasks(t, n, {n}, pre) /\ Carries(pre)
       /\ Len(pre) = l + 1 /\ DOMAIN pre = 1 .. (l + 1) /\ l \in Nat /\ DOMAIN kids = 1 .. l
       /\ pre[l + 1] = Leave /\ \A i \in 1 .. l : pre[i] = kids[i]
    BY ScopedIs, ScopedTasks
<1> DEFINE lp == [i \in 1 .. (l + 2) |-> IF i <= l + 1 THEN later ELSE st]
<1>12. Front(later) = st
    BY <1>2, FrontOf
<1>13. /\ lp[l + 2] = st /\ \A i \in 1 .. (l + 1) : lp[i] = later
    BY <1>11
<1>14. Levels(lp, pre, later) /\ lp[Len(pre) + 1] = st
    <2> HIDE DEF lp, later, pre, l
    <2>1. lp[1] = later /\ Len(pre) + 1 = l + 2 /\ (l + 1) + 1 = l + 2
        BY <1>11, <1>13
    <2>2. ASSUME NEW i \in 1 .. l PROVE lp[i + 1] = After(pre[i], lp[i])
        <3>1. pre[i].do # "leave" /\ i \in 1 .. (l + 1) /\ i + 1 \in 1 .. (l + 1)
            BY <1>11 DEF NoLeave
        <3> QED BY <3>1, <1>13 DEF After
    <2>3. lp[(l + 1) + 1] = After(pre[l + 1], lp[l + 1])
        <3>1. Leave.do = "leave" /\ l + 1 \in 1 .. (l + 1)
            BY <1>11 DEF Leave, Call
        <3> QED BY <3>1, <2>1, <1>11, <1>12, <1>13 DEF After
    <2>4. \A i \in DOMAIN pre : i \in 1 .. l \/ i = l + 1
        BY <1>11
    <2>5. \A i \in DOMAIN pre : lp[i + 1] = After(pre[i], lp[i])
        BY <2>2, <2>3, <2>4
    <2> QED BY <2>1, <2>5, <1>13 DEF Levels
<1>15. ASSUME NEW i \in DOMAIN pre, pre[i].do \in Visits
       PROVE  lp[i] = Chain(t, lang, all, pre[i].at)
    <2> DEFINE d == pre[i].at
    <2>1. d \in Below(t, n)
        <3>1. d \in DOMAIN t /\ Under(t, d) \subseteq Under(t, n) \ {n}
            <4> HIDE DEF pre
            <4> QED BY <1>11, <1>15 DEF Tasks
        <3> QED BY <3>1 DEF Under
    <2>2. Chain(t, lang, all, d) = later
        <3> HIDE DEF d, all, later
        <3> QED BY <2>1, <1>8
    <2>3. i \in 1 .. (l + 1)
        BY <1>11
    <2> HIDE DEF lp, later, all
    <2> QED BY <2>2, <2>3, <1>13
<1>16. {n} \subseteq Under(t, n) /\ \A e \in SomeOf(er) : e[2].at \in Under(t, n)
    BY <1>4
<1>17. Walks(t, lang, all, es \o er, ss \o sr, Pushed(pre, ag), later)
    <2> DEFINE P == {n}
    <2>1. P \subseteq Under(t, n) /\ SpendsOnly(P, nr, sr) /\ Tasks(t, n, P, pre)
        BY <1>10, <1>11, <1>16
    <2>2. IsSeq(nr) /\ IsSeq(pre) /\ Carries(pre) /\ Given(t, lang, all, sr)
        BY <1>3, <1>10, <1>11
    <2>3. /\ \A e \in SomeOf(er) : e[2].at \in Under(t, n)
          /\ \A i \in DOMAIN pre : pre[i].do \in Visits => lp[i] = Chain(t, lang, all, pre[i].at)
        BY <1>15, <1>16
    <2> HIDE DEF lp, later, pre, nr, P
    <2> QED BY <2>1, <2>2, <2>3, <1>6, <1>9, <1>14, WalksMoves
<1> QED BY <1>3, <1>17

-----------------------------------------------------------------------------
(* What is read off a tree: nodes of it, or none, and their texts          *)
Node(t, n) == n = NoNode \/ n \in DOMAIN t

LEMMA TextIs ==
    ASSUME NEW t, IsTree(t), NEW n, Node(t, n) PROVE IsSeq(Text(t, n)) /\ Text(t, n) \in Seq(STRING)
<1>1. CASE n = NoNode
    <2>1. << >> \in Seq(STRING)
        OBVIOUS
    <2>2. Text(t, n) \in Seq(STRING)
        BY <1>1, <2>1 DEF Text, NoText
    <2> QED BY <2>2, SeqIs
<1>2. CASE n # NoNode
    <2>1. n \in DOMAIN t
        BY <1>2 DEF Node
    <2>2. t[n].text \in Seq(STRING)
        <3> DEFINE S == [kind : STRING, field : STRING, text : Seq(STRING), above : Seq(Nat)]
        <3>1. t \in Seq(S)
            BY DEF IsTree
        <3>2. t[n] \in S
            <4> HIDE DEF S
            <4> QED BY <2>1, <3>1
        <3> QED BY <3>2
    <2>3. Text(t, n) \in Seq(STRING)
        BY <1>2, <2>2 DEF Text
    <2> QED BY <2>3, SeqIs
<1> QED BY <1>1, <1>2

LEMMA FirstIs ==
    ASSUME NEW t, NEW s, IsSeq(s), SomeOf(s) \subseteq DOMAIN t
    PROVE  /\ Node(t, FirstOf(s)) /\ Node(t, LastOf(s))
           /\ FirstOf(s) # NoNode => FirstOf(s) \in SomeOf(s)
<1>1. CASE s = << >>
    BY <1>1 DEF FirstOf, LastOf, Node
<1>2. CASE s # << >>
    <2>1. Len(s) \in DOMAIN s /\ 1 \in DOMAIN s /\ Head(s) = s[1]
        BY <1>2, HeadAndTail, ConcatAt, EmptySeqIs
    <2>2. s[Len(s)] \in SomeOf(s) /\ s[1] \in SomeOf(s)
        BY <2>1 DEF SomeOf
    <2> QED BY <1>2, <2>1, <2>2 DEF FirstOf, LastOf, Node
<1> QED BY <1>1, <1>2

LEMMA NodesPicked ==
    ASSUME NEW t, IsTree(t), NEW n
    PROVE  /\ \A f : Node(t, Field(t, n, f))
           /\ \A kinds : Node(t, ChildOf(t, n, kinds))
           /\ \A f : Field(t, n, f) # NoNode => Field(t, n, f) \in Inside(t, n)
           /\ \A kinds : ChildOf(t, n, kinds) # NoNode => ChildOf(t, n, kinds) \in Inside(t, n)
           /\ Node(t, FirstOf(Children(t, n)))
<1>1. Inside(t, n) \subseteq DOMAIN t /\ NamedInside(t, n) \subseteq Inside(t, n)
    BY DEF Inside, NamedInside
<1>2. SomeOf(Children(t, n)) \subseteq DOMAIN t /\ IsSeq(Children(t, n))
    BY <1>1, ChildrenOf
<1> QED BY <1>1, <1>2, PickedIs, FirstIs DEF Node

LEMMA ThoseNodes ==
    ASSUME NEW t, IsTree(t), NEW s, IsSeq(s), SomeOf(s) \subseteq DOMAIN t
    PROVE  \A S : /\ Node(t, FirstOf(Those(s, S))) /\ Node(t, LastOf(Those(s, S)))
                  /\ IsSeq(Those(s, S)) /\ SomeOf(Those(s, S)) \subseteq DOMAIN t
<1> TAKE S
<1> DEFINE q == Those(s, S)
<1>1. IsSeq(q) /\ SomeOf(q) \subseteq DOMAIN t
    BY ThoseAre
<1> HIDE DEF q
<1>2. Node(t, FirstOf(q)) /\ Node(t, LastOf(q))
    BY <1>1, FirstIs
<1> QED BY <1>1, <1>2 DEF q

LEMMA NameIs ==
    ASSUME NEW t, IsTree(t), NEW n, NEW lang PROVE IsSeq(ExtractName(t, n, lang))
<1> DEFINE kids == Children(t, n)
           some(kinds) == OfKinds(t, kids, kinds)
           params == FirstOf(some({"function_value_parameters"}))
           ids == some({"identifier"})
           ahead == Those(ids, {c \in DOMAIN t : params = NoNode \/ c < params})
           names == some({"identifier", "type_identifier", "simple_identifier", "constant", "name"})
           spelt == Those(names, {c \in DOMAIN t : Text(t, c) # NoText})
<1>1. IsSeq(kids) /\ SomeOf(kids) \subseteq DOMAIN t
    BY ChildrenOf DEF Inside
<1>2. \A kinds : IsSeq(some(kinds)) /\ SomeOf(some(kinds)) \subseteq DOMAIN t
    <2> HIDE DEF kids
    <2> QED BY <1>1, ThoseNodes DEF OfKinds
<1>3. Node(t, FirstOf(ids)) /\ Node(t, LastOf(ahead)) /\ Node(t, FirstOf(spelt))
    <2>1. IsSeq(ids) /\ SomeOf(ids) \subseteq DOMAIN t /\ IsSeq(names) /\ SomeOf(names) \subseteq DOMAIN t
        BY <1>2
    <2> HIDE DEF ids, names, params
    <2> QED BY <2>1, ThoseNodes, FirstIs
<1>4. IsSeq(Text(t, FirstOf(ids))) /\ IsSeq(Text(t, LastOf(ahead))) /\ IsSeq(Text(t, FirstOf(spelt)))
    <2> HIDE DEF ids, ahead, spelt
    <2> QED BY <1>3, TextIs
<1>5. IsSeq(Text(t, Field(t, n, "name")))
    BY NodesPicked, TextIs
<1>6. IsSeq(KotlinName(t, n)) /\ IsSeq(NoText)
    BY <1>4, EmptyIs DEF KotlinName, NoText
<1> QED BY <1>4, <1>5, <1>6 DEF ExtractName

LEMMA BodyIs ==
    ASSUME NEW t, IsTree(t), NEW n, NEW lang
    PROVE  BodyOf(t, n, lang) = NoNode \/ BodyOf(t, n, lang) \in Inside(t, n)
<1> DEFINE own == IF lang = "kotlin"
                  THEN ChildOf(t, n, {"function_body", "class_body", "enum_class_body"}) ELSE NoNode
           field == Field(t, n, Packs[lang].bodyField)
<1>1. (own = NoNode \/ own \in Inside(t, n)) /\ (field = NoNode \/ field \in Inside(t, n))
    BY NodesPicked
<1>2. BodyOf(t, n, lang) = Else(own, field)
    BY DEF BodyOf
<1> HIDE DEF own, field
<1> QED BY <1>1, <1>2 DEF Else

LEMMA ImportedIs ==
    ASSUME NEW t, IsTree(t), NEW n, NEW lang \in DOMAIN Packs PROVE IsSeq(ImportOf(t, n, lang))
<1>1. \A m, kinds : IsSeq(Text(t, ChildOf(t, m, kinds)))
    BY NodesPicked, TextIs
<1>2. IsSeq(Text(t, Field(t, n, "path"))) /\ IsSeq(NoText)
    BY NodesPicked, TextIs, EmptyIs DEF NoText
<1>3. IsSeq(RubyRequire(t, n))
    BY <1>1, <1>2 DEF RubyRequire
<1>4. lang \in {"ruby", "php", "kotlin", "swift", "scala", "csharp"}
    BY DEF Packs
<1> QED BY <1>1, <1>2, <1>3, <1>4 DEF ImportOf

-----------------------------------------------------------------------------
(* Definitions that are made one of each node                              *)
OneId(s) == \A i, j \in DOMAIN s : s[i].id = s[j].id => i = j
One(s) == \E x : s = <<x>>
\* Of one node at the most, and no two of the same.
Single(f) ==
    /\ \A i \in DOMAIN f : f[i] = << >> \/ One(f[i])
    /\ \A i, j \in DOMAIN f : i # j =>
           \A x \in SomeOf(f[i]), y \in SomeOf(f[j]) : x.id # y.id
LEMMA SingleFlat ==
    ASSUME NEW f, SeqOfSeqs(f), Single(f) PROVE OneId(FlattenSeq(f))
<1> DEFINE S == SomeOf(f)
           good == {u \in Seq(S) : Single(u) => OneId(FlattenSeq(u))}
<1>0. \A q \in S : IsSeq(q)
    BY DEF SeqOfSeqs
<1>1. << >> \in good
    <2>1. OneId(FlattenSeq(<< >>)) 
        BY FlattenOfNone DEF OneId
    <2> QED BY <2>1
<1>2. ASSUME NEW u \in Seq(S), NEW x \in S, u \in good PROVE Append(u, x) \in good
    <2> DEFINE v == Append(u, x)
               l == Len(u)
    <2>1. IsSeq(u) /\ SeqOfSeqs(u) /\ v \in Seq(S) /\ IsSeq(x)
        <3>1. IsSeq(u) /\ SomeOf(u) \subseteq S
            BY SeqIs
        <3> HIDE DEF S
        <3> QED BY <3>1, <1>0 DEF SeqOfSeqs
    <2> SUFFICES ASSUME Single(v) PROVE OneId(FlattenSeq(v))
        BY <2>1
    <2>2. /\ l \in Nat /\ DOMAIN u = 1 .. l /\ DOMAIN v = 1 .. (l + 1) /\ v[l + 1] = x
          /\ \A i \in 1 .. l : v[i] = u[i]
        <3>1. IsSeq(v) /\ Len(v) = l + 1 /\ v[l + 1] = x /\ \A i \in 1 .. l : v[i] = u[i]
            BY <2>1, AppendIs, ZenonT(30)
        <3> HIDE DEF v, l
        <3>2. l \in Nat /\ DOMAIN u = 1 .. l /\ DOMAIN v = 1 .. (l + 1)
            BY <2>1, <3>1, ConcatAt DEF l
        <3> QED BY <3>1, <3>2
    <2>3. Single(u)
        <3> HIDE DEF v, l
        <3> QED BY <2>2 DEF Single
    <2> DEFINE g == FlattenSeq(u)
    <2>4. OneId(g)
        BY <1>2, <2>3
    <2>5. IsSeq(g) /\ \A y \in SomeOf(g) : \E q \in SomeOf(u) : y \in SomeOf(q)
        BY <2>1, FlattenIs DEF SeqOfSeqs
    <2>6. FlattenSeq(v) = g \o x
        BY <2>1, FlattenOfAppend
    <2>7. CASE x = << >>
        <3>1. g \o x = g
            <4> HIDE DEF g
            <4> QED BY <2>5, <2>7, AndNone
        <3> QED BY <3>1, <2>4, <2>6
    <2>8. CASE x # << >>
        <3>0. One(x)
            <4>1. l + 1 \in DOMAIN v /\ v[l + 1] = x
                BY <2>2
            <4>2. v[l + 1] = << >> \/ One(v[l + 1])
                <5> HIDE DEF v, l
                <5> QED BY <4>1 DEF Single
            <4> QED BY <4>1, <4>2, <2>8
        <3>1. PICK y : x = <<y>>
            BY <3>0 DEF One
        <3> DEFINE w == Append(g, y)
                   k == Len(g)
        <3>2. FlattenSeq(v) = w
            <4> HIDE DEF g
            <4> QED BY <2>5, <2>6, <3>1, AppendIs
        <3>3. /\ IsSeq(w) /\ Len(w) = k + 1 /\ w[k + 1] = y /\ \A i \in 1 .. k : w[i] = g[i]
              /\ k \in Nat /\ DOMAIN g = 1 .. k
            <4> HIDE DEF g
            <4>1. /\ IsSeq(w) /\ Len(w) = k + 1 /\ w[k + 1] = y /\ \A i \in 1 .. k : w[i] = g[i]
                BY <2>5, AppendIs, ZenonT(30)
            <4>2. k \in Nat /\ DOMAIN g = 1 .. k
                BY <2>5, ConcatAt
            <4> QED BY <4>1, <4>2
        <3>4. DOMAIN w = 1 .. (k + 1)
            <4> HIDE DEF w, k
            <4> QED BY <3>3, ConcatAt
        <3>5. \A i \in 1 .. k : g[i].id # y.id
            <4> SUFFICES ASSUME NEW i \in 1 .. k PROVE g[i].id # y.id
                OBVIOUS
            <4>1. g[i] \in SomeOf(g)
                <5> HIDE DEF g, k
                <5> QED BY <3>3 DEF SomeOf
            <4>2. PICK q \in SomeOf(u) : g[i] \in SomeOf(q)
                <5> HIDE DEF g
                <5> QED BY <2>5, <4>1
            <4>3. PICK j \in DOMAIN u : q = u[j]
                BY DEF SomeOf
            <4>4. y \in SomeOf(v[l + 1])
                <5> HIDE DEF v, l
                <5> QED BY <2>2, <3>1, OneIs
            <4>5. j \in DOMAIN v /\ l + 1 \in DOMAIN v /\ j # l + 1 /\ g[i] \in SomeOf(v[j])
                <5> HIDE DEF v, l, g
                <5> QED BY <2>2, <4>2, <4>3
            <4> HIDE DEF v, l, g
            <4> QED BY <4>4, <4>5 DEF Single
        <3>6. OneId(w)
            <4> HIDE DEF g, w, k
            <4>1. \A i \in DOMAIN w : i = k + 1 \/ i \in 1 .. k
                BY <3>3, <3>4
            <4>2. \A i, j \in 1 .. k : w[i].id = w[j].id => i = j
                BY <3>3, <2>4 DEF OneId
            <4>3. \A i \in 1 .. k : w[i].id # w[k + 1].id
                BY <3>3, <3>5
            <4> QED BY <4>1, <4>2, <4>3 DEF OneId
        <3> QED BY <3>2, <3>6
    <2> QED BY <2>7, <2>8
<1>3. Seq(S) \subseteq good
    <2> HIDE DEF S, good
    <2> QED BY <1>1, <1>2, SeqInduct
<1>4. f \in Seq(S)
    BY DEF SeqOfSeqs, IsSeq
<1> QED BY <1>3, <1>4

-----------------------------------------------------------------------------
(* What a descent leaves to be done                                        *)
Kids(t, n, kids) == IsSeq(kids) /\ Tasks(t, n, {n}, kids) /\ Carries(kids) /\ NoLeave(kids)

LEMMA NoKids == ASSUME NEW t, NEW n, NEW P PROVE Kids(t, n, << >>) /\ Tasks(t, n, P, << >>)
BY EmptyIs DEF Kids, Tasks, Carries, NoLeave

LEMMA AppendAt ==
    ASSUME NEW s, IsSeq(s), NEW x
    PROVE  /\ IsSeq(Append(s, x)) /\ Len(s) \in Nat /\ DOMAIN s = 1 .. Len(s)
           /\ DOMAIN Append(s, x) = 1 .. (Len(s) + 1) /\ Append(s, x)[Len(s) + 1] = x
           /\ \A i \in 1 .. Len(s) : Append(s, x)[i] = s[i]
<1>1. /\ IsSeq(Append(s, x)) /\ Len(Append(s, x)) = Len(s) + 1 /\ Append(s, x)[Len(s) + 1] = x
      /\ \A i \in 1 .. Len(s) : Append(s, x)[i] = s[i]
    BY AppendIs, ZenonT(30)
<1>2. Len(s) \in Nat /\ DOMAIN s = 1 .. Len(s)
    BY ConcatAt
<1> DEFINE v == Append(s, x)
<1>3. IsSeq(v) /\ Len(v) = Len(s) + 1
    BY <1>1
<1> HIDE DEF v
<1>4. DOMAIN v = 1 .. (Len(s) + 1)
    BY <1>3, ConcatAt
<1> QED BY <1>1, <1>2, <1>4 DEF v

\* The calls of the children of a node, whatever each of them is, and the way back.
Ascending(f, x) == f \o <<Call("ascend", x)>>
LEMMA KidsAre ==
    ASSUME NEW t, IsTree(t), NEW n, NEW m \in Under(t, n), NEW x,
           NEW f, f = [i \in DOMAIN Children(t, m) |-> f[i]],
           \A i \in DOMAIN Children(t, m) : f[i].at = Children(t, m)[i] /\ f[i].do \in Visits
    PROVE  Kids(t, n, Ascending(f, x))
<1> DEFINE s == Children(t, m)
           up == Call("ascend", x)
           pre == Ascending(f, x)
           l == Len(f)
<1>1. IsSeq(s) /\ Distinct(s) /\ SomeOf(s) \subseteq Inside(t, m)
    BY ChildrenOf
<1>2. IsSeq(f) /\ DOMAIN f = DOMAIN s
    <2>1. f = [i \in DOMAIN s |-> f[i]] /\ IsSeq(s)
        BY <1>1
    <2> HIDE DEF s
    <2> QED BY <2>1, MapOf
<1>3. pre = Append(f, up)
    <2>1. pre = f \o <<up>>
        BY DEF Ascending
    <2> HIDE DEF up
    <2> QED BY <1>2, <2>1, AppendIs
<1>4. up.do = "ascend" /\ up.do \notin Visits \cup Begins \cup {"leave"}
    BY DEF Call, Visits, Begins
<1>5. /\ IsSeq(pre) /\ l \in Nat /\ DOMAIN f = 1 .. l /\ DOMAIN pre = 1 .. (l + 1)
      /\ pre[l + 1] = up /\ \A i \in 1 .. l : pre[i] = f[i]
    <2> HIDE DEF up, pre
    <2>1. /\ IsSeq(Append(f, up)) /\ Len(f) \in Nat /\ DOMAIN f = 1 .. Len(f)
          /\ DOMAIN Append(f, up) = 1 .. (Len(f) + 1) /\ Append(f, up)[Len(f) + 1] = up
          /\ \A i \in 1 .. Len(f) : Append(f, up)[i] = f[i]
        <3> HIDE <1>3, <1>4
        <3> QED BY <1>2, AppendAt
    <2> QED BY <1>3, <2>1
<1>6. ASSUME NEW i \in DOMAIN f
      PROVE  /\ f[i].at \in Inside(t, m) /\ f[i].at \in DOMAIN t /\ f[i].do \in Visits
             /\ Under(t, f[i].at) \subseteq Under(t, n) \ {n}
    <2> DEFINE c == f[i].at
    <2>1. c \in Inside(t, m) /\ f[i].do \in Visits
        BY <1>1, <1>2 DEF SomeOf
    <2> HIDE DEF c
    <2>2. c \in DOMAIN t /\ Under(t, c) \subseteq Below(t, m)
        BY <2>1, InsideIs
    <2>3. Below(t, m) \subseteq Below(t, n)
        BY UnderUnder
    <2>4. n \notin Below(t, n)
        <3> SUFFICES ASSUME n \in Below(t, n) PROVE FALSE
            OBVIOUS
        <3>1. n \in DOMAIN t /\ n < n
            BY BelowIs
        <3>2. n \in Nat
            BY <3>1, NodesAre
        <3> QED BY <3>1, <3>2
    <2> QED BY <2>1, <2>2, <2>3, <2>4 DEF c, Under
<1>7. ASSUME NEW i \in DOMAIN f, NEW j \in DOMAIN f, j # i
      PROVE  Under(t, f[i].at) \cap Under(t, f[j].at) = {}
    <2>1. f[i].at # f[j].at
        BY <1>1, <1>2, <1>7 DEF Distinct
    <2> DEFINE c == f[i].at
               d == f[j].at
    <2>2. c \in Inside(t, m) /\ d \in Inside(t, m) /\ c # d
        BY <1>6, <2>1
    <2> HIDE DEF c, d
    <2>3. Under(t, c) \cap Under(t, d) = {}
        BY <2>2, SiblingsApart
    <2> QED BY <2>3 DEF c, d
<1> HIDE DEF pre, up, l
<1>8. \A i \in DOMAIN pre : (i \in DOMAIN f /\ pre[i] = f[i]) \/ pre[i] = up
    BY <1>5
<1>9. \A i \in DOMAIN pre : pre[i].do \in Visits => i \in DOMAIN f /\ pre[i] = f[i]
    BY <1>4, <1>8
<1>10. Tasks(t, n, {n}, pre)
    BY <1>6, <1>7, <1>9 DEF Tasks
<1>11. Carries(pre) /\ NoLeave(pre)
    <2>1. \A i \in DOMAIN f : f[i].do \notin Begins /\ f[i].do # "leave"
        BY <1>6 DEF Visits, Begins
    <2> QED BY <1>4, <1>8, <2>1 DEF Carries, NoLeave
<1> QED BY <1>5, <1>10, <1>11 DEF Kids, pre

LEMMA DescendsWalks ==
    ASSUME IsTree(Tree), IsSeq(agenda), agenda # << >>, NEW n, NEW m, m = NoNode \/ m \in Under(Tree, n),
           NEW do \in {"visit", "body"}
    PROVE  /\ Descends(do, m, << >>) =>
                 \E kids : Kids(Tree, n, kids) /\ agenda' = Pushed(kids, agenda)
           /\ Descends(do, m, <<Leave>>) =>
                 \E kids : Kids(Tree, n, kids) /\ agenda' = Pushed(Scoped(kids), agenda)
<1> DEFINE s == Children(Tree, m)
           f == [i \in DOMAIN s |-> Call(do, s[i])]
           kids == Ascending(f, m)
           none == << >>
<1>1. ASSUME NEW after, IsSeq(after), Descends(do, m, after)
      PROVE  \/ agenda' = after \o Tail(agenda)
             \/ Kids(Tree, n, kids) /\ agenda' = (kids \o after) \o Tail(agenda)
    <2>1. CASE m = NoNode \/ depth >= MaxDepth
        BY <1>1, <2>1 DEF Descends
    <2>2. CASE ~(m = NoNode \/ depth >= MaxDepth)
        <3>1. agenda' = (kids \o after) \o Tail(agenda)
            BY <1>1, <2>2 DEF Descends, Calls, Ascending
        <3>2. f = [i \in DOMAIN s |-> f[i]] /\ \A i \in DOMAIN s : f[i].at = s[i] /\ f[i].do \in Visits
            BY DEF Call, Visits
        <3>3. m \in Under(Tree, n)
            BY <2>2
        <3> HIDE DEF f
        <3>4. Kids(Tree, n, kids)
            BY <3>2, <3>3, KidsAre
        <3> QED BY <3>1, <3>4
    <2> QED BY <2>1, <2>2
<1> HIDE DEF kids
<1>2. Kids(Tree, n, none) /\ IsSeq(none) /\ none \o none = none /\ none \o <<Leave>> = <<Leave>>
    <2>1. IsSeq(<<Leave>>) /\ IsSeq(none)
        BY OneIs, EmptyIs
    <2>2. <<Leave>> \o << >> = <<Leave>> /\ << >> \o <<Leave>> = <<Leave>> /\ none \o << >> = none
        <3> DEFINE one == <<Leave>>
        <3>1. IsSeq(one)
            BY <2>1
        <3> HIDE DEF one
        <3>2. << >> \o one = one
            BY <3>1, AndNone
        <3>3. none \o << >> = none
            BY <2>1, AndNone
        <3>4. one \o << >> = one
            BY <3>1, AndNone
        <3> QED BY <3>2, <3>3, <3>4 DEF one
    <2> QED BY <2>1, <2>2, NoKids
<1>3. Kids(Tree, n, kids) => kids \o none = kids
    BY AndNone DEF Kids
<1>4. ASSUME Descends(do, m, none)
      PROVE  \E k : Kids(Tree, n, k) /\ agenda' = Pushed(k, agenda)
    <2>1. \/ agenda' = none \o Tail(agenda)
          \/ Kids(Tree, n, kids) /\ agenda' = (kids \o none) \o Tail(agenda)
        BY <1>1, <1>2, <1>4
    <2> HIDE DEF none
    <2>2. \/ agenda' = Pushed(none, agenda)
          \/ Kids(Tree, n, kids) /\ agenda' = Pushed(kids, agenda)
        BY <1>3, <2>1 DEF Pushed
    <2> QED BY <1>2, <2>2
<1>5. ASSUME Descends(do, m, <<Leave>>)
      PROVE  \E k : Kids(Tree, n, k) /\ agenda' = Pushed(Scoped(k), agenda)
    <2>1. \/ agenda' = <<Leave>> \o Tail(agenda)
          \/ Kids(Tree, n, kids) /\ agenda' = (kids \o <<Leave>>) \o Tail(agenda)
        BY <1>1, <1>5, OneIs
    <2>2. \/ agenda' = Pushed(Scoped(none), agenda)
          \/ Kids(Tree, n, kids) /\ agenda' = Pushed(Scoped(kids), agenda)
        <3> HIDE DEF none
        <3> QED BY <1>2, <2>1 DEF Pushed, Scoped
    <2> HIDE DEF none
    <2> QED BY <1>2, <2>2
<1> QED BY <1>4, <1>5

-----------------------------------------------------------------------------
(* Definitions without a scope of their own                                *)
Leafy(t, n, st, nr) ==
    /\ IsSeq(nr) /\ Local(t, n, nr) /\ OneId(nr)
    /\ \A r \in SomeOf(nr) : r.id.kind \notin ScopeKinds /\ r.id.qn = Spelling(st) \o r.name

LEMMA NoneLeafy == ASSUME NEW t, NEW n, NEW st PROVE Leafy(t, n, st, << >>)
BY EmptyIs DEF Leafy, Local, OneId

\* What Some makes of a name and a node.
LEMMA SomeMakes ==
    ASSUME NEW kind, NEW name, NEW c, NEW props
    PROVE  /\ Some(kind, name, c, props) = << >> \/ One(Some(kind, name, c, props))
           /\ IsSeq(Some(kind, name, c, props))
           /\ \A r \in SomeOf(Some(kind, name, c, props)) :
                  /\ r.id.kind = kind /\ r.id.at = c /\ r.name = name
                  /\ r.id.qn = Spelling(stack) \o name
<1> DEFINE rec == Record(NewId(kind, name, c), name, props)
           new == Some(kind, name, c, props)
<1>1. /\ rec.id.kind = kind /\ rec.id.at = c /\ rec.name = name
      /\ rec.id.qn = Spelling(stack) \o name
    BY DEF Record, NewId, QualifiedName, Spelling
<1>2. new = << >> \/ new = <<rec>>
    BY DEF Some
<1> HIDE DEF rec, new
<1>3. new = << >> \/ One(new)
    BY <1>2 DEF One
<1>4. IsSeq(new) /\ \A r \in SomeOf(new) : r = rec
    BY <1>2, OneIs, EmptyIs
<1> QED BY <1>1, <1>3, <1>4 DEF new

LEMMA SomeLeafy ==
    ASSUME NEW t, NEW n, NEW kind, kind \notin ScopeKinds \cup {"namespace"},
           NEW name, IsSeq(name), NEW c \in Under(t, n), NEW props
    PROVE  Leafy(t, n, stack, Some(kind, name, c, props))
<1> DEFINE new == Some(kind, name, c, props)
<1>1. /\ new = << >> \/ One(new)
      /\ IsSeq(new)
      /\ \A r \in SomeOf(new) :
             /\ r.id.kind = kind /\ r.id.at = c /\ r.name = name
             /\ r.id.qn = Spelling(stack) \o name
    BY SomeMakes
<1> HIDE DEF new
<1>2. OneId(new)
    <2>1. CASE new = << >>
        BY <2>1 DEF OneId
    <2>2. CASE One(new)
        <3>1. PICK x : new = <<x>>
            BY <2>2 DEF One
        <3>2. DOMAIN new = {1}
            BY <3>1
        <3> QED BY <3>2 DEF OneId
    <2> QED BY <1>1, <2>1, <2>2
<1>3. Local(t, n, new)
    BY <1>1 DEF Local
<1>4. \A r \in SomeOf(new) : r.id.kind \notin ScopeKinds /\ r.id.qn = Spelling(stack) \o r.name
    BY <1>1
<1> QED BY <1>1, <1>2, <1>3, <1>4 DEF Leafy, new

\* One of each of the nodes of s, if it has a name.
Makes(f, kind, s, props) ==
    /\ f = [i \in DOMAIN s |-> f[i]]
    /\ \A i \in DOMAIN s : \E name : IsSeq(name) /\ f[i] = Some(kind, name, s[i], props)

LEMMA EachLeafy ==
    ASSUME NEW t, NEW n, NEW kind, kind \notin ScopeKinds \cup {"namespace"},
           NEW s, IsSeq(s), Distinct(s), SomeOf(s) \subseteq Under(t, n), NEW props,
           NEW f, Makes(f, kind, s, props)
    PROVE  Leafy(t, n, stack, FlattenSeq(f))
<1> DEFINE new == FlattenSeq(f)
<1>1. ASSUME NEW i \in DOMAIN s
      PROVE  /\ f[i] = << >> \/ One(f[i])
             /\ IsSeq(f[i])
             /\ \A r \in SomeOf(f[i]) :
                    /\ r.id.kind = kind /\ r.id.at = s[i] /\ IsSeq(r.name)
                    /\ r.id.qn = Spelling(stack) \o r.name
    <2>1. PICK name : IsSeq(name) /\ f[i] = Some(kind, name, s[i], props)
        BY DEF Makes
    <2> DEFINE one == Some(kind, name, s[i], props)
    <2>2. /\ one = << >> \/ One(one)
          /\ IsSeq(one)
          /\ \A r \in SomeOf(one) :
                 /\ r.id.kind = kind /\ r.id.at = s[i] /\ r.name = name
                 /\ r.id.qn = Spelling(stack) \o name
        BY SomeMakes
    <2> HIDE DEF one
    <2> QED BY <2>1, <2>2 DEF one
<1>2. DOMAIN f = DOMAIN s /\ SeqOfSeqs(f)
    <2>1. IsSeq(f) /\ DOMAIN f = DOMAIN s /\ SomeOf(f) = {f[i] : i \in DOMAIN s}
        BY MapOf DEF Makes
    <2> QED BY <1>1, <2>1 DEF SeqOfSeqs
<1>3. Single(f)
    <2>1. \A i \in DOMAIN f : f[i] = << >> \/ One(f[i])
        BY <1>1, <1>2
    <2>2. ASSUME NEW i \in DOMAIN f, NEW j \in DOMAIN f, i # j,
                 NEW x \in SomeOf(f[i]), NEW y \in SomeOf(f[j])
          PROVE  x.id # y.id
        <3>1. x.id.at = s[i] /\ y.id.at = s[j]
            BY <1>1, <1>2
        <3>2. s[i] # s[j]
            BY <1>2, <2>2 DEF Distinct
        <3> QED BY <3>1, <3>2
    <2> QED BY <2>1, <2>2 DEF Single
<1>4. OneId(new)
    BY <1>2, <1>3, SingleFlat
<1>5. IsSeq(new) /\ \A r \in SomeOf(new) : \E i \in DOMAIN s : r \in SomeOf(f[i])
    <2>1. \A i \in DOMAIN s : IsSeq(f[i])
        BY <1>1
    <2>2. f = [i \in DOMAIN s |-> f[i]]
        BY DEF Makes
    <2> QED BY <2>1, <2>2, FlatMapOf
<1> HIDE DEF new
<1>6. ASSUME NEW r \in SomeOf(new)
      PROVE  /\ r.id.kind = kind /\ r.id.at \in SomeOf(s) /\ IsSeq(r.name)
             /\ r.id.qn = Spelling(stack) \o r.name
    <2>1. PICK i \in DOMAIN s : r \in SomeOf(f[i])
        BY <1>5
    <2>2. s[i] \in SomeOf(s)
        BY DEF SomeOf
    <2> QED BY <1>1, <2>1, <2>2
<1>7. Local(t, n, new)
    BY <1>6 DEF Local
<1>8. \A r \in SomeOf(new) : r.id.kind \notin ScopeKinds /\ r.id.qn = Spelling(stack) \o r.name
    BY <1>6
<1> QED BY <1>4, <1>5, <1>7, <1>8 DEF Leafy, new

-----------------------------------------------------------------------------
(* The steps of the walk                                                   *)
\* The strengthened properties, while a file is walked.
WInv == TierThree => Walks(Tree, Lang, nodes, edges, sites, agenda, stack)

LEMMA AtWorkIs ==
    ASSUME IInv, WInv, NEW do \in Visits, Doing(do)
    PROVE  /\ TierThree /\ Lang \in DOMAIN Packs /\ IsTree(Tree)
           /\ AtWork(Tree, Lang, nodes, edges, sites, agenda, stack)
           /\ agenda[1].do = do /\ At = agenda[1].at /\ At \in DOMAIN Tree
           /\ At \in Under(Tree, At)
           /\ IsSeq(agenda) /\ agenda # << >> /\ IsSeq(nodes) /\ IsSeq(edges) /\ IsSeq(sites)
<1>1. TierThree /\ Lang \in DOMAIN Packs /\ agenda # << >>
    BY HeadOfWalk DEF Visits, WalkDos
<1>2. IsTree(Tree)
    BY TreeIs DEF IInv
<1>3. /\ IsSeq(nodes) /\ EdgesIn(edges, IdsOf(nodes)) /\ IsSeq(sites) /\ IsSeq(stack)
      /\ IsSeq(agenda) /\ IsSeq(edges)
    BY DEF IInv, Graph, Plan, Pending, EdgesIn, SitesIn, ScopesIn
<1>4. Head(agenda) = agenda[1]
    BY <1>1, <1>3, HeadAndTail
<1>5. agenda[1].do = do /\ At = agenda[1].at
    BY <1>4 DEF Doing, At
<1>6. AtWork(Tree, Lang, nodes, edges, sites, agenda, stack)
    BY <1>1, <1>2, <1>3 DEF WInv, AtWork
<1>7. At \in DOMAIN Tree
    BY <1>5, <1>6, TopIsScope
<1> QED BY <1>1, <1>2, <1>3, <1>5, <1>6, <1>7 DEF Under

\* The same file is walked on.
LEMMA WalksOn ==
    ASSUME source' = source, Walks(Tree, Lang, nodes', edges', sites', agenda', stack') PROVE WInv'
BY DEF WInv, Tree, Lang

LEMMA StayStep ==
    ASSUME IInv, WInv, NEW do \in Visits, Doing(do), UNCHANGED <<source, stack>>,
           NEW nr, Leafy(Tree, At, stack, nr), Emits(nr),
           NEW sr, IsSeq(sr), sites' = sites \o sr,
           \A s \in SomeOf(sr) : s.ask.ask = "call" => s.from = TopId,
           NEW P, P \subseteq Under(Tree, At), SpendsOnly(P, nr, sr),
           NEW pre, IsSeq(pre), Tasks(Tree, At, P, pre), Carries(pre), NoLeave(pre),
           agenda' = Pushed(pre, agenda)
    PROVE  WInv'
<1> DEFINE er == [i \in DOMAIN nr |-> <<TopId, nr[i].id>>]
<1>1. /\ AtWork(Tree, Lang, nodes, edges, sites, agenda, stack)
      /\ agenda[1].do \in Visits /\ At = agenda[1].at /\ TopId = stack[Len(stack)].id
    BY AtWorkIs DEF TopId
<1>2. nodes' = nodes \o nr /\ edges' = edges \o er
    BY DEF Emits
<1>3. IsSeq(nr) /\ Local(Tree, At, nr) /\ OneId(nr)
      /\ \A r \in SomeOf(nr) : r.id.kind \notin ScopeKinds /\ r.id.qn = Spelling(stack) \o r.name
    BY DEF Leafy
<1>4. er = [i \in DOMAIN nr |-> er[i]] /\ \A i \in DOMAIN nr : er[i] = <<TopId, nr[i].id>>
    OBVIOUS
<1>5. \A r \in SomeOf(nr) : OneEdge(er, <<TopId, r.id>>)
    BY <1>3, OneEdgeEach DEF OneId
<1> HIDE DEF er, TopId, At
<1>6. IsSeq(er) /\ SomeOf(er) = {er[i] : i \in DOMAIN nr}
    BY <1>3, <1>4, MapOf
<1>7. \A e \in SomeOf(er) : e[2].at \in Under(Tree, At)
    <2>1. \A i \in DOMAIN nr : nr[i] \in SomeOf(nr)
        BY DEF SomeOf
    <2>2. \A i \in DOMAIN nr : nr[i].id.at \in Under(Tree, At)
        BY <1>3, <2>1 DEF Local
    <2>3. \A i \in DOMAIN nr : er[i][2] = nr[i].id
        BY <1>4
    <2> QED BY <1>6, <2>2, <2>3
<1>8. \A r \in SomeOf(nr) : OneEdge(er, <<stack[Len(stack)].id, r.id>>) /\ r.id.qn = Spelling(stack) \o r.name
    BY <1>1, <1>3, <1>5
<1>9. \A s \in SomeOf(sr) : s.ask.ask = "call" => s.from = stack[Len(stack)].id
    BY <1>1
<1>10. Walks(Tree, Lang, nodes \o nr, edges \o er, sites \o sr, Pushed(pre, agenda), stack)
    BY <1>1, <1>3, <1>6, <1>7, <1>8, <1>9, Stays
<1> QED BY <1>2, <1>10, WalksOn

LEMMA EnterStep ==
    ASSUME IInv, WInv, NEW do \in Visits, Doing(do), source' = source,
           NEW x, x.id.at = At, x.id.kind \in ScopeKinds, IsSeq(x.name),
           x.id.qn = Spelt(Tree, Lang, AroundIn(Tree, Lang, nodes, At), x),
           nodes' = Append(nodes, x),
           NEW er, IsSeq(er), \A e \in SomeOf(er) : e[2].at = At,
           OneEdge(er, <<TopId, x.id>>), edges' = edges \o er,
           NEW sr, IsSeq(sr), \A s \in SomeOf(sr) : s.ask.ask # "call", sites' = sites \o sr,
           NEW kids, Kids(Tree, At, kids), agenda' = Pushed(Scoped(kids), agenda),
           stack' = Deeper(stack, x)
    PROVE  WInv'
<1>1. /\ AtWork(Tree, Lang, nodes, edges, sites, agenda, stack)
      /\ agenda[1].do \in Visits /\ At = agenda[1].at /\ TopId = stack[Len(stack)].id
    BY AtWorkIs DEF TopId
<1> HIDE DEF TopId, At
<1>2. OneEdge(er, <<stack[Len(stack)].id, x.id>>)
    BY <1>1
<1>3. IsSeq(kids) /\ Tasks(Tree, At, {At}, kids) /\ Carries(kids) /\ NoLeave(kids)
    BY DEF Kids
<1>4. Walks(Tree, Lang, Append(nodes, x), edges \o er, sites \o sr, Pushed(Scoped(kids), agenda),
            Deeper(stack, x))
    BY <1>1, <1>2, <1>3, EntersWalks
<1> QED BY <1>4, WalksOn

LEMMA NothingEmits ==
    ASSUME IsSeq(nodes), IsSeq(edges), EmitsNothing PROVE Emits(<< >>)
<1> DEFINE none == << >>
           f == [i \in DOMAIN none |-> <<TopId, none[i].id>>]
<1>1. f = << >>
    <2>1. DOMAIN f = {}
        OBVIOUS
    <2>2. IsSeq(f)
        <3>1. f = [i \in DOMAIN none |-> f[i]] /\ IsSeq(none)
            BY EmptyIs
        <3> HIDE DEF f
        <3> QED BY <3>1, MapOf
    <2> HIDE DEF f
    <2> QED BY <2>1, <2>2, EmptySeqIs
<1>2. nodes \o << >> = nodes /\ edges \o << >> = edges
    BY AndNone
<1>3. nodes' = nodes /\ edges' = edges
    BY DEF EmitsNothing
<1> HIDE DEF f
<1>4. nodes' = nodes \o none /\ edges' = edges \o f
    BY <1>1, <1>2, <1>3
<1> QED BY <1>4 DEF Emits, f

\* A handler that emits definitions without a scope, if any, and returns.
LEMMA LeafStep ==
    ASSUME IInv, WInv, NEW do \in Visits, Doing(do), NEW new, Leafy(Tree, At, stack, new),
           Emits(new), Returns, UNCHANGED <<source, stack, sites>>
    PROVE  WInv'
<1> DEFINE none == << >>
           P == Under(Tree, At)
<1>1. IsSeq(agenda) /\ IsSeq(sites) /\ agenda # << >>
    BY AtWorkIs
<1>2. IsSeq(none) /\ SomeOf(none) = {} /\ Tasks(Tree, At, P, none) /\ Carries(none) /\ NoLeave(none)
    BY EmptyIs, NoKids DEF Kids
<1>3. sites' = sites \o none /\ agenda' = Pushed(none, agenda)
    BY <1>1, AndNone, HeadAndTail DEF Returns, Pushed
<1>4. SpendsOnly(P, new, none)
    <2>1. \A r \in SomeOf(new) : r.id.at \in P
        BY DEF Leafy, Local
    <2> HIDE DEF P, none
    <2> QED BY <1>2, <2>1 DEF SpendsOnly
<1>5. P \subseteq Under(Tree, At) /\ UNCHANGED <<source, stack>>
    OBVIOUS
<1>6. \A s \in SomeOf(none) : s.ask.ask = "call" => s.from = TopId
    BY <1>2
<1> HIDE DEF none, P
<1> QED BY <1>2, <1>3, <1>4, <1>5, <1>6, StayStep

LEMMA NothingWalks ==
    ASSUME IInv, WInv, NEW do \in Visits, Doing(do), Returns, EmitsNothing,
           UNCHANGED <<source, stack, sites>>
    PROVE  WInv'
<1>1. Emits(<< >>)
    BY NothingEmits, AtWorkIs
<1>2. Leafy(Tree, At, stack, << >>)
    BY NoneLeafy
<1> QED BY <1>1, <1>2, LeafStep

\* One that adds sites of its own node, and the walk goes on below.
LEMMA SitesStep ==
    ASSUME IInv, WInv, NEW do \in Visits, Doing(do), UNCHANGED <<source, stack>>,
           NEW new, Leafy(Tree, At, stack, new), \A r \in SomeOf(new) : r.id.at = At, Emits(new),
           NEW more, IsSeq(more), sites' = sites \o more,
           \A s \in SomeOf(more) : s.ask.ask = "call" => s.from = TopId /\ s.at = At,
           NEW next \in {"visit", "body"}, NEW m, m = NoNode \/ m \in Under(Tree, At),
           Descends(next, m, << >>)
    PROVE  WInv'
<1>1. IsSeq(agenda) /\ agenda # << >> /\ IsTree(Tree) /\ At \in Under(Tree, At)
    BY AtWorkIs
<1>2. PICK kids : Kids(Tree, At, kids) /\ agenda' = Pushed(kids, agenda)
    BY <1>1, DescendsWalks
<1> DEFINE P == {At}
<1>3. P \subseteq Under(Tree, At) /\ SpendsOnly(P, new, more) /\ Tasks(Tree, At, P, kids)
    BY <1>1, <1>2 DEF SpendsOnly, Kids
<1>4. IsSeq(kids) /\ Carries(kids) /\ NoLeave(kids)
    BY <1>2 DEF Kids
<1>5. \A s \in SomeOf(more) : s.ask.ask = "call" => s.from = TopId
    OBVIOUS
<1> HIDE DEF P, At, TopId
<1> QED BY <1>2, <1>3, <1>4, <1>5, StayStep

\* A definition that opens a scope.
LEMMA PlainStep ==
    ASSUME IInv, WInv, NEW do \in Visits, Doing(do), source' = source,
           NEW kind \in ScopeKinds \ {"method"}, NEW name, IsSeq(name), NEW props,
           Emits(<<Record(NewId(kind, name, At), name, props)>>), Enters(NewId(kind, name, At), name),
           NEW more, IsSeq(more), \A s \in SomeOf(more) : s.ask.ask # "call", sites' = sites \o more,
           NEW kids, Kids(Tree, At, kids), agenda' = Pushed(Scoped(kids), agenda)
    PROVE  WInv'
<1> DEFINE id == NewId(kind, name, At)
           x == Record(id, name, props)
           nr == <<x>>
           er == [i \in DOMAIN nr |-> <<TopId, nr[i].id>>]
           e == <<TopId, id>>
<1>1. /\ x.id = id /\ x.name = name /\ id.at = At /\ id.kind = kind
      /\ id.qn = Spelling(stack) \o name
    BY DEF Record, NewId, QualifiedName, Spelling
<1>2. AtWork(Tree, Lang, nodes, edges, sites, agenda, stack) /\ agenda[1].do \in Visits
      /\ At = agenda[1].at /\ IsSeq(nodes)
    BY AtWorkIs
<1>3. Spelling(stack) = Spelling(AroundIn(Tree, Lang, nodes, At))
    <2> HIDE DEF At
    <2> QED BY <1>2, TopIsScope
<1>4. id.qn = Spelt(Tree, Lang, AroundIn(Tree, Lang, nodes, At), x)
    <2>1. x.id.kind # "method"
        BY <1>1
    <2> HIDE DEF x, id, At
    <2> QED BY <1>1, <1>3, <2>1 DEF Spelt
<1>5. nodes' = Append(nodes, x)
    <2>1. nodes' = nodes \o <<x>>
        BY DEF Emits
    <2> HIDE DEF x
    <2> QED BY <1>2, <2>1, AppendIs
<1>6. er = <<e>> /\ edges' = edges \o er
    <2>1. DOMAIN er = {1} /\ er[1] = e /\ er = [i \in {1} |-> e]
        <3>1. DOMAIN nr = {1} /\ nr[1] = x
            OBVIOUS
        <3> HIDE DEF nr, x, id
        <3> QED BY <1>1, <3>1
    <2>2. <<e>> = [i \in {1} |-> e]
        <3> HIDE DEF e
        <3>1. DOMAIN <<e>> = {1} /\ <<e>>[1] = e /\ <<e>> = [i \in DOMAIN <<e>> |-> <<e>>[i]]
            OBVIOUS
        <3> QED BY <3>1
    <2>3. edges' = edges \o er
        BY DEF Emits
    <2> HIDE DEF er, e
    <2> QED BY <2>1, <2>2, <2>3
<1> HIDE DEF er
<1>7. IsSeq(er) /\ OneEdge(er, e) /\ \A d \in SomeOf(er) : d[2].at = At
    <2>1. e[2].at = At
        BY <1>1
    <2> HIDE DEF e
    <2> QED BY <1>6, <2>1, OneIs, OneEdgeOfOne
<1>8. stack' = Deeper(stack, x)
    BY <1>1 DEF Enters, Deeper, Entry
<1>9. OneEdge(er, <<TopId, x.id>>) /\ x.id.kind \in ScopeKinds /\ IsSeq(x.name) /\ x.id.at = At
      /\ x.id.qn = Spelt(Tree, Lang, AroundIn(Tree, Lang, nodes, At), x)
    BY <1>1, <1>4, <1>7
<1> HIDE DEF x, e, id, At, TopId, nr
<1> QED BY <1>5, <1>6, <1>7, <1>8, <1>9, EnterStep

-----------------------------------------------------------------------------
(* The handlers                                                            *)

\* Nodes inside a node, in their order, each once.
LEMMA Listed ==
    ASSUME NEW t, IsTree(t), NEW n, NEW m \in Under(t, n), NEW kinds
    PROVE  /\ IsSeq(OfKinds(t, Children(t, m), kinds)) /\ Distinct(OfKinds(t, Children(t, m), kinds))
           /\ SomeOf(OfKinds(t, Children(t, m), kinds)) \subseteq Under(t, n)
<1>1. /\ IsSeq(OfKinds(t, Children(t, m), kinds)) /\ Distinct(OfKinds(t, Children(t, m), kinds))
      /\ SomeOf(OfKinds(t, Children(t, m), kinds)) \subseteq Inside(t, m)
    BY ChildrenOf
<1>2. Inside(t, m) \subseteq Below(t, m)
    BY InsideIs
<1>3. Below(t, m) \subseteq Below(t, n)
    BY UnderUnder
<1> QED BY <1>1, <1>2, <1>3 DEF Under

LEMMA ExtractEnumMembersWalks == ASSUME IInv, WInv, ExtractEnumMembers PROVE WInv'
<1> DEFINE named == Field(Tree, At, "name")
           kids  == OfKinds(Tree, Children(Tree, At), {"simple_identifier", "identifier",
                                                       "property_identifier", "constant"})
           text(c) == Text(Tree, c)
           s == IF kids = << >> THEN <<At>> ELSE kids
           f == [i \in DOMAIN s |-> Some("enum_member", text(s[i]), s[i], Bare)]
           new == IF named # NoNode THEN Some("enum_member", Text(Tree, named), At, Bare)
                  ELSE FlattenSeq(f)
<1>1. Doing("member") /\ "member" \in Visits
    BY DEF ExtractEnumMembers, Visits
<1>2. Emits(new) /\ Returns /\ UNCHANGED <<source, stack, sites>>
    BY DEF ExtractEnumMembers, Each
<1>3. IsTree(Tree) /\ At \in DOMAIN Tree /\ At \in Under(Tree, At)
    BY <1>1, AtWorkIs
<1>4. IsSeq(s) /\ Distinct(s) /\ SomeOf(s) \subseteq Under(Tree, At) \cap DOMAIN Tree
    <2>1. IsSeq(kids) /\ Distinct(kids) /\ SomeOf(kids) \subseteq Under(Tree, At) \cap DOMAIN Tree
        <3>1. IsSeq(kids) /\ Distinct(kids) /\ SomeOf(kids) \subseteq Under(Tree, At)
            <4> HIDE DEF At
            <4> QED BY <1>3, Listed
        <3>2. Under(Tree, At) \subseteq DOMAIN Tree
            <4> HIDE DEF At
            <4> QED BY <1>3, BelowIs
        <3> QED BY <3>1, <3>2
    <2>2. IsSeq(<<At>>) /\ SomeOf(<<At>>) = {At} /\ Distinct(<<At>>)
        BY OneIs DEF Distinct
    <2> HIDE DEF kids, At
    <2> QED BY <1>3, <2>1, <2>2
<1> HIDE DEF s
<1>5. f = [i \in DOMAIN s |-> f[i]]
    OBVIOUS
<1>6. \A i \in DOMAIN s : \E name : IsSeq(name) /\ f[i] = Some("enum_member", name, s[i], Bare)
    <2> SUFFICES ASSUME NEW i \in DOMAIN s
                 PROVE  \E name : IsSeq(name) /\ f[i] = Some("enum_member", name, s[i], Bare)
        OBVIOUS
    <2>1. Node(Tree, s[i])
        BY <1>4 DEF SomeOf, Node
    <2>2. IsSeq(text(s[i]))
        BY <1>3, <2>1, TextIs
    <2>3. f[i] = Some("enum_member", text(s[i]), s[i], Bare)
        OBVIOUS
    <2> HIDE DEF f, text
    <2> QED BY <2>2, <2>3
<1> HIDE DEF f
<1>7. Leafy(Tree, At, stack, FlattenSeq(f))
    <2>1. "enum_member" \notin ScopeKinds \cup {"namespace"}
        BY DEF ScopeKinds, ClassLike
    <2>2. Makes(f, "enum_member", s, Bare)
        BY <1>5, <1>6 DEF Makes
    <2> HIDE DEF At
    <2> QED BY <1>4, <2>1, <2>2, EachLeafy
<1>8. Leafy(Tree, At, stack, Some("enum_member", Text(Tree, named), At, Bare))
    <2>1. "enum_member" \notin ScopeKinds \cup {"namespace"}
        BY DEF ScopeKinds, ClassLike
    <2>2. IsSeq(Text(Tree, named))
        BY <1>3, NodesPicked, TextIs
    <2> HIDE DEF At, named
    <2> QED BY <1>3, <2>1, <2>2, SomeLeafy
<1>9. Leafy(Tree, At, stack, new)
    BY <1>7, <1>8
<1> HIDE DEF new
<1> QED BY <1>1, <1>2, <1>9, LeafStep

LEMMA ExtractFieldWalks == ASSUME IInv, WInv, ExtractField PROVE WInv'
<1> DEFINE decl == ChildOf(Tree, At, {"variable_declaration"})
           from == IF Lang = "php" THEN At ELSE Else(decl, At)
           kinds == IF Lang = "php" THEN {"property_element"} ELSE {"variable_declarator"}
           s == OfKinds(Tree, Children(Tree, from), kinds)
           name(d) == IF Lang = "php"
                   THEN Text(Tree, ChildOf(Tree, ChildOf(Tree, d, {"variable_name"}), {"name"}))
                   ELSE Text(Tree, Else(Field(Tree, d, "name"), ChildOf(Tree, d, {"identifier"})))
           docs == IF Lang = "php" THEN << >> ELSE Docstring(At)
           props == [Props(At) EXCEPT !.docs = docs]
           f == [i \in DOMAIN s |-> Some("field", name(s[i]), s[i], props)]
<1>1. Doing("visit") /\ "visit" \in Visits
    BY DEF ExtractField, Visiting, Visits
<1>2. Emits(FlattenSeq(f)) /\ Returns /\ UNCHANGED <<source, stack, sites>>
    <2>1. s = IF Lang = "php" THEN OfKinds(Tree, Children(Tree, At), {"property_element"})
              ELSE OfKinds(Tree, Children(Tree, Else(decl, At)), {"variable_declarator"})
        OBVIOUS
    <2> HIDE DEF s
    <2> QED BY <2>1 DEF ExtractField, Each
<1>3. IsTree(Tree) /\ At \in Under(Tree, At)
    BY <1>1, AtWorkIs
<1>4. from \in Under(Tree, At)
    <2>1. decl # NoNode => decl \in Inside(Tree, At)
        BY <1>3, NodesPicked
    <2>2. Inside(Tree, At) \subseteq Under(Tree, At)
        BY <1>3, InsideIs DEF Under
    <2> HIDE DEF decl, At
    <2> QED BY <1>3, <2>1, <2>2 DEF Else
<1>5. IsSeq(s) /\ Distinct(s) /\ SomeOf(s) \subseteq Under(Tree, At)
    <2> HIDE DEF from, kinds, At
    <2> QED BY <1>3, <1>4, Listed
<1>6. \A d : IsSeq(name(d))
    <2> TAKE d
    <2>1. IsSeq(Text(Tree, ChildOf(Tree, ChildOf(Tree, d, {"variable_name"}), {"name"})))
        BY <1>3, NodesPicked, TextIs
    <2>2. IsSeq(Text(Tree, Field(Tree, d, "name"))) /\ IsSeq(Text(Tree, ChildOf(Tree, d, {"identifier"})))
        BY <1>3, NodesPicked, TextIs
    <2> QED BY <2>1, <2>2 DEF Else
<1> HIDE DEF name, props, s
<1>7. f = [i \in DOMAIN s |-> f[i]]
    OBVIOUS
<1>8. \A i \in DOMAIN s : \E x : IsSeq(x) /\ f[i] = Some("field", x, s[i], props)
    BY <1>6
<1> HIDE DEF f
<1>9. Leafy(Tree, At, stack, FlattenSeq(f))
    <2>1. "field" \notin ScopeKinds \cup {"namespace"}
        BY DEF ScopeKinds, ClassLike
    <2>2. Makes(f, "field", s, props)
        BY <1>7, <1>8 DEF Makes
    <2> HIDE DEF At
    <2> QED BY <1>5, <2>1, <2>2, EachLeafy
<1> QED BY <1>1, <1>2, <1>9, LeafStep

LEMMA PhpConstantsWalks == ASSUME IInv, WInv, PhpConstants PROVE WInv'
<1> DEFINE s == OfKinds(Tree, Children(Tree, At), {"const_element"})
           name(c) == Text(Tree, ChildOf(Tree, c, {"name"}))
           f == [i \in DOMAIN s |-> Some("constant", name(s[i]), s[i], Bare)]
<1>1. Doing("visit") /\ "visit" \in Visits
    BY DEF PhpConstants, Hooked, Visits
<1>2. Emits(FlattenSeq(f)) /\ Returns /\ UNCHANGED <<source, stack, sites>>
    BY DEF PhpConstants, Each
<1>3. IsTree(Tree) /\ At \in Under(Tree, At)
    BY <1>1, AtWorkIs
<1>4. IsSeq(s) /\ Distinct(s) /\ SomeOf(s) \subseteq Under(Tree, At)
    <2> HIDE DEF At
    <2> QED BY <1>3, Listed
<1>5. \A d : IsSeq(name(d))
    BY <1>3, NodesPicked, TextIs
<1> HIDE DEF name, s
<1>6. f = [i \in DOMAIN s |-> f[i]]
    OBVIOUS
<1>7. \A i \in DOMAIN s : \E x : IsSeq(x) /\ f[i] = Some("constant", x, s[i], Bare)
    BY <1>5
<1> HIDE DEF f
<1>8. Leafy(Tree, At, stack, FlattenSeq(f))
    <2>1. "constant" \notin ScopeKinds \cup {"namespace"}
        BY DEF ScopeKinds, ClassLike
    <2>2. Makes(f, "constant", s, Bare)
        BY <1>6, <1>7 DEF Makes
    <2> HIDE DEF At
    <2> QED BY <1>4, <2>1, <2>2, EachLeafy
<1> QED BY <1>1, <1>2, <1>8, LeafStep

LEMMA ScalaCasesWalks == ASSUME IInv, WInv, ScalaCases PROVE WInv'
<1> DEFINE s == OfKinds(Tree, Children(Tree, At), {"simple_enum_case", "full_enum_case"})
           name(c) == Text(Tree, Field(Tree, c, "name"))
           f == [i \in DOMAIN s |-> Some("enum_member", name(s[i]), s[i], Bare)]
<1>1. Doing("visit") /\ "visit" \in Visits
    BY DEF ScalaCases, Hooked, Visits
<1>2. Emits(FlattenSeq(f)) /\ Returns /\ UNCHANGED <<source, stack, sites>>
    BY DEF ScalaCases, Each
<1>3. IsTree(Tree) /\ At \in Under(Tree, At)
    BY <1>1, AtWorkIs
<1>4. IsSeq(s) /\ Distinct(s) /\ SomeOf(s) \subseteq Under(Tree, At)
    <2> HIDE DEF At
    <2> QED BY <1>3, Listed
<1>5. \A d : IsSeq(name(d))
    BY <1>3, NodesPicked, TextIs
<1> HIDE DEF name, s
<1>6. f = [i \in DOMAIN s |-> f[i]]
    OBVIOUS
<1>7. \A i \in DOMAIN s : \E x : IsSeq(x) /\ f[i] = Some("enum_member", x, s[i], Bare)
    BY <1>5
<1> HIDE DEF f
<1>8. Leafy(Tree, At, stack, FlattenSeq(f))
    <2>1. "enum_member" \notin ScopeKinds \cup {"namespace"}
        BY DEF ScopeKinds, ClassLike
    <2>2. Makes(f, "enum_member", s, Bare)
        BY <1>6, <1>7 DEF Makes
    <2> HIDE DEF At
    <2> QED BY <1>4, <2>1, <2>2, EachLeafy
<1> QED BY <1>1, <1>2, <1>8, LeafStep

\* The handlers that emit one definition at the most.
LEMMA LeavesWalk ==
    ASSUME IInv, WInv, ExtractTypeAlias \/ ExtractProperty \/ ExtractVariable \/ ScalaValue
    PROVE  WInv'
<1>1. Doing("visit") /\ "visit" \in Visits
    BY DEF ExtractTypeAlias, ExtractProperty, ExtractVariable, ScalaValue, Visiting, Hooked, Visits
<1>2. Returns /\ UNCHANGED <<source, stack, sites>>
    BY DEF ExtractTypeAlias, ExtractProperty, ExtractVariable, ScalaValue
<1>3. IsTree(Tree) /\ At \in Under(Tree, At)
    BY <1>1, AtWorkIs
<1>4. \A kind \in {"type_alias", "property", "variable", "constant", "field"} : \A name, props :
          IsSeq(name) => Leafy(Tree, At, stack, Some(kind, name, At, props))
    <2>1. \A kind \in {"type_alias", "property", "variable", "constant", "field"} :
              kind \notin ScopeKinds \cup {"namespace"}
        BY DEF ScopeKinds, ClassLike
    <2> HIDE DEF At
    <2> QED BY <1>3, <2>1, SomeLeafy
<1>5. \E new : Leafy(Tree, At, stack, new) /\ Emits(new)
    <2>1. \A n : Node(Tree, n) => IsSeq(Text(Tree, n))
        BY <1>3, TextIs
    <2>2. /\ \A n, f : IsSeq(Text(Tree, Field(Tree, n, f)))
          /\ \A n, kinds : IsSeq(Text(Tree, ChildOf(Tree, n, kinds)))
        BY <1>3, <2>1, NodesPicked
    <2>3. CASE ExtractTypeAlias
        <3>1. IsSeq(Name)
            BY <1>3, NameIs DEF Name
        <3>2. Emits(Some("type_alias", Name, At, [Bare EXCEPT !.docs = Docstring(At)]))
            BY <2>3 DEF ExtractTypeAlias
        <3> QED BY <1>4, <3>1, <3>2
    <2>4. CASE ExtractProperty
        <3>1. Emits(Some("property", Text(Tree, Field(Tree, At, "name")), At, Props(At)))
            BY <2>4 DEF ExtractProperty
        <3> QED BY <1>4, <2>2, <3>1
    <2>5. CASE ExtractVariable
        <3> DEFINE target == Else(Else(Field(Tree, At, "left"), Field(Tree, At, "name")),
                                  FirstOf(Children(Tree, At)))
        <3>1. Node(Tree, target)
            BY <1>3, NodesPicked DEF Else
        <3>2. IsSeq(Text(Tree, target))
            BY <2>1, <3>1
        <3>3. \/ Emits(<< >>)
              \/ Emits(Some("variable", Text(Tree, target), At, [Bare EXCEPT !.docs = Docstring(At)]))
            BY <2>5 DEF ExtractVariable
        <3> HIDE DEF target, At
        <3> QED BY <1>4, <3>2, <3>3, NoneLeafy
    <2>6. CASE ScalaValue
        <3> DEFINE pattern == Field(Tree, At, "pattern")
                   name == IF Kind(Tree, pattern) = "identifier" THEN Text(Tree, pattern)
                           ELSE Text(Tree, ChildOf(Tree, pattern, {"identifier"}))
                   kind == IF InsideClassLike THEN "field"
                           ELSE IF Kind(Tree, At) = "val_definition" THEN "constant" ELSE "variable"
        <3>1. IsSeq(name)
            BY <2>2
        <3>2. kind \in {"type_alias", "property", "variable", "constant", "field"}
            OBVIOUS
        <3>3. Emits(Some(kind, name, At, [Bare EXCEPT !.vis = Visibility(Tree, At, Lang)]))
            BY <2>6 DEF ScalaValue
        <3> HIDE DEF name, kind, At
        <3> QED BY <1>4, <3>1, <3>2, <3>3
    <2> QED BY <2>3, <2>4, <2>5, <2>6
<1>6. PICK new : Leafy(Tree, At, stack, new) /\ Emits(new)
    BY <1>5
<1> QED BY <1>1, <1>2, <1>6, LeafStep

\* A call site is one of the scope that the walk is in.
LEMMA CallSitesAre ==
    ASSUME NEW n, NEW ask
    PROVE  /\ IsSeq(CallSites(n, ask))
           /\ \A s \in SomeOf(CallSites(n, ask)) : s.from = TopId /\ s.at = n
<1> DEFINE site == SiteAt(TopId, n, ask)
           more == CallSites(n, ask)
<1>1. site.from = TopId /\ site.at = n
    BY DEF SiteAt
<1>2. more = << >> \/ more = <<site>>
    BY DEF CallSites
<1> HIDE DEF site, more, TopId
<1>3. IsSeq(more) /\ \A s \in SomeOf(more) : s = site
    BY <1>2, OneIs, EmptyIs
<1> QED BY <1>1, <1>3 DEF more

LEMMA ExtractImportWalks == ASSUME IInv, WInv, ExtractImport PROVE WInv'
<1> DEFINE module == ImportOf(Tree, At, Lang)
           id     == NewId("import", module, At)
           site   == [SiteAt(TopId, At, Ask("import", NoText, module)) EXCEPT !.to = {id}]
           more   == IF module = NoText THEN << >> ELSE <<site>>
           new    == Some("import", module, At, Bare)
<1>1. Doing("visit") /\ "visit" \in Visits
    BY DEF ExtractImport, Visiting, Visits
<1>2. /\ Emits(new) /\ UNCHANGED <<source, stack>> /\ Descends("visit", At, << >>)
      /\ sites' = IF module = NoText THEN sites ELSE Append(sites, site)
    BY DEF ExtractImport
<1>3. IsTree(Tree) /\ At \in Under(Tree, At) /\ Lang \in DOMAIN Packs /\ IsSeq(sites)
    BY <1>1, AtWorkIs
<1>4. sites' = sites \o more
    <2> HIDE DEF module, site
    <2>1. CASE module = NoText
        BY <1>2, <1>3, <2>1, AndNone
    <2>2. CASE module # NoText
        BY <1>2, <1>3, <2>2, AppendIs
    <2> QED BY <2>1, <2>2
<1>5. IsSeq(more) /\ \A s \in SomeOf(more) : s.ask.ask # "call"
    <2>1. site.ask.ask = "import"
        BY DEF SiteAt, Ask
    <2> HIDE DEF module, site
    <2> QED BY <2>1, OneIs, EmptyIs
<1>6. Leafy(Tree, At, stack, new)
    <2>1. "import" \notin ScopeKinds \cup {"namespace"}
        BY DEF ScopeKinds, ClassLike
    <2>2. IsSeq(module)
        BY <1>3, ImportedIs
    <2> HIDE DEF At, module
    <2> QED BY <1>3, <2>1, <2>2, SomeLeafy
<1>7. \A r \in SomeOf(new) : r.id.at = At
    <2> HIDE DEF module, At
    <2> QED BY SomeMakes
<1> HIDE DEF new, more, At
<1> QED BY <1>1, <1>2, <1>3, <1>4, <1>5, <1>6, <1>7, SitesStep

\* The handlers that emit nothing and go on below.
LEMMA SitesOnly ==
    ASSUME IInv, WInv, NEW do \in {"visit", "body"}, Doing(do),
           UNCHANGED <<source, stack, nodes, edges>>,
           NEW more, IsSeq(more), sites' = sites \o more,
           \A s \in SomeOf(more) : s.from = TopId /\ s.at = At,
           NEW m, m = NoNode \/ m \in Under(Tree, At), Descends(do, m, << >>)
    PROVE  WInv'
<1> DEFINE new == << >>
<1>1. do \in Visits
    BY DEF Visits
<1>2. EmitsNothing
    BY DEF EmitsNothing
<1>3. Emits(new)
    BY <1>1, <1>2, NothingEmits, AtWorkIs
<1>4. Leafy(Tree, At, stack, new) /\ SomeOf(new) = {}
    BY NoneLeafy, EmptyIs
<1> HIDE DEF new, At, TopId
<1> QED BY <1>1, <1>3, <1>4, SitesStep

LEMMA ExtractCallWalks ==
    ASSUME IInv, WInv, NEW do \in {"visit", "body"}, ExtractCall(do) PROVE WInv'
<1> DEFINE role == IF do = "visit" THEN Role(VisitOrder, At) ELSE Role(BodyOrder, At)
           more == CallSites(At, PackCall(Tree, At, Lang, role = "new"))
<1>1. Doing(do) /\ do \in Visits
    BY DEF ExtractCall, Visiting, InBody, Visits
<1>2. /\ sites' = sites \o more /\ Descends(do, At, << >>)
      /\ UNCHANGED <<source, stack, nodes, edges>>
    BY DEF ExtractCall
<1>3. IsSeq(more) /\ \A s \in SomeOf(more) : s.from = TopId /\ s.at = At
    <2> HIDE DEF At, TopId
    <2> QED BY CallSitesAre
<1>4. At \in Under(Tree, At)
    BY <1>1, AtWorkIs
<1> HIDE DEF more, At, TopId
<1> QED BY <1>1, <1>2, <1>3, <1>4, SitesOnly

LEMMA DescendBodyWalks == ASSUME IInv, WInv, DescendBody PROVE WInv'
<1> DEFINE more == IF InBody("other") THEN CallSites(At, BareCall(Tree, At, Lang)) ELSE << >>
<1>1. Doing("body") /\ "body" \in Visits
    BY DEF DescendBody, InBody, Visits
<1>2. /\ sites' = sites \o more /\ Descends("body", At, << >>)
      /\ UNCHANGED <<source, stack, nodes, edges>>
    BY DEF DescendBody
<1>3. IsSeq(more) /\ \A s \in SomeOf(more) : s.from = TopId /\ s.at = At
    <2> HIDE DEF At, TopId
    <2> QED BY CallSitesAre, EmptyIs
<1>4. At \in Under(Tree, At)
    BY <1>1, AtWorkIs
<1> HIDE DEF more, At, TopId
<1> QED BY <1>1, <1>2, <1>3, <1>4, SitesOnly

LEMMA DescendWalks == ASSUME IInv, WInv, Descend \/ ScalaExtension PROVE WInv'
<1> DEFINE none == << >>
<1>1. Doing("visit") /\ "visit" \in Visits
    BY DEF Descend, ScalaExtension, Visiting, Hooked, Visits
<1>2. IsTree(Tree) /\ At \in Under(Tree, At) /\ IsSeq(sites)
    BY <1>1, AtWorkIs
<1>3. PICK m : Descends("visit", m, << >>) /\ (m = NoNode \/ m \in Under(Tree, At))
    <2>1. CASE Descend
        BY <1>2, <2>1 DEF Descend
    <2>2. CASE ScalaExtension
        <3> DEFINE m == Field(Tree, At, "body")
        <3>1. m # NoNode => m \in Inside(Tree, At)
            BY <1>2, NodesPicked
        <3>2. Inside(Tree, At) \subseteq Under(Tree, At)
            BY <1>2, InsideIs DEF Under
        <3>3. Descends("visit", m, << >>)
            BY <2>2 DEF ScalaExtension
        <3> HIDE DEF m
        <3> QED BY <3>1, <3>2, <3>3
    <2> QED BY <2>1, <2>2
<1>4. UNCHANGED <<source, stack, nodes, edges>> /\ sites' = sites
    BY DEF Descend, ScalaExtension
<1>5. sites' = sites \o none /\ IsSeq(none) /\ SomeOf(none) = {}
    BY <1>2, <1>4, AndNone, EmptyIs
<1> HIDE DEF none, At
<1> QED BY <1>1, <1>3, <1>4, <1>5, SitesOnly

\* A definition in a body is visited next, and not as part of the body.
LEMMA NestedDefinitionWalks == ASSUME IInv, WInv, NestedDefinition PROVE WInv'
<1> DEFINE do == IF InBody("function") THEN "function" ELSE "visit"
           c == Call(do, At)
           pre == <<c>>
           none == << >>
           P == {}
<1>1. Doing("body") /\ "body" \in Visits
    BY DEF NestedDefinition, InBody, Visits
<1>2. agenda' = Pushed(pre, agenda) /\ UNCHANGED <<source, stack, nodes, edges, sites>>
    BY DEF NestedDefinition, Pushed
<1>3. /\ IsTree(Tree) /\ At \in DOMAIN Tree /\ IsSeq(sites) /\ IsSeq(nodes) /\ IsSeq(edges)
    BY <1>1, AtWorkIs
<1>4. Emits(none) /\ Leafy(Tree, At, stack, none)
    BY <1>2, <1>3, NothingEmits, NoneLeafy DEF EmitsNothing
<1>5. sites' = sites \o none /\ IsSeq(none) /\ SomeOf(none) = {}
    BY <1>2, <1>3, AndNone, EmptyIs
<1>6. c.at = At /\ c.do \notin Begins /\ c.do # "leave"
    <2>1. do \notin Begins /\ do # "leave"
        BY DEF Begins
    <2> HIDE DEF do
    <2> QED BY <2>1 DEF Call
<1> HIDE DEF c
<1>7. IsSeq(pre) /\ \A i \in DOMAIN pre : i = 1 /\ pre[i] = c
    BY OneIs
<1> HIDE DEF pre
<1>8. Carries(pre) /\ NoLeave(pre)
    BY <1>6, <1>7 DEF Carries, NoLeave
<1>9. Tasks(Tree, At, P, pre)
    BY <1>3, <1>6, <1>7 DEF Tasks
<1>10. P \subseteq Under(Tree, At) /\ SpendsOnly(P, none, none)
    BY <1>5 DEF SpendsOnly
<1>11. \A s \in SomeOf(none) : s.ask.ask = "call" => s.from = TopId
    BY <1>5
<1> HIDE DEF P, none, At, TopId
<1> QED BY <1>1, <1>2, <1>4, <1>5, <1>7, <1>8, <1>9, <1>10, <1>11, StayStep

\* What a header asks for is no call.
LEMMA HeaderAsks ==
    ASSUME IsTree(Tree), Lang \in DOMAIN Packs, NEW id, NEW n
    PROVE  /\ IsSeq(HeritageSites(id, n)) /\ \A s \in SomeOf(HeritageSites(id, n)) : s.ask.ask # "call"
           /\ IsSeq(TypeRefSites(id, n)) /\ \A s \in SomeOf(TypeRefSites(id, n)) : s.ask.ask # "call"
<1>1. /\ IsSeq(HeritageSites(id, n))
      /\ \A s \in SomeOf(HeritageSites(id, n)) : s.ask.ask # "call"
    <2> DEFINE all == PackHeritage(Tree, n, Lang)
               f == [i \in DOMAIN all |->
                        SiteAt(id, all[i].at, Ask(all[i].edge, NoText, all[i].name))]
    <2>1. IsSeq(all) /\ \A b \in SomeOf(all) : b.edge # "call"
        BY PackHeritageIs DEF Clauses
    <2> HIDE DEF all
    <2>2. f = [i \in DOMAIN all |-> f[i]]
        OBVIOUS
    <2>3. \A i \in DOMAIN all : f[i].ask.ask # "call"
        BY <2>1 DEF SiteAt, Ask, SomeOf
    <2> HIDE DEF f
    <2>4. IsSeq(f) /\ SomeOf(f) = {f[i] : i \in DOMAIN all}
        BY <2>1, <2>2, MapOf
    <2>5. IsSeq(f) /\ \A s \in SomeOf(f) : s.ask.ask # "call"
        BY <2>3, <2>4
    <2> QED BY <2>5 DEF HeritageSites, f, all
<1>2. /\ IsSeq(TypeRefSites(id, n))
      /\ \A s \in SomeOf(TypeRefSites(id, n)) : s.ask.ask # "call"
    <2> DEFINE all == PackTypeRefs(Tree, n, Lang)
               f == [i \in DOMAIN all |-> SiteAt(id, all[i].at, Ask("type", NoText, all[i].name))]
    <2>1. IsSeq(all)
        BY PackTypeRefsAre
    <2> HIDE DEF all
    <2>2. f = [i \in DOMAIN all |-> f[i]]
        OBVIOUS
    <2>3. \A i \in DOMAIN all : f[i].ask.ask # "call"
        BY DEF SiteAt, Ask
    <2> HIDE DEF f
    <2>4. IsSeq(f) /\ SomeOf(f) = {f[i] : i \in DOMAIN all}
        BY <2>1, <2>2, MapOf
    <2>5. IsSeq(f) /\ \A s \in SomeOf(f) : s.ask.ask # "call"
        BY <2>3, <2>4
    <2> QED BY <2>5 DEF TypeRefSites, f, all
<1> QED BY <1>1, <1>2

\* A definition whose node m is walked inside its scope.
LEMMA ScopeStep ==
    ASSUME IInv, WInv, NEW do \in Visits, Doing(do), source' = source,
           NEW kind \in ScopeKinds \ {"method"}, NEW name, IsSeq(name), NEW props,
           Emits(<<Record(NewId(kind, name, At), name, props)>>), Enters(NewId(kind, name, At), name),
           NEW more, IsSeq(more), \A s \in SomeOf(more) : s.ask.ask # "call", sites' = sites \o more,
           NEW m, m = NoNode \/ m \in Under(Tree, At), Descends("visit", m, <<Leave>>)
    PROVE  WInv'
<1>1. IsTree(Tree) /\ IsSeq(agenda) /\ agenda # << >>
    BY AtWorkIs
<1>2. PICK kids : Kids(Tree, At, kids) /\ agenda' = Pushed(Scoped(kids), agenda)
    <2> DEFINE n == At
    <2>1. m = NoNode \/ m \in Under(Tree, n)
        OBVIOUS
    <2> HIDE DEF n
    <2>2. \E kids : Kids(Tree, n, kids) /\ agenda' = Pushed(Scoped(kids), agenda)
        BY <1>1, <2>1, DescendsWalks
    <2> QED BY <2>2 DEF n
<1> HIDE DEF At
<1> QED BY <1>2, PlainStep

LEMMA BodyUnder ==
    ASSUME IsTree(Tree), At \in DOMAIN Tree
    PROVE  /\ Body = NoNode \/ Body \in Under(Tree, At)
           /\ Else(Body, At) \in Under(Tree, At) /\ At \in Under(Tree, At)
<1>1. Body # NoNode => Body \in Inside(Tree, At)
    BY BodyIs DEF Body
<1>2. Inside(Tree, At) \subseteq Under(Tree, At)
    BY InsideIs DEF Under
<1>3. At \in Under(Tree, At)
    BY DEF Under
<1> QED BY <1>1, <1>2, <1>3 DEF Else

\* Only Scala's interfaces are traits.
LEMMA InterfaceKinds ==
    ASSUME NEW lang \in DOMAIN Packs PROVE Packs[lang].interfaceKind \in {"interface", "trait"}
<1>1. /\ RubyPack.interfaceKind = "interface" /\ PhpPack.interfaceKind = "interface"
      /\ KotlinPack.interfaceKind = "interface" /\ SwiftPack.interfaceKind = "interface"
      /\ CSharpPack.interfaceKind = "interface" /\ ScalaPack.interfaceKind = "trait"
    <2>1. RubyPack.interfaceKind = "interface"
        BY DEF RubyPack, Plain
    <2>2. PhpPack.interfaceKind = "interface"
        BY DEF PhpPack, Plain
    <2>3. KotlinPack.interfaceKind = "interface"
        BY DEF KotlinPack, Plain
    <2>4. SwiftPack.interfaceKind = "interface"
        BY DEF SwiftPack, Plain
    <2>5. CSharpPack.interfaceKind = "interface"
        BY DEF CSharpPack, Plain
    <2>6. ScalaPack.interfaceKind = "trait"
        BY DEF ScalaPack, Plain
    <2> QED BY <2>1, <2>2, <2>3, <2>4, <2>5, <2>6
<1>2. lang \in {"ruby", "php", "kotlin", "swift", "scala", "csharp"}
    BY DEF Packs
<1> QED BY <1>1, <1>2 DEF Packs

LEMMA ExtractContainerWalks == ASSUME IInv, WInv, ExtractContainer PROVE WInv'
<1> DEFINE kind == IF Visiting("class") THEN ClassKind
                   ELSE IF Visiting("interface") THEN Pack.interfaceKind ELSE "class"
           id   == NewId(kind, Name, At)
           seen == Visiting("extraClass") \/ (Visiting("class") /\ kind # "interface")
           props == [Props(At) EXCEPT !.vis = IF seen THEN @ ELSE "none"]
           more == HeritageSites(id, At)
           m == Else(Body, At)
<1>1. Doing("visit") /\ "visit" \in Visits
    BY DEF ExtractContainer, Visiting, Visits
<1>2. CASE Name = NoText
    <2>1. Returns /\ EmitsNothing /\ UNCHANGED <<source, stack, sites>>
        BY <1>2 DEF ExtractContainer
    <2> QED BY <1>1, <2>1, NothingWalks
<1>3. CASE Name # NoText
    <2>1. /\ source' = source /\ Emits(<<Record(id, Name, props)>>)
          /\ sites' = sites \o more /\ Enters(id, Name)
          /\ Descends("visit", m, <<Leave>>)
        BY <1>3 DEF ExtractContainer
    <2>2. IsTree(Tree) /\ At \in DOMAIN Tree /\ Lang \in DOMAIN Packs
        BY <1>1, AtWorkIs
    <2>3. kind \in ScopeKinds \ {"method"}
        <3>1. Visiting("class") => \/ ClassKind \in {"class", "trait", "interface"}
                                   \/ Visiting("extraClass") \/ Visiting("interface")
            BY DEF ExtractContainer
        <3>2. Visiting("class") => ~Visiting("extraClass") /\ ~Visiting("interface")
            BY DEF Visiting
        <3>3. Pack.interfaceKind \in {"interface", "trait"}
            BY <2>2, InterfaceKinds DEF Pack
        <3> QED BY <3>1, <3>2, <3>3 DEF ScopeKinds, ClassLike
    <2>4. IsSeq(Name) /\ m \in Under(Tree, At)
        BY <2>2, NameIs, BodyUnder DEF Name
    <2>5. IsSeq(more) /\ \A s \in SomeOf(more) : s.ask.ask # "call"
        <3> HIDE DEF id
        <3> QED BY <2>2, HeaderAsks
    <2> DEFINE name == Name
    <2>6. /\ Emits(<<Record(NewId(kind, name, At), name, props)>>) /\ Enters(NewId(kind, name, At), name)
          /\ IsSeq(name)
        BY <2>1, <2>4
    <2> HIDE DEF more, m, props, kind, name, At
    <2> QED BY <1>1, <2>1, <2>3, <2>4, <2>5, <2>6, ScopeStep
<1> QED BY <1>2, <1>3

LEMMA ExtractStructWalks == ASSUME IInv, WInv, ExtractStruct PROVE WInv'
<1> DEFINE kind == "struct"
           name == Name
           props == Props(At)
           more == HeritageSites(NewId(kind, Name, At), At)
           m == Body
<1>1. Doing("visit") /\ "visit" \in Visits
    BY DEF ExtractStruct, Visiting, Visits
<1>2. CASE Body = NoNode \/ Name = NoText
    <2>1. Returns /\ EmitsNothing /\ UNCHANGED <<source, stack, sites>>
        BY <1>2 DEF ExtractStruct
    <2> QED BY <1>1, <2>1, NothingWalks
<1>3. CASE ~ (Body = NoNode \/ Name = NoText)
    <2>1. /\ source' = source /\ Emits(<<Record(NewId(kind, name, At), name, props)>>)
          /\ sites' = sites \o more /\ Enters(NewId(kind, name, At), name)
          /\ Descends("visit", m, <<Leave>>)
        BY <1>3 DEF ExtractStruct
    <2>2. IsTree(Tree) /\ At \in DOMAIN Tree /\ Lang \in DOMAIN Packs
        BY <1>1, AtWorkIs
    <2>3. kind \in ScopeKinds \ {"method"}
        BY DEF ScopeKinds, ClassLike
    <2>4. IsSeq(name) /\ (m = NoNode \/ m \in Under(Tree, At))
        BY <2>2, NameIs, BodyUnder DEF Name
    <2>5. IsSeq(more) /\ \A s \in SomeOf(more) : s.ask.ask # "call"
        BY <2>2, HeaderAsks
    <2> HIDE DEF more, m, props, kind, name, At
    <2> QED BY <1>1, <2>1, <2>3, <2>4, <2>5, ScopeStep
<1> QED BY <1>2, <1>3

LEMMA RubyModuleWalks == ASSUME IInv, WInv, RubyModule PROVE WInv'
<1> DEFINE kind == "module"
           name == Name
           props == Bare
           more == << >>
           m == Field(Tree, At, "body")
<1>1. Doing("visit") /\ "visit" \in Visits
    BY DEF RubyModule, Hooked, Visits
<1>2. CASE Name = NoText
    <2>1. Returns /\ EmitsNothing /\ UNCHANGED <<source, stack, sites>>
        BY <1>2 DEF RubyModule
    <2> QED BY <1>1, <2>1, NothingWalks
<1>3. CASE Name # NoText
    <2>1. /\ source' = source /\ Emits(<<Record(NewId(kind, name, At), name, props)>>)
          /\ sites' = sites /\ Enters(NewId(kind, name, At), name)
          /\ Descends("visit", m, <<Leave>>)
        BY <1>3 DEF RubyModule
    <2>2. IsTree(Tree) /\ At \in DOMAIN Tree /\ IsSeq(sites)
        BY <1>1, AtWorkIs
    <2>3. kind \in ScopeKinds \ {"method"}
        BY DEF ScopeKinds, ClassLike
    <2>4. IsSeq(name) /\ (m = NoNode \/ m \in Under(Tree, At))
        <3>1. m # NoNode => m \in Inside(Tree, At)
            BY <2>2, NodesPicked
        <3>2. Inside(Tree, At) \subseteq Under(Tree, At)
            BY <2>2, InsideIs DEF Under
        <3> QED BY <2>2, <3>1, <3>2, NameIs DEF Name
    <2>5. sites' = sites \o more /\ IsSeq(more) /\ \A s \in SomeOf(more) : s.ask.ask # "call"
        BY <2>1, <2>2, AndNone, EmptyIs
    <2> HIDE DEF more, m, props, kind, name, At
    <2> QED BY <1>1, <2>1, <2>3, <2>4, <2>5, ScopeStep
<1> QED BY <1>2, <1>3

LEMMA ExtractEnumWalks == ASSUME IInv, WInv, ExtractEnum PROVE WInv'
<1> DEFINE kind == "enum"
           name == Name
           props == Props(At)
           more == << >>
           m == Body
           s == Children(Tree, m)
           task(c) == Call(IF Kind(Tree, c) \in Pack.enumMember THEN "member" ELSE "visit", c)
           f == [i \in DOMAIN s |-> task(s[i])]
           up == <<Call("ascend", At), Leave>>
<1>1. Doing("visit") /\ "visit" \in Visits
    BY DEF ExtractEnum, Visiting, Visits
<1>2. CASE Body = NoNode \/ Name = NoText
    <2>1. Returns /\ EmitsNothing /\ UNCHANGED <<source, stack, sites>>
        BY <1>2 DEF ExtractEnum
    <2> QED BY <1>1, <2>1, NothingWalks
<1>3. CASE ~ (Body = NoNode \/ Name = NoText)
    <2>1. /\ source' = source /\ Emits(<<Record(NewId(kind, name, At), name, props)>>)
          /\ sites' = sites /\ Enters(NewId(kind, name, At), name)
          /\ \/ Descends("visit", m, <<Leave>>)
             \/ agenda' = (f \o up) \o Tail(agenda)
        BY <1>3 DEF ExtractEnum
    <2>2. IsTree(Tree) /\ At \in DOMAIN Tree /\ IsSeq(sites)
        BY <1>1, AtWorkIs
    <2>3. kind \in ScopeKinds \ {"method"}
        BY DEF ScopeKinds, ClassLike
    <2>4. IsSeq(name) /\ m \in Under(Tree, At)
        BY <1>3, <2>2, NameIs, BodyUnder DEF Name
    <2>5. sites' = sites \o more /\ IsSeq(more) /\ \A q \in SomeOf(more) : q.ask.ask # "call"
        BY <2>1, <2>2, AndNone, EmptyIs
    <2>6. CASE Descends("visit", m, <<Leave>>)
        <3> HIDE DEF more, m, props, kind, name, At
        <3> QED BY <1>1, <2>1, <2>3, <2>4, <2>5, <2>6, ScopeStep
    <2>7. CASE agenda' = (f \o up) \o Tail(agenda)
        <3> DEFINE kids == Ascending(f, At)
                   n == At
        <3>1. \A c : task(c).at = c /\ task(c).do \in Visits
            BY DEF Call, Visits
        <3>2. f = [i \in DOMAIN s |-> f[i]] /\ \A i \in DOMAIN s : f[i] = task(s[i])
            OBVIOUS
        <3> HIDE DEF f, task
        <3>3. Kids(Tree, At, kids)
            <4> HIDE DEF At, m
            <4> QED BY <2>2, <2>4, <3>1, <3>2, KidsAre
        <3>4. f \o up = Scoped(kids)
            <4> DEFINE a == <<Call("ascend", n)>>
                       b == <<Leave>>
            <4>1. IsSeq(f) /\ IsSeq(a) /\ IsSeq(b)
                <5>1. IsSeq(s)
                    BY <2>2, ChildrenOf
                <5> HIDE DEF s
                <5> QED BY <3>2, <5>1, MapOf, OneIs
            <4>2. up = a \o b
                OBVIOUS
            <4>3. kids = f \o a
                BY DEF Ascending
            <4> HIDE DEF a, b, up, kids
            <4>4. f \o (a \o b) = (f \o a) \o b
                BY <4>1, ConcatOf
            <4> QED BY <4>2, <4>3, <4>4 DEF Scoped, b
        <3>5. agenda' = Pushed(Scoped(kids), agenda)
            <4> HIDE DEF up, kids
            <4> QED BY <2>7, <3>4 DEF Pushed
        <3> HIDE DEF more, props, kind, name, At, kids
        <3> QED BY <1>1, <2>1, <2>3, <2>4, <2>5, <3>3, <3>5, PlainStep
    <2> QED BY <2>1, <2>6, <2>7
<1> QED BY <1>2, <1>3

\* A callable is a method of the type that it extends, and of no other.
LEMMA OwnEdge ==
    ASSUME NEW top, NEW id, NEW more,
           more = << >> \/ \E other : other # top /\ more = <<<<other, id>>>>
    PROVE  /\ IsSeq(<<<<top, id>>>> \o more) /\ OneEdge(<<<<top, id>>>> \o more, <<top, id>>)
           /\ \A e \in SomeOf(<<<<top, id>>>> \o more) : e[2] = id
           /\ IsSeq(<<<<top, id>>>>) /\ IsSeq(more)
<1> DEFINE e == <<top, id>>
           own == <<e>>
           er == own \o more
<1>1. e[2] = id
    OBVIOUS
<1>2. IsSeq(own) /\ SomeOf(own) = {e} /\ OneEdge(own, e)
    <2> HIDE DEF e
    <2> QED BY OneIs, OneEdgeOfOne
<1>3. IsSeq(more) /\ \A d \in SomeOf(more) : d # e /\ d[2] = id
    <2>1. CASE more = << >>
        BY <2>1, EmptyIs
    <2>2. CASE more # << >>
        <3>1. PICK other : other # top /\ more = <<<<other, id>>>>
            BY <2>2
        <3> DEFINE d == <<other, id>>
        <3>2. more = <<d>> /\ d # e /\ d[2] = id
            BY <3>1
        <3> HIDE DEF d, e
        <3> QED BY <3>2, OneIs
    <2> QED BY <2>1, <2>2
<1> HIDE DEF e, own
<1>4. IsSeq(er) /\ SomeOf(er) = SomeOf(own) \cup SomeOf(more)
    BY <1>2, <1>3, ConcatIs
<1>5. OneEdge(er, e)
    BY <1>1, <1>2, <1>3, OneEdgeGrows
<1>6. \A c \in SomeOf(er) : c[2] = id
    BY <1>1, <1>2, <1>3, <1>4
<1> HIDE DEF er
<1> QED BY <1>2, <1>3, <1>4, <1>5, <1>6 DEF er, own, e

LEMMA ExtractCallableWalks == ASSUME IInv, WInv, ExtractCallable PROVE WInv'
<1>1. PICK do \in Visits : Doing(do)
    BY DEF ExtractCallable, AsMethod, AsFunction, Visiting, Visits
<1> DEFINE receiver == ReceiverType(Tree, At, Lang)
           method == receiver # NoText \/ (AsMethod /\ InsideClassLike)
           id == [kind |-> IF method THEN "method" ELSE "function", at |-> At,
                  qn |-> IF receiver # NoText THEN receiver \o Name ELSE QualifiedName(Name)]
           owner == IF receiver = NoText \/ InsideClassLike THEN << >> ELSE OwnerType(receiver)
           ofOwner == IF owner = << >> THEN << >> ELSE <<<<Head(owner).id, id>>>>
           x == Record(id, Name, Props(At))
           own == <<<<TopId, id>>>>
           er == own \o ofOwner
           more == TypeRefSites(id, At)
<1>2. CASE Name = NoText
    <2>1. Returns /\ EmitsNothing /\ UNCHANGED <<source, stack, sites>>
        BY <1>2 DEF ExtractCallable
    <2> QED BY <1>1, <2>1, NothingWalks
<1>3. CASE Name # NoText
    <2>1. /\ nodes' = Append(nodes, x) /\ source' = source
          /\ edges' = (edges \o own) \o ofOwner
          /\ sites' = sites \o more
          /\ Enters(id, Name) /\ Descends("body", Body, <<Leave>>)
        BY <1>3 DEF ExtractCallable
    <2>2. /\ IsTree(Tree) /\ At \in DOMAIN Tree /\ Lang \in DOMAIN Packs /\ At = agenda[1].at
          /\ IsSeq(agenda) /\ agenda # << >> /\ IsSeq(nodes) /\ IsSeq(edges)
          /\ AtWork(Tree, Lang, nodes, edges, sites, agenda, stack) /\ agenda[1].do \in Visits
        BY <1>1, AtWorkIs
    <2>3. /\ x.id = id /\ x.name = Name /\ id.at = At /\ id.kind \in {"function", "method"}
          /\ id.kind = (IF method THEN "method" ELSE "function")
          /\ id.qn = IF receiver # NoText THEN receiver \o Name ELSE Spelling(stack) \o Name
        BY DEF Record, QualifiedName, Spelling
    <2>4. x.id.qn = Spelt(Tree, Lang, AroundIn(Tree, Lang, nodes, At), x)
        <3>1. Spelling(stack) = Spelling(AroundIn(Tree, Lang, nodes, At))
            <4> HIDE DEF At
            <4> QED BY <2>2, TopIsScope
        <3>2. receiver # NoText => id.kind = "method"
            BY <2>3
        <3> HIDE DEF x, id, method, At
        <3>3. CASE receiver # NoText
            <4>1. id.qn = receiver \o Name /\ id.kind = "method"
                BY <2>3, <3>2, <3>3
            <4> QED BY <2>3, <3>3, <4>1 DEF Spelt
        <3>4. CASE receiver = NoText
            <4>1. id.qn = Spelling(AroundIn(Tree, Lang, nodes, At)) \o Name
                BY <2>3, <3>1, <3>4
            <4> QED BY <2>3, <3>4, <4>1 DEF Spelt
        <3> QED BY <3>3, <3>4
    <2>5. owner # << >> => Head(owner).id # TopId
        <3>1. OwnerType(receiver) # << >> => Head(OwnerType(receiver)).id.kind \in
                  {"struct", "class", "enum", "trait"}
            <4> DEFINE S == {r \in SomeOf(nodes) :
                                r.name = receiver /\ r.id.kind \in {"struct", "class", "enum", "trait"}}
            <4>1. OwnerType(receiver) = Those(nodes, S) /\ \A r \in S :
                      r.id.kind \in {"struct", "class", "enum", "trait"}
                BY DEF OwnerType
            <4> HIDE DEF S
            <4> QED BY <2>2, <4>1, HeadOfThose
        <3>2. owner # << >> => owner = OwnerType(receiver) /\ TopId.kind \notin ClassLike
            BY DEF InsideClassLike
        <3> HIDE DEF owner, TopId, receiver
        <3> QED BY <3>1, <3>2 DEF ClassLike
    <2>6. /\ IsSeq(er) /\ OneEdge(er, <<TopId, id>>) /\ \A e \in SomeOf(er) : e[2] = id
          /\ IsSeq(own) /\ IsSeq(ofOwner)
        <3>1. CASE owner = << >>
            <4>1. ofOwner = << >>
                BY <3>1
            <4> HIDE DEF ofOwner, TopId, id
            <4> QED BY <4>1, OwnEdge
        <3>2. CASE owner # << >>
            <4> DEFINE other == Head(owner).id
            <4>1. ofOwner = <<<<other, id>>>> /\ other # TopId
                BY <2>5, <3>2
            <4> HIDE DEF other, ofOwner, TopId, id
            <4> QED BY <4>1, OwnEdge
        <3> QED BY <3>1, <3>2
    <2>7. edges' = edges \o er
        <3>1. IsSeq(edges) /\ IsSeq(own) /\ IsSeq(ofOwner) /\ edges' = (edges \o own) \o ofOwner
            BY <2>1, <2>2, <2>6
        <3> HIDE DEF own, ofOwner
        <3>2. (edges \o own) \o ofOwner = edges \o (own \o ofOwner)
            BY <3>1, ConcatOf, SMTT(30)
        <3> QED BY <3>1, <3>2, ZenonT(30)
    <2>8. PICK kids : Kids(Tree, At, kids) /\ agenda' = Pushed(Scoped(kids), agenda)
        <3> DEFINE n == At
                   m == Body
        <3>1. m = NoNode \/ m \in Under(Tree, n)
            BY <2>2, BodyUnder
        <3>2. Descends("body", m, <<Leave>>)
            BY <2>1
        <3> HIDE DEF n, m
        <3>3. \E kids : Kids(Tree, n, kids) /\ agenda' = Pushed(Scoped(kids), agenda)
            BY <2>2, <3>1, <3>2, DescendsWalks
        <3> QED BY <3>3 DEF n
    <2>9. IsSeq(more) /\ \A s \in SomeOf(more) : s.ask.ask # "call"
        <3> HIDE DEF id
        <3> QED BY <2>2, HeaderAsks
    <2>10. stack' = Deeper(stack, x)
        <3> HIDE DEF x, id
        <3> QED BY <2>1, <2>3 DEF Enters, Deeper, Entry
    <2>11. x.id.at = At /\ x.id.kind \in ScopeKinds /\ IsSeq(x.name)
        <3>1. IsSeq(Name)
            BY <2>2, NameIs DEF Name
        <3> HIDE DEF x, id
        <3> QED BY <2>3, <3>1 DEF ScopeKinds
    <2>12. OneEdge(er, <<TopId, x.id>>) /\ \A e \in SomeOf(er) : e[2].at = At
        <3> HIDE DEF x, id, er
        <3> QED BY <2>3, <2>6
    <2> HIDE DEF x, id, er, more, At, TopId
    <2> QED BY <1>1, <2>1, <2>4, <2>6, <2>7, <2>8, <2>9, <2>10, <2>11, <2>12, EnterStep
<1> QED BY <1>2, <1>3

-----------------------------------------------------------------------------
(* Returning, and the file as a whole                                      *)

\* A call that is over: the rest of the agenda.
LEMMA PassWalks ==
    ASSUME NEW t, NEW lang, NEW ns, NEW es, NEW ss, NEW ag, IsSeq(ag), ag # << >>, NEW st,
           Walks(t, lang, ns, es, ss, ag, st), ag[1].do \notin Visits
    PROVE  Walks(t, lang, ns, es, ss, Pushed(<< >>, ag), After(ag[1], st))
<1> DEFINE pre == << >>
           new == Pushed(pre, ag)
           later == After(ag[1], st)
           lp == [i \in {1} |-> later]
           k(i) == Was(pre, i)
<1>1. IsSeq(pre) /\ DOMAIN pre = {} /\ Len(pre) = 0
    BY EmptyIs
<1>2. /\ Apart(t, ag, Spent(ns, ss)) /\ Fits(t, lang, ns, ag, st)
      /\ Placed(t, lang, ns, es) /\ Given(t, lang, ns, ss)
      /\ Named(ns) /\ Begun(ns, es, ss, ag, st)
    BY DEF Walks
<1> HIDE DEF pre
<1>3. \A i \in DOMAIN new : k(i) \in DOMAIN ag /\ k(i) # 1 /\ new[i] = ag[k(i)]
    <2>1. \A i \in DOMAIN new : i \notin DOMAIN pre =>
              k(i) \in DOMAIN ag /\ k(i) # 1 /\ new[i] = ag[k(i)]
        BY <1>1, AgendaAt, Zenon
    <2> HIDE DEF new, k
    <2> QED BY <1>1, <2>1
<1>4. \A i, j \in DOMAIN new : i # j => k(i) # k(j)
    <2>1. DOMAIN new = 1 .. (0 + (Len(ag) - 1)) /\ Len(ag) \in Nat
        BY <1>1, AgendaAt
    <2> HIDE DEF new
    <2> QED BY <1>1, <2>1 DEF Was
<1> HIDE DEF k
<1>5. Apart(t, new, Spent(ns, ss))
    <2> HIDE DEF new
    <2> QED BY <1>2, <1>3, <1>4 DEF Apart
<1>6. Begun(ns, es, ss, new, later)
    <2> HIDE DEF new
    <2>1. \A i \in DOMAIN new : new[i].do \notin Begins
        BY <1>2, <1>3 DEF Begun
    <2> QED BY <2>1 DEF Begun
<1>7. Levels(lp, pre, later) /\ lp[Len(pre) + 1] = After(ag[1], st)
    BY <1>1 DEF Levels
<1>8. /\ \A i \in DOMAIN pre : pre[i].do \in Visits => lp[i] = Chain(t, lang, ns, pre[i].at)
      /\ \A i \in DOMAIN ag : i # 1 /\ ag[i].do \in Visits =>
             Chain(t, lang, ns, ag[i].at) = Chain(t, lang, ns, ag[i].at)
    BY <1>1
<1> HIDE DEF lp, later
<1>9. Fits(t, lang, ns, new, later)
    BY <1>1, <1>2, <1>7, <1>8, FitsMoves
<1> QED BY <1>2, <1>5, <1>6, <1>9 DEF Walks, pre, later

\* One that is given up, or done with.
LEMMA StopWalks ==
    ASSUME NEW t, NEW lang, NEW ns, NEW es, NEW ss, NEW ag, NEW st, Walks(t, lang, ns, es, ss, ag, st)
    PROVE  Walks(t, lang, ns, es, ss, << >>, st)
<1> DEFINE none == << >>
           lv == [i \in {1} |-> st]
<1>1. DOMAIN none = {} /\ lv[1] = st
    OBVIOUS
<1>2. /\ Placed(t, lang, ns, es) /\ Given(t, lang, ns, ss) /\ Named(ns)
    BY DEF Walks
<1> HIDE DEF none, lv
<1>3. FitsOn(t, lang, ns, none, st, lv)
    BY <1>1 DEF FitsOn, Levels
<1>4. Fits(t, lang, ns, none, st)
    BY <1>3 DEF Fits
<1>5. Apart(t, none, Spent(ns, ss)) /\ Begun(ns, es, ss, none, st)
    BY <1>1 DEF Apart, Begun
<1> QED BY <1>2, <1>4, <1>5 DEF Walks, none

\* A file that nothing has been done to.
LEMMA FreshWalks ==
    ASSUME NEW t, NEW lang, NEW ag, IsSeq(ag), NEW ns, NEW es, NEW ss, NEW st,
           ns = << >>, es = << >>, ss = << >>, st = FileScope,
           \A i \in DOMAIN ag : /\ ag[i].do \notin Visits /\ ag[i].do # "leave"
                                /\ ag[i].do \in Begins => i = 1
    PROVE  Walks(t, lang, ns, es, ss, ag, st)
<1> DEFINE lv == [i \in 1 .. (Len(ag) + 1) |-> st]
<1>1. Len(ag) \in Nat /\ DOMAIN ag = 1 .. Len(ag)
    BY ConcatAt
<1>2. \A i \in 1 .. (Len(ag) + 1) : lv[i] = st
    OBVIOUS
<1>3. /\ 1 \in 1 .. (Len(ag) + 1)
      /\ \A i \in DOMAIN ag : i \in 1 .. (Len(ag) + 1) /\ i + 1 \in 1 .. (Len(ag) + 1)
    BY <1>1
<1>4. \A i \in DOMAIN ag : After(ag[i], st) = st
    BY DEF After
<1> HIDE DEF lv
<1>5. FitsOn(t, lang, ns, ag, st, lv)
    BY <1>2, <1>3, <1>4 DEF FitsOn, Levels
<1>6. Fits(t, lang, ns, ag, st)
    BY <1>5 DEF Fits
<1>7. SomeOf(ns) = {} /\ SomeOf(ss) = {}
    BY EmptyIs
<1> QED BY <1>6, <1>7 DEF Walks, Apart, Placed, Given, Named, Begun

\* Every call of pre finds the stack later, and what comes after them, st.
Lasts(pre, later, st) ==
    \E lp : /\ Levels(lp, pre, later) /\ lp[Len(pre) + 1] = st
            /\ \A i \in DOMAIN pre : lp[i] = later

\* The calls of a scope, on the stack that it has.
LEMMA ScopedLevels ==
    ASSUME NEW kids, IsSeq(kids), NoLeave(kids), NEW later, NEW st, Front(later) = st
    PROVE  Lasts(Scoped(kids), later, st)
<1> DEFINE pre == Scoped(kids)
           l == Len(kids)
           lp == [i \in 1 .. (l + 2) |-> IF i <= l + 1 THEN later ELSE st]
<1>1. /\ IsSeq(pre) /\ l \in Nat /\ DOMAIN kids = 1 .. l /\ Len(pre) = l + 1 /\ DOMAIN pre = 1 .. (l + 1)
      /\ pre[l + 1] = Leave /\ \A i \in 1 .. l : pre[i] = kids[i]
    BY ScopedIs
<1>2. lp[l + 2] = st /\ \A i \in 1 .. (l + 1) : lp[i] = later
    BY <1>1
<1>3. /\ 1 \in 1 .. (l + 1) /\ (l + 1) + 1 = l + 2
      /\ \A i \in 1 .. (l + 1) : (i \in 1 .. l /\ i + 1 \in 1 .. (l + 1)) \/ i = l + 1
    BY <1>1
<1> HIDE DEF lp, pre, l
<1>4. \A i \in 1 .. l : After(pre[i], later) = later
    BY <1>1 DEF After, NoLeave
<1>5. After(pre[l + 1], later) = st
    BY <1>1 DEF After, Leave, Call
<1>6. ASSUME NEW i \in DOMAIN pre PROVE lp[i + 1] = After(pre[i], lp[i]) /\ lp[i] = later
    <2>1. CASE i \in 1 .. l /\ i + 1 \in 1 .. (l + 1)
        BY <1>1, <1>2, <1>4, <2>1
    <2>2. CASE i = l + 1
        BY <1>1, <1>2, <1>3, <1>5, <2>2
    <2> QED BY <1>1, <1>3, <2>1, <2>2
<1>7. Levels(lp, pre, later) /\ lp[Len(pre) + 1] = st
    BY <1>1, <1>2, <1>3, <1>6 DEF Levels
<1> QED BY <1>6, <1>7 DEF pre, Lasts

LEMMA SameLevels ==
    ASSUME NEW kids, IsSeq(kids), NoLeave(kids), NEW st
    PROVE  Lasts(kids, st, st)
<1> DEFINE l == Len(kids)
           lp == [i \in 1 .. (l + 1) |-> st]
<1>1. l \in Nat /\ DOMAIN kids = 1 .. l
    BY ConcatAt
<1>2. \A i \in 1 .. (l + 1) : lp[i] = st
    OBVIOUS
<1>3. /\ 1 \in 1 .. (l + 1) /\ l + 1 \in 1 .. (l + 1)
      /\ \A i \in DOMAIN kids : i \in 1 .. (l + 1) /\ i + 1 \in 1 .. (l + 1)
    BY <1>1
<1>4. \A i \in DOMAIN kids : After(kids[i], st) = st
    BY DEF After, NoLeave
<1> HIDE DEF lp, l
<1>5. Levels(lp, kids, st) /\ lp[l + 1] = st /\ \A i \in DOMAIN kids : lp[i] = st
    BY <1>2, <1>3, <1>4 DEF Levels
<1> QED BY <1>5 DEF l, Lasts

\* The root's children come first, in the scope of the file.
LEMMA FileWalks ==
    ASSUME NEW t, NEW lang, NEW ag, IsSeq(ag), ag # << >>, ag[1].do = "file",
           \A i \in DOMAIN ag : ag[i].do \notin Visits /\ (ag[i].do \in Begins => i = 1),
           NEW old, NEW st, Fits(t, lang, old, ag, st),
           NEW ns, \A r \in SomeOf(ns) : r.id.kind = "namespace" /\ IsSeq(r.name),
           NEW later, \A c \in DOMAIN t : Chain(t, lang, ns, c) = later,
           NEW kids, Kids(t, Root, kids), NEW pre,
           \/ pre = kids /\ later = st
           \/ pre = Scoped(kids) /\ Front(later) = st,
           NEW es, NEW ss, ss = << >>
    PROVE  Walks(t, lang, ns, es, ss, Pushed(pre, ag), later)
<1>1. IsSeq(kids) /\ Tasks(t, Root, {Root}, kids) /\ Carries(kids) /\ NoLeave(kids)
    BY DEF Kids
<1>2. IsSeq(pre) /\ Tasks(t, Root, {Root}, pre) /\ Carries(pre)
    BY <1>1, ScopedIs, ScopedTasks
<1>3. PICK lp : /\ Levels(lp, pre, later) /\ lp[Len(pre) + 1] = st
                /\ \A i \in DOMAIN pre : lp[i] = later
    <2>1. Lasts(pre, later, st)
        BY <1>1, ScopedLevels, SameLevels
    <2> QED BY <2>1 DEF Lasts
<1>4. After(ag[1], st) = st
    BY DEF After
<1>5. \A i \in DOMAIN pre : pre[i].do \in Visits => lp[i] = Chain(t, lang, ns, pre[i].at)
    BY <1>2, <1>3 DEF Tasks
<1>6. \A i \in DOMAIN ag : i # 1 /\ ag[i].do \in Visits =>
          Chain(t, lang, ns, ag[i].at) = Chain(t, lang, old, ag[i].at)
    OBVIOUS
<1>7. Fits(t, lang, ns, Pushed(pre, ag), later)
    BY <1>2, <1>3, <1>4, <1>5, <1>6, FitsMoves
<1>8. Spent(ns, ss) = {}
    BY EmptyIs DEF Spent
<1> DEFINE new == Pushed(pre, ag)
<1>9. \A i \in DOMAIN new : \/ i \in DOMAIN pre /\ new[i] = pre[i]
                            \/ new[i].do \notin Visits /\ new[i].do \notin Begins
    <2>1. \A i \in DOMAIN pre : new[i] = pre[i]
        BY <1>2, AgendaAt
    <2>2. \A i \in DOMAIN new : i \notin DOMAIN pre =>
              Was(pre, i) \in DOMAIN ag /\ Was(pre, i) # 1 /\ new[i] = ag[Was(pre, i)]
        BY <1>2, AgendaAt
    <2> HIDE DEF new
    <2> QED BY <2>1, <2>2
<1> HIDE DEF new
<1>10. Apart(t, new, Spent(ns, ss))
    BY <1>2, <1>8, <1>9 DEF Apart, Tasks
<1>11. Begun(ns, es, ss, new, later)
    BY <1>2, <1>9 DEF Begun, Carries
<1>12. Placed(t, lang, ns, es) /\ Given(t, lang, ns, ss) /\ Named(ns)
    BY EmptyIs DEF Placed, Given, Named
<1> QED BY <1>7, <1>10, <1>11, <1>12 DEF Walks, new

LEMMA LeaveScopeWalks == ASSUME IInv, WInv, Ascend \/ LeaveScope PROVE WInv'
<1>1. /\ agenda # << >> /\ agenda' = Tail(agenda)
      /\ UNCHANGED <<source, nodes, edges, sites>>
      /\ Head(agenda).do \in {"ascend", "leave"}
    BY DEF Ascend, LeaveScope, Doing
<1>2. TierThree
    BY <1>1, HeadIs DEF PhaseDos
<1>3. IsSeq(agenda) /\ Walks(Tree, Lang, nodes, edges, sites, agenda, stack)
    BY <1>2 DEF IInv, Plan, Pending, WInv
<1>4. Head(agenda) = agenda[1]
    BY <1>1, <1>3, HeadAndTail
<1>5. agenda[1].do \notin Visits
    BY <1>1, <1>4 DEF Visits
<1>6. agenda' = Pushed(<< >>, agenda)
    BY <1>1, <1>3, HeadAndTail, AndNone DEF Pushed
<1>7. stack' = After(agenda[1], stack)
    BY <1>1, <1>4 DEF Ascend, LeaveScope, Doing, After, Front
<1>8. Walks(Tree, Lang, nodes, edges, sites, Pushed(<< >>, agenda), After(agenda[1], stack))
    BY <1>1, <1>3, <1>5, PassWalks
<1> QED BY <1>1, <1>6, <1>7, <1>8, WalksOn

LEMMA BeginsWalking == ASSUME Init PROVE WInv
<1> DEFINE call == Call("start", Root)
<1>1. /\ agenda = <<call>> /\ nodes = << >> /\ edges = << >> /\ sites = << >> /\ stack = FileScope
    BY DEF Init, FileScope
<1>2. call.do = "start"
    BY DEF Call
<1> HIDE DEF call
<1>3. IsSeq(agenda) /\ \A i \in DOMAIN agenda : i = 1 /\ agenda[i].do = "start"
    BY <1>1, <1>2, OneIs
<1>4. Walks(Tree, Lang, nodes, edges, sites, agenda, stack)
    BY <1>1, <1>3, FreshWalks DEF Visits
<1> QED BY <1>4 DEF WInv

\* The first call of the agenda.
LEMMA AtHead ==
    ASSUME IInv, agenda # << >>
    PROVE  IsSeq(agenda) /\ 1 \in DOMAIN agenda /\ Head(agenda) = agenda[1]
<1>1. IsSeq(agenda)
    BY DEF IInv, Plan, Pending
<1> QED BY <1>1, HeadAndTail

LEMMA StartWalks == ASSUME IInv, WInv, Start PROVE WInv'
<1>1. /\ agenda # << >> /\ Head(agenda).do = "start"
      /\ UNCHANGED <<source, stack, nodes, edges, sites>>
      /\ TierThree => agenda' = <<Call("file", Root)>> \o <<Call("record", Root)>>
    BY DEF Start, Doing
<1>2. CASE ~ TierThree
    BY <1>1, <1>2 DEF WInv, TierThree, Lang
<1>3. CASE TierThree
    <2>1. /\ nodes = << >> /\ edges = << >> /\ sites = << >> /\ stack = FileScope
        <3>1. Begun(nodes, edges, sites, agenda, stack)
            BY <1>3 DEF WInv, Walks
        <3>2. 1 \in DOMAIN agenda /\ agenda[1].do \in Begins
            BY <1>1, AtHead DEF Begins
        <3> QED BY <3>1, <3>2 DEF Begun
    <2> DEFINE first == Call("file", Root)
               last == Call("record", Root)
               new == <<first>> \o <<last>>
    <2>2. first.do = "file" /\ last.do = "record" /\ agenda' = new
        BY <1>1, <1>3 DEF Call
    <2> HIDE DEF first, last
    <2>3. IsSeq(new) /\ \A i \in DOMAIN new : (i = 1 /\ new[i] = first) \/ new[i] = last
        <3>1. DOMAIN new = 1 .. 2 /\ new[1] = first /\ new[2] = last
            OBVIOUS
        <3>2. IsSeq(<<first>>) /\ IsSeq(<<last>>)
            BY OneIs
        <3>3. IsSeq(new)
            BY <3>2, ConcatIs
        <3> HIDE DEF new
        <3> QED BY <3>1, <3>3
    <2> HIDE DEF new
    <2>4. \A i \in DOMAIN new : /\ new[i].do \notin Visits /\ new[i].do # "leave"
                                /\ new[i].do \in Begins => i = 1
        BY <2>2, <2>3 DEF Visits, Begins
    <2>5. Walks(Tree, Lang, nodes', edges', sites', agenda', stack')
        BY <1>1, <2>1, <2>2, <2>3, <2>4, FreshWalks
    <2> QED BY <1>1, <2>5, WalksOn
<1> QED BY <1>2, <1>3

LEMMA EndsWalking ==
    ASSUME WInv, agenda' = << >>, UNCHANGED <<source, stack, nodes, edges, sites>> PROVE WInv'
<1>1. CASE ~ TierThree
    BY <1>1 DEF WInv, TierThree, Lang
<1>2. CASE TierThree
    <2>1. Walks(Tree, Lang, nodes, edges, sites, << >>, stack)
        BY <1>2, StopWalks DEF WInv
    <2> QED BY <2>1, WalksOn
<1> QED BY <1>1, <1>2

LEMMA NoEntries == Entries(<< >>) = FileScope
<1> DEFINE none == << >>
           f == [i \in DOMAIN none |-> Entry(none[i])]
<1>1. f = << >>
    <2>1. DOMAIN f = {} /\ f = [i \in DOMAIN none |-> f[i]] /\ IsSeq(none)
        BY EmptyIs
    <2> HIDE DEF f
    <2> QED BY <2>1, MapOf, EmptySeqIs
<1>2. FileScope \o << >> = FileScope
    BY OneIs, AndNone DEF FileScope
<1> QED BY <1>1, <1>2 DEF Entries

\* The scopes of a file without a definition, and with a package header alone.
LEMMA ChainOfNone ==
    ASSUME NEW t, IsTree(t), NEW lang, NEW c \in DOMAIN t
    PROVE  Chain(t, lang, << >>, c) = FileScope
<1> DEFINE none == << >>
<1>1. AroundIn(t, lang, none, c) = << >>
    <2>1. IsSeq(none) /\ SomeOf(none) = {}
        BY EmptyIs
    <2> HIDE DEF none
    <2>2. IsSeq(AroundIn(t, lang, none, c)) /\ SomeOf(AroundIn(t, lang, none, c)) = {}
        BY <2>1, AroundIs
    <2> QED BY <2>2, EmptySeqIs
<1> QED BY <1>1, NoEntries DEF Chain

LEMMA ChainOfHeader ==
    ASSUME NEW t, IsTree(t), NEW r, r.id.kind = "namespace", NEW c \in DOMAIN t
    PROVE  Chain(t, "kotlin", <<r>>, c) = Deeper(FileScope, r)
<1> DEFINE ns == <<r>>
           s == Reverse(Ancestors(t, c))
           all == {q \in SomeOf(ns) : "kotlin" = "kotlin" /\ q.id.kind = "namespace"}
<1>1. IsSeq(ns) /\ SomeOf(ns) = {r} /\ IsSeq(s)
    BY OneIs, NodesAre, ReverseIs
<1>2. HeaderIn("kotlin", ns) = <<r>>
    <2>1. r \in all
        BY <1>1
    <2> HIDE DEF all
    <2>2. Those(<<r>>, all) = <<r>>
        BY <2>1, ThoseOfOne
    <2> QED BY <2>2 DEF HeaderIn, all
<1>3. FlattenSeq(Openings(ns, s)) = << >>
    <2> HIDE DEF ns, s
    <2>1. \A a : Opened(ns, a) = << >>
        <3>1. \A a : Closed(ns, a)
            BY <1>1 DEF Closed, ScopeKinds, ClassLike
        <3> QED BY <1>1, <3>1, OpenedIs
    <2>2. SeqOfSeqs(Openings(ns, s))
        BY <1>1, OpeningsAre
    <2>3. \A q \in SomeOf(Openings(ns, s)) : SomeOf(q) = {}
        BY <2>1, EmptyIs DEF SomeOf, Openings
    <2> DEFINE f == Openings(ns, s)
    <2>4. IsSeq(f) /\ \A q \in SomeOf(f) : IsSeq(q) /\ SomeOf(q) = {}
        BY <2>2, <2>3 DEF SeqOfSeqs
    <2> HIDE DEF f
    <2>5. IsSeq(FlattenSeq(f)) /\ SomeOf(FlattenSeq(f)) = {}
        BY <2>4, FlattenIs
    <2> QED BY <2>5, EmptySeqIs DEF f
<1>4. AroundIn(t, "kotlin", ns, c) = <<r>>
    <2>1. <<r>> \o << >> = <<r>>
        BY <1>1, AndNone
    <2> QED BY <1>2, <1>3, <2>1 DEF AroundIn
<1>5. Entries(<<r>>) = Append(Entries(<< >>), Entry(r))
    <2> DEFINE none == << >>
    <2>1. IsSeq(none) /\ Append(none, r) = <<r>>
        BY EmptyIs
    <2> HIDE DEF none
    <2>2. Entries(Append(none, r)) = Append(Entries(none), Entry(r))
        BY <2>1, EntriesAre
    <2> QED BY <2>1, <2>2 DEF none
<1> HIDE DEF ns
<1> QED BY <1>4, <1>5, NoEntries DEF Chain, Deeper, ns

\* Only Kotlin has a package header that is the scope of the file.
LEMMA HeaderLanguage ==
    ASSUME IsTree(Tree), Lang \in DOMAIN Packs,
           NEW kinds, Text(Tree, ChildOf(Tree, ChildOf(Tree, Root, Pack.package), kinds)) # NoText
    PROVE  Lang = "kotlin"
<1> DEFINE header == ChildOf(Tree, Root, Pack.package)
           name == ChildOf(Tree, header, kinds)
<1>1. name # NoNode
    BY DEF Text
<1>2. name \in Inside(Tree, header)
    <2> HIDE DEF header
    <2> QED BY <1>1, NodesPicked
<1>3. header \in DOMAIN Tree
    <2> HIDE DEF header, name
    <2> QED BY <1>2, InsideIs
<1>4. header # NoNode
    BY <1>3, NodesAre DEF NoNode
<1>5. Pack.package # {}
    <2>1. ASSUME Pack.package = {} PROVE header = NoNode
        <3>1. {c \in NamedInside(Tree, Root) : Tree[c].kind \in Pack.package} = {}
            BY <2>1
        <3> QED BY <3>1 DEF ChildOf, Earliest
    <2> QED BY <1>4, <2>1
<1>6. Lang \in {"ruby", "php", "kotlin", "swift", "scala", "csharp"}
    BY DEF Packs
<1>7. /\ RubyPack.package = {} /\ PhpPack.package = {} /\ SwiftPack.package = {}
      /\ ScalaPack.package = {} /\ CSharpPack.package = {}
    <2>1. RubyPack.package = {}
        BY DEF RubyPack, Plain
    <2>2. PhpPack.package = {}
        BY DEF PhpPack, Plain
    <2>3. SwiftPack.package = {}
        BY DEF SwiftPack, Plain
    <2>4. ScalaPack.package = {}
        BY DEF ScalaPack, Plain
    <2>5. CSharpPack.package = {}
        BY DEF CSharpPack, Plain
    <2> QED BY <2>1, <2>2, <2>3, <2>4, <2>5
<1>8. Lang # "kotlin" => Pack.package = {}
    BY <1>6, <1>7 DEF Pack, Packs
<1> QED BY <1>5, <1>8

LEMMA ExtractFileWalks == ASSUME IInv, WInv, ExtractFile PROVE WInv'
<1> DEFINE header == ChildOf(Tree, Root, Pack.package)
           name   == Text(Tree, ChildOf(Tree, header, {"qualified_identifier", "identifier"}))
           id     == NewId("namespace", name, header)
           x      == Record(id, name, Bare)
           root   == Root
<1>1. Doing("file") /\ "file" \in WalkDos
    BY DEF ExtractFile, WalkDos
<1>2. /\ TierThree /\ Lang \in DOMAIN Packs /\ agenda # << >>
    BY <1>1, HeadOfWalk
<1>3. IsTree(Tree) /\ IsSeq(agenda) /\ 1 \in DOMAIN agenda /\ Head(agenda) = agenda[1]
    BY <1>2, TreeIs, AtHead DEF IInv
<1>4. agenda[1].do = "file"
    BY <1>1, <1>3 DEF Doing
<1>5. Begun(nodes, edges, sites, agenda, stack) /\ Fits(Tree, Lang, nodes, agenda, stack)
    BY <1>2 DEF WInv, Walks
<1>6. /\ nodes = << >> /\ edges = << >> /\ sites = << >> /\ stack = FileScope
      /\ \A i \in DOMAIN agenda : agenda[i].do \notin Visits /\ (agenda[i].do \in Begins => i = 1)
    BY <1>3, <1>4, <1>5 DEF Begun, Begins
<1>7. UNCHANGED <<source, sites>> /\ sites' = << >>
    BY <1>6 DEF ExtractFile
<1>8. root \in Under(Tree, root)
    BY DEF Under
<1>9. CASE name = NoText
    <2>1. EmitsNothing /\ UNCHANGED stack /\ Descends("visit", root, << >>)
        BY <1>9 DEF ExtractFile
    <2>2. nodes' = << >> /\ stack' = FileScope
        BY <1>6, <2>1 DEF EmitsNothing
    <2>3. PICK kids : Kids(Tree, root, kids) /\ agenda' = Pushed(kids, agenda)
        <3> HIDE DEF root
        <3> QED BY <1>2, <1>3, <1>8, <2>1, DescendsWalks
    <2>4. \A c \in DOMAIN Tree : Chain(Tree, Lang, nodes', c) = stack'
        BY <1>3, <2>2, ChainOfNone
    <2>5. \A r \in SomeOf(nodes') : r.id.kind = "namespace" /\ IsSeq(r.name)
        BY <2>2, EmptyIs
    <2>6. stack' = stack
        BY <2>1
    <2>7. Walks(Tree, Lang, nodes', edges', sites', Pushed(kids, agenda), stack')
        BY <1>2, <1>3, <1>4, <1>5, <1>6, <1>7, <2>3, <2>4, <2>5, <2>6, FileWalks
    <2> QED BY <1>7, <2>3, <2>7, WalksOn
<1>10. CASE name # NoText
    <2>1. Emits(<<x>>) /\ Enters(id, name) /\ Descends("visit", root, <<Leave>>)
        BY <1>10 DEF ExtractFile
    <2>2. x.id = id /\ x.name = name /\ x.id.kind = "namespace"
        BY DEF Record, NewId
    <2>3. IsSeq(name) /\ Lang = "kotlin"
        BY <1>2, <1>3, <1>10, HeaderLanguage, NodesPicked, TextIs
    <2> HIDE DEF x, id, name
    <2>4. nodes' = <<x>>
        <3>1. nodes' = << >> \o <<x>> /\ IsSeq(<<x>>)
            BY <1>6, <2>1, OneIs DEF Emits
        <3> DEFINE one == <<x>>
        <3> HIDE DEF one
        <3>2. << >> \o one = one
            BY <3>1, AndNone DEF one
        <3> QED BY <3>1, <3>2 DEF one
    <2>5. stack' = Deeper(FileScope, x)
        BY <1>6, <2>1, <2>2 DEF Enters, Deeper, Entry
    <2>6. Front(stack') = stack
        BY <1>6, <2>5, OneIs, FrontOf DEF FileScope
    <2>7. PICK kids : Kids(Tree, root, kids) /\ agenda' = Pushed(Scoped(kids), agenda)
        <3> HIDE DEF root
        <3> QED BY <1>2, <1>3, <1>8, <2>1, DescendsWalks
    <2>8. \A c \in DOMAIN Tree : Chain(Tree, Lang, nodes', c) = stack'
        BY <1>3, <2>2, <2>3, <2>4, <2>5, ChainOfHeader
    <2>9. \A r \in SomeOf(nodes') : r.id.kind = "namespace" /\ IsSeq(r.name)
        BY <2>2, <2>3, <2>4, OneIs
    <2> DEFINE pre == Scoped(kids)
    <2>10. /\ \/ pre = kids /\ stack' = stack
              \/ pre = Scoped(kids) /\ Front(stack') = stack
           /\ Kids(Tree, Root, kids)
        BY <2>6, <2>7
    <2>11. agenda' = Pushed(pre, agenda)
        BY <2>7
    <2> HIDE DEF pre
    <2>12. Walks(Tree, Lang, nodes', edges', sites', Pushed(pre, agenda), stack')
        BY <1>2, <1>3, <1>4, <1>5, <1>6, <1>7, <2>8, <2>9, <2>10, FileWalks
    <2> QED BY <1>7, <2>11, <2>12, WalksOn
<1> QED BY <1>9, <1>10

LEMMA WalkWalks == ASSUME IInv, WInv, Walk PROVE WInv'
<1>1. CASE ExtractFile                      BY <1>1, ExtractFileWalks
<1>2. CASE ExtractCallable                  BY <1>2, ExtractCallableWalks
<1>3. CASE ExtractContainer                 BY <1>3, ExtractContainerWalks
<1>4. CASE ExtractStruct                    BY <1>4, ExtractStructWalks
<1>5. CASE ExtractEnum                      BY <1>5, ExtractEnumWalks
<1>6. CASE ExtractEnumMembers               BY <1>6, ExtractEnumMembersWalks
<1>7. CASE ExtractTypeAlias \/ ExtractProperty \/ ExtractVariable \/ ScalaValue
    BY <1>7, LeavesWalk
<1>8. CASE ExtractField                     BY <1>8, ExtractFieldWalks
<1>9. CASE ExtractImport                    BY <1>9, ExtractImportWalks
<1>10. CASE ExtractCall("visit") \/ ExtractCall("body")
    BY <1>10, ExtractCallWalks
<1>11. CASE NestedDefinition                BY <1>11, NestedDefinitionWalks
<1>12. CASE DescendBody                     BY <1>12, DescendBodyWalks
<1>13. CASE Descend \/ ScalaExtension       BY <1>13, DescendWalks
<1>14. CASE RubyModule                      BY <1>14, RubyModuleWalks
<1>15. CASE PhpConstants                    BY <1>15, PhpConstantsWalks
<1>16. CASE ScalaCases                      BY <1>16, ScalaCasesWalks
<1>17. CASE Ascend \/ LeaveScope            BY <1>17, LeaveScopeWalks
<1> QED BY <1>1, <1>2, <1>3, <1>4, <1>5, <1>6, <1>7, <1>8, <1>9, <1>10, <1>11, <1>12, <1>13,
           <1>14, <1>15, <1>16, <1>17 DEF Walk

\* A phase of parse::extract: the language has no pack.
LEMMA PhasesApart ==
    ASSUME IInv, Define \/ Contain \/ Refer \/ ReferToTypes \/ Import \/ Inherit PROVE WInv'
<1>1. PICK do \in Phased : Doing(do) /\ source' = source
    BY DEF Define, Contain, Refer, ReferToTypes, Import, Inherit, Phase, Phased, PhaseDos
<1>2. ~ TierThree
    <2>1. Head(agenda) \in SomeOf(agenda) /\ Head(agenda).do = do
        BY <1>1, AtHead DEF Doing, SomeOf
    <2> QED BY <1>1, <2>1 DEF IInv, Plan, Phased
<1> QED BY <1>1, <1>2 DEF WInv, TierThree, Lang

LEMMA NextWalks == ASSUME IInv, WInv, [Next]_extractVars PROVE WInv'
<1>1. CASE Unreadable \/ RecordFile
    BY <1>1, EndsWalking DEF Unreadable, RecordFile
<1>2. CASE Start                            BY <1>2, StartWalks
<1>3. CASE Finished \/ UNCHANGED extractVars
    <2>1. UNCHANGED <<source, agenda, stack, nodes, edges, sites>>
        BY <1>3 DEF Finished, extractVars
    <2> QED BY <2>1 DEF WInv, TierThree, Tree, Lang
<1>4. CASE Walk                             BY <1>4, WalkWalks
<1>5. CASE Define \/ Contain \/ Refer \/ ReferToTypes \/ Import \/ Inherit
    BY <1>5, PhasesApart
<1> QED BY <1>1, <1>2, <1>3, <1>4, <1>5 DEF Next

\* The scopes around a node as the properties state them.
LEMMA AroundAgrees ==
    ASSUME NEW n
    PROVE  /\ ScopesAround(n) = AroundIn(Tree, Lang, nodes, n)
           /\ ScopeOf(n) = ScopeIn(Tree, Lang, nodes, n)
<1>1. ScopesAround(n) = AroundIn(Tree, Lang, nodes, n)
    BY DEF ScopesAround, AroundIn, Header, HeaderIn, Openings, Opened, Opening, EmittedAt
<1> QED BY <1>1 DEF ScopeOf, ScopeIn

LEMMA OnceOnly ==
    ASSUME NEW es, NEW e, OneEdge(es, e) PROVE Cardinality({j \in DOMAIN es : es[j] = e}) = 1
<1>1. PICK k \in DOMAIN es : \A j \in DOMAIN es : (es[j] = e) <=> (j = k)
    BY DEF OneEdge
<1>2. {j \in DOMAIN es : es[j] = e} = {k}
    BY <1>1
<1> QED BY <1>2, FS_Singleton

LEMMA InvScopes == ASSUME WInv PROVE ScopesFollowTree
<1> SUFFICES ASSUME TierThree PROVE
        /\ \A i \in DOMAIN sites : sites[i].ask.ask = "call" => sites[i].from = ScopeOf(sites[i].at)
        /\ \A i \in DOMAIN nodes : nodes[i].id.kind # "namespace" =>
               Cardinality({j \in DOMAIN edges :
                   edges[j] = <<ScopeOf(nodes[i].id.at), nodes[i].id>>}) = 1
    BY DEF ScopesFollowTree
<1>1. Placed(Tree, Lang, nodes, edges) /\ Given(Tree, Lang, nodes, sites)
    BY DEF WInv, Walks
<1>2. ASSUME NEW i \in DOMAIN sites, sites[i].ask.ask = "call"
      PROVE  sites[i].from = ScopeOf(sites[i].at)
    <2>1. sites[i] \in SomeOf(sites)
        BY DEF SomeOf
    <2> QED BY <1>1, <1>2, <2>1, AroundAgrees DEF Given
<1>3. ASSUME NEW i \in DOMAIN nodes, nodes[i].id.kind # "namespace"
      PROVE  Cardinality({j \in DOMAIN edges :
                   edges[j] = <<ScopeOf(nodes[i].id.at), nodes[i].id>>}) = 1
    <2> DEFINE r == nodes[i]
               e == <<ScopeOf(r.id.at), r.id>>
    <2>1. r \in SomeOf(nodes)
        BY DEF SomeOf
    <2>2. OneEdge(edges, <<ScopeIn(Tree, Lang, nodes, r.id.at), r.id>>)
        BY <1>1, <1>3, <2>1 DEF Placed, PlacedIn
    <2>3. OneEdge(edges, e)
        BY <2>2, AroundAgrees
    <2> HIDE DEF e
    <2>4. Cardinality({j \in DOMAIN edges : edges[j] = e}) = 1
        BY <2>3, OnceOnly
    <2> QED BY <2>4 DEF e
<1> QED BY <1>2, <1>3

LEMMA InvNames == ASSUME WInv PROVE NamesFollowScopes
<1> SUFFICES ASSUME TierThree, NEW i \in DOMAIN nodes, nodes[i].id.kind # "namespace"
             PROVE  nodes[i].id.qn = Spelt(Tree, Lang, ScopesAround(nodes[i].id.at), nodes[i])
    BY DEF NamesFollowScopes, Spelt, Spelling
<1>1. Placed(Tree, Lang, nodes, edges)
    BY DEF WInv, Walks
<1>2. nodes[i] \in SomeOf(nodes)
    BY DEF SomeOf
<1>3. nodes[i].id.qn
          = Spelt(Tree, Lang, AroundIn(Tree, Lang, nodes, nodes[i].id.at), nodes[i])
    BY <1>1, <1>2 DEF Placed, PlacedIn
<1> QED BY <1>3, AroundAgrees

LEMMA WalksAlways == Spec => [](IInv /\ WInv)
<1>1. Init => IInv /\ WInv
    BY BeginsWithInv, BeginsWalking
<1>2. (IInv /\ WInv) /\ [Next]_extractVars => (IInv /\ WInv)'
    BY NextKeeps, NextWalks
<1> QED BY <1>1, <1>2, PTL DEF Spec

\* In a file of a walked language each call site belongs to the innermost definition
\* emitted around it in the tree, and each definition hangs by one contains edge from
\* the innermost one around it: the stack of enter_scope and leave_scope says what
\* the tree says, on every path of visit and visit_body, at any cap, whatever has no
\* name and whatever the tree is.
THEOREM ScopesAlwaysFollowTree == Spec => []ScopesFollowTree
BY WalksAlways, InvScopes, PTL

\* And its qualified name spells those definitions, with Kotlin's package ahead and
\* an extension's type in their place (qualified_name, extract_method).
THEOREM NamesAlwaysFollowScopes == Spec => []NamesFollowScopes
BY WalksAlways, InvNames, PTL
=============================================================================
