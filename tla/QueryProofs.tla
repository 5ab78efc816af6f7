----------------------------- MODULE QueryProofs -----------------------------
(***************************************************************************)
(* The query tool for any sources, answers, settings and scores: all six   *)
(* properties of Query.                                                    *)
(*                                                                         *)
(* The types and two facts of the stages are inductive (FrontInv): the     *)
(* pool is fair, by the invariant Fair of the loop that selects it, and    *)
(* the ranking a permutation of it, for sorting permutes and the second    *)
(* pass takes over what the first one promoted.  The results follow from   *)
(* the ranking: the runs of a document are Spaced after each of its hits,  *)
(* so that Combined makes one result of each run and those of a document   *)
(* are apart.  Fusion is a loop again, with the invariant Merged; and so   *)
(* is the text of a run, with Lined.                                       *)
(***************************************************************************)
EXTENDS Query, LoopProofs, SequenceTheorems

\* The loop over the sorted hits runs through selections.
LEMMA Selections ==
    ASSUME NEW n, n \in Nat, Len(hits) = n
    PROVE  \E sel :
             /\ sel \in [0 .. n -> Seq(1 .. n)] /\ sel[0] = << >>
             /\ \A i \in 1 .. n : sel[i] = IF Admits(sel[i - 1], hits[i])
                                           THEN Append(sel[i - 1], i) ELSE sel[i - 1]
             /\ Selected = sel[n]
<1> DEFINE T == Seq(1 .. n)
           Next_(x, i) == IF Admits(x, hits[i]) THEN Append(x, i) ELSE x
           step == [i \in 1 .. n |-> [x \in T |-> Next_(x, i)]]
           Looped(f) == f = [i \in 0 .. n |-> IF i = 0 THEN << >> ELSE Next_(f[i - 1], i)]
           acc == CHOOSE f : Looped(f)
<1>1. IsLoop(n, T, << >>, step)
    <2>1. \A i \in 1 .. n : \A x \in T : Append(x, i) \in T
        OBVIOUS
    <2> HIDE DEF T
    <2>2. ASSUME NEW i \in 1 .. n, NEW x \in T PROVE Next_(x, i) \in T
        BY <2>1
    <2>3. << >> \in T
        BY DEF T
    <2> HIDE DEF Next_
    <2> QED BY <2>2, <2>3 DEF IsLoop
<1>2. Selected = acc[n]
    BY DEF Loop, Selected
<1> HIDE DEF T, Next_
<1>3. PICK f : IsRun(f, n, T, << >>, step)
    <2> HIDE DEF step
    <2> QED BY <1>1, LoopRuns
<1>4. Looped(f)
    <2>1. ASSUME NEW i \in 1 .. n PROVE f[i] = Next_(f[i - 1], i)
        <3>1. i - 1 \in 0 .. n
            OBVIOUS
        <3>2. f[i - 1] \in T /\ f[i] = step[i][f[i - 1]]
            <4> HIDE DEF step
            <4> QED BY <1>3, <3>1 DEF IsRun
        <3> QED BY <3>2
    <2> HIDE DEF step
    <2> QED BY <1>3, <2>1 DEF IsRun
<1>5. Looped(acc)
    <2> HIDE DEF Looped
    <2> QED BY <1>4
<1>6. /\ acc = [i \in 0 .. n |-> acc[i]] /\ acc[0] = << >>
      /\ \A i \in 1 .. n : acc[i] = Next_(acc[i - 1], i)
    <2> HIDE DEF acc, step
    <2> QED BY <1>5
<1>7. IsRun(acc, n, T, << >>, step)
    <2> HIDE DEF acc
    <2>1. \A i \in 1 .. n : acc[i - 1] \in T => acc[i] = step[i][acc[i - 1]]
        BY <1>6
    <2> HIDE DEF step, Looped
    <2> QED BY <1>1, <1>6, <2>1, RunOfLoop
<1> HIDE DEF acc
<1> QED BY <1>2, <1>6, <1>7 DEF IsRun, T, Next_

-----------------------------------------------------------------------------
(* Sorting                                                                 *)

\* p tells where the elements of the sorted sequence come from.
Sorts(p, seq, n) ==
    /\ p \in [1 .. n -> 1 .. n] /\ Sorted(seq) = [r \in 1 .. n |-> seq[p[r]]]
    /\ \A i \in 1 .. n : \E r \in 1 .. n : p[r] = i
    /\ \A r, s \in 1 .. n : r < s => Ahead(seq, p[r], p[s])
    /\ \A r, s \in 1 .. n : p[r] = p[s] => r = s

\* Sorting permutes: hits of equal score stay in their order.
LEMMA SortedPermutes ==
    ASSUME NEW seq, NEW n, n \in Nat, DOMAIN seq = 1 .. n,
           \A i \in 1 .. n : seq[i].score \in Int
    PROVE  \E p : Sorts(p, seq, n)
<1> DEFINE S == 1 .. n
           R == {q \in S \X S : Ahead(seq, q[1], q[2])}
           rank == [x \in S |-> Cardinality({y \in S : Ahead(seq, y, x)})]
           p == [r \in 1 .. Cardinality(S) |-> CHOOSE x \in S : rank[x] = r - 1]
<1>1. IsFiniteSet(S) /\ Cardinality(S) = n
    BY FS_Interval
<1>2. \A x, y \in S : <<x, y>> \in R <=> Ahead(seq, x, y)
    OBVIOUS
<1>3. Orders(R, S)
    <2> HIDE DEF R
    <2>1. \A x \in S : <<x, x>> \notin R
        BY <1>2 DEF Ahead
    <2>2. \A x, y, z \in S : <<x, y>> \in R /\ <<y, z>> \in R => <<x, z>> \in R
        BY <1>2 DEF Ahead
    <2>3. \A x, y \in S : x # y => <<x, y>> \in R \/ <<y, x>> \in R
        BY <1>2 DEF Ahead
    <2> QED BY <2>1, <2>2, <2>3 DEF Orders
<1>4. rank = [x \in S |-> Cardinality(Below(R, S, x))]
    <2>1. \A x \in S : {y \in S : Ahead(seq, y, x)} = Below(R, S, x)
        BY <1>2 DEF Below
    <2> QED BY <2>1
<1>5. Sorted(seq) = [r \in 1 .. n |-> seq[p[r]]]
    BY DEF Sorted, InOrder
<1>6. IsSort(p, R, S)
    <2>1. p = ByRank(rank, S) /\ rank = RankIn(R, S)
        BY <1>4 DEF ByRank, RankIn
    <2> HIDE DEF p, rank, R, S
    <2> QED BY <1>1, <1>3, <2>1, Ordered
<1> HIDE DEF p, R, rank
<1>7. Sorts(p, seq, n)
    BY <1>1, <1>2, <1>5, <1>6 DEF IsSort, Sorts
<1> QED BY <1>7

-----------------------------------------------------------------------------
(* Limits                                                                  *)

LEMMA GreaterOf ==
    ASSUME NEW a \in Int, NEW b \in Int
    PROVE  Greatest({a, b}) \in {a, b} /\ Greatest({a, b}) >= a /\ Greatest({a, b}) >= b
<1>1. \E x \in {a, b} : \A y \in {a, b} : y <= x
    <2>1. CASE a <= b
        BY <2>1
    <2>2. CASE b <= a
        BY <2>2
    <2> QED BY <2>1, <2>2
<1> QED BY <1>1 DEF Greatest

LEMMA Limits ==
    ASSUME conf.set \in Settings
    PROVE  /\ FetchLimit \in Nat /\ ExpansionCap \in Nat /\ MaxPerBucket \in Nat
           /\ Budget \in Nat \ {0}
<1>1. FetchLimit \in Nat /\ MinBucket \in Nat /\ Pass1K \in Nat
    BY BoundsAreNumbers
<1>2. MaxPerBucket \in Nat
    <2> DEFINE third == FetchLimit \div 3
    <2>1. third \in Nat
        BY <1>1
    <2>2. MaxPerBucket = Greatest({third, MinBucket})
        BY DEF MaxPerBucket
    <2> HIDE DEF third
    <2>3. MaxPerBucket \in {third, MinBucket}
        <3>1. third \in Int /\ MinBucket \in Int
            BY <1>1, <2>1
        <3>2. Greatest({third, MinBucket}) \in {third, MinBucket}
            BY <3>1, GreaterOf
        <3> QED BY <2>2, <3>2
    <2> QED BY <1>1, <2>1, <2>3
<1>3. ExpansionCap \in Nat
    <2>1. FetchLimit * ExpansionShare \in Nat
        BY <1>1, SharesAreTenths
    <2>2. (FetchLimit * ExpansionShare) \div 10 \in Nat
        BY <2>1
    <2> QED BY <2>2 DEF ExpansionCap
<1>4. Budget \in Nat \ {0}
    <2> DEFINE limit == conf.set.limit
    <2>1. limit \in Nat \ {0}
        BY SettingsAreSettings DEF Setting
    <2>2. Budget = Greatest({limit, Pass1K})
        BY DEF Budget
    <2> HIDE DEF limit
    <2>3. limit \in Int /\ Pass1K \in Int
        BY <1>1, <2>1
    <2>4. Budget \in {limit, Pass1K} /\ Budget >= limit
        BY <2>2, <2>3, GreaterOf
    <2> QED BY <1>1, <2>1, <2>4
<1> QED BY <1>1, <1>2, <1>3, <1>4

-----------------------------------------------------------------------------
(* The pool                                                                *)

NovelAt == {i \in DOMAIN hits : ~hits[i].original}
BucketOf(h) == {i \in DOMAIN hits : hits[i].package = h.package /\ hits[i].origin = h.origin}
Before(j) == {i \in DOMAIN hits : i < j}
Many(sel, P) == Cardinality(Counted(sel, P))

\* What left hit j out.
Shut(sel, j) ==
    \/ Many(sel, Before(j)) = FetchLimit
    \/ Many(sel, Before(j) \cap BucketOf(hits[j])) = MaxPerBucket
    \/ ~hits[j].original /\ Many(sel, Before(j) \cap NovelAt) = ExpansionCap

\* What holds of the selection when the loop has seen the first i hits.
Fair(sel, i) ==
    /\ sel \in Seq(1 .. i) /\ Len(sel) <= FetchLimit
    /\ Many(sel, NovelAt) <= ExpansionCap
    /\ \A j \in DOMAIN hits : Many(sel, BucketOf(hits[j])) <= MaxPerBucket
    /\ \A j \in 1 .. i : j \in ToSet(sel) \/ Shut(sel, j)

LEMMA SameCounts ==
    ASSUME NEW n, n \in Nat, DOMAIN hits = 1 .. n, NEW sel, sel \in Seq(1 .. n)
    PROVE  /\ Novel(sel) = Many(sel, NovelAt)
           /\ \A h : InBucket(sel, h) = Many(sel, BucketOf(h))
<1>1. \A k \in DOMAIN sel : sel[k] \in DOMAIN hits
    OBVIOUS
<1>2. Novel(sel) = Many(sel, NovelAt)
    BY <1>1 DEF Novel, Many, Counted, NovelAt
<1>3. ASSUME NEW h PROVE InBucket(sel, h) = Many(sel, BucketOf(h))
    <2>1. {k \in DOMAIN sel : hits[sel[k]].package = h.package
                                 /\ hits[sel[k]].origin = h.origin}
          = Counted(sel, BucketOf(h))
        BY <1>1 DEF Counted, BucketOf
    <2> QED BY <2>1 DEF InBucket, Many
<1> QED BY <1>2, <1>3

LEMMA FairStep ==
    ASSUME NEW n, n \in Nat, DOMAIN hits = 1 .. n, conf.set \in Settings,
           NEW i, i \in 1 .. n, NEW sel, Fair(sel, i - 1)
    PROVE  Fair(IF Admits(sel, hits[i]) THEN Append(sel, i) ELSE sel, i)
<1> DEFINE more == Append(sel, i)
<1>1. /\ sel \in Seq(1 .. i - 1) /\ sel \in Seq(1 .. n) /\ sel \in Seq(1 .. i)
      /\ DOMAIN sel = 1 .. Len(sel) /\ Len(sel) \in Nat
      /\ \A k \in DOMAIN sel : sel[k] \in 1 .. i - 1
    <2>1. sel \in Seq(1 .. i - 1)
        BY DEF Fair
    <2> QED BY <2>1
<1>2. /\ Novel(sel) = Many(sel, NovelAt)
      /\ \A h : InBucket(sel, h) = Many(sel, BucketOf(h))
    BY <1>1, SameCounts
<1>3. FetchLimit \in Nat /\ ExpansionCap \in Nat /\ MaxPerBucket \in Nat
    BY Limits
<1>4. ASSUME NEW P
      PROVE  /\ Many(sel, P) \in 0 .. Len(sel)
             /\ i \in P => Many(more, P) = Many(sel, P) + 1
             /\ i \notin P => Many(more, P) = Many(sel, P)
    BY <1>1, OneMore DEF Many
<1>5. CASE Admits(sel, hits[i])
    <2>1. more \in Seq(1 .. i) /\ Len(more) = Len(sel) + 1
        BY <1>1
    <2>2. Len(more) <= FetchLimit
        BY <1>1, <1>3, <1>5, <2>1 DEF Admits
    <2>3. Many(more, NovelAt) <= ExpansionCap
        <3>1. CASE hits[i].original
            <4>1. i \notin NovelAt
                BY <3>1 DEF NovelAt
            <4> QED BY <1>4, <4>1 DEF Fair
        <3>2. CASE ~hits[i].original
            <4>1. i \in NovelAt /\ Many(sel, NovelAt) < ExpansionCap
                BY <1>2, <1>5, <3>2 DEF NovelAt, Admits
            <4> QED BY <1>3, <1>4, <4>1
        <3> QED BY <3>1, <3>2
    <2>4. ASSUME NEW j \in DOMAIN hits PROVE Many(more, BucketOf(hits[j])) <= MaxPerBucket
        <3>1. CASE i \in BucketOf(hits[j])
            <4>1. BucketOf(hits[j]) = BucketOf(hits[i])
                BY <3>1 DEF BucketOf
            <4>2. Many(sel, BucketOf(hits[i])) < MaxPerBucket
                BY <1>2, <1>5 DEF Admits
            <4> QED BY <1>3, <1>4, <3>1, <4>1, <4>2
        <3>2. CASE i \notin BucketOf(hits[j])
            <4>1. Many(more, BucketOf(hits[j])) = Many(sel, BucketOf(hits[j]))
                BY <1>4, <3>2
            <4> QED BY <4>1 DEF Fair
        <3> QED BY <3>1, <3>2
    <2>5. ASSUME NEW j \in 1 .. i PROVE j \in ToSet(more) \/ Shut(more, j)
        <3>1. CASE j = i
            <4>1. DOMAIN more = 1 .. Len(sel) + 1 /\ more[Len(sel) + 1] = i
                BY <1>1
            <4>2. Len(sel) + 1 \in DOMAIN more
                BY <1>1, <4>1
            <4> QED BY <3>1, <4>1, <4>2 DEF ToSet
        <3>2. CASE j < i
            <4>1. j \in 1 .. i - 1
                BY <3>2
            <4>2. CASE j \in ToSet(sel)
                <5>1. PICK k \in DOMAIN sel : sel[k] = j
                    BY <4>2 DEF ToSet
                <5>2. k \in DOMAIN more /\ more[k] = j
                    BY <1>1, <5>1
                <5> QED BY <5>2 DEF ToSet
            <4>3. CASE Shut(sel, j)
                <5>1. i \notin Before(j)
                    BY <3>2 DEF Before
                <5>2. \A P : Many(more, Before(j) \cap P) = Many(sel, Before(j) \cap P)
                    BY <1>4, <5>1
                <5>3. Many(more, Before(j)) = Many(sel, Before(j))
                    BY <1>4, <5>1
                <5> HIDE DEF more
                <5> QED BY <4>3, <5>2, <5>3 DEF Shut
            <4> QED BY <4>1, <4>2, <4>3 DEF Fair
        <3> QED BY <3>1, <3>2
    <2>6. Fair(more, i)
        BY <2>1, <2>2, <2>3, <2>4, <2>5 DEF Fair
    <2> QED BY <1>5, <2>6
<1>6. CASE ~Admits(sel, hits[i])
    <2>1. ASSUME NEW P, P \subseteq DOMAIN hits 
          PROVE  Many(sel, Before(i) \cap P) = Many(sel, P)
        <3>1. Counted(sel, Before(i) \cap P) = Counted(sel, P)
            BY <1>1 DEF Counted, Before
        <3> QED BY <3>1 DEF Many
    <2>2. Many(sel, Before(i)) = Len(sel)
        <3>1. Counted(sel, Before(i)) = 1 .. Len(sel)
            BY <1>1 DEF Counted, Before
        <3>2. Cardinality(1 .. Len(sel)) = Len(sel)
            <4> DEFINE l == Len(sel)
            <4>1. l \in Nat
                BY <1>1
            <4> HIDE DEF l
            <4>2. Cardinality(1 .. l) = l
                BY <4>1, FS_Interval
            <4> QED BY <4>2 DEF l
        <3> QED BY <3>1, <3>2 DEF Many
    <2>3. NovelAt \subseteq DOMAIN hits /\ BucketOf(hits[i]) \subseteq DOMAIN hits
        BY DEF NovelAt, BucketOf
    <2>4. Shut(sel, i)
        <3>0. /\ Len(sel) <= FetchLimit /\ Many(sel, NovelAt) <= ExpansionCap
              /\ Many(sel, BucketOf(hits[i])) <= MaxPerBucket
              /\ Len(sel) \in Nat /\ Many(sel, NovelAt) \in Int
              /\ Many(sel, BucketOf(hits[i])) \in Int
            BY <1>1, <1>4 DEF Fair
        <3>1. CASE ~(Len(sel) < FetchLimit)
            <4>1. Len(sel) = FetchLimit
                BY <1>3, <3>0, <3>1
            <4> QED BY <2>2, <4>1 DEF Shut
        <3>2. CASE ~hits[i].original /\ ~(Novel(sel) < ExpansionCap)
            <4>1. Many(sel, NovelAt) = ExpansionCap
                BY <1>2, <1>3, <3>0, <3>2
            <4> QED BY <2>1, <2>3, <3>2, <4>1 DEF Shut
        <3>3. CASE ~(InBucket(sel, hits[i]) < MaxPerBucket)
            <4>1. Many(sel, BucketOf(hits[i])) = MaxPerBucket
                BY <1>2, <1>3, <3>0, <3>3
            <4> QED BY <2>1, <2>3, <4>1 DEF Shut
        <3> QED BY <1>6, <3>1, <3>2, <3>3 DEF Admits
    <2>5. \A j \in 1 .. i : j \in 1 .. i - 1 \/ j = i
        OBVIOUS
    <2>6. Fair(sel, i)
        BY <1>1, <2>4, <2>5 DEF Fair
    <2> QED BY <1>6, <2>6
<1> QED BY <1>5, <1>6

LEMMA SelectedFairly ==
    ASSUME NEW n, n \in Nat, DOMAIN hits = 1 .. n, Len(hits) = n, conf.set \in Settings
    PROVE  Fair(Selected, n)
<1>1. PICK f :
         /\ f \in [0 .. n -> Seq(1 .. n)] /\ f[0] = << >>
         /\ \A i \in 1 .. n : f[i] = IF Admits(f[i - 1], hits[i])
                                     THEN Append(f[i - 1], i) ELSE f[i - 1]
         /\ Selected = f[n]
    BY Selections
<1> DEFINE good == {i \in 0 .. n : Fair(f[i], i)}
<1>2. 0 \in good
    <2>1. \A P : Many(<< >>, P) = 0
        <3>1. \A P : Counted(<< >>, P) = {}
            BY DEF Counted
        <3> QED BY <3>1, FS_EmptySet DEF Many
    <2>2. << >> \in Seq(1 .. 0) /\ Len(<< >>) = 0
        OBVIOUS
    <2> QED BY <1>1, <2>1, <2>2, Limits DEF Fair
<1>3. ASSUME NEW i \in 1 .. n, i - 1 \in good PROVE i \in good
    <2>1. Fair(IF Admits(f[i - 1], hits[i]) THEN Append(f[i - 1], i) ELSE f[i - 1], i)
        BY <1>3, FairStep
    <2> QED BY <1>1, <2>1
<1>4. n \in good
    <2> HIDE DEF good
    <2>1. 0 .. n \subseteq good
        BY <1>2, <1>3, UpTo
    <2> QED BY <2>1
<1> QED BY <1>1, <1>4

-----------------------------------------------------------------------------
(* Types                                                                   *)

PlanItem == [source : DOMAIN Sources, weight : {1, 2}, original : BOOLEAN]

LEMMA SearchesAre ==
    ASSUME NEW scope, NEW how, NEW weight \in {1, 2}, NEW original \in BOOLEAN
    PROVE  Searches(scope, how, weight, original) \in Seq(PlanItem)
<1> DEFINE n == Len(Sources)
           all == [i \in DOMAIN Sources |->
                     [source |-> i, weight |-> weight, original |-> original]]
           I == {i \in DOMAIN all : /\ Sources[all[i].source].package \in scope
                                    /\ Sources[all[i].source].how \in how}
           p == Places(I)
<1>1. n \in Nat /\ DOMAIN Sources = 1 .. n /\ DOMAIN all = 1 .. n
    BY SourcesAreSources
<1>2. \A i \in 1 .. n : all[i] \in PlanItem
    BY <1>1 DEF PlanItem
<1>3. Searches(scope, how, weight, original) = [r \in DOMAIN p |-> all[p[r]]]
    BY DEF Searches, Filter
<1>4. I \in SUBSET (1 .. n)
    BY <1>1
<1> HIDE DEF I, all, n, p
<1>5. IsListing(p, I, n)
    BY <1>1, <1>4, PlacesAre DEF p
<1>6. Cardinality(I) \in Nat /\ DOMAIN p = 1 .. Cardinality(I)
    BY <1>1, <1>5 DEF IsListing
<1>7. \A r \in DOMAIN p : all[p[r]] \in PlanItem
    BY <1>2, <1>4, <1>5 DEF IsListing
<1> QED BY <1>3, <1>6, <1>7

FromQuery(scope) == Searches(scope, {"lex", "vec"}, 2, TRUE)
FromExpansion(scope, way) == Searches(scope, {way}, 1, FALSE)

LEMMA BothSearches ==
    ASSUME NEW scope
    PROVE  /\ FromQuery(scope) \in Seq(PlanItem)
           /\ \A way : FromExpansion(scope, way) \in Seq(PlanItem)
<1>1. 1 \in {1, 2} /\ 2 \in {1, 2} /\ TRUE \in BOOLEAN /\ FALSE \in BOOLEAN
    OBVIOUS
<1>2. FromQuery(scope) \in Seq(PlanItem)
    BY <1>1, SearchesAre, Zenon DEF FromQuery
<1>3. ASSUME NEW way PROVE FromExpansion(scope, way) \in Seq(PlanItem)
    BY <1>1, SearchesAre, Zenon DEF FromExpansion
<1> QED BY <1>2, <1>3

\* The plan of a query grows by the searches of each expansion.
LEMMA PlanRuns ==
    ASSUME NEW scope, NEW variants, variants \in Seq({"lex", "vec"})
    PROVE  \E f : /\ f \in [0 .. Len(variants) -> Seq(PlanItem)] /\ f[0] = FromQuery(scope)
                  /\ \A i \in 1 .. Len(variants) :
                         f[i] = f[i - 1] \o FromExpansion(scope, variants[i])
                  /\ Plan(scope, variants) = f[Len(variants)]
<1> DEFINE T == Seq(PlanItem)
           Round(x, i) == x \o FromExpansion(scope, variants[i])
           step == [i \in 1 .. Len(variants) |-> [x \in T |-> Round(x, i)]]
           Looped(f) == f = [i \in 0 .. Len(variants) |->
               IF i = 0 THEN FromQuery(scope) ELSE Round(f[i - 1], i)]
           acc == CHOOSE f : Looped(f)
<1>1. IsLoop(Len(variants), T, FromQuery(scope), step)
    <2>1. Len(variants) \in Nat /\ FromQuery(scope) \in T
        BY BothSearches
    <2> HIDE DEF T
    <2>2. ASSUME NEW i \in 1 .. Len(variants), NEW x \in T PROVE Round(x, i) \in T
        <3>1. FromExpansion(scope, variants[i]) \in T
            BY BothSearches DEF T
        <3>2. \A a, b \in T : a \o b \in T
            BY DEF T
        <3> QED BY <3>1, <3>2
    <2> HIDE DEF Round
    <2> QED BY <2>1, <2>2 DEF IsLoop
<1>2. Plan(scope, variants) = acc[Len(variants)]
    BY DEF Loop, Plan, FromQuery, FromExpansion
<1> HIDE DEF T, Round
<1>3. PICK f : IsRun(f, Len(variants), T, FromQuery(scope), step)
    <2> HIDE DEF step
    <2> QED BY <1>1, LoopRuns
<1>4. Looped(f)
    <2>1. ASSUME NEW i \in 1 .. Len(variants) PROVE f[i] = Round(f[i - 1], i)
        <3>1. i - 1 \in 0 .. Len(variants)
            BY <1>1 DEF IsLoop
        <3>2. f[i - 1] \in T /\ f[i] = step[i][f[i - 1]]
            <4> HIDE DEF step
            <4> QED BY <1>3, <3>1 DEF IsRun
        <3> QED BY <3>2
    <2> HIDE DEF step
    <2> QED BY <1>3, <2>1 DEF IsRun
<1>5. Looped(acc)
    <2> HIDE DEF Looped
    <2> QED BY <1>4
<1>6. /\ acc = [i \in 0 .. Len(variants) |-> acc[i]] /\ acc[0] = FromQuery(scope)
      /\ \A i \in 1 .. Len(variants) : acc[i] = Round(acc[i - 1], i)
    <2> HIDE DEF acc, step
    <2>1. Len(variants) \in Nat
        BY <1>1 DEF IsLoop
    <2> QED BY <1>5, <2>1
<1>7. IsRun(acc, Len(variants), T, FromQuery(scope), step)
    <2> HIDE DEF acc
    <2>1. \A i \in 1 .. Len(variants) : acc[i - 1] \in T => acc[i] = step[i][acc[i - 1]]
        BY <1>6
    <2> HIDE DEF step, Looped
    <2> QED BY <1>1, <1>6, <2>1, RunOfLoop
<1> HIDE DEF acc
<1> QED BY <1>2, <1>6, <1>7 DEF IsRun, T, Round

LEMMA PlanIs ==
    ASSUME NEW scope, NEW variants, variants \in Seq({"lex", "vec"})
    PROVE  Plan(scope, variants) \in Seq(PlanItem)
<1>1. Len(variants) \in 0 .. Len(variants)
    BY LenProperties
<1>2. PICK f : /\ f \in [0 .. Len(variants) -> Seq(PlanItem)]
               /\ Plan(scope, variants) = f[Len(variants)]
    BY PlanRuns
<1> QED BY <1>1, <1>2

LEMMA ComplementIs ==
    ASSUME NEW winner \in HitType, NEW donor \in HitType
    PROVE  Complement(winner, donor) \in HitType
<1> DEFINE start == IF winner.start = 0 THEN donor.start ELSE winner.start
           end == IF winner.start = 0 /\ donor.start > 0 THEN donor.end ELSE winner.end
           score == winner.score + donor.score
           original == winner.original \/ donor.original
<1>1. start \in Nat /\ end \in Nat /\ score \in Nat /\ original \in BOOLEAN
    BY DEF HitType
<1>2. Complement(winner, donor) = [[[[winner EXCEPT !.start = start] EXCEPT !.end = end]
                                      EXCEPT !.score = score] EXCEPT !.original = original]
    BY DEF Complement, HitType
<1> HIDE DEF start, end, score, original
<1>3. [winner EXCEPT !.start = start] \in HitType
    BY <1>1 DEF HitType
<1> QED BY <1>1, <1>2, <1>3 DEF HitType

LEMMA AbsorbIs ==
    ASSUME NEW seq, seq \in Seq(HitType), NEW h, h \in HitType
    PROVE  Absorb(seq, h) \in Seq(HitType)
<1> DEFINE same == {i \in DOMAIN seq : Key(seq[i]) = Key(h)}
<1>1. \A i \in DOMAIN seq : seq[i] \in HitType /\ Fused(seq[i], h) \in HitType
    <2>1. ASSUME NEW i \in DOMAIN seq PROVE seq[i] \in HitType /\ Fused(seq[i], h) \in HitType
        <3>1. seq[i] \in HitType
            OBVIOUS
        <3> QED BY <3>1, ComplementIs DEF Fused
    <2> QED BY <2>1
<1>2. Append(seq, h) \in Seq(HitType)
    OBVIOUS
<1>3. Len(seq) \in Nat /\ DOMAIN seq = 1 .. Len(seq)
    OBVIOUS
<1> HIDE DEF same, HitType
<1>4. [i \in DOMAIN seq |-> IF i \in same THEN Fused(seq[i], h) ELSE seq[i]] \in Seq(HitType)
    BY <1>1, <1>3
<1>5. Absorb(seq, h) = IF same = {} THEN Append(seq, h)
                       ELSE [i \in DOMAIN seq |->
                           IF i \in same THEN Fused(seq[i], h) ELSE seq[i]]
    BY DEF Absorb, same
<1> QED BY <1>2, <1>4, <1>5

\* What hits of one key are fused to.
LEMMA DedupedRuns ==
    ASSUME hits \in Seq(HitType)
    PROVE  \E f : /\ f \in [0 .. Len(hits) -> Seq(HitType)] /\ f[0] = << >>
                  /\ \A i \in 1 .. Len(hits) : f[i] = Absorb(f[i - 1], hits[i])
                  /\ Deduped = f[Len(hits)]
<1> DEFINE T == Seq(HitType)
           Round(x, i) == Absorb(x, hits[i])
           step == [i \in 1 .. Len(hits) |-> [x \in T |-> Round(x, i)]]
           Looped(f) == f = [i \in 0 .. Len(hits) |->
               IF i = 0 THEN << >> ELSE Round(f[i - 1], i)]
           acc == CHOOSE f : Looped(f)
<1>1. IsLoop(Len(hits), T, << >>, step)
    <2>1. Len(hits) \in Nat /\ << >> \in T
        OBVIOUS
    <2> HIDE DEF T
    <2>2. ASSUME NEW i \in 1 .. Len(hits), NEW x \in T PROVE Round(x, i) \in T
        <3>1. hits[i] \in HitType
            OBVIOUS
        <3> QED BY <3>1, AbsorbIs DEF T
    <2> HIDE DEF Round
    <2> QED BY <2>1, <2>2 DEF IsLoop
<1>2. Deduped = acc[Len(hits)]
    BY DEF Loop, Deduped
<1> HIDE DEF T, Round
<1>3. PICK f : IsRun(f, Len(hits), T, << >>, step)
    <2> HIDE DEF step
    <2> QED BY <1>1, LoopRuns
<1>4. Looped(f)
    <2>1. ASSUME NEW i \in 1 .. Len(hits) PROVE f[i] = Round(f[i - 1], i)
        <3>1. i - 1 \in 0 .. Len(hits)
            BY <1>1 DEF IsLoop
        <3>2. f[i - 1] \in T /\ f[i] = step[i][f[i - 1]]
            <4> HIDE DEF step
            <4> QED BY <1>3, <3>1 DEF IsRun
        <3> QED BY <3>2
    <2> HIDE DEF step
    <2> QED BY <1>3, <2>1 DEF IsRun
<1>5. Looped(acc)
    <2> HIDE DEF Looped
    <2> QED BY <1>4
<1>6. /\ acc = [i \in 0 .. Len(hits) |-> acc[i]] /\ acc[0] = << >>
      /\ \A i \in 1 .. Len(hits) : acc[i] = Round(acc[i - 1], i)
    <2> HIDE DEF acc, step
    <2>1. Len(hits) \in Nat
        BY <1>1 DEF IsLoop
    <2> QED BY <1>5, <2>1
<1>7. IsRun(acc, Len(hits), T, << >>, step)
    <2> HIDE DEF acc
    <2>1. \A i \in 1 .. Len(hits) : acc[i - 1] \in T => acc[i] = step[i][acc[i - 1]]
        BY <1>6
    <2> HIDE DEF step, Looped
    <2> QED BY <1>1, <1>6, <2>1, RunOfLoop
<1> HIDE DEF acc
<1> QED BY <1>2, <1>6, <1>7 DEF IsRun, T, Round

\* Sums of scores: f holds what the hits of I up to each place add up to.
Accrues(f, seq, I) ==
    /\ f \in [0 .. Len(seq) -> Nat] /\ f[0] = 0
    /\ \A i \in 1 .. Len(seq) :
         f[i] = (IF i \in I THEN f[i - 1] + seq[i].score ELSE f[i - 1])
    /\ SumAt(seq, I) = f[Len(seq)]

LEMMA SumRuns ==
    ASSUME NEW seq, seq \in Seq(HitType), NEW I
    PROVE  \E f : Accrues(f, seq, I)
<1> DEFINE T == Nat
           Round(x, i) == (IF i \in I THEN x + seq[i].score ELSE x)
           step == [i \in 1 .. Len(seq) |-> [x \in T |-> Round(x, i)]]
           Looped(f) == f = [i \in 0 .. Len(seq) |-> IF i = 0 THEN 0 ELSE Round(f[i - 1], i)]
           acc == CHOOSE f : Looped(f)
<1>1. IsLoop(Len(seq), T, 0, step)
    <2>1. Len(seq) \in Nat /\ 0 \in T
        OBVIOUS
    <2> HIDE DEF T
    <2>2. ASSUME NEW i \in 1 .. Len(seq), NEW x \in T PROVE Round(x, i) \in T
        <3>1. seq[i] \in HitType
            OBVIOUS
        <3>2. seq[i].score \in Nat
            BY <3>1 DEF HitType
        <3> QED BY <3>2 DEF T
    <2> HIDE DEF Round
    <2> QED BY <2>1, <2>2 DEF IsLoop
<1>2. SumAt(seq, I) = acc[Len(seq)]
    BY DEF Loop, SumAt
<1> HIDE DEF T, Round
<1>3. PICK f : IsRun(f, Len(seq), T, 0, step)
    <2> HIDE DEF step
    <2> QED BY <1>1, LoopRuns
<1>4. Looped(f)
    <2>1. ASSUME NEW i \in 1 .. Len(seq) PROVE f[i] = Round(f[i - 1], i)
        <3>1. i - 1 \in 0 .. Len(seq)
            BY <1>1 DEF IsLoop
        <3>2. f[i - 1] \in T /\ f[i] = step[i][f[i - 1]]
            <4> HIDE DEF step
            <4> QED BY <1>3, <3>1 DEF IsRun
        <3> QED BY <3>2
    <2> HIDE DEF step
    <2> QED BY <1>3, <2>1 DEF IsRun
<1>5. Looped(acc)
    <2> HIDE DEF Looped
    <2> QED BY <1>4
<1>6. /\ acc = [i \in 0 .. Len(seq) |-> acc[i]] /\ acc[0] = 0
      /\ \A i \in 1 .. Len(seq) : acc[i] = Round(acc[i - 1], i)
    <2> HIDE DEF acc, step
    <2>1. Len(seq) \in Nat
        BY <1>1 DEF IsLoop
    <2> QED BY <1>5, <2>1
<1>7. IsRun(acc, Len(seq), T, 0, step)
    <2> HIDE DEF acc
    <2>1. \A i \in 1 .. Len(seq) : acc[i - 1] \in T => acc[i] = step[i][acc[i - 1]]
        BY <1>6
    <2> HIDE DEF step, Looped
    <2> QED BY <1>1, <1>6, <2>1, RunOfLoop
<1> HIDE DEF acc
<1>8. Accrues(acc, seq, I)
    BY <1>2, <1>6, <1>7 DEF IsRun, T, Round, Accrues
<1> QED BY <1>8

LEMMA QuotientIs ==
    ASSUME NEW a \in Nat, NEW b \in Nat \ {0}
    PROVE  a \div b \in Nat
OBVIOUS

LEMMA ProductIs ==
    ASSUME NEW a \in Nat, NEW b \in Nat
    PROVE  a * b \in Nat
OBVIOUS

LEMMA PrefixIs ==
    ASSUME NEW T, NEW text, text \in Seq(T), NEW n, n \in Nat
    PROVE  /\ Prefix(text, n) \in Seq(T) /\ Len(Prefix(text, n)) <= n
           /\ Len(Prefix(text, n)) = IF n < Len(text) THEN n ELSE Len(text)
           /\ \A k \in 1 .. Len(Prefix(text, n)) :
                  k \in 1 .. Len(text) /\ Prefix(text, n)[k] = text[k]
<1> DEFINE m == IF n < Len(text) THEN n ELSE Len(text)
<1>1. Len(text) \in Nat /\ m \in 0 .. Len(text) /\ m <= n
    OBVIOUS
<1>2. Prefix(text, n) = SubSeq(text, 1, m)
    BY DEF Prefix
<1> HIDE DEF m
<1>3. /\ SubSeq(text, 1, m) \in Seq(T) /\ Len(SubSeq(text, 1, m)) = m
      /\ \A k \in 1 .. m : k \in 1 .. Len(text) /\ SubSeq(text, 1, m)[k] = text[k]
    BY <1>1
<1> QED BY <1>1, <1>2, <1>3 DEF m

LEMMA HitIs ==
    ASSUME NEW s \in PlanItem, NEW position, position \in Nat, NEW row \in Row
    PROVE  Hit(s, position, row) \in HitType
<1> DEFINE src == Sources[s.source]
           text == IF src.origin = "codegraph" THEN <<row.start>>
                   ELSE Prefix(row.text, SnippetLines)
<1>1. src.package \in Packages /\ src.origin \in Origins
    <2>1. s.source \in DOMAIN Sources
        BY DEF PlanItem
    <2> DEFINE S == [package : Packages, origin : Origins, how : {"lex", "vec"}]
    <2>2. Sources \in Seq(S)
        BY SourcesAreSources
    <2>3. src \in S
        <3> HIDE DEF S
        <3> QED BY <2>1, <2>2
    <2> QED BY <2>3
<1>2. Contribution(s, position) \in Nat
    <2>1. s.weight \in Nat /\ Unit \in Nat /\ RrfK + position \in Nat \ {0}
        BY BoundsAreNumbers DEF PlanItem
    <2>2. s.weight * Unit \in Nat
        BY <2>1, ProductIs
    <2> QED BY <2>1, <2>2, QuotientIs DEF Contribution
<1>3. /\ row.path \in Paths /\ row.start \in Nat /\ row.end \in Nat /\ row.symbol \in STRING
      /\ row.text \in Seq(Nat)
    BY DEF Row
<1>4. text \in Seq(Nat)
    <2>1. SnippetLines \in Nat
        BY BoundsAreNumbers
    <2>2. Prefix(row.text, SnippetLines) \in Seq(Nat)
        BY <1>3, <2>1, PrefixIs
    <2>3. <<row.start>> \in Seq(Nat)
        BY <1>3
    <2> QED BY <2>2, <2>3
<1>5. s.original \in BOOLEAN /\ << >> \in Seq(Nat)
    BY DEF PlanItem
<1>6. Hit(s, position, row) =
        [package |-> src.package, origin |-> src.origin, path |-> row.path,
         start |-> row.start, end |-> row.end, symbol |-> row.symbol, text |-> text,
         body |-> << >>, score |-> Contribution(s, position), original |-> s.original]
    BY DEF Hit
<1> HIDE DEF src, text
<1> QED BY <1>1, <1>2, <1>3, <1>4, <1>5, <1>6 DEF HitType

LEMMA FusedAre ==
    ASSUME hits \in Seq(HitType)
    PROVE  Deduped \in Seq(HitType)
<1>1. Len(hits) \in 0 .. Len(hits)
    BY LenProperties
<1>2. PICK f : f \in [0 .. Len(hits) -> Seq(HitType)] /\ Deduped = f[Len(hits)]
    BY DedupedRuns
<1> HIDE DEF HitType
<1> QED BY <1>1, <1>2

LEMMA SumIs ==
    ASSUME NEW seq, seq \in Seq(HitType), NEW I
    PROVE  SumAt(seq, I) \in Nat
<1>1. Len(seq) \in 0 .. Len(seq)
    BY LenProperties
<1>2. PICK f : f \in [0 .. Len(seq) -> Nat] /\ SumAt(seq, I) = f[Len(seq)]
    <2> HIDE DEF HitType
    <2> QED BY SumRuns DEF Accrues
<1> QED BY <1>1, <1>2

LEMMA LeastOf ==
    ASSUME NEW S, S \subseteq Nat, S # {}
    PROVE  Least(S) \in S /\ \A x \in S : Least(S) <= x
<1> DEFINE R == {q \in Nat \X Nat : q[1] < q[2]}
<1>1. \A x, y \in Nat : <<x, y>> \in R <=> x < y
    OBVIOUS
<1>2. IsWellFoundedOn(R, Nat)
    BY NumbersAreWellFounded
<1> HIDE DEF R
<1>3. PICK x \in S : \A y \in S : <<y, x>> \notin R
    BY <1>2, WFMin, Zenon
<1>4. ASSUME NEW y \in S PROVE x <= y
    <2>1. x \in Nat /\ y \in Nat /\ ~(y < x)
        BY <1>1, <1>3
    <2> QED BY <2>1
<1> QED BY <1>4 DEF Least

LEMMA GreatestOf ==
    ASSUME NEW S, S \subseteq Nat, IsFiniteSet(S), S # {}
    PROVE  Greatest(S) \in S /\ \A x \in S : x <= Greatest(S)
<1> DEFINE R == {q \in S \X S : q[1] < q[2]}
           n == Cardinality(S)
<1>1. \A x, y \in S : <<x, y>> \in R <=> x < y
    OBVIOUS
<1>2. n \in Nat \ {0}
    BY FS_CardinalityType, FS_EmptySet
<1> HIDE DEF R
<1>3. Orders(R, S)
    <2>1. \A x \in S : x \in Nat
        OBVIOUS
    <2> QED BY <1>1, <2>1 DEF Orders
<1>4. PICK q : IsSort(q, R, S)
    BY <1>3, Ordered
<1>5. DOMAIN q = 1 .. n /\ n \in DOMAIN q /\ q[n] \in S
    BY <1>2, <1>4 DEF IsSort
<1>6. ASSUME NEW x \in S PROVE x <= q[n]
    <2>1. PICK r \in 1 .. n : q[r] = x
        BY <1>4, <1>5 DEF IsSort
    <2>2. r = n \/ r < n
        BY <1>2, <2>1
    <2>3. r < n => x < q[n]
        BY <1>1, <1>4, <1>5, <2>1 DEF IsSort
    <2>4. x \in Nat /\ q[n] \in Nat
        BY <1>5
    <2> QED BY <2>1, <2>2, <2>3, <2>4
<1> QED BY <1>5, <1>6 DEF Greatest

LEMMA MaxAnchorIs ==
    ASSUME NEW seq, seq \in Seq(HitType), seq # << >>
    PROVE  MaxAnchor(seq) \in Nat
<1> DEFINE S == {Anchor(seq, p) : p \in Packages}
<1>1. S \subseteq Nat
    BY SumIs DEF Anchor
<1>2. IsFiniteSet(S)
    <2> DEFINE f == [p \in Packages |-> Anchor(seq, p)]
    <2>1. f \in Surjection(Packages, S)
        BY DEF Surjection
    <2> HIDE DEF f, S
    <2> QED BY <2>1, PackagesAreFinite, FS_Surjection
<1>3. 1 \in DOMAIN seq
    OBVIOUS
<1>7. seq[1] \in HitType
    <2> HIDE DEF HitType
    <2> QED BY <1>3
<1>4. seq[1].package \in Packages
    BY <1>3, <1>7 DEF HitType
<1>5. S # {}
    BY <1>4
<1> HIDE DEF S
<1>6. Greatest(S) \in S
    BY <1>1, <1>2, <1>5, GreatestOf
<1> QED BY <1>1, <1>6 DEF MaxAnchor, S

LEMMA AnchoredAre ==
    ASSUME NEW seq, seq \in Seq(HitType), seq # << >>
    PROVE  Anchored(seq) \in Seq(HitType)
<1> DEFINE factor(p) == AnchorFloor * MaxAnchor(seq) + (10 - AnchorFloor) * Anchor(seq, p)
           new == [i \in DOMAIN seq |-> [seq[i] EXCEPT !.score = @ * factor(seq[i].package)]]
<1>1. Len(seq) \in Nat \ {0} /\ DOMAIN seq = 1 .. Len(seq)
    OBVIOUS
<1>2. \A i \in DOMAIN seq : seq[i] \in HitType
    <2> HIDE DEF HitType
    <2> QED OBVIOUS
<1>3. \A p : Anchor(seq, p) \in Nat
    BY SumIs DEF Anchor
<1>4. MaxAnchor(seq) \in Nat
    BY MaxAnchorIs
<1>5. ASSUME NEW p PROVE factor(p) \in Nat
    <2>1. AnchorFloor \in Nat /\ 10 - AnchorFloor \in Nat
        BY SharesAreTenths
    <2>2. AnchorFloor * MaxAnchor(seq) \in Nat /\ (10 - AnchorFloor) * Anchor(seq, p) \in Nat
        BY <1>3, <1>4, <2>1, ProductIs
    <2> QED BY <2>2
<1> HIDE DEF factor
<1>6. ASSUME NEW i \in DOMAIN seq PROVE new[i] \in HitType
    <2>1. seq[i] \in HitType
        BY <1>2
    <2>2. seq[i].score \in Nat
        BY <2>1 DEF HitType
    <2>3. seq[i].score * factor(seq[i].package) \in Nat
        BY <1>5, <2>2, ProductIs
    <2> QED BY <2>1, <2>3 DEF HitType
<1>7. Anchored(seq) \in {seq, new}
    BY DEF Anchored, factor
<1> HIDE DEF HitType
<1>8. new \in Seq(HitType)
    <2>1. DOMAIN new = 1 .. Len(seq)
        BY <1>1
    <2> HIDE DEF new
    <2>2. new = [i \in 1 .. Len(seq) |-> new[i]]
        BY <1>1 DEF new
    <2> QED BY <1>1, <1>6, <2>1, <2>2
<1> QED BY <1>7, <1>8

LEMMA SortedAre ==
    ASSUME NEW T, NEW seq, seq \in Seq(T), \A x \in T : x.score \in Int
    PROVE  Sorted(seq) \in Seq(T) /\ Len(Sorted(seq)) = Len(seq)
<1> DEFINE n == Len(seq)
<1>1. n \in Nat /\ DOMAIN seq = 1 .. n /\ \A i \in 1 .. n : seq[i] \in T
    OBVIOUS
<1> HIDE DEF n
<1>0. \A i \in 1 .. n : seq[i].score \in Int
    BY <1>1
<1>2. PICK p : Sorts(p, seq, n)
    BY <1>0, <1>1, SortedPermutes
<1>3. \A r \in 1 .. n : seq[p[r]] \in T
    BY <1>1, <1>2 DEF Sorts
<1> QED BY <1>1, <1>2, <1>3 DEF n, Sorts

-----------------------------------------------------------------------------
(* What is read back from a code index                                     *)

LEMMA BodyIs ==
    ASSUME NEW p \in Packages, NEW n \in Nodes[p]
    PROVE  Body(p, n) \in Seq(Nat)
<1> DEFINE kinds == Lines[p][n.path]
           first == LeadingComment(kinds, n.start)
           final == TrailingComment(kinds, n.end)
<1>1. n \in Node
    BY NodesAreInTheirFiles
<1>2. n.start \in Nat /\ n.end \in Nat /\ n.path \in Paths
    BY <1>1 DEF Node
<1>3. Len(kinds) \in Nat
    BY <1>2, LinesHaveKinds
<1>4. first \in Nat
    <2> DEFINE last == IF n.start > 1 /\ kinds[n.start - 1] = "blank" THEN n.start - 2
                       ELSE n.start - 1
               S == {n.start} \cup {f \in 1 .. last :
                                    \A i \in f .. last : kinds[i] = "comment"}
    <2>1. S \subseteq Nat /\ S # {}
        BY <1>2
    <2>2. first = Least(S)
        BY DEF LeadingComment
    <2> HIDE DEF S, first
    <2>3. Least(S) \in S
        BY <2>1, LeastOf
    <2> QED BY <2>1, <2>2, <2>3
<1>5. final \in Nat
    <2> DEFINE e == n.end
               S == {e} \cup {l \in e + 1 .. Len(kinds) :
                              \A i \in e + 1 .. l : kinds[i] = "comment"}
    <2>1. S \subseteq Nat /\ S # {}
        BY <1>2
    <2>2. IsFiniteSet(S)
        <3> DEFINE U == (e + 1) .. Len(kinds)
        <3>1. IsFiniteSet(U)
            <4> DEFINE lo == e + 1
                       hi == Len(kinds)
            <4>1. lo \in Int /\ hi \in Int
                BY <1>2, <1>3
            <4>2. U = lo .. hi
                OBVIOUS
            <4> HIDE DEF lo, hi, U
            <4> QED BY <4>1, <4>2, FS_Interval
        <3>2. {l \in U : \A i \in e + 1 .. l : kinds[i] = "comment"} \in SUBSET U
            OBVIOUS
        <3>3. IsFiniteSet({l \in U : \A i \in e + 1 .. l : kinds[i] = "comment"})
            BY <3>1, <3>2, FS_Subset
        <3> DEFINE V == {l \in U : \A i \in e + 1 .. l : kinds[i] = "comment"}
        <3>4. S = V \cup {e}
            OBVIOUS
        <3> HIDE DEF V, S, U, e
        <3> QED BY <3>3, <3>4, FS_AddElement DEF V
    <2>3. final = Greatest(S)
        BY DEF TrailingComment
    <2> HIDE DEF S, final
    <2>4. Greatest(S) \in S
        BY <2>1, <2>2, GreatestOf
    <2> QED BY <2>1, <2>3, <2>4
<1>6. Body(p, n) = [i \in 1 .. final - first + 1 |-> first + i - 1]
    BY DEF Body, From
<1> HIDE DEF first, final
<1>7. CASE final - first + 1 < 0
    <2>1. 1 .. final - first + 1 = 1 .. 0
        BY <1>4, <1>5, <1>7
    <2>2. Body(p, n) = [i \in 1 .. 0 |-> first + i - 1]
        BY <1>6, <2>1
    <2> QED BY <2>2
<1>8. CASE final - first + 1 >= 0
    <2> DEFINE m == final - first + 1
    <2>1. m \in Nat
        BY <1>4, <1>5, <1>8
    <2>2. \A i \in 1 .. m : first + i - 1 \in Nat
        BY <1>4, <2>1
    <2> HIDE DEF m
    <2>3. [i \in 1 .. m |-> first + i - 1] \in Seq(Nat)
        BY <2>1, <2>2
    <2> QED BY <1>6, <2>3 DEF m
<1> QED BY <1>4, <1>5, <1>7, <1>8

LEMMA TextsAre ==
    ASSUME NEW p \in Packages, NEW n, n \in Nodes[p]
    PROVE  TextsOf(p, n) \subseteq Seq(Nat)
<1>1. ASSUME NEW row \in CodeTable(p) PROVE row.text \in Seq(Nat)
    <2>1. PICK m \in Nodes[p] : row \in RowsOf(p, m)
        BY DEF CodeTable
    <2>2. PICK i \in 0 .. (Len(Body(p, m)) - 1) \div ChunkLines :
              row.text = Piece(Body(p, m), i)
        BY <2>1 DEF RowsOf
    <2> DEFINE text == Body(p, m)
               lo == i * ChunkLines + 1
               hi == IF Len(text) < (i + 1) * ChunkLines
                     THEN Len(text) ELSE (i + 1) * ChunkLines
    <2>3. text \in Seq(Nat) /\ Len(text) \in Nat
        BY BodyIs
    <2>4. i \in Nat /\ ChunkLines \in Nat
        BY ChunksAreNotEmpty
    <2>5. i * ChunkLines \in Nat /\ (i + 1) * ChunkLines \in Nat
        BY <2>4, ProductIs
    <2>6. lo \in Nat \ {0} /\ hi \in Nat /\ hi <= Len(text)
        BY <2>3, <2>5
    <2>7. row.text = SubSeq(text, lo, hi)
        BY <2>2 DEF Piece
    <2> HIDE DEF text, lo, hi
    <2> QED BY <2>3, <2>6, <2>7
<1>2. n \in Node
    BY NodesAreInTheirFiles
<1>3. n.end - n.start + 1 \in Nat
    BY <1>2, NodesAreInTheirFiles DEF Node
<1>4. \A row \in CodeTable(p) : Sliced(row, n) \in Seq(Nat)
    <2>1. ASSUME NEW row \in CodeTable(p) PROVE Sliced(row, n) \in Seq(Nat)
        <3> DEFINE l == n.end - n.start + 1
        <3>1. l \in Nat /\ Sliced(row, n) = Prefix(row.text, l)
            BY <1>3 DEF Sliced
        <3> HIDE DEF l
        <3> QED BY <1>1, <3>1, PrefixIs
    <2> QED BY <2>1
<1> QED BY <1>4 DEF TextsOf

LEMMA BodiesAre ==
    ASSUME NEW h \in HitType
    PROVE  Bodies(h) \subseteq Seq(Nat)
<1>1. h.package \in Packages
    BY DEF HitType
<1>2. \A n \in Nodes[h.package] : TextsOf(h.package, n) \subseteq Seq(Nat)
    BY <1>1, TextsAre
<1>3. FetchAt(h.package, h.path, h.start) \subseteq Seq(Nat)
    BY <1>2 DEF FetchAt, NodesAt
<1>4. FetchNamed(h.package, h.symbol) \subseteq Seq(Nat)
    BY <1>2 DEF FetchNamed
<1> QED BY <1>3, <1>4 DEF Bodies

-----------------------------------------------------------------------------
(* From the question to the ranking                                        *)

RankItem == [hit : DOMAIN hits, score : Nat]

\* The types of what comes before the answer, and what is still empty.
Shaped ==
    /\ stage \in {"idle", "search", "select", "expand", "rerank", "answer", "respond"}
    /\ conf \in [set : Settings, expanded : BOOLEAN]
    /\ plan \in Seq(PlanItem)
    /\ hits \in Seq(HitType)
    /\ pool \in Seq(DOMAIN hits)
    /\ ranked \in Seq(RankItem)
    /\ stage \in {"idle", "search", "select"} => pool = << >>
    /\ stage \in {"idle", "search", "select", "expand", "rerank"} => ranked = << >>

LEMMA NothingIsTyped == \A T : << >> \in Seq(T)
OBVIOUS

LEMMA NoQueryIsTyped == NoQuery \in [set : Settings, expanded : BOOLEAN]
BY SettingsAreSettings DEF NoQuery

LEMMA ResetKeepsShape ==
    ASSUME Reset, stage' = "idle"
    PROVE  Shaped'
BY NothingIsTyped, NoQueryIsTyped DEF Reset, Shaped

LEMMA InitShape == Init => Shaped
BY NothingIsTyped, NoQueryIsTyped DEF Init, Shaped

LEMMA AskKeepsShape ==
    ASSUME Shaped, NEW set \in Settings, NEW scope \in Scopes, NEW variants \in Variants,
           Ask(set, scope, variants)
    PROVE  Shaped'
<1>1. plan' \in Seq(PlanItem)
    BY VariantsAreSequences, PlanIs DEF Ask
<1>2. conf' \in [set : Settings, expanded : BOOLEAN]
    BY DEF Ask
<1> HIDE DEF PlanItem, HitType
<1> QED BY <1>1, <1>2 DEF Shaped, Ask, RankItem

LEMMA SearchKeepsShape ==
    ASSUME Shaped, Search
    PROVE  Shaped'
<1>1. PICK answer \in Found[Head(plan).source] \cup {<< >>} :
         hits' = hits \o [i \in DOMAIN answer |-> Hit(Head(plan), i, answer[i])]
    BY DEF Search
<1>2. plan \in Seq(PlanItem) /\ plan # << >> /\ hits \in Seq(HitType)
    BY DEF Shaped, Search
<1> HIDE DEF HitType
<1>3. Head(plan) \in PlanItem /\ plan' \in Seq(PlanItem)
    <2> HIDE DEF PlanItem
    <2>1. plan' = Tail(plan)
        BY DEF Search
    <2> QED BY <1>2, <2>1
<1>4. Head(plan).source \in DOMAIN Sources
    BY <1>3 DEF PlanItem
<1>5. answer \in Seq(Row)
    BY <1>1, <1>4, AnswersAreSequences, NothingIsTyped
<1> DEFINE new == [i \in DOMAIN answer |-> Hit(Head(plan), i, answer[i])]
<1> HIDE DEF PlanItem, Row
<1>6. new \in Seq(HitType)
    <2>1. Len(answer) \in Nat /\ DOMAIN answer = 1 .. Len(answer)
        BY <1>5
    <2>2. \A i \in DOMAIN answer : Hit(Head(plan), i, answer[i]) \in HitType
        <3>1. \A i \in DOMAIN answer : answer[i] \in Row /\ i \in Nat
            BY <1>5
        <3> QED BY <1>3, <3>1, HitIs
    <2> QED BY <2>1, <2>2
<1>7. hits' \in Seq(HitType)
    <2> HIDE DEF new
    <2>1. hits' = hits \o new
        BY <1>1 DEF new
    <2> QED BY <1>2, <1>6, <2>1
<1>8. pool' = << >> /\ ranked' = << >>
    BY DEF Search, Shaped
<1>9. stage' = "search" /\ conf' = conf
    BY DEF Search
<1> QED BY <1>3, <1>7, <1>8, <1>9, NothingIsTyped DEF Shaped

LEMMA FuseKeepsShape ==
    ASSUME Shaped, Fuse
    PROVE  Shaped'
<1>1. CASE hits = << >>
    BY <1>1, ResetKeepsShape DEF Fuse
<1>2. CASE hits # << >>
    <2>1. hits \in Seq(HitType) /\ Deduped \in Seq(HitType)
        BY FusedAre DEF Shaped
    <2>2. Anchored(Deduped) \in Seq(HitType)
        <3>1. CASE Deduped = << >>
            <4>1. Anchored(<< >>) \in Seq(HitType)
                BY DEF Anchored
            <4> QED BY <3>1, <4>1
        <3>2. CASE Deduped # << >>
            BY <2>1, <3>2, AnchoredAre
        <3> QED BY <3>1, <3>2
    <2>3. \A h \in HitType : h.score \in Int
        BY DEF HitType
    <2>4. hits' \in Seq(HitType)
        BY <1>2, <2>2, <2>3, SortedAre DEF Fuse
    <2>5. pool' = << >> /\ ranked' = << >> /\ stage' = "select" /\ conf' = conf /\ plan' = plan
        BY <1>2 DEF Fuse, Shaped
    <2> QED BY <2>4, <2>5, NothingIsTyped DEF Shaped
<1> QED BY <1>1, <1>2

LEMMA SelectKeepsShape ==
    ASSUME Shaped, Select
    PROVE  Shaped' /\ Fair(pool, Len(hits))'
<1> DEFINE n == Len(hits)
<1>1. n \in Nat /\ DOMAIN hits = 1 .. n
    BY DEF Shaped
<1>2. conf.set \in Settings
    BY DEF Shaped
<1>3. Fair(Selected, n)
    <2>1. Len(hits) = n
        OBVIOUS
    <2> HIDE DEF n
    <2> QED BY <1>1, <1>2, <2>1, SelectedFairly
<1>4. pool' = Selected /\ hits' = hits /\ conf' = conf
    BY DEF Select
<1>5. Fair(pool, Len(hits))'
    BY <1>3, <1>4 DEF Fair, Shut, Many, Counted, Before, BucketOf, NovelAt, ExpansionCap,
                      MaxPerBucket
<1>6. pool' \in Seq(DOMAIN hits')
    BY <1>1, <1>3, <1>4 DEF Fair
<1>7. ranked' = << >> /\ plan' = plan /\ stage' = "expand"
    BY DEF Select, Shaped
<1> QED BY <1>4, <1>5, <1>6, <1>7, NothingIsTyped DEF Shaped

LEMMA ExpandKeepsShape ==
    ASSUME Shaped, Expand
    PROVE  /\ Shaped' /\ DOMAIN hits' = DOMAIN hits
           /\ \A i \in DOMAIN hits : /\ hits'[i].package = hits[i].package
                                     /\ hits'[i].origin = hits[i].origin
                                     /\ hits'[i].original = hits[i].original
                                     /\ hits'[i].start = hits[i].start
                                     /\ hits'[i].end = hits[i].end
                                     /\ hits'[i].text = hits[i].text
<1> DEFINE n == Len(hits)
<1>1. n \in Nat /\ DOMAIN hits = 1 .. n
    BY DEF Shaped
<1>2. \A i \in DOMAIN hits : hits[i] \in HitType
    <2> HIDE DEF HitType
    <2> QED BY DEF Shaped
<1>3. PICK f \in Expansions :
         hits' = [i \in DOMAIN hits |->
                    IF i \in ToSet(pool) THEN [hits[i] EXCEPT !.body = f[i]] ELSE hits[i]]
    BY DEF Expand
<1>4. ASSUME NEW i \in ToSet(pool) PROVE f[i] \in Seq(Nat) /\ i \in DOMAIN hits
    <2>1. i \in DOMAIN hits
        BY DEF ToSet, Shaped
    <2>2. f[i] = << >> \/ f[i] \in Longer(hits[i])
        BY <1>3 DEF Expansions
    <2>3. Longer(hits[i]) \subseteq Seq(Nat)
        BY <1>2, <2>1, BodiesAre DEF Longer
    <2> QED BY <2>1, <2>2, <2>3, NothingIsTyped
<1>5. ASSUME NEW i \in DOMAIN hits
      PROVE  /\ hits'[i] \in HitType
             /\ hits'[i].package = hits[i].package /\ hits'[i].origin = hits[i].origin
             /\ hits'[i].original = hits[i].original /\ hits'[i].start = hits[i].start
             /\ hits'[i].end = hits[i].end /\ hits'[i].text = hits[i].text
    <2>1. CASE i \in ToSet(pool)
        <3>1. hits'[i] = [hits[i] EXCEPT !.body = f[i]]
            BY <1>3, <2>1
        <3>2. f[i] \in Seq(Nat) /\ hits[i] \in HitType
            BY <1>2, <1>4, <2>1
        <3> QED BY <3>1, <3>2 DEF HitType
    <2>2. CASE i \notin ToSet(pool)
        <3>1. hits'[i] = hits[i]
            BY <1>3, <2>2
        <3> QED BY <1>2, <3>1
    <2> QED BY <2>1, <2>2
<1>6. DOMAIN hits' = 1 .. n /\ hits' = [i \in 1 .. n |-> hits'[i]]
    BY <1>1, <1>3
<1>7. hits' \in Seq(HitType)
    <2> HIDE DEF n, HitType
    <2> QED BY <1>1, <1>5, <1>6
<1>8. /\ pool' = pool /\ ranked' = << >> /\ plan' = plan /\ conf' = conf /\ stage' = "rerank"
    BY DEF Expand, Shaped
<1>9. Shaped'
    <2> HIDE DEF n
    <2> QED BY <1>1, <1>6, <1>7, <1>8, NothingIsTyped DEF Shaped
<1> QED BY <1>1, <1>5, <1>6, <1>9

\* What is read back changes nothing that the selection looked at.
LEMMA ExpandKeepsFair ==
    ASSUME Shaped, Expand, Fair(pool, Len(hits))
    PROVE  Fair(pool, Len(hits))'
<1>1. /\ DOMAIN hits' = DOMAIN hits
      /\ \A i \in DOMAIN hits : /\ hits'[i].package = hits[i].package
                                /\ hits'[i].origin = hits[i].origin
                                /\ hits'[i].original = hits[i].original
    BY ExpandKeepsShape
<1>2. pool' = pool /\ conf' = conf
    BY DEF Expand
<1>3. NovelAt' = NovelAt
    BY <1>1 DEF NovelAt
<1>4. \A j : Before(j)' = Before(j)
    BY <1>1 DEF Before
<1>5. ASSUME NEW j \in DOMAIN hits PROVE BucketOf(hits[j])' = BucketOf(hits[j])
    BY <1>1 DEF BucketOf
<1>6. Len(hits') = Len(hits) /\ DOMAIN hits = 1 .. Len(hits)
    <2>1. hits \in Seq(HitType) /\ hits' \in Seq(HitType)
        BY ExpandKeepsShape DEF Shaped
    <2> HIDE DEF HitType
    <2>2. /\ Len(hits) \in Nat /\ DOMAIN hits = 1 .. Len(hits)
          /\ Len(hits') \in Nat /\ DOMAIN hits' = 1 .. Len(hits')
        BY <2>1
    <2> QED BY <1>1, <2>2
<1>8. ExpansionCap' = ExpansionCap /\ MaxPerBucket' = MaxPerBucket
    BY <1>2 DEF ExpansionCap, MaxPerBucket
<1>9. ASSUME NEW j \in DOMAIN hits PROVE Shut(pool, j)' <=> Shut(pool, j)
    BY <1>1, <1>2, <1>3, <1>4, <1>5, <1>8 DEF Shut, Many, Counted
<1>10. Many(pool, NovelAt)' = Many(pool, NovelAt)
    BY <1>2, <1>3 DEF Many, Counted
<1>11. \A j \in DOMAIN hits : Many(pool, BucketOf(hits[j]))' = Many(pool, BucketOf(hits[j]))
    BY <1>2, <1>5 DEF Many, Counted
<1> QED BY <1>1, <1>2, <1>6, <1>8, <1>9, <1>10, <1>11 DEF Fair

LEMMA ScoredIs ==
    ASSUME NEW n, n \in Nat, NEW sel, sel \in Seq(DOMAIN hits), Len(sel) = n,
           NEW f, \A i \in ToSet(sel) : f[i] \in Nat
    PROVE  /\ Scored(sel, f) \in Seq(RankItem) /\ DOMAIN Scored(sel, f) = 1 .. n
           /\ Len(Scored(sel, f)) = n
           /\ \A k \in 1 .. n :
                Scored(sel, f)[k].hit = sel[k] /\ Scored(sel, f)[k].score \in Nat
<1>1. DOMAIN sel = 1 .. n /\ \A k \in 1 .. n : sel[k] \in DOMAIN hits /\ sel[k] \in ToSet(sel)
    BY DEF ToSet
<1>2. Scored(sel, f) = [k \in 1 .. n |-> [hit |-> sel[k], score |-> f[sel[k]]]]
    BY <1>1 DEF Scored
<1>3. \A k \in 1 .. n : [hit |-> sel[k], score |-> f[sel[k]]] \in RankItem
    BY <1>1 DEF RankItem
<1>4. Scored(sel, f) \in Seq(RankItem)
    <2> HIDE DEF RankItem
    <2> QED BY <1>2, <1>3
<1> QED BY <1>1, <1>2, <1>4

\* r ranks each hit of the pool exactly as often as the pool has it.
Ranks(r) == /\ r \in Seq(RankItem) /\ Len(r) = Len(pool)
            /\ ToSet(HitsOf(r)) = ToSet(pool)

LEMMA HitsOfAre ==
    ASSUME NEW n, n \in Nat, NEW r, DOMAIN r = 1 .. n
    PROVE  /\ HitsOf(r) = [k \in 1 .. n |-> r[k].hit] 
           /\ ToSet(HitsOf(r)) = {r[k].hit : k \in 1 .. n}
BY DEF HitsOf, ToSet

LEMMA TwoPassesRank ==
    ASSUME Shaped, NEW first, first \in [ToSet(pool) -> Scores],
           NEW best, best \in [Promoted(first) -> Scores]
    PROVE  Ranks(TwoPasses(first, best))
<1> DEFINE m == Len(pool)
           one == Scored(pool, first)
           t == IF Budget < m THEN Budget ELSE m
           top == Top(first)
           two == Scored(top, best)
           tail == SubSeq(Cheap(first), Budget + 1, m)
           all == TwoPasses(first, best)
<1>1. m \in Nat /\ DOMAIN pool = 1 .. m /\ pool \in Seq(DOMAIN hits) /\ Len(pool) = m
    BY DEF Shaped
<1>2. Budget \in Nat \ {0} /\ Scores \subseteq Nat
    BY Limits, ScoresAreNumbers DEF Shaped
<1>3. t \in 0 .. m /\ (Budget < m => t = Budget) /\ (~(Budget < m) => t = m)
    <2> HIDE DEF m, one, top, two, tail, all
    <2> QED BY <1>1, <1>2
<1>4. /\ one \in Seq(RankItem) /\ DOMAIN one = 1 .. m /\ Len(one) = m
      /\ \A k \in 1 .. m : one[k].hit = pool[k] /\ one[k].score \in Nat
    <2>1. \A i \in ToSet(pool) : first[i] \in Nat
        BY <1>2
    <2> HIDE DEF m
    <2> QED BY <1>1, <2>1, ScoredIs
<1>5. PICK p : Sorts(p, one, m)
    <2> HIDE DEF m, one
    <2>1. \A k \in 1 .. m : one[k].score \in Int
        BY <1>4
    <2> QED BY <1>1, <1>4, <2>1, SortedPermutes
<1> HIDE DEF m, t
<1>6. Cheap(first) = [r \in 1 .. m |-> one[p[r]]] /\ \A r \in 1 .. m : p[r] \in 1 .. m
    BY <1>5 DEF Cheap, Sorts
<1> HIDE DEF one
<1>7. Cheap(first) \in Seq(RankItem) /\ Len(Cheap(first)) = m
    <2> HIDE DEF RankItem
    <2>1. \A r \in 1 .. m : one[p[r]] \in RankItem
        BY <1>4, <1>6
    <2> QED BY <1>1, <1>6, <2>1
<1>8. HitsOf(Cheap(first)) = [k \in 1 .. m |-> pool[p[k]]]
    <2>1. DOMAIN Cheap(first) = 1 .. m
        BY <1>6
    <2>2. HitsOf(Cheap(first)) = [k \in 1 .. m |-> Cheap(first)[k].hit]
        BY <1>1, <2>1, HitsOfAre
    <2>3. \A k \in 1 .. m : Cheap(first)[k].hit = pool[p[k]]
        BY <1>4, <1>6
    <2> QED BY <2>2, <2>3
<1>9. /\ top \in Seq(DOMAIN hits) /\ Len(top) = t /\ DOMAIN top = 1 .. t
      /\ \A k \in 1 .. t : top[k] = pool[p[k]]
    <2> DEFINE row == HitsOf(Cheap(first))
    <2>1. row \in Seq(DOMAIN hits) /\ Len(row) = m
        <3>1. \A k \in 1 .. m : pool[p[k]] \in DOMAIN hits
            BY <1>1, <1>6
        <3> QED BY <1>1, <1>8, <3>1
    <2>2. top = Prefix(row, Budget)
        BY DEF Top
    <2>3. Len(top) = t
        <3> HIDE DEF row, top
        <3>1. Len(top) = IF Budget < Len(row) THEN Budget ELSE Len(row)
            BY <1>2, <2>1, <2>2, PrefixIs
        <3> QED BY <2>1, <3>1 DEF t
    <2>4. top \in Seq(DOMAIN hits) /\ \A k \in 1 .. t : top[k] = row[k]
        <3> HIDE DEF row, top
        <3>1. top \in Seq(DOMAIN hits) /\ \A k \in 1 .. Len(top) : top[k] = row[k]
            <4> DEFINE D == DOMAIN hits
            <4>1. row \in Seq(D)
                BY <2>1
            <4> HIDE DEF D
            <4>2. /\ Prefix(row, Budget) \in Seq(D)
                  /\ \A k \in 1 .. Len(Prefix(row, Budget)) :
                       Prefix(row, Budget)[k] = row[k]
                BY <1>2, <4>1, PrefixIs
            <4> QED BY <2>2, <4>2 DEF D
        <3> QED BY <2>3, <3>1
    <2>5. \A k \in 1 .. t : row[k] = pool[p[k]]
        <3>1. \A k \in 1 .. t : k \in 1 .. m
            BY <1>1, <1>3
        <3> HIDE DEF top, two, tail, all
        <3> QED BY <1>8, <3>1
    <2> HIDE DEF row, top
    <2> QED BY <2>3, <2>4, <2>5
<1> HIDE DEF top
<1>10. /\ two \in Seq(RankItem) /\ DOMAIN two = 1 .. t /\ Len(two) = t
       /\ \A k \in 1 .. t : two[k].hit = top[k] /\ two[k].score \in Nat
    <2>1. \A i \in ToSet(top) : best[i] \in Nat
        BY <1>2 DEF Promoted, top
    <2>2. t \in Nat
        BY <1>3
    <2> QED BY <1>9, <2>1, <2>2, ScoredIs
<1> HIDE DEF two
<1>11. PICK q : Sorts(q, two, t)
    <2>1. \A k \in 1 .. t : two[k].score \in Int
        BY <1>10
    <2>2. t \in Nat
        BY <1>3
    <2> QED BY <1>10, <2>1, <2>2, SortedPermutes
<1>12. Sorted(two) = [r \in 1 .. t |-> two[q[r]]] /\ \A r \in 1 .. t : q[r] \in 1 .. t
    BY <1>11 DEF Sorts
<1>13. Sorted(two) \in Seq(RankItem) /\ Len(Sorted(two)) = t
    <2> HIDE DEF RankItem
    <2>1. \A r \in 1 .. t : two[q[r]] \in RankItem
        BY <1>10, <1>12
    <2> QED BY <1>3, <1>12, <2>1
<1>14. /\ tail \in Seq(RankItem) /\ Len(tail) = m - t
       /\ \A k \in 1 .. m - t : tail[k] = Cheap(first)[t + k]
    <2>1. CASE Budget < m
        <3> HIDE DEF RankItem
        <3> QED BY <1>1, <1>2, <1>3, <1>7, <2>1
    <2>2. CASE ~(Budget < m)
        <3>1. tail = << >>
            BY <1>1, <1>2, <1>7, <2>2
        <3>2. m - t = 0
            BY <1>1, <1>3, <2>2
        <3> HIDE DEF tail
        <3> QED BY <3>1, <3>2, NothingIsTyped
    <2> QED BY <2>1, <2>2
<1>15. all = Sorted(two) \o tail
    BY DEF TwoPasses, two, top, m
<1> HIDE DEF tail, all
<1>16. /\ all \in Seq(RankItem) /\ Len(all) = m
       /\ \A k \in 1 .. t : all[k] = two[q[k]]
       /\ \A k \in t + 1 .. m : all[k] = Cheap(first)[k]
    <2>1. all \in Seq(RankItem) /\ Len(all) = m
        <3> DEFINE head == Sorted(two)
        <3>1. head \in Seq(RankItem) /\ Len(head) = t /\ all = head \o tail
            BY <1>13, <1>15
        <3> HIDE DEF RankItem, head
        <3>2. tail \in Seq(RankItem)
            BY <1>14
        <3>3. head \o tail \in Seq(RankItem) /\ Len(head \o tail) = Len(head) + Len(tail)
            BY <3>1, <3>2, ConcatProperties
        <3> QED BY <1>1, <1>3, <1>14, <3>1, <3>3
    <2>2. \A k \in 1 .. t : all[k] = two[q[k]]
        <3>1. \A k \in 1 .. t : all[k] = Sorted(two)[k]
            BY <1>3, <1>13, <1>14, <1>15
        <3> QED BY <1>12, <3>1
    <2>3. ASSUME NEW k \in t + 1 .. m PROVE all[k] = Cheap(first)[k]
        <3>1. k - t \in 1 .. m - t /\ t + (k - t) = k /\ k > t /\ k <= t + (m - t)
            BY <1>1, <1>3
        <3>2. all[k] = tail[k - t]
            BY <1>1, <1>3, <1>13, <1>14, <1>15, <3>1
        <3> QED BY <1>14, <3>1, <3>2
    <2> QED BY <2>1, <2>2, <2>3
<1>17. \A k \in 1 .. t : all[k].hit = pool[p[q[k]]] /\ q[k] \in 1 .. m
    BY <1>1, <1>3, <1>9, <1>10, <1>12, <1>16
<1>18. \A k \in t + 1 .. m : all[k].hit = pool[p[k]]
    <2>1. \A k \in t + 1 .. m : k \in 1 .. m
        BY <1>1, <1>3
    <2>2. \A k \in 1 .. m : Cheap(first)[k].hit = pool[p[k]]
        BY <1>4, <1>6
    <2> QED BY <1>16, <2>1, <2>2
<1>19. ToSet(HitsOf(all)) = {all[k].hit : k \in 1 .. m}
    <2>1. DOMAIN all = 1 .. m
        BY <1>16
    <2> QED BY <1>1, <2>1, HitsOfAre
<1>20. \A k \in 1 .. m : k \in 1 .. t \/ k \in t + 1 .. m
    BY <1>1, <1>3
<1>21. ASSUME NEW k \in 1 .. m PROVE all[k].hit \in ToSet(pool)
    <2>1. \A j \in 1 .. m : pool[p[j]] \in ToSet(pool)
        BY <1>1, <1>6 DEF ToSet
    <2>2. CASE k \in 1 .. t
        BY <1>17, <2>1, <2>2
    <2>3. CASE k \in t + 1 .. m
        BY <1>18, <2>1, <2>3
    <2> QED BY <1>20, <2>2, <2>3
<1>22. ASSUME NEW i \in 1 .. m PROVE \E k \in 1 .. m : all[k].hit = pool[i]
    <2>1. PICK r \in 1 .. m : p[r] = i
        BY <1>5 DEF Sorts
    <2>2. CASE r \in 1 .. t
        <3>1. PICK k \in 1 .. t : q[k] = r
            BY <1>11, <2>2 DEF Sorts
        <3>2. all[k].hit = pool[i] /\ k \in 1 .. m
            BY <1>1, <1>3, <1>17, <2>1, <3>1
        <3> QED BY <3>2
    <2>3. CASE r \in t + 1 .. m
        BY <1>18, <2>1, <2>3
    <2> QED BY <1>20, <2>2, <2>3
<1>23. ToSet(HitsOf(all)) = ToSet(pool)
    <2>1. ToSet(pool) = {pool[i] : i \in 1 .. m}
        BY <1>1 DEF ToSet
    <2> QED BY <1>19, <1>21, <1>22, <2>1
<1> QED BY <1>16, <1>23 DEF Ranks, m, all

LEMMA RerankKeepsShape ==
    ASSUME Shaped, Rerank
    PROVE  Shaped' /\ Ranks(ranked)'
<1>1. /\ pool' = pool /\ hits' = hits /\ plan' = plan /\ conf' = conf /\ stage' = "answer"
      /\ stage = "rerank"
    BY DEF Rerank
<1>2. Ranks(ranked')
    <2>1. CASE conf.set.reranker
        <3>1. PICK first \in [ToSet(pool) -> Scores] :
                 \E best \in [Promoted(first) -> Scores] : ranked' = TwoPasses(first, best)
            BY <2>1 DEF Rerank
        <3>2. PICK best \in [Promoted(first) -> Scores] : ranked' = TwoPasses(first, best)
            BY <3>1
        <3> QED BY <3>1, <3>2, TwoPassesRank
    <2>2. CASE ~conf.set.reranker
        <3> DEFINE f == [i \in ToSet(pool) |-> hits[i].score]
                   n == Len(pool)
        <3>1. ranked' = Scored(pool, f)
            BY <2>2 DEF Rerank
        <3>2. n \in Nat /\ pool \in Seq(DOMAIN hits) /\ DOMAIN pool = 1 .. n
            BY DEF Shaped
        <3>3. \A i \in DOMAIN hits : hits[i].score \in Nat
            <4>1. \A i \in DOMAIN hits : hits[i] \in HitType
                <5> HIDE DEF HitType
                <5> QED BY DEF Shaped
            <4> QED BY <4>1 DEF HitType
        <3>4. \A i \in ToSet(pool) : f[i] \in Nat
            BY <3>2, <3>3 DEF ToSet
        <3> HIDE DEF f
        <3>5. /\ ranked' \in Seq(RankItem) /\ DOMAIN ranked' = 1 .. n /\ Len(ranked') = n
              /\ \A k \in 1 .. n : ranked'[k].hit = pool[k]
            <4> HIDE DEF n
            <4>1. n = Len(pool)
                BY DEF n
            <4> QED BY <3>1, <3>2, <3>4, <4>1, ScoredIs
        <3>6. ToSet(HitsOf(ranked')) = {ranked'[k].hit : k \in 1 .. n}
            BY <3>2, <3>5, HitsOfAre
        <3>7. ToSet(pool) = {pool[k] : k \in 1 .. n}
            BY <3>2 DEF ToSet
        <3> QED BY <3>5, <3>6, <3>7 DEF Ranks
    <2> QED BY <2>1, <2>2
<1>3. Ranks(ranked)'
    BY <1>1, <1>2 DEF Ranks, RankItem
<1>4. ranked' \in Seq(RankItem')
    BY <1>3 DEF Ranks
<1> QED BY <1>1, <1>3, <1>4 DEF Shaped

-----------------------------------------------------------------------------
(* The pool is fair, and the ranking complete                              *)

FrontInv ==
    /\ Shaped
    /\ stage \in {"expand", "rerank", "answer", "respond"} => Fair(pool, Len(hits))
    /\ stage \in {"answer", "respond"} => Ranks(ranked)

LEMMA SameFair ==
    ASSUME Fair(pool, Len(hits)), pool' = pool, hits' = hits, conf' = conf
    PROVE  Fair(pool, Len(hits))'
BY DEF Fair, Shut, Many, Counted, Before, BucketOf, NovelAt, ExpansionCap, MaxPerBucket

LEMMA SameShape ==
    ASSUME Shaped, plan' = plan, hits' = hits, pool' = pool, ranked' = ranked, conf' = conf,
           stage' \in {"answer", "respond"} \/ stage' = stage
    PROVE  Shaped'
BY DEF Shaped, RankItem

LEMMA FrontStep == FrontInv /\ [Next]_vars => FrontInv'
<1> SUFFICES ASSUME FrontInv, [Next]_vars PROVE FrontInv'
    OBVIOUS
<1> USE DEF FrontInv
<1>1. ASSUME NEW set \in Settings, NEW scope \in Scopes, NEW v \in Variants, Ask(set, scope, v)
      PROVE  FrontInv'
    <2>1. stage' = "search"
        BY <1>1 DEF Ask
    <2> QED BY <1>1, <2>1, AskKeepsShape
<1>2. CASE Search
    <2>1. stage' = "search"
        BY <1>2 DEF Search
    <2> QED BY <1>2, <2>1, SearchKeepsShape
<1>3. CASE Fuse
    <2>1. stage' \in {"idle", "select"}
        BY <1>3 DEF Fuse
    <2> QED BY <1>3, <2>1, FuseKeepsShape
<1>4. CASE Select
    <2>1. stage' = "expand"
        BY <1>4 DEF Select
    <2> QED BY <1>4, <2>1, SelectKeepsShape
<1>5. CASE Expand
    <2>1. stage = "expand" /\ stage' = "rerank"
        BY <1>5 DEF Expand
    <2> QED BY <1>5, <2>1, ExpandKeepsShape, ExpandKeepsFair
<1>6. CASE Rerank
    <2>1. stage = "rerank" /\ stage' = "answer" /\ pool' = pool /\ hits' = hits /\ conf' = conf
        BY <1>6 DEF Rerank
    <2> QED BY <1>6, <2>1, RerankKeepsShape, SameFair
<1>7. CASE Answer
    <2>1. /\ stage = "answer" /\ stage' = "respond" /\ pool' = pool /\ hits' = hits
          /\ conf' = conf /\ plan' = plan /\ ranked' = ranked
        BY <1>7 DEF Answer
    <2>2. Ranks(ranked)'
        BY <2>1 DEF Ranks, RankItem
    <2> QED BY <2>1, <2>2, SameFair, SameShape
<1>8. CASE Respond
    <2>1. stage' = "idle" /\ Reset
        BY <1>8 DEF Respond
    <2> QED BY <2>1, ResetKeepsShape
<1>9. CASE UNCHANGED vars
    <2>1. /\ stage' = stage /\ pool' = pool /\ hits' = hits
          /\ conf' = conf /\ plan' = plan /\ ranked' = ranked
        BY <1>9 DEF vars
    <2>2. Ranks(ranked)' <=> Ranks(ranked)
        BY <2>1 DEF Ranks, RankItem
    <2> QED BY <2>1, <2>2, SameFair, SameShape
<1> QED BY <1>1, <1>2, <1>3, <1>4, <1>5, <1>6, <1>7, <1>8, <1>9 DEF Next

LEMMA FrontAlways == Spec => []FrontInv
<1>1. Init => FrontInv
    BY InitShape DEF Init, FrontInv
<1> QED BY <1>1, FrontStep, PTL DEF Spec

LEMMA FairIsFair ==
    ASSUME Shaped, Fair(pool, Len(hits))
    PROVE  /\ Novel(pool) <= ExpansionCap
           /\ \A i \in DOMAIN hits : InBucket(pool, hits[i]) <= MaxPerBucket
           /\ \A i \in DOMAIN hits \ ToSet(pool) :
                \/ Cardinality(Better(i)) = FetchLimit
                \/ Cardinality({k \in Better(i) : /\ hits[pool[k]].package = hits[i].package
                                                  /\ hits[pool[k]].origin = hits[i].origin})
                     = MaxPerBucket
                \/ ~hits[i].original /\ Cardinality({k \in Better(i) :
                       ~hits[pool[k]].original})
                                          = ExpansionCap
<1> DEFINE n == Len(hits)
<1>1. n \in Nat /\ DOMAIN hits = 1 .. n /\ pool \in Seq(1 .. n)
    BY DEF Shaped
<1>2. \A k \in DOMAIN pool : pool[k] \in DOMAIN hits
    BY <1>1
<1>3. /\ Novel(pool) = Many(pool, NovelAt)
      /\ \A h : InBucket(pool, h) = Many(pool, BucketOf(h))
    <2> HIDE DEF n
    <2> QED BY <1>1, SameCounts
<1>4. ASSUME NEW i \in DOMAIN hits \ ToSet(pool)
      PROVE  \/ Cardinality(Better(i)) = FetchLimit
             \/ Cardinality({k \in Better(i) : /\ hits[pool[k]].package = hits[i].package
                                               /\ hits[pool[k]].origin = hits[i].origin})
                  = MaxPerBucket
             \/ ~hits[i].original /\ Cardinality({k \in Better(i) : ~hits[pool[k]].original})
                                       = ExpansionCap
    <2>1. Better(i) = Counted(pool, Before(i))
        BY <1>2 DEF Better, Counted, Before
    <2>2. {k \in Better(i) : /\ hits[pool[k]].package = hits[i].package
                             /\ hits[pool[k]].origin = hits[i].origin}
          = Counted(pool, Before(i) \cap BucketOf(hits[i]))
        BY <1>2 DEF Better, Counted, Before, BucketOf
    <2>3. {k \in Better(i) : ~hits[pool[k]].original} = Counted(pool, Before(i) \cap NovelAt)
        BY <1>2 DEF Better, Counted, Before, NovelAt
    <2>4. Shut(pool, i)
        BY <1>1 DEF Fair
    <2> QED BY <2>1, <2>2, <2>3, <2>4 DEF Shut, Many
<1> QED BY <1>3, <1>4 DEF Fair

\* The pool takes no more of a source than its share and of what only expansions
\* found no more than theirs, and leaves a hit out only for better ones that
\* fill the pool or one of these shares: the selection of tool_query
\* (mcp.rs:2239-2262), for every list of hits, limit and share.
THEOREM PoolStaysFair == Spec => []PoolIsFair
<1>1. FrontInv => PoolIsFair
    BY FairIsFair DEF FrontInv, PoolIsFair
<1> QED BY <1>1, FrontAlways, PTL

\* Two passes of the reranker, with whatever scores, rank every hit of the pool
\* exactly once: the promoted head and the rest of the first pass
\* (mcp.rs:2458-2461).
THEOREM RankingStaysComplete == Spec => []RankingIsComplete
<1>1. FrontInv => RankingIsComplete
    BY DEF FrontInv, RankingIsComplete, Ranks
<1> QED BY <1>1, FrontAlways, PTL

-----------------------------------------------------------------------------
(* Runs of neighbours                                                      *)

\* seq ranks hits.
Ranking(seq) == hits \in Seq(HitType) /\ seq \in Seq(RankItem)

LEMMA RankedHits ==
    ASSUME NEW seq, Ranking(seq), NEW r, r \in 1 .. Len(seq)
    PROVE  /\ seq[r].hit \in DOMAIN hits /\ At(seq, r) \in HitType
           /\ At(seq, r).start \in Nat /\ At(seq, r).end \in Nat /\ seq[r].score \in Nat
           /\ Gap(At(seq, r)) \in Nat
<1>1. seq[r] \in RankItem
    <2> HIDE DEF RankItem, HitType
    <2> QED BY DEF Ranking
<1>2. seq[r].hit \in DOMAIN hits /\ seq[r].score \in Nat
    BY <1>1 DEF RankItem
<1>3. At(seq, r) \in HitType
    <2> HIDE DEF RankItem, HitType
    <2> QED BY <1>2 DEF Ranking, At
<1> QED BY <1>2, <1>3, BoundsAreNumbers DEF HitType, Gap

\* o has the ranks of S in the order of their lines.
InLines(o, seq, S) ==
    /\ Cardinality(S) \in Nat /\ o \in [1 .. Cardinality(S) -> S] /\ Len(o) = Cardinality(S)
    /\ \A r \in S : \E i \in 1 .. Cardinality(S) : o[i] = r
    /\ \A i, j \in 1 .. Cardinality(S) :
         i < j => o[i] # o[j] /\ At(seq, o[i]).start <= At(seq, o[j]).start

LEMMA LinesInOrder ==
    ASSUME NEW seq, Ranking(seq), NEW S, S \in SUBSET (1 .. Len(seq))
    PROVE  InLines(InLineOrder(seq, S), seq, S)
<1> DEFINE n == Len(seq)
           R == {q \in S \X S : Precedes(seq, q[1], q[2])}
           o == InLineOrder(seq, S)
<1>1. n \in Nat /\ S \in SUBSET (1 .. n)
    BY DEF Ranking
<1>2. IsFiniteSet(S)
    <2> HIDE DEF n
    <2>1. IsFiniteSet(1 .. n)
        BY <1>1, FS_Interval
    <2> QED BY <1>1, <2>1, FS_Subset
<1>3. \A x \in S : x \in Nat /\ At(seq, x).start \in Nat /\ At(seq, x).end \in Nat
    BY RankedHits
<1>4. \A x, y \in S : <<x, y>> \in R <=> Precedes(seq, x, y)
    OBVIOUS
<1>5. Orders(R, S)
    <2> HIDE DEF R
    <2>1. \A x \in S : <<x, x>> \notin R
        BY <1>3, <1>4 DEF Precedes
    <2>2. ASSUME NEW x \in S, NEW y \in S, NEW z \in S, <<x, y>> \in R, <<y, z>> \in R
          PROVE  <<x, z>> \in R
        <3>1. Precedes(seq, x, y) /\ Precedes(seq, y, z)
            BY <1>4, <2>2
        <3>2. Precedes(seq, x, z)
            BY <1>3, <3>1 DEF Precedes
        <3> QED BY <1>4, <3>2
    <2>3. \A x, y \in S : x # y => <<x, y>> \in R \/ <<y, x>> \in R
        BY <1>3, <1>4 DEF Precedes
    <2> QED BY <2>1, <2>2, <2>3 DEF Orders
<1>6. \A x \in S : {y \in S : Precedes(seq, y, x)} = Below(R, S, x)
    BY <1>4 DEF Below
<1>7. o = ByRank(RankIn(R, S), S)
    <2> HIDE DEF R
    <2>1. RankIn(R, S) = [x \in S |-> Cardinality({y \in S : Precedes(seq, y, x)})]
        BY <1>6 DEF RankIn
    <2> QED BY <2>1 DEF InLineOrder, InOrder, ByRank
<1>8. IsSort(o, R, S)
    <2> HIDE DEF R, o
    <2> QED BY <1>2, <1>5, <1>7, Ordered
<1> HIDE DEF R, o
<1> DEFINE m == Cardinality(S)
<1>9. m \in Nat /\ o \in [1 .. m -> S] /\ DOMAIN o = 1 .. m /\ Len(o) = m
    BY <1>8 DEF IsSort
<1>10. ASSUME NEW i \in 1 .. m, NEW j \in 1 .. m, i < j
       PROVE  o[i] # o[j] /\ At(seq, o[i]).start <= At(seq, o[j]).start
    <2>1. <<o[i], o[j]>> \in R /\ o[i] \in S /\ o[j] \in S
        BY <1>8, <1>9, <1>10 DEF IsSort
    <2>2. Precedes(seq, o[i], o[j])
        BY <1>4, <2>1
    <2>3. ASSUME NEW x \in S, NEW y \in S, Precedes(seq, x, y)
          PROVE  x # y /\ At(seq, x).start <= At(seq, y).start
        BY <1>3, <2>3 DEF Precedes
    <2> QED BY <2>1, <2>2, <2>3
<1>11. \A r \in S : \E i \in 1 .. m : o[i] = r
    BY <1>8, <1>9 DEF IsSort
<1> HIDE DEF m
<1> QED BY <1>9, <1>10, <1>11 DEF InLines, m, o

LEMMA EndsIs ==
    ASSUME NEW seq, Ranking(seq), NEW run, run \in Seq(1 .. Len(seq)), run # << >>
    PROVE  /\ Ends(seq, run) \in Nat
           /\ \A k \in DOMAIN run : At(seq, run[k]).end <= Ends(seq, run)
<1> DEFINE E == {At(seq, run[k]).end : k \in DOMAIN run}
           l == Len(run)
<1>1. l \in Nat \ {0} /\ DOMAIN run = 1 .. l /\ \A k \in 1 .. l : run[k] \in 1 .. Len(seq)
    OBVIOUS
<1>2. E \subseteq Nat /\ E # {}
    <2>1. \A k \in DOMAIN run : At(seq, run[k]).end \in Nat
        BY <1>1, RankedHits
    <2>2. 1 \in DOMAIN run
        BY <1>1
    <2> QED BY <2>1, <2>2
<1>3. IsFiniteSet(E)
    <2> DEFINE f == [k \in DOMAIN run |-> At(seq, run[k]).end]
    <2>1. f \in Surjection(DOMAIN run, E)
        BY DEF Surjection
    <2>2. IsFiniteSet(DOMAIN run)
        <3> HIDE DEF l
        <3> QED BY <1>1, FS_Interval
    <2> HIDE DEF f, E
    <2> QED BY <2>1, <2>2, FS_Surjection
<1>4. Greatest(E) \in E /\ \A x \in E : x <= Greatest(E)
    <2> HIDE DEF E
    <2> QED BY <1>2, <1>3, GreatestOf
<1>5. Ends(seq, run) = Greatest(E)
    BY DEF Ends
<1> QED BY <1>2, <1>4, <1>5

\* The last run of runs gets r in new, or r starts a run of its own.
Joined(seq, runs, new, r) ==
    /\ runs # << >> /\ Joins(seq, runs[Len(runs)], r)
    /\ Len(new) = Len(runs) /\ new[Len(runs)] = Append(runs[Len(runs)], r)
    /\ \A a \in 1 .. Len(runs) - 1 : new[a] = runs[a]
Started(seq, runs, new, r) ==
    /\ runs = << >> \/ ~Joins(seq, runs[Len(runs)], r)
    /\ Len(new) = Len(runs) + 1 /\ new[Len(runs) + 1] = <<r>>
    /\ \A a \in 1 .. Len(runs) : new[a] = runs[a]

LEMMA PlacedIs ==
    ASSUME NEW seq, NEW S, NEW runs, runs \in Seq(Seq(S)), NEW r, r \in S
    PROVE  /\ Placed(seq, runs, r) \in Seq(Seq(S))
           /\ \/ Joined(seq, runs, Placed(seq, runs, r), r)
              \/ Started(seq, runs, Placed(seq, runs, r), r)
<1> DEFINE l == Len(runs)
           T == Seq(S)
<1>1. l \in Nat /\ DOMAIN runs = 1 .. l /\ runs \in Seq(T)
    OBVIOUS
<1>2. CASE runs # << >> /\ Joins(seq, runs[l], r)
    <2> DEFINE front == SubSeq(runs, 1, l - 1)
               longer == Append(runs[l], r)
               new == front \o <<longer>>
    <2>1. Placed(seq, runs, r) = new
        BY <1>2 DEF Placed, Last, Front
    <2>2. l \in 1 .. l /\ l > 0
        BY <1>1, <1>2
    <2>3. longer \in T
        <3>1. runs[l] \in T
            BY <1>1, <2>2
        <3> QED BY <3>1
    <2> HIDE DEF T, longer
    <2>4. front \in Seq(T) /\ Len(front) = l - 1 /\ \A a \in 1 .. l - 1 : front[a] = runs[a]
        BY <1>1, <2>2
    <2> HIDE DEF front, l
    <2>5. /\ new \in Seq(T) /\ Len(new) = l /\ new[l] = longer
          /\ \A a \in 1 .. l - 1 : new[a] = front[a]
        <3>1. <<longer>> \in Seq(T) /\ Len(<<longer>>) = 1 /\ <<longer>>[1] = longer
            BY <2>3
        <3>2. new \in Seq(T) /\ Len(new) = l
            BY <1>1, <2>2, <2>4, <3>1
        <3>3. new[l] = longer
            <4>1. l = Len(front) + 1
                BY <1>1, <2>2, <2>4
            <4> QED BY <1>1, <2>2, <2>4, <3>1, <4>1
        <3>4. \A a \in 1 .. l - 1 : new[a] = front[a]
            BY <1>1, <2>2, <2>4, <3>1
        <3> QED BY <3>2, <3>3, <3>4
    <2> QED BY <1>2, <2>1, <2>4, <2>5 DEF l, longer, T, Joined
<1>3. CASE ~(runs # << >> /\ Joins(seq, runs[l], r))
    <2>1. Placed(seq, runs, r) = Append(runs, <<r>>)
        BY <1>3 DEF Placed, Last
    <2>2. <<r>> \in T
        OBVIOUS
    <2> HIDE DEF T
    <2>3. /\ Append(runs, <<r>>) \in Seq(T) /\ Len(Append(runs, <<r>>)) = l + 1
          /\ Append(runs, <<r>>)[l + 1] = <<r>>
          /\ \A a \in 1 .. l : Append(runs, <<r>>)[a] = runs[a]
        BY <1>1, <2>2
    <2> QED BY <1>3, <2>1, <2>3 DEF T, Started
<1> QED BY <1>2, <1>3

\* The runs of S grow rank by rank, in the order of lines.
LEMMA RunsRun ==
    ASSUME NEW seq, NEW S, InLines(InLineOrder(seq, S), seq, S)
    PROVE  \E f : /\ f \in [0 .. Len(InLineOrder(seq, S)) -> Seq(Seq(S))] /\ f[0] = << >>
                  /\ \A i \in 1 .. Len(InLineOrder(seq, S)) :
                         f[i] = Placed(seq, f[i - 1], InLineOrder(seq, S)[i])
                  /\ Runs(seq, S) = f[Len(InLineOrder(seq, S))]
<1> DEFINE T == Seq(Seq(S))
           Round(x, i) == Placed(seq, x, InLineOrder(seq, S)[i])
           step == [i \in 1 .. Len(InLineOrder(seq, S)) |-> [x \in T |-> Round(x, i)]]
           Looped(f) == f = [i \in 0 .. Len(InLineOrder(seq, S)) |->
               IF i = 0 THEN << >> ELSE Round(f[i - 1], i)]
           acc == CHOOSE f : Looped(f)
<1>1. IsLoop(Len(InLineOrder(seq, S)), T, << >>, step)
    <2>1. Len(InLineOrder(seq, S)) \in Nat /\ << >> \in T
        BY DEF InLines
    <2> HIDE DEF T
    <2>2. ASSUME NEW i \in 1 .. Len(InLineOrder(seq, S)), NEW x \in T PROVE Round(x, i) \in T
        <3>1. InLineOrder(seq, S)[i] \in S
            BY DEF InLines
        <3> QED BY <3>1, PlacedIs DEF T
    <2> HIDE DEF Round
    <2> QED BY <2>1, <2>2 DEF IsLoop
<1>2. Runs(seq, S) = acc[Len(InLineOrder(seq, S))]
    BY DEF Loop, Runs
<1> HIDE DEF T, Round
<1>3. PICK f : IsRun(f, Len(InLineOrder(seq, S)), T, << >>, step)
    <2> HIDE DEF step
    <2> QED BY <1>1, LoopRuns
<1>4. Looped(f)
    <2>1. ASSUME NEW i \in 1 .. Len(InLineOrder(seq, S)) PROVE f[i] = Round(f[i - 1], i)
        <3>1. i - 1 \in 0 .. Len(InLineOrder(seq, S))
            BY <1>1 DEF IsLoop
        <3>2. f[i - 1] \in T /\ f[i] = step[i][f[i - 1]]
            <4> HIDE DEF step
            <4> QED BY <1>3, <3>1 DEF IsRun
        <3> QED BY <3>2
    <2> HIDE DEF step
    <2> QED BY <1>3, <2>1 DEF IsRun
<1>5. Looped(acc)
    <2> HIDE DEF Looped
    <2> QED BY <1>4
<1>6. /\ acc = [i \in 0 .. Len(InLineOrder(seq, S)) |-> acc[i]] /\ acc[0] = << >>
      /\ \A i \in 1 .. Len(InLineOrder(seq, S)) : acc[i] = Round(acc[i - 1], i)
    <2> HIDE DEF acc, step
    <2>1. Len(InLineOrder(seq, S)) \in Nat
        BY <1>1 DEF IsLoop
    <2> QED BY <1>5, <2>1
<1>7. IsRun(acc, Len(InLineOrder(seq, S)), T, << >>, step)
    <2> HIDE DEF acc
    <2>1. \A i \in 1 .. Len(InLineOrder(seq, S)) :
              acc[i - 1] \in T => acc[i] = step[i][acc[i - 1]]
        BY <1>6
    <2> HIDE DEF step, Looped
    <2> QED BY <1>1, <1>6, <2>1, RunOfLoop
<1> HIDE DEF acc
<1> QED BY <1>2, <1>6, <1>7 DEF IsRun, T, Round

\* What holds of the runs when the first i ranks in o are in them; g is the gap.
Spaced(seq, S, o, g, runs, i) ==
    /\ runs \in Seq(Seq(S))
    /\ \A a \in 1 .. Len(runs) :
         runs[a] # << >> /\ ToSet(runs[a]) \subseteq {o[j] : j \in 1 .. i}
    /\ \A j \in 1 .. i : \E a \in 1 .. Len(runs) : o[j] \in ToSet(runs[a])
    /\ \A a, b \in 1 .. Len(runs) : a < b =>
         \A r \in ToSet(runs[b]) : /\ r \notin ToSet(runs[a])
                                   /\ Ends(seq, runs[a]) + 1 + g < At(seq, r).start

LEMMA ToSetAppend ==
    ASSUME NEW T, NEW s, s \in Seq(T), NEW x
    PROVE  ToSet(Append(s, x)) = ToSet(s) \cup {x}
<1>1. /\ Len(s) \in Nat /\ DOMAIN s = 1 .. Len(s) /\ DOMAIN Append(s, x) = 1 .. Len(s) + 1
      /\ Append(s, x)[Len(s) + 1] = x /\ \A k \in 1 .. Len(s) : Append(s, x)[k] = s[k]
    OBVIOUS
<1>2. \A k \in 1 .. Len(s) + 1 : k \in 1 .. Len(s) \/ k = Len(s) + 1
    BY <1>1
<1>3. \A k \in 1 .. Len(s) : k \in 1 .. Len(s) + 1
    BY <1>1
<1>4. Len(s) + 1 \in 1 .. Len(s) + 1
    BY <1>1
<1> QED BY <1>1, <1>2, <1>3, <1>4 DEF ToSet

LEMMA ToSets ==
    ASSUME NEW T, NEW s, s \in Seq(T)
    PROVE  /\ ToSet(s) \subseteq T
           /\ s # << >> => \E y \in T : y \in ToSet(s)
<1>1. ToSet(s) \subseteq T
    BY DEF ToSet
<1>2. s # << >> => 1 \in DOMAIN s /\ s[1] \in T
    OBVIOUS
<1> QED BY <1>1, <1>2 DEF ToSet

LEMMA SeqGrows ==
    ASSUME NEW S, NEW T, S \subseteq T, NEW s, s \in Seq(S)
    PROVE  s \in Seq(T)
OBVIOUS

LEMMA SpacedStep ==
    ASSUME NEW seq, Ranking(seq), NEW S, S \in SUBSET (1 .. Len(seq)),
           NEW o, InLines(o, seq, S), NEW g \in Nat, \A r \in S : Gap(At(seq, r)) = g,
           NEW i \in 1 .. Cardinality(S), NEW runs, Spaced(seq, S, o, g, runs, i - 1)
    PROVE  Spaced(seq, S, o, g, Placed(seq, runs, o[i]), i)
<1> DEFINE r == o[i]
           l == Len(runs)
           new == Placed(seq, runs, r)
           m == Cardinality(S)
<1>1. /\ runs \in Seq(Seq(S)) /\ l \in Nat /\ m \in Nat /\ r \in S
      /\ \A a \in 1 .. l : runs[a] \in Seq(S) /\ runs[a] # << >>
    <2> DEFINE T == Seq(S)
    <2>1. m \in Nat /\ r \in S
        BY DEF InLines
    <2>2. runs \in Seq(T) /\ \A a \in 1 .. l : runs[a] # << >>
        BY DEF Spaced
    <2> HIDE DEF T
    <2>3. l \in Nat /\ \A a \in 1 .. l : runs[a] \in T
        BY <2>2
    <2> QED BY <2>1, <2>2, <2>3 DEF T
<1>2. /\ \A a \in 1 .. l : ToSet(runs[a]) \subseteq {o[j] : j \in 1 .. i - 1}
      /\ \A j \in 1 .. i - 1 : \E a \in 1 .. l : o[j] \in ToSet(runs[a])
      /\ \A a, b \in 1 .. l : a < b =>
           \A q \in ToSet(runs[b]) : /\ q \notin ToSet(runs[a])
                                     /\ Ends(seq, runs[a]) + 1 + g < At(seq, q).start
    BY DEF Spaced
<1>3. /\ new \in Seq(Seq(S))
      /\ Joined(seq, runs, new, r) \/ Started(seq, runs, new, r)
    <2> HIDE DEF r
    <2> QED BY <1>1, PlacedIs
<1>4. ASSUME NEW j \in 1 .. i - 1 PROVE o[j] # r /\ At(seq, o[j]).start <= At(seq, r).start
    <2>1. j \in 1 .. m /\ i \in 1 .. m /\ j < i
        BY <1>1
    <2> QED BY <2>1 DEF InLines
<1>5. ASSUME NEW a \in 1 .. l
      PROVE  /\ r \notin ToSet(runs[a]) /\ Ends(seq, runs[a]) \in Nat
             /\ \A q \in ToSet(runs[a]) : At(seq, q).start <= At(seq, r).start
             /\ \E q \in S : q \in ToSet(runs[a])
    <2>1. runs[a] \in Seq(S) /\ runs[a] # << >>
        BY <1>1
    <2>2. runs[a] \in Seq(1 .. Len(seq))
        BY <2>1, SeqGrows
    <2>3. Ends(seq, runs[a]) \in Nat
        <3> HIDE DEF l
        <3> QED BY <2>1, <2>2, EndsIs
    <2>4. \E q \in S : q \in ToSet(runs[a])
        <3> HIDE DEF l
        <3> QED BY <2>1, ToSets
    <2>5. ASSUME NEW q \in ToSet(runs[a]) PROVE q # r /\ At(seq, q).start <= At(seq, r).start
        <3>1. PICK j \in 1 .. i - 1 : q = o[j]
            BY <1>2
        <3> QED BY <1>4, <3>1
    <2> QED BY <2>3, <2>4, <2>5
<1>6. \A q \in S : At(seq, q).start \in Nat
    BY RankedHits
\* A run that was there before the last one is far before r, for the last one is.
<1>7. ASSUME NEW a \in 1 .. l, NEW b \in 1 .. l, a < b
      PROVE  Ends(seq, runs[a]) + 1 + g < At(seq, r).start
    <2>1. PICK q \in S : q \in ToSet(runs[b])
        BY <1>5
    <2>2. Ends(seq, runs[a]) + 1 + g < At(seq, q).start
        BY <1>2, <1>7, <2>1
    <2>3. At(seq, q).start <= At(seq, r).start
        BY <1>5, <2>1
    <2>4. /\ Ends(seq, runs[a]) \in Nat /\ At(seq, q).start \in Nat /\ At(seq, r).start \in Nat
        BY <1>1, <1>5, <1>6
    <2> HIDE DEF r
    <2> QED BY <2>2, <2>3, <2>4
<1> HIDE DEF new
<1> USE DEF l
<1>8. CASE Joined(seq, runs, new, r)
    <2>9. /\ runs # << >> /\ Joins(seq, runs[l], r) /\ Len(new) = l
          /\ new[l] = Append(runs[l], r) /\ \A a \in 1 .. l - 1 : new[a] = runs[a]
        BY <1>8 DEF Joined
    <2>0. l \in 1 .. l /\ \A a \in 1 .. l : a \in 1 .. l - 1 \/ a = l
        BY <1>1, <2>9
    <2>1. runs[l] \in Seq(S)
        BY <1>1, <2>0
    <2>2. ToSet(new[l]) = ToSet(runs[l]) \cup {r} /\ new[l] # << >>
        <3>1. ToSet(Append(runs[l], r)) = ToSet(runs[l]) \cup {r}
            <4> HIDE DEF l, r
            <4> QED BY <2>1, ToSetAppend
        <3>2. Append(runs[l], r) # << >>
            BY <2>1
        <3> QED BY <2>9, <3>1, <3>2
    <2> HIDE DEF l, r
    <2>3. \A a \in 1 .. l : ToSet(runs[a]) \subseteq ToSet(new[a])
        BY <2>9, <2>0, <2>2
    <2>4. ASSUME NEW a \in 1 .. l
          PROVE  new[a] # << >> /\ ToSet(new[a]) \subseteq {o[j] : j \in 1 .. i}
        <3>1. ToSet(new[a]) \subseteq ToSet(runs[a]) \cup {r} /\ new[a] # << >>
            BY <1>1, <2>9, <2>0, <2>2
        <3>2. r = o[i] /\ i \in 1 .. i /\ \A j \in 1 .. i - 1 : j \in 1 .. i
            BY <1>1 DEF r
        <3> QED BY <1>2, <3>1, <3>2
    <2>5. ASSUME NEW j \in 1 .. i PROVE \E a \in 1 .. l : o[j] \in ToSet(new[a])
        <3>1. CASE j = i
            BY <2>0, <2>2, <3>1 DEF r
        <3>2. CASE j \in 1 .. i - 1
            BY <1>2, <2>3, <3>2
        <3>3. j = i \/ j \in 1 .. i - 1
            BY <1>1
        <3> QED BY <3>1, <3>2, <3>3
    <2>6. ASSUME NEW a \in 1 .. l, NEW b \in 1 .. l, a < b, NEW q \in ToSet(new[b])
          PROVE  q \notin ToSet(new[a]) /\ Ends(seq, new[a]) + 1 + g < At(seq, q).start
        <3>0. a \in 1 .. l - 1
            BY <1>1, <2>6
        <3>1. a \in 1 .. l - 1 /\ new[a] = runs[a]
            BY <2>9, <3>0
        <3>2. CASE q \in ToSet(runs[b])
            BY <1>2, <2>6, <3>1, <3>2
        <3>3. CASE q = r
            BY <1>5, <1>7, <2>6, <3>1, <3>3
        <3>4. q \in ToSet(runs[b]) \/ q = r
            BY <2>9, <2>0, <2>2, <2>6
        <3> QED BY <3>2, <3>3, <3>4
    <2> QED BY <1>3, <2>9, <2>4, <2>5, <2>6 DEF Spaced, new, r
<1>9. CASE Started(seq, runs, new, r)
    <2>9. /\ runs = << >> \/ ~Joins(seq, runs[l], r)
          /\ Len(new) = l + 1 /\ new[l + 1] = <<r>> /\ \A a \in 1 .. l : new[a] = runs[a]
        BY <1>9 DEF Started
    <2>0. l + 1 \in 1 .. l + 1 /\ \A a \in 1 .. l + 1 : a \in 1 .. l \/ a = l + 1
        BY <1>1
    <2>1. ToSet(new[l + 1]) = {r} /\ new[l + 1] # << >>
        <3>1. <<r>> # << >> /\ ToSet(<<r>>) = {r}
            BY DEF ToSet
        <3> QED BY <2>9, <3>1
    <2>2. \A a \in 1 .. l : Ends(seq, runs[a]) + 1 + g < At(seq, r).start
        <3>1. ASSUME NEW a \in 1 .. l PROVE Ends(seq, runs[a]) + 1 + g < At(seq, r).start
            <4>1. CASE a < l
                <5>1. l \in 1 .. l
                    BY <1>1
                <5> HIDE DEF r, l
                <5> QED BY <1>7, <4>1, <5>1
            <4>2. CASE a = l
                <5>1. runs # << >>
                    BY <4>2
                <5>2. ~Joins(seq, runs[l], r) /\ Gap(At(seq, r)) = g
                    BY <1>1, <2>9, <5>1
                <5> HIDE DEF r, l
                <5>3. ~(At(seq, r).start <= Ends(seq, runs[l]) + 1 + g)
                    BY <5>2 DEF Joins
                <5>4. At(seq, r).start \in Nat /\ Ends(seq, runs[l]) \in Nat
                    BY <1>1, <1>5, <1>6, <4>2
                <5> QED BY <4>2, <5>3, <5>4
            <4>3. a < l \/ a = l
                BY <1>1
            <4> QED BY <4>1, <4>2, <4>3
        <3> QED BY <3>1
    <2> HIDE DEF l, r
    <2>3. \A a \in 1 .. l : a \in 1 .. l + 1 /\ ToSet(new[a]) = ToSet(runs[a])
        <3>1. \A a \in 1 .. l : a \in 1 .. l + 1
            BY <1>1
        <3> QED BY <2>9, <3>1
    <2>4. ASSUME NEW a \in 1 .. l + 1
          PROVE  new[a] # << >> /\ ToSet(new[a]) \subseteq {o[j] : j \in 1 .. i}
        <3>1. r = o[i] /\ i \in 1 .. i /\ \A j \in 1 .. i - 1 : j \in 1 .. i
            BY <1>1 DEF r
        <3>2. CASE a = l + 1
            BY <2>1, <3>1, <3>2
        <3>3. CASE a \in 1 .. l
            <4>1. new[a] = runs[a] /\ runs[a] # << >>
                BY <1>1, <2>9, <3>3
            <4> QED BY <1>2, <3>1, <3>3, <4>1
        <3> QED BY <2>0, <3>2, <3>3
    <2>5. ASSUME NEW j \in 1 .. i PROVE \E a \in 1 .. l + 1 : o[j] \in ToSet(new[a])
        <3>1. CASE j = i
            BY <2>0, <2>1, <3>1 DEF r
        <3>2. CASE j \in 1 .. i - 1
            BY <1>2, <2>3, <3>2
        <3>3. j = i \/ j \in 1 .. i - 1
            BY <1>1
        <3> QED BY <3>1, <3>2, <3>3
    <2>6. ASSUME NEW a \in 1 .. l + 1, NEW b \in 1 .. l + 1, a < b, NEW q \in ToSet(new[b])
          PROVE  q \notin ToSet(new[a]) /\ Ends(seq, new[a]) + 1 + g < At(seq, q).start
        <3>0. a \in 1 .. l
            BY <1>1, <2>6
        <3>1. a \in 1 .. l /\ new[a] = runs[a]
            BY <2>9, <3>0
        <3>2. CASE b = l + 1
            <4>1. q = r
                BY <2>1, <2>6, <3>2
            <4> QED BY <1>5, <2>2, <3>1, <4>1
        <3>3. CASE b \in 1 .. l
            <4>1. new[b] = runs[b]
                BY <2>9, <3>3
            <4> QED BY <1>2, <2>6, <3>1, <3>3, <4>1
        <3> QED BY <2>0, <3>2, <3>3
    <2> QED BY <1>3, <2>9, <2>4, <2>5, <2>6 DEF Spaced, new, r
<1> QED BY <1>3, <1>8, <1>9

\* runs share out the ranks of S, and each is far from the next.
Apart(seq, S, g, runs) ==
    /\ runs \in Seq(Seq(S))
    /\ \A a \in 1 .. Len(runs) : runs[a] \in Seq(S) /\ runs[a] # << >>
    /\ \A r \in S : \E a \in 1 .. Len(runs) : r \in ToSet(runs[a])
    /\ \A a, b \in 1 .. Len(runs) : a < b =>
         \A r \in ToSet(runs[b]) : /\ r \notin ToSet(runs[a])
                                   /\ Ends(seq, runs[a]) + 1 + g < At(seq, r).start

LEMMA RunsAreApart ==
    ASSUME NEW seq, Ranking(seq), NEW S, S \in SUBSET (1 .. Len(seq)), NEW g \in Nat,
           \A r \in S : Gap(At(seq, r)) = g
    PROVE  Apart(seq, S, g, Runs(seq, S))
<1> DEFINE o == InLineOrder(seq, S)
           m == Cardinality(S)
<1>1. InLines(o, seq, S)
    BY LinesInOrder
<1>2. m \in Nat /\ Len(o) = m
    BY <1>1 DEF InLines
<1>3. PICK f : /\ f \in [0 .. Len(o) -> Seq(Seq(S))] /\ f[0] = << >>
               /\ \A i \in 1 .. Len(o) : f[i] = Placed(seq, f[i - 1], o[i])
               /\ Runs(seq, S) = f[Len(o)]
    BY <1>1, RunsRun
<1> HIDE DEF o, m
<1> DEFINE good == {i \in 0 .. m : Spaced(seq, S, o, g, f[i], i)}
<1>4. 0 \in good
    <2>1. f[0] \in Seq(Seq(S)) /\ Len(f[0]) = 0
        BY <1>3, NothingIsTyped
    <2> QED BY <1>2, <2>1 DEF Spaced
<1>5. ASSUME NEW i \in 1 .. m, i - 1 \in good PROVE i \in good
    <2>1. Spaced(seq, S, o, g, f[i - 1], i - 1)
        BY <1>5
    <2>2. i \in 1 .. Cardinality(S)
        BY DEF m
    <2>3. Spaced(seq, S, o, g, Placed(seq, f[i - 1], o[i]), i)
        BY <1>1, <2>1, <2>2, SpacedStep
    <2> QED BY <1>2, <1>3, <2>3
<1>6. m \in good
    <2> HIDE DEF good
    <2>1. 0 .. m \subseteq good
        BY <1>2, <1>4, <1>5, UpTo
    <2> QED BY <1>2, <2>1
<1>7. Spaced(seq, S, o, g, Runs(seq, S), m)
    BY <1>2, <1>3, <1>6
<1>8. \A r \in S : \E j \in 1 .. m : o[j] = r
    BY <1>1 DEF InLines, m
<1> DEFINE T == Seq(S)
<1>9. \A a \in 1 .. Len(Runs(seq, S)) : Runs(seq, S)[a] \in T
    <2>1. Runs(seq, S) \in Seq(T)
        BY <1>7 DEF Spaced
    <2> HIDE DEF T
    <2> QED BY <2>1
<1>10. \A r \in S : \E a \in 1 .. Len(Runs(seq, S)) : r \in ToSet(Runs(seq, S)[a])
    BY <1>7, <1>8 DEF Spaced
<1> QED BY <1>7, <1>9, <1>10 DEF Spaced, Apart

-----------------------------------------------------------------------------
(* All runs of a ranking                                                   *)

OfDocument(seq, d) == {r \in DOMAIN seq : Document(At(seq, r)) = d /\ Spanned(At(seq, r))}
GapOf(d) == IF d[3] THEN DocGap ELSE CodeGap

\* A hit without lines is a run of its own; the others are in the runs of their
\* document.
Lone(seq, u) == \E r \in DOMAIN seq : ~Spanned(At(seq, r)) /\ u = <<r>>
RunOf(seq, d, u) == \E a \in 1 .. Len(Runs(seq, OfDocument(seq, d))) :
                      u = Runs(seq, OfDocument(seq, d))[a]

LEMMA DocumentRuns ==
    ASSUME NEW seq, Ranking(seq), NEW d
    PROVE  /\ OfDocument(seq, d) \in SUBSET (1 .. Len(seq))
           /\ Apart(seq, OfDocument(seq, d), GapOf(d), Runs(seq, OfDocument(seq, d)))
<1> DEFINE S == OfDocument(seq, d)
<1>1. S \in SUBSET (1 .. Len(seq))
    BY DEF OfDocument, Ranking
<1>2. GapOf(d) \in Nat
    BY BoundsAreNumbers DEF GapOf
<1>3. \A r \in S : Gap(At(seq, r)) = GapOf(d)
    BY DEF OfDocument, GapOf, Gap, Document
<1> HIDE DEF S
<1> QED BY <1>1, <1>2, <1>3, RunsAreApart DEF S

LEMMA RunsSplit ==
    ASSUME NEW seq, Ranking(seq), NEW u
    PROVE  u \in AllRuns(seq) <=> \/ Lone(seq, u)
                                  \/ \E r \in DOMAIN seq : RunOf(seq, Document(At(seq, r)), u)
<1> DEFINE docs == {Document(At(seq, r)) : r \in DOMAIN seq}
           lone == {<<r>> : r \in {q \in DOMAIN seq : ~Spanned(At(seq, q))}}
           of(d) == {r \in DOMAIN seq : Document(At(seq, r)) = d}
           S(d) == {r \in of(d) : Spanned(At(seq, r))}
<1>1. AllRuns(seq) = lone \cup UNION {ToSet(Runs(seq, S(d))) : d \in docs}
    BY DEF AllRuns
<1>2. \A d : S(d) = OfDocument(seq, d)
    BY DEF OfDocument
<1> HIDE DEF S
<1>3. u \in lone <=> Lone(seq, u)
    BY DEF Lone
<1>4. ASSUME NEW d PROVE u \in ToSet(Runs(seq, S(d))) <=> RunOf(seq, d, u)
    <2> DEFINE D == OfDocument(seq, d)
               runs == Runs(seq, D)
    <2>1. runs \in Seq(Seq(D))
        BY DocumentRuns DEF Apart
    <2>2. DOMAIN runs = 1 .. Len(runs)
        BY <2>1
    <2>3. runs = Runs(seq, S(d))
        BY <1>2
    <2>4. RunOf(seq, d, u) <=> \E a \in 1 .. Len(runs) : u = runs[a]
        BY DEF RunOf
    <2> HIDE DEF runs, D
    <2> QED BY <2>2, <2>3, <2>4 DEF ToSet
<1> HIDE DEF lone
<1> QED BY <1>1, <1>3, <1>4

\* A run of a document: its ranks, and where it is as to another run of it.
LEMMA OneRun ==
    ASSUME NEW seq, Ranking(seq), NEW d, NEW u, RunOf(seq, d, u)
    PROVE  /\ u \in Seq(OfDocument(seq, d)) /\ u # << >> /\ u \in Seq(1 .. Len(seq))
           /\ ToSet(u) \subseteq OfDocument(seq, d)
<1> DEFINE S == OfDocument(seq, d)
<1>1. S \in SUBSET (1 .. Len(seq)) /\ Apart(seq, S, GapOf(d), Runs(seq, S))
    BY DocumentRuns
<1>2. u \in Seq(S) /\ u # << >>
    BY <1>1 DEF RunOf, Apart
<1> HIDE DEF S
<1>3. u \in Seq(1 .. Len(seq)) /\ ToSet(u) \subseteq S
    BY <1>1, <1>2, SeqGrows, ToSets
<1> QED BY <1>2, <1>3 DEF S

Parted(seq, g, u, v) == \A r \in ToSet(v) : Ends(seq, u) + 1 + g < At(seq, r).start

LEMMA TwoRuns ==
    ASSUME NEW seq, Ranking(seq), NEW d, NEW u, RunOf(seq, d, u), NEW v, RunOf(seq, d, v),
           u # v
    PROVE  /\ ToSet(u) \cap ToSet(v) = {}
           /\ Parted(seq, GapOf(d), u, v) \/ Parted(seq, GapOf(d), v, u)
<1> DEFINE S == OfDocument(seq, d)
           runs == Runs(seq, S)
<1>1. Apart(seq, S, GapOf(d), runs)
    BY DocumentRuns
<1>2. PICK a \in 1 .. Len(runs) : u = runs[a]
    BY DEF RunOf
<1>3. PICK b \in 1 .. Len(runs) : v = runs[b]
    BY DEF RunOf
<1> HIDE DEF runs, S
<1>4. Len(runs) \in Nat
    <2>1. runs \in Seq(Seq(S))
        BY <1>1 DEF Apart
    <2> QED BY <2>1
<1>5. a < b \/ b < a
    BY <1>2, <1>3, <1>4
<1> QED BY <1>1, <1>2, <1>3, <1>5 DEF Apart, Parted

\* Every rank is in exactly one run.
LEMMA AllRunsAre ==
    ASSUME NEW seq, Ranking(seq)
    PROVE  /\ \A u \in AllRuns(seq) : u \in Seq(1 .. Len(seq)) /\ u # << >>
           /\ \A u, v \in AllRuns(seq) : u # v => ToSet(u) \cap ToSet(v) = {}
           /\ \A r \in 1 .. Len(seq) : \E u \in AllRuns(seq) : r \in ToSet(u)
<1>0. DOMAIN seq = 1 .. Len(seq)
    BY DEF Ranking
<1>1. ASSUME NEW u, Lone(seq, u)
      PROVE  /\ u \in Seq(1 .. Len(seq)) /\ u # << >>
             /\ \A r \in ToSet(u) : ~Spanned(At(seq, r)) /\ u = <<r>>
    <2>1. PICK r \in 1 .. Len(seq) : ~Spanned(At(seq, r)) /\ u = <<r>>
        BY <1>0, <1>1 DEF Lone
    <2>2. ToSet(<<r>>) = {r} /\ <<r>> # << >> /\ <<r>> \in Seq(1 .. Len(seq))
        BY DEF ToSet
    <2> QED BY <2>1, <2>2
<1>2. ASSUME NEW d, NEW u, RunOf(seq, d, u)
      PROVE  /\ u \in Seq(1 .. Len(seq)) /\ u # << >>
             /\ \A r \in ToSet(u) : Spanned(At(seq, r)) /\ Document(At(seq, r)) = d
    BY <1>2, OneRun DEF OfDocument
<1>3. \A u \in AllRuns(seq) : u \in Seq(1 .. Len(seq)) /\ u # << >>
    BY <1>1, <1>2, RunsSplit
<1>4. ASSUME NEW u \in AllRuns(seq), NEW v \in AllRuns(seq), u # v,
          NEW r \in ToSet(u) \cap ToSet(v)
      PROVE  FALSE
    <2>1. CASE Lone(seq, u) /\ Lone(seq, v)
        BY <1>1, <1>4, <2>1
    <2>2. CASE \E q \in DOMAIN seq : RunOf(seq, Document(At(seq, q)), u)
        <3>1. PICK q \in DOMAIN seq : RunOf(seq, Document(At(seq, q)), u)
            BY <2>2
        <3>2. Spanned(At(seq, r)) /\ Document(At(seq, r)) = Document(At(seq, q))
            BY <1>2, <1>4, <3>1
        <3>3. ~Lone(seq, v)
            BY <1>1, <1>4, <3>2
        <3>4. PICK p \in DOMAIN seq : RunOf(seq, Document(At(seq, p)), v)
            BY <3>3, RunsSplit
        <3>5. Document(At(seq, r)) = Document(At(seq, p))
            BY <1>2, <1>4, <3>4
        <3>6. RunOf(seq, Document(At(seq, r)), u) /\ RunOf(seq, Document(At(seq, r)), v)
            BY <3>1, <3>2, <3>4, <3>5
        <3> QED BY <1>4, <3>6, TwoRuns
    <2>3. CASE Lone(seq, u) /\ ~Lone(seq, v)
        <3>1. PICK p \in DOMAIN seq : RunOf(seq, Document(At(seq, p)), v)
            BY <2>3, RunsSplit
        <3> QED BY <1>1, <1>2, <1>4, <2>3, <3>1
    <2> QED BY <2>1, <2>2, <2>3, RunsSplit
<1>5. ASSUME NEW r \in 1 .. Len(seq) PROVE \E u \in AllRuns(seq) : r \in ToSet(u)
    <2>1. CASE Spanned(At(seq, r))
        <3> DEFINE d == Document(At(seq, r))
                   S == OfDocument(seq, d)
                   runs == Runs(seq, S)
        <3>1. r \in S
            BY <1>0, <2>1 DEF OfDocument
        <3>2. Apart(seq, S, GapOf(d), runs)
            BY DocumentRuns
        <3>3. PICK a \in 1 .. Len(runs) : r \in ToSet(runs[a])
            BY <3>1, <3>2 DEF Apart
        <3>4. RunOf(seq, d, runs[a])
            BY DEF RunOf
        <3>5. runs[a] \in AllRuns(seq)
            BY <1>0, <3>4, RunsSplit
        <3> QED BY <3>3, <3>5
    <2>2. CASE ~Spanned(At(seq, r))
        <3>1. Lone(seq, <<r>>)
            BY <1>0, <2>2 DEF Lone
        <3>2. ToSet(<<r>>) = {r}
            BY DEF ToSet
        <3> QED BY <3>1, <3>2, RunsSplit
    <2> QED BY <2>1, <2>2
<1> QED BY <1>3, <1>4, <1>5
-----------------------------------------------------------------------------
(* From runs to results                                                    *)

\* U shares out the ranks of seq.
Shares(seq, U) ==
    /\ \A u \in U : u \in Seq(1 .. Len(seq)) /\ u # << >>
    /\ \A u, v \in U : u # v => ToSet(u) \cap ToSet(v) = {}
    /\ \A r \in 1 .. Len(seq) : \E u \in U : r \in ToSet(u)

\* The runs that Combined makes results of.
Grouped(seq) == IF conf.set.combine /\ Len(seq) >= 2 THEN AllRuns(seq)
                ELSE {<<r>> : r \in DOMAIN seq}

LEMMA GroupedAre ==
    ASSUME NEW seq, Ranking(seq)
    PROVE  Shares(seq, Grouped(seq))
<1>1. CASE conf.set.combine /\ Len(seq) >= 2
    BY <1>1, AllRunsAre DEF Grouped, Shares
<1>2. CASE ~(conf.set.combine /\ Len(seq) >= 2)
    <2>1. DOMAIN seq = 1 .. Len(seq)
        BY DEF Ranking
    <2>2. ASSUME NEW r \in 1 .. Len(seq)
          PROVE  ToSet(<<r>>) = {r} /\ <<r>> # << >> /\ <<r>> \in Seq(1 .. Len(seq))
        BY DEF ToSet
    <2>3. Grouped(seq) = {<<r>> : r \in 1 .. Len(seq)}
        BY <1>2, <2>1 DEF Grouped
    <2>4. ASSUME NEW u \in Grouped(seq)
          PROVE  \E r \in 1 .. Len(seq) : u = <<r>> /\ ToSet(u) = {r}
        <3>1. PICK r \in 1 .. Len(seq) : u = <<r>>
            BY <2>3
        <3> QED BY <2>2, <3>1
    <2>5. ASSUME NEW u \in Grouped(seq), NEW v \in Grouped(seq), u # v
          PROVE  ToSet(u) \cap ToSet(v) = {}
        BY <2>4, <2>5
    <2>6. \A r \in 1 .. Len(seq) : \E u \in Grouped(seq) : r \in ToSet(u)
        BY <2>2, <2>3
    <2>7. \A u \in Grouped(seq) : u \in Seq(1 .. Len(seq)) /\ u # << >>
        BY <2>2, <2>3
    <2> QED BY <2>5, <2>6, <2>7 DEF Shares
<1> QED BY <1>1, <1>2

\* A result stands where the best of its run does, and shows what is in the run.
IsResult(x, seq, u) ==
    /\ x.members = ToSet(u)
    /\ x.rank \in 1 .. Len(seq) /\ x.rank \in ToSet(u) /\ \A r \in ToSet(u) : x.rank <= r
    /\ x.rep \in DOMAIN hits /\ hits[x.rep] = At(seq, x.rank)
    /\ x.end = Ends(seq, u) /\ x.end \in Nat
    /\ x.start \in Nat /\ \E r \in ToSet(u) : x.start = At(seq, r).start

LEMMA ResultIs ==
    ASSUME NEW seq, Ranking(seq), NEW u, u \in Seq(1 .. Len(seq)), u # << >>
    PROVE  IsResult(Result(seq, u), seq, u)
<1> DEFINE x == Result(seq, u)
           n == Len(seq)
           starts == {At(seq, r).start : r \in ToSet(u)}
<1>1. /\ x.rep = seq[Least(ToSet(u))].hit /\ x.rank = Least(ToSet(u)) /\ x.members = ToSet(u)
      /\ x.start = Least(starts) /\ x.end = Ends(seq, u)
    BY DEF Result, BestRank
<1> HIDE DEF x, starts
<1>2. n \in Nat
    BY DEF Ranking
<1>3. ToSet(u) \subseteq 1 .. n /\ ToSet(u) # {}
    <2> HIDE DEF n
    <2> QED BY ToSets DEF n
<1>4. Least(ToSet(u)) \in ToSet(u) /\ \A r \in ToSet(u) : Least(ToSet(u)) <= r
    <2>1. ToSet(u) \subseteq Nat
        BY <1>2, <1>3
    <2> QED BY <1>3, <2>1, LeastOf
<1>5. \A r \in ToSet(u) : At(seq, r).start \in Nat
    BY <1>3, RankedHits
<1>6. starts \subseteq Nat /\ starts # {}
    BY <1>3, <1>5 DEF starts
<1>7. Least(starts) \in Nat /\ \E r \in ToSet(u) : Least(starts) = At(seq, r).start
    <2>1. Least(starts) \in starts
        BY <1>6, LeastOf
    <2> QED BY <1>6, <2>1 DEF starts
<1>8. x.rank \in 1 .. n /\ x.rep = seq[x.rank].hit /\ x.rep \in DOMAIN hits
    BY <1>1, <1>3, <1>4, RankedHits
<1>9. hits[x.rep] = At(seq, x.rank)
    BY <1>8 DEF At
<1>10. Ends(seq, u) \in Nat
    BY EndsIs
<1> QED BY <1>1, <1>4, <1>7, <1>8, <1>9, <1>10 DEF IsResult, x

\* q lists one result of every run, the best run first.
IsAnswer(q, seq, U) ==
    /\ Len(q) \in Nat /\ q \in Seq({Result(seq, u) : u \in U})
    /\ \A k \in 1 .. Len(q) : \E u \in U : q[k] = Result(seq, u) /\ IsResult(q[k], seq, u)
    /\ \A u \in U : \E k \in 1 .. Len(q) : q[k] = Result(seq, u)
    /\ \A j, k \in 1 .. Len(q) : j < k => q[j].rank < q[k].rank

LEMMA CombinedIs ==
    ASSUME NEW seq, Ranking(seq)
    PROVE  IsAnswer(Combined(seq), seq, Grouped(seq))
<1> DEFINE U == Grouped(seq)
           S == {Result(seq, u) : u \in U}
           n == Len(seq)
           R == {q \in S \X S : q[1].rank < q[2].rank}
           q == Combined(seq)
<1>1. n \in Nat /\ Shares(seq, U)
    BY GroupedAre DEF Ranking
<1>2. ASSUME NEW u \in U PROVE IsResult(Result(seq, u), seq, u)
    <2> HIDE DEF U
    <2> QED BY <1>1, ResultIs DEF Shares
<1>3. ASSUME NEW u \in U, NEW v \in U, Result(seq, u).rank = Result(seq, v).rank PROVE u = v
    <2> HIDE DEF U
    <2> QED BY <1>1, <1>2, <1>3 DEF Shares, IsResult
<1>4. ASSUME NEW x \in S PROVE \E u \in U : x = Result(seq, u) /\ IsResult(x, seq, u)
    <2> HIDE DEF U
    <2> QED BY <1>2
<1>5. \A x \in S : x.rank \in 1 .. n
    <2> HIDE DEF S, U
    <2> QED BY <1>4 DEF IsResult
<1>6. \A x, y \in S : x.rank = y.rank => x = y
    <2> HIDE DEF U
    <2> QED BY <1>3
<1>7. \A x, y \in S : <<x, y>> \in R <=> x.rank < y.rank
    OBVIOUS
<1>8. q = InOrder(S, LAMBDA a, b : a.rank < b.rank)
    BY DEF Combined, Grouped
<1> HIDE DEF S, U
<1>9. IsFiniteSet(S)
    <2> DEFINE f == [x \in S |-> x.rank]
    <2>1. f \in Injection(S, 1 .. n)
        BY <1>5, <1>6 DEF Injection, IsInjective
    <2>2. IsFiniteSet(1 .. n)
        BY <1>1, FS_Interval
    <2> HIDE DEF f, n
    <2> QED BY <2>1, <2>2, FS_Injection
<1>10. Orders(R, S)
    <2> HIDE DEF R
    <2>1. \A x \in S : x.rank \in Nat
        BY <1>5
    <2> QED BY <1>6, <1>7, <2>1 DEF Orders
<1>11. q = ByRank(RankIn(R, S), S)
    <2> HIDE DEF R
    <2>1. \A x \in S : {y \in S : y.rank < x.rank} = Below(R, S, x)
        BY <1>7 DEF Below
    <2>2. RankIn(R, S) = [x \in S |-> Cardinality({y \in S : y.rank < x.rank})]
        BY <2>1 DEF RankIn
    <2> HIDE DEF q
    <2> QED BY <1>8, <2>2 DEF InOrder, ByRank
<1> HIDE DEF R, q
<1>12. IsSort(q, R, S)
    BY <1>9, <1>10, <1>11, Ordered
<1> DEFINE m == Cardinality(S)
<1>13. m \in Nat /\ q \in [1 .. m -> S] /\ DOMAIN q = 1 .. m /\ Len(q) = m /\ q \in Seq(S)
    BY <1>12 DEF IsSort
<1>14. \A k \in 1 .. m : \E u \in U : q[k] = Result(seq, u) /\ IsResult(q[k], seq, u)
    BY <1>4, <1>13
<1>15. \A u \in U : \E k \in 1 .. m : q[k] = Result(seq, u)
    <2>1. \A u \in U : Result(seq, u) \in S
        BY DEF S
    <2> QED BY <1>12, <1>13, <2>1 DEF IsSort
<1>16. \A j, k \in 1 .. m : j < k => q[j].rank < q[k].rank
    <2> HIDE DEF m
    <2>1. ASSUME NEW j \in 1 .. m, NEW k \in 1 .. m, j < k PROVE q[j].rank < q[k].rank
        <3>1. <<q[j], q[k]>> \in R /\ q[j] \in S /\ q[k] \in S
            BY <1>12, <1>13, <2>1 DEF IsSort
        <3> QED BY <1>7, <3>1
    <2> QED BY <2>1
<1> HIDE DEF m
<1> QED BY <1>13, <1>14, <1>15, <1>16 DEF IsAnswer, q, U, S

LEMMA RelevantIs ==
    ASSUME Shaped
    PROVE  Ranking(Relevant)
<1> DEFINE I == {i \in DOMAIN ranked : ranked[i].score >= Floor}
           p == Places(I)
           seq == [r \in DOMAIN p |-> ranked[p[r]]]
           n == Len(ranked)
<1>1. hits \in Seq(HitType) /\ ranked \in Seq(RankItem)
    BY DEF Shaped
<1>2. Relevant = IF conf.set.reranker THEN seq ELSE ranked
    BY DEF Relevant, Filter
<1> HIDE DEF RankItem, HitType
<1>3. n \in Nat /\ I \in SUBSET (1 .. n) /\ \A i \in 1 .. n : ranked[i] \in RankItem
    BY <1>1
<1> HIDE DEF I
<1>4. IsListing(p, I, n)
    <2> HIDE DEF n
    <2> QED BY <1>3, PlacesAre
<1> HIDE DEF p
<1>5. seq \in Seq(RankItem)
    <2>1. Cardinality(I) \in Nat /\ DOMAIN p = 1 .. Cardinality(I)
        BY <1>3, <1>4 DEF IsListing
    <2>2. \A r \in DOMAIN p : p[r] \in 1 .. n
        BY <1>3, <1>4, <2>1 DEF IsListing
    <2>3. \A r \in DOMAIN p : ranked[p[r]] \in RankItem
        BY <1>3, <2>2
    <2> QED BY <2>1, <2>3
<1> QED BY <1>1, <1>2, <1>5 DEF Ranking

\* The answer is the head of what Combined makes of a ranking.
LEMMA AnswerIs ==
    ASSUME Shaped, Answer
    PROVE  /\ Len(results') \in Nat /\ DOMAIN results' = 1 .. Len(results')
           /\ Len(results') = IF conf.set.limit < Len(Combined(Relevant))
                              THEN conf.set.limit ELSE Len(Combined(Relevant))
           /\ \A k \in 1 .. Len(results') : /\ k \in 1 .. Len(Combined(Relevant))
                                            /\ results'[k] = Combined(Relevant)[k]
<1> DEFINE q == Combined(Relevant)
           T == {Result(Relevant, u) : u \in Grouped(Relevant)}
<1>1. q \in Seq(T)
    BY RelevantIs, CombinedIs DEF IsAnswer
<1>2. conf.set.limit \in Nat
    BY SettingsAreSettings DEF Shaped, Setting
<1>3. results' = Prefix(q, conf.set.limit)
    BY DEF Answer
<1> HIDE DEF q, T
<1>4. /\ Prefix(q, conf.set.limit) \in Seq(T)
      /\ Len(Prefix(q, conf.set.limit)) = IF conf.set.limit < Len(q) THEN conf.set.limit
                                          ELSE Len(q)
      /\ \A k \in 1 .. Len(Prefix(q, conf.set.limit)) :
           k \in 1 .. Len(q) /\ Prefix(q, conf.set.limit)[k] = q[k]
    BY <1>1, <1>2, PrefixIs
<1>5. Len(results') \in Nat /\ DOMAIN results' = 1 .. Len(results')
    BY <1>3, <1>4
<1> QED BY <1>3, <1>4, <1>5 DEF q

-----------------------------------------------------------------------------
(* Results are apart, and the answer is complete                           *)

LEMMA AnswerIsApart ==
    ASSUME Shaped, Answer
    PROVE  ResultsAreApart'
<1> DEFINE seq == Relevant
           q == Combined(seq)
           U == Grouped(seq)
<1>1. Ranking(seq) /\ IsAnswer(q, seq, U)
    BY RelevantIs, CombinedIs
<1>2. conf' = conf /\ hits' = hits
    BY DEF Answer
<1> HIDE DEF seq, q, U
<1>3. SUFFICES ASSUME conf.set.combine,
                      NEW j \in DOMAIN results', NEW k \in DOMAIN results', j # k,
                      Document(hits[results'[j].rep]) = Document(hits[results'[k].rep]),
                      Spanned(hits[results'[j].rep]), Spanned(hits[results'[k].rep])
               PROVE  \/ results'[j].end + 1 + Gap(hits[results'[j].rep]) < results'[k].start
                      \/ results'[k].end + 1 + Gap(hits[results'[j].rep]) < results'[j].start
    BY <1>2 DEF ResultsAreApart
<1> DEFINE x == results'[j]
           y == results'[k]
<1>4. /\ j \in 1 .. Len(q) /\ k \in 1 .. Len(q) /\ x = q[j] /\ y = q[k]
    BY AnswerIs DEF q, seq
<1>5. PICK u \in U : x = Result(seq, u) /\ IsResult(x, seq, u)
    BY <1>1, <1>4 DEF IsAnswer
<1>6. PICK v \in U : y = Result(seq, v) /\ IsResult(y, seq, v)
    BY <1>1, <1>4 DEF IsAnswer
<1>7. u # v
    <2>1. x.rank # y.rank
        <3>1. j < k \/ k < j
            BY <1>1, <1>3, <1>4 DEF IsAnswer
        <3>2. x.rank < y.rank \/ y.rank < x.rank
            BY <1>1, <1>4, <3>1 DEF IsAnswer
        <3>3. x.rank \in Int /\ y.rank \in Int
            BY <1>5, <1>6 DEF IsResult
        <3> HIDE DEF x, y
        <3> QED BY <3>2, <3>3
    <2> QED BY <1>5, <1>6, <2>1
<1> DEFINE d == Document(hits[x.rep])
<1>8. U = AllRuns(seq)
    <2>1. CASE Len(seq) >= 2
        BY <1>3, <2>1 DEF U, Grouped
    <2>2. CASE ~(Len(seq) >= 2)
        <3>1. x.rank \in 1 .. Len(seq) /\ y.rank \in 1 .. Len(seq) /\ Len(seq) \in Nat
            BY <1>1, <1>5, <1>6 DEF IsResult, Ranking
        <3>2. x.rank = 1 /\ y.rank = 1
            <4> HIDE DEF x, y
            <4> QED BY <2>2, <3>1
        <3>3. Shares(seq, U)
            BY <1>1, GroupedAre DEF U
        <3> QED BY <1>5, <1>6, <1>7, <3>2, <3>3 DEF Shares, IsResult
    <2> QED BY <2>1, <2>2
<1>9. ASSUME NEW w \in U, NEW z, IsResult(z, seq, w), Spanned(hits[z.rep]),
             Document(hits[z.rep]) = d
      PROVE  RunOf(seq, d, w)
    <2>1. z.rank \in ToSet(w) /\ Spanned(At(seq, z.rank)) /\ Document(At(seq, z.rank)) = d
        BY <1>9 DEF IsResult
    <2>2. ~Lone(seq, w)
        <3>1. ASSUME NEW r, w = <<r>> PROVE z.rank = r
            <4>1. ToSet(<<r>>) = {r}
                BY DEF ToSet
            <4> QED BY <2>1, <3>1, <4>1
        <3> QED BY <2>1, <3>1 DEF Lone
    <2>3. PICK r \in DOMAIN seq : RunOf(seq, Document(At(seq, r)), w)
        BY <1>1, <1>8, <2>2, RunsSplit
    <2>4. ToSet(w) \subseteq OfDocument(seq, Document(At(seq, r)))
        BY <1>1, <2>3, OneRun
    <2>5. Document(At(seq, r)) = d
        BY <2>1, <2>4 DEF OfDocument
    <2> QED BY <2>3, <2>5
<1>10. RunOf(seq, d, u) /\ RunOf(seq, d, v)
    BY <1>3, <1>5, <1>6, <1>9
<1>11. Gap(hits[x.rep]) = GapOf(d)
    BY DEF Gap, GapOf, Document
<1>12. Parted(seq, GapOf(d), u, v) \/ Parted(seq, GapOf(d), v, u)
    BY <1>1, <1>7, <1>10, TwoRuns
<1> HIDE DEF d, x, y
<1> SUFFICES x.end + 1 + GapOf(d) < y.start \/ y.end + 1 + GapOf(d) < x.start
    BY <1>11 DEF x, y
<1> QED BY <1>5, <1>6, <1>12 DEF Parted, IsResult

\* Until it is answered a query has no results.
BackInv == FrontInv /\ ResultsAreApart /\ (stage # "respond" => results = << >>)

LEMMA NothingIsApart == results = << >> => ResultsAreApart
BY DEF ResultsAreApart

LEMMA NothingIsApartThen == results' = << >> => ResultsAreApart'
BY DEF ResultsAreApart

LEMMA BackStep == BackInv /\ [Next]_vars => BackInv'
<1> SUFFICES ASSUME BackInv, [Next]_vars PROVE BackInv'
    OBVIOUS
<1>0. FrontInv'
    BY FrontStep DEF BackInv
<1>1. ASSUME stage # "respond", results' = results PROVE ResultsAreApart' /\ results' = << >>
    BY <1>1, NothingIsApartThen DEF BackInv
<1>2. ASSUME NEW set \in Settings, NEW scope \in Scopes, NEW v \in Variants, Ask(set, scope, v)
      PROVE  ResultsAreApart' /\ results' = << >>
    BY <1>1, <1>2 DEF Ask
<1>3. CASE Search
    BY <1>0, <1>1, <1>3 DEF Search, BackInv
<1>4. CASE Fuse
    <2>1. stage # "respond" /\ (results' = results \/ results' = << >>)
        BY <1>4 DEF Fuse, Reset
    <2> QED BY <1>0, <1>1, <2>1, NothingIsApartThen DEF BackInv
<1>5. CASE Select
    BY <1>0, <1>1, <1>5 DEF Select, BackInv
<1>6. CASE Expand
    BY <1>0, <1>1, <1>6 DEF Expand, BackInv
<1>7. CASE Rerank
    BY <1>0, <1>1, <1>7 DEF Rerank, BackInv
<1>8. CASE Answer
    <2>1. stage' = "respond"
        BY <1>8 DEF Answer
    <2> QED BY <1>0, <1>8, <2>1, AnswerIsApart DEF BackInv, FrontInv
<1>9. CASE Respond
    BY <1>0, <1>9, NothingIsApartThen DEF Respond, Reset, BackInv
<1>10. CASE UNCHANGED vars
    <2>1. conf' = conf /\ hits' = hits /\ results' = results /\ stage' = stage
        BY <1>10 DEF vars
    <2>2. ResultsAreApart'
        BY <2>1 DEF BackInv, ResultsAreApart
    <2> QED BY <1>0, <2>1, <2>2 DEF BackInv
<1> QED
    BY <1>0, <1>2, <1>3, <1>4, <1>5, <1>6, <1>7, <1>8, <1>9, <1>10 DEF Next, BackInv

\* No two results show lines of one document that are neighbours: folding is by
\* transitive closure over the gap, documents of documentation and of code are
\* told apart, and the cut to the limit comes after it (mcp.rs:1695-1702).
THEOREM ResultsStayApart == Spec => []ResultsAreApart
<1>1. Init => BackInv
    BY InitShape, NothingIsApart DEF Init, FrontInv, BackInv
<1>2. BackInv => ResultsAreApart
    BY DEF BackInv
<1> QED BY <1>1, <1>2, BackStep, PTL DEF Spec

LEMMA AnswerCovers ==
    ASSUME Shaped, Answer
    PROVE  /\ \A k \in 1 .. Len(results') - 1 : results'[k].rank < results'[k + 1].rank
           /\ \A r \in DOMAIN Relevant :
                \/ Cardinality({k \in DOMAIN results' : r \in results'[k].members}) = 1
                \/ /\ Len(results') = conf.set.limit
                   /\ \A k \in DOMAIN results' : results'[k].rank < r
<1> DEFINE seq == Relevant
           q == Combined(seq)
           U == Grouped(seq)
           l == Len(results')
<1>1. Ranking(seq) /\ IsAnswer(q, seq, U) /\ Shares(seq, U)
    BY RelevantIs, CombinedIs, GroupedAre
<1>2. /\ l \in Nat /\ DOMAIN results' = 1 .. l
      /\ l = IF conf.set.limit < Len(q) THEN conf.set.limit ELSE Len(q)
      /\ \A k \in 1 .. l : k \in 1 .. Len(q) /\ results'[k] = q[k]
    BY AnswerIs
<1>3. conf.set.limit \in Nat /\ Len(q) \in Nat
    <2>1. conf.set.limit \in Nat
        BY SettingsAreSettings DEF Shaped, Setting
    <2> QED BY <1>1, <2>1 DEF IsAnswer
<1> HIDE DEF seq, q, U, l
<1>4. \A j, k \in 1 .. l : j < k => results'[j].rank < results'[k].rank
    BY <1>1, <1>2 DEF IsAnswer
<1>5. ASSUME NEW k \in 1 .. l - 1 PROVE results'[k].rank < results'[k + 1].rank
    <2>1. k \in 1 .. l /\ k + 1 \in 1 .. l /\ k < k + 1
        BY <1>2
    <2> QED BY <1>4, <2>1
<1>6. ASSUME NEW r \in DOMAIN seq
      PROVE  \/ Cardinality({k \in 1 .. l : r \in results'[k].members}) = 1
             \/ l = conf.set.limit /\ \A k \in 1 .. l : results'[k].rank < r
    <2>1. r \in 1 .. Len(seq)
        BY <1>1 DEF Ranking
    <2>2. PICK u \in U : r \in ToSet(u)
        BY <1>1, <2>1 DEF Shares
    <2>3. PICK j \in 1 .. Len(q) : q[j] = Result(seq, u)
        BY <1>1 DEF IsAnswer
    <2>4. IsResult(q[j], seq, u)
        BY <1>1, <2>3, ResultIs DEF Shares
    <2>5. CASE j \in 1 .. l
        <3>1. ASSUME NEW k \in 1 .. l, r \in results'[k].members PROVE k = j
            <4>1. k \in 1 .. Len(q) /\ results'[k] = q[k]
                BY <1>2
            <4>2. PICK v \in U : q[k] = Result(seq, v) /\ IsResult(q[k], seq, v)
                BY <1>1, <4>1 DEF IsAnswer
            <4>3. r \in ToSet(v)
                BY <3>1, <4>1, <4>2 DEF IsResult
            <4>4. u = v
                BY <1>1, <2>2, <4>3 DEF Shares
            <4>5. q[k].rank = q[j].rank /\ q[k].rank \in Int
                BY <2>3, <4>2, <4>4 DEF IsResult
            <4>6. /\ k < j => q[k].rank < q[j].rank
                  /\ j < k => q[j].rank < q[k].rank
                BY <1>1, <4>1 DEF IsAnswer
            <4>7. ~(q[k].rank < q[j].rank) /\ ~(q[j].rank < q[k].rank)
                BY <4>5
            <4> QED BY <1>3, <4>1, <4>6, <4>7
        <3>2. r \in results'[j].members
            BY <1>2, <2>2, <2>4, <2>5 DEF IsResult
        <3>3. {k \in 1 .. l : r \in results'[k].members} = {j}
            BY <2>5, <3>1, <3>2
        <3> QED BY <3>3, FS_Singleton
    <2>6. CASE ~(j \in 1 .. l)
        <3>1. l = conf.set.limit /\ l < j
            BY <1>2, <1>3, <2>6
        <3>2. q[j].rank <= r /\ q[j].rank \in Nat /\ r \in Nat
            BY <2>1, <2>2, <2>4 DEF IsResult
        <3>3. ASSUME NEW k \in 1 .. l PROVE results'[k].rank < r
            <4>1. k \in 1 .. Len(q) /\ results'[k] = q[k] /\ k < j
                BY <1>2, <3>1
            <4>2. q[k].rank < q[j].rank
                BY <1>1, <4>1 DEF IsAnswer
            <4>3. q[k].rank \in Nat
                <5>1. PICK v \in U : IsResult(q[k], seq, v)
                    BY <1>1, <4>1 DEF IsAnswer
                <5> QED BY <5>1 DEF IsResult
            <4> QED BY <3>2, <4>1, <4>2, <4>3
        <3> QED BY <3>1, <3>3
    <2> QED BY <2>5, <2>6
<1> QED BY <1>2, <1>5, <1>6 DEF seq, l

\* An answer keeps the order of the ranking, and a relevant hit is in exactly
\* one of its results unless the limit is filled by results that rank before it
\* (mcp.rs:1698-1702).
THEOREM AnswersAreComplete == Spec => AnswerIsComplete
<1>1. FrontInv /\ [Next]_vars =>
        [Answer =>
           /\ \A k \in 1 .. Len(results') - 1 : results'[k].rank < results'[k + 1].rank
           /\ \A r \in DOMAIN Relevant :
                \/ Cardinality({k \in DOMAIN results' : r \in results'[k].members}) = 1
                \/ /\ Len(results') = conf.set.limit
                   /\ \A k \in DOMAIN results' : results'[k].rank < r]_vars
    BY AnswerCovers DEF FrontInv
<1> QED BY <1>1, FrontAlways, PTL DEF Spec, AnswerIsComplete

-----------------------------------------------------------------------------
(* Fusion keeps what was found                                             *)

\* x is what fusion makes of hits old and new of one key.
Unites(x, old, new) ==
    /\ Key(x) = Key(old)
    /\ x.score = old.score + new.score
    /\ x.original <=> old.original \/ new.original
    /\ Priority[x.origin] >= Priority[old.origin] /\ Priority[x.origin] >= Priority[new.origin]

LEMMA PriorityIs == \A o \in Origins : Priority[o] \in Nat
BY DEF Origins, Priority

LEMMA ComplementKeeps ==
    ASSUME NEW winner \in HitType, NEW donor \in HitType, Key(winner) = Key(donor)
    PROVE  /\ Key(Complement(winner, donor)) = Key(winner)
           /\ Complement(winner, donor).score = winner.score + donor.score
           /\ Complement(winner, donor).original = (winner.original \/ donor.original)
           /\ Complement(winner, donor).origin = winner.origin
<1> DEFINE x == Complement(winner, donor)
<1>1. /\ x.package = winner.package /\ x.origin = winner.origin /\ x.path = winner.path
      /\ x.symbol = winner.symbol /\ x.text = winner.text
      /\ x.start = (IF winner.start = 0 THEN donor.start ELSE winner.start)
      /\ x.score = winner.score + donor.score
      /\ x.original = (winner.original \/ donor.original)
    BY DEF Complement, HitType
<1>2. winner.start \in Nat /\ donor.start \in Nat
    BY DEF HitType
<1> HIDE DEF x
<1>3. winner.origin # "docs" /\ winner.start = 0 => donor.start = 0
    BY <1>2 DEF Key
<1>4. winner.origin = "docs" => Key(x) = Key(winner)
    BY <1>1 DEF Key
<1>5. winner.origin # "docs" => x.start = winner.start
    BY <1>1, <1>2, <1>3
<1>6. winner.origin # "docs" => Key(x) = Key(winner)
    BY <1>1, <1>5 DEF Key
<1> QED BY <1>1, <1>4, <1>6 DEF x

LEMMA FusedUnites ==
    ASSUME NEW old \in HitType, NEW new \in HitType, Key(old) = Key(new)
    PROVE  Unites(Fused(old, new), old, new)
<1>1. /\ Priority[old.origin] \in Nat /\ Priority[new.origin] \in Nat
      /\ old.score \in Nat /\ new.score \in Nat
      /\ old.original \in BOOLEAN /\ new.original \in BOOLEAN
    BY PriorityIs DEF HitType
<1>2. CASE Richer(new, old)
    <2>1. Fused(old, new) = Complement(new, old)
        BY <1>2 DEF Fused
    <2>2. Priority[new.origin] >= Priority[old.origin]
        BY <1>1, <1>2 DEF Richer
    <2> QED BY <1>1, <2>1, <2>2, ComplementKeeps DEF Unites
<1>3. CASE ~Richer(new, old)
    <2>1. Fused(old, new) = Complement(old, new)
        BY <1>3 DEF Fused
    <2>2. Priority[old.origin] >= Priority[new.origin]
        BY <1>1, <1>3 DEF Richer
    <2> QED BY <1>1, <2>1, <2>2, ComplementKeeps DEF Unites
<1> QED BY <1>2, <1>3

\* The ranks of the hits that share a key, and what they add up to so far.
Sharing(key) == {i \in DOMAIN hits : Key(hits[i]) = key}
Sums(key) == CHOOSE f : Accrues(f, hits, Sharing(key))

LEMMA SumsAre ==
    ASSUME hits \in Seq(HitType), NEW key
    PROVE  Accrues(Sums(key), hits, Sharing(key)) /\ Sums(key)[Len(hits)] = Evidence(key)
<1>1. PICK f : Accrues(f, hits, Sharing(key))
    <2> HIDE DEF HitType
    <2> QED BY SumRuns
<1>2. Accrues(Sums(key), hits, Sharing(key))
    BY <1>1, Zenon DEF Sums
<1> QED BY <1>2 DEF Accrues, Evidence, Sharing

\* Nothing adds up to nothing.
LEMMA NoSum ==
    ASSUME NEW f, NEW I, Accrues(f, hits, I), NEW m \in 0 .. Len(hits), Len(hits) \in Nat,
           \A i \in 1 .. m : i \notin I
    PROVE  f[m] = 0
<1> DEFINE good == {i \in 0 .. m : f[i] = 0}
<1>1. 0 \in good
    BY DEF Accrues
<1>2. ASSUME NEW i \in 1 .. m, i - 1 \in good PROVE i \in good
    <2>1. i \in 1 .. Len(hits) /\ f[i - 1] = 0
        BY <1>2
    <2> QED BY <2>1 DEF Accrues
<1>3. 0 .. m \subseteq good
    <2> HIDE DEF good
    <2>1. m \in Nat
        OBVIOUS
    <2> QED BY <1>1, <1>2, <2>1, UpTo
<1> QED BY <1>3

\* What holds of the fused hits when the first i hits are in them.
Merged(seq, i) ==
    /\ seq \in Seq(HitType)
    /\ \A j \in 1 .. i : \E k \in 1 .. Len(seq) :
         Key(seq[k]) = Key(hits[j]) /\ Priority[seq[k].origin] >= Priority[hits[j].origin]
    /\ \A k, l \in 1 .. Len(seq) : Key(seq[k]) = Key(seq[l]) => k = l
    /\ \A k \in 1 .. Len(seq) :
         /\ \E j \in 1 .. i : Key(hits[j]) = Key(seq[k])
         /\ seq[k].original <=> \E j \in 1 .. i :
                Key(hits[j]) = Key(seq[k]) /\ hits[j].original
         /\ seq[k].score = Sums(Key(seq[k]))[i]

\* Hit i, h, goes to place k0 of the n in new, by itself or with what was there.
Takes(new, seq, h, i, n, k0) ==
    /\ Len(new) = n /\ Key(new[k0]) = Key(h)
    /\ new[k0].score = Sums(Key(h))[i - 1] + h.score
    /\ Priority[new[k0].origin] >= Priority[h.origin]
    /\ k0 \in 1 .. Len(seq) => Unites(new[k0], seq[k0], h) /\ Key(seq[k0]) = Key(h)
    /\ k0 \notin 1 .. Len(seq) =>
         new[k0] = h /\ \A j \in 1 .. i - 1 : Key(hits[j]) # Key(h)
    /\ \A k \in 1 .. n : k # k0 =>
         k \in 1 .. Len(seq) /\ new[k] = seq[k] /\ Key(seq[k]) # Key(h)
    /\ \A k \in 1 .. Len(seq) : k \in 1 .. n

LEMMA MergedStep ==
    ASSUME hits \in Seq(HitType), NEW i \in 1 .. Len(hits), NEW seq, Merged(seq, i - 1)
    PROVE  Merged(Absorb(seq, hits[i]), i)
<1> DEFINE h == hits[i]
           l == Len(seq)
           new == Absorb(seq, h)
           same == {k \in DOMAIN seq : Key(seq[k]) = Key(h)}
<1>1. /\ seq \in Seq(HitType) /\ h \in HitType /\ l \in Nat /\ DOMAIN seq = 1 .. l
      /\ DOMAIN hits = 1 .. Len(hits) /\ Len(hits) \in Nat /\ new \in Seq(HitType)
      /\ \A k \in 1 .. l : seq[k] \in HitType
      /\ \A j \in 1 .. i - 1 : j \in 1 .. i /\ hits[j] \in HitType
      /\ i \in 1 .. i /\ i - 1 \in 0 .. Len(hits)
      /\ \A j \in 1 .. i : j \in 1 .. i - 1 \/ j = i
    <2>1. seq \in Seq(HitType)
        BY DEF Merged
    <2> HIDE DEF HitType
    <2>2. h \in HitType /\ \A j \in 1 .. i - 1 : hits[j] \in HitType
        OBVIOUS
    <2>3. new \in Seq(HitType)
        BY <2>1, <2>2, AbsorbIs
    <2> QED BY <2>1, <2>2, <2>3
<1>2. /\ \A j \in 1 .. i - 1 : \E k \in 1 .. l :
           Key(seq[k]) = Key(hits[j]) /\ Priority[seq[k].origin] >= Priority[hits[j].origin]
      /\ \A k, m \in 1 .. l : Key(seq[k]) = Key(seq[m]) => k = m
      /\ \A k \in 1 .. l :
           /\ \E j \in 1 .. i - 1 : Key(hits[j]) = Key(seq[k])
           /\ seq[k].original <=>
                \E j \in 1 .. i - 1 : Key(hits[j]) = Key(seq[k]) /\ hits[j].original
           /\ seq[k].score = Sums(Key(seq[k]))[i - 1]
    BY DEF Merged
<1>3. ASSUME NEW key
      PROVE  /\ Sums(key)[i] = (IF key = Key(h) THEN Sums(key)[i - 1] + h.score
                                 ELSE Sums(key)[i - 1])
             /\ Sums(key)[i - 1] \in Nat
    <2>1. Accrues(Sums(key), hits, Sharing(key))
        BY SumsAre
    <2>2. i \in Sharing(key) <=> key = Key(h)
        BY <1>1 DEF Sharing
    <2> HIDE DEF HitType
    <2> QED BY <1>1, <2>1, <2>2 DEF Accrues
<1>4. h.score \in Nat /\ h.original \in BOOLEAN /\ Priority[h.origin] \in Nat
    BY <1>1, PriorityIs DEF HitType
<1>5. new = IF same = {} THEN Append(seq, h)
            ELSE [k \in DOMAIN seq |-> IF k \in same THEN Fused(seq[k], h) ELSE seq[k]]
    BY DEF Absorb
<1> HIDE DEF new, h, l, HitType
\* Every hit so far is in the sequence, where k holds what its own key came to.
<1>6. ASSUME NEW n \in Nat, NEW k0 \in 1 .. n, Takes(new, seq, h, i, n, k0)
      PROVE  Merged(new, i)
    <2>0. /\ Len(new) = n /\ Key(new[k0]) = Key(h)
          /\ new[k0].score = Sums(Key(h))[i - 1] + h.score
          /\ Priority[new[k0].origin] >= Priority[h.origin]
          /\ k0 \in 1 .. l => Unites(new[k0], seq[k0], h) /\ Key(seq[k0]) = Key(h)
          /\ k0 \notin 1 .. l => new[k0] = h /\ \A j \in 1 .. i - 1 : Key(hits[j]) # Key(h)
          /\ \A k \in 1 .. n :
               k # k0 => k \in 1 .. l /\ new[k] = seq[k] /\ Key(seq[k]) # Key(h)
          /\ \A k \in 1 .. l : k \in 1 .. n
        BY <1>6 DEF Takes, l
    <2>1. ASSUME NEW j \in 1 .. i
          PROVE  \E k \in 1 .. n : /\ Key(new[k]) = Key(hits[j])
                                   /\ Priority[new[k].origin] >= Priority[hits[j].origin]
        <3>1. CASE j = i
            BY <2>0, <3>1 DEF h
        <3>2. CASE j \in 1 .. i - 1
            <4>1. PICK k \in 1 .. l : /\ Key(seq[k]) = Key(hits[j])
                                      /\ Priority[seq[k].origin] >= Priority[hits[j].origin]
                BY <1>2, <3>2
            <4>2. CASE k = k0
                <5>1. Unites(new[k], seq[k], h) /\ Key(seq[k]) = Key(h) /\ k \in 1 .. n
                    BY <2>0, <4>2
                <5>2. seq[k] \in HitType /\ hits[j] \in HitType /\ new[k] \in HitType
                    <6>1. new \in Seq(HitType) /\ Len(new) = n
                        BY <1>1, <2>0
                    <6>2. new[k] \in HitType
                        BY <5>1, <6>1
                    <6> QED BY <1>1, <3>2, <6>2
                <5>3. /\ Priority[seq[k].origin] \in Nat /\ Priority[hits[j].origin] \in Nat
                      /\ Priority[new[k].origin] \in Nat
                    BY <5>2, PriorityIs DEF HitType
                <5> QED BY <4>1, <5>1, <5>3 DEF Unites
            <4>3. CASE k # k0
                BY <2>0, <4>1, <4>3
            <4> QED BY <4>2, <4>3
        <3> QED BY <1>1, <3>1, <3>2
    <2>2. ASSUME NEW k \in 1 .. n, NEW m \in 1 .. n, Key(new[k]) = Key(new[m]) PROVE k = m
        <3>1. CASE k # k0 /\ m # k0
            BY <1>2, <2>0, <2>2, <3>1
        <3>2. CASE k = k0 /\ m # k0
            BY <2>0, <2>2, <3>2
        <3>3. CASE k # k0 /\ m = k0
            BY <2>0, <2>2, <3>3
        <3> QED BY <3>1, <3>2, <3>3
    <2>3. ASSUME NEW k \in 1 .. n
          PROVE  /\ \E j \in 1 .. i : Key(hits[j]) = Key(new[k])
                 /\ new[k].original <=>
                      \E j \in 1 .. i : Key(hits[j]) = Key(new[k]) /\ hits[j].original
                 /\ new[k].score = Sums(Key(new[k]))[i]
        <3>1. CASE k # k0
            <4>1. k \in 1 .. l /\ new[k] = seq[k] /\ Key(seq[k]) # Key(h)
                BY <2>0, <3>1
            <4>2. \A j \in 1 .. i : Key(hits[j]) = Key(seq[k]) => j \in 1 .. i - 1
                BY <1>1, <4>1 DEF h
            <4>3. \E j \in 1 .. i : Key(hits[j]) = Key(seq[k])
                BY <1>1, <1>2, <4>1
            <4>4. seq[k].original <=>
                    \E j \in 1 .. i : Key(hits[j]) = Key(seq[k]) /\ hits[j].original
                BY <1>1, <1>2, <4>1, <4>2
            <4>5. seq[k].score = Sums(Key(seq[k]))[i]
                BY <1>2, <1>3, <4>1
            <4> QED BY <4>1, <4>3, <4>4, <4>5
        <3>2. CASE k = k0
            <4>1. Key(new[k]) = Key(h) /\ Key(hits[i]) = Key(h)
                BY <2>0, <3>2 DEF h
            <4>2. new[k].score = Sums(Key(new[k]))[i]
                BY <1>3, <2>0, <3>2, <4>1
            <4>3. new[k].original <=>
                    \E j \in 1 .. i : Key(hits[j]) = Key(new[k]) /\ hits[j].original
                <5>1. CASE k0 \in 1 .. l
                    <6>1. new[k].original <=> seq[k].original \/ h.original
                        BY <2>0, <3>2, <5>1 DEF Unites
                    <6>2. seq[k].original <=>
                            \E j \in 1 .. i - 1 : Key(hits[j]) = Key(h) /\ hits[j].original
                        BY <1>2, <2>0, <3>2, <5>1
                    <6>3. h.original = hits[i].original
                        BY DEF h
                    <6> QED BY <1>1, <4>1, <6>1, <6>2, <6>3
                <5>2. CASE k0 \notin 1 .. l
                    <6>1. new[k] = h /\ \A j \in 1 .. i - 1 : Key(hits[j]) # Key(h)
                        BY <2>0, <3>2, <5>2
                    <6> QED BY <1>1, <4>1, <6>1 DEF h
                <5> QED BY <5>1, <5>2
            <4> QED BY <1>1, <4>1, <4>2, <4>3
        <3> QED BY <3>1, <3>2
    <2> QED BY <1>1, <2>0, <2>1, <2>2, <2>3 DEF Merged
<1>7. CASE same = {}
    <2>1. /\ new = Append(seq, h) /\ Len(new) = l + 1 /\ new[l + 1] = h
          /\ \A k \in 1 .. l : new[k] = seq[k]
        BY <1>1, <1>5, <1>7 DEF l
    <2>2. \A k \in 1 .. l : Key(seq[k]) # Key(h)
        BY <1>1, <1>7
    <2>3. \A j \in 1 .. i - 1 : Key(hits[j]) # Key(h)
        BY <1>2, <2>2
    <2>4. Sums(Key(h))[i - 1] = 0
        <3>1. \A j \in 1 .. i - 1 : j \notin Sharing(Key(h))
            BY <2>3 DEF Sharing
        <3>2. Accrues(Sums(Key(h)), hits, Sharing(Key(h)))
            BY SumsAre
        <3> QED BY <1>1, <3>1, <3>2, NoSum
    <2>5. /\ l + 1 \in 1 .. l + 1
          /\ l + 1 \notin 1 .. l
          /\ \A k \in 1 .. l + 1 : k # l + 1 => k \in 1 .. l
          /\ \A k \in 1 .. l : k \in 1 .. l + 1
        BY <1>1
    <2>6. new[l + 1].score = Sums(Key(h))[i - 1] + h.score
        BY <1>4, <2>1, <2>4
    <2>7. Priority[new[l + 1].origin] >= Priority[h.origin]
        BY <1>4, <2>1
    <2> HIDE DEF same
    <2>8. Takes(new, seq, h, i, l + 1, l + 1)
        BY <2>1, <2>2, <2>3, <2>5, <2>6, <2>7 DEF Takes, l
    <2> QED BY <1>1, <1>6, <2>5, <2>8 DEF new, h
<1>8. CASE same # {}
    <2>1. PICK k0 \in 1 .. l : Key(seq[k0]) = Key(h)
        BY <1>1, <1>8
    <2>2. \A k \in 1 .. l : k # k0 => Key(seq[k]) # Key(h)
        BY <1>2, <2>1
    <2>3. new = [k \in 1 .. l |-> IF k \in same THEN Fused(seq[k], h) ELSE seq[k]]
        BY <1>1, <1>5, <1>8
    <2>4. /\ Len(new) = l /\ new[k0] = Fused(seq[k0], h)
          /\ \A k \in 1 .. l : k # k0 => new[k] = seq[k]
        <3>1. \A k \in 1 .. l : k \in same <=> k = k0
            BY <1>1, <2>1, <2>2
        <3> HIDE DEF same
        <3> QED BY <1>1, <2>3, <3>1
    <2>5. Unites(new[k0], seq[k0], h)
        BY <1>1, <2>1, <2>4, FusedUnites
    <2>6. new[k0].score = Sums(Key(h))[i - 1] + h.score
        BY <1>2, <2>1, <2>5 DEF Unites
    <2>7. Key(new[k0]) = Key(h) /\ Priority[new[k0].origin] >= Priority[h.origin]
        BY <2>1, <2>5 DEF Unites
    <2> HIDE DEF same
    <2>8. Takes(new, seq, h, i, l, k0)
        BY <2>1, <2>2, <2>4, <2>5, <2>6, <2>7 DEF Takes, l
    <2> QED BY <1>1, <1>6, <2>8 DEF new, h
<1> QED BY <1>7, <1>8 DEF new, h

LEMMA DedupedMerges ==
    ASSUME hits \in Seq(HitType)
    PROVE  Merged(Deduped, Len(hits))
<1> DEFINE n == Len(hits)
<1>1. PICK f : /\ f \in [0 .. n -> Seq(HitType)] /\ f[0] = << >>
               /\ \A i \in 1 .. n : f[i] = Absorb(f[i - 1], hits[i])
               /\ Deduped = f[n]
    BY DedupedRuns
<1>2. n \in Nat
    BY LenProperties
<1> DEFINE good == {i \in 0 .. n : Merged(f[i], i)}
<1>3. 0 \in good
    <2>1. f[0] \in Seq(HitType) /\ Len(f[0]) = 0
        BY <1>1, NothingIsTyped
    <2> QED BY <1>2, <2>1 DEF Merged
<1>4. ASSUME NEW i \in 1 .. n, i - 1 \in good PROVE i \in good
    BY <1>1, <1>2, <1>4, MergedStep
<1>5. 0 .. n \subseteq good
    <2> HIDE DEF good, n
    <2> QED BY <1>2, <1>3, <1>4, UpTo
<1> QED BY <1>1, <1>2, <1>5

\* Anchoring and sorting leave of a hit all but its score, and within a package
\* the order that the scores gave.
SameHit(g, h) == /\ Key(g) = Key(h) /\ g.origin = h.origin /\ g.package = h.package
                 /\ g.original = h.original
                 /\ g.start = h.start /\ g.end = h.end /\ g.text = h.text

LEMMA FactorKeepsOrder ==
    ASSUME NEW a \in Nat, NEW b \in Nat, NEW c \in Nat \ {0}, a * c >= b * c
    PROVE  a >= b
<1>1. SUFFICES ASSUME a + 1 <= b PROVE FALSE
    OBVIOUS
<1>2. PICK d \in Nat : b = a + 1 + d
    <2>1. b - (a + 1) \in Nat /\ b = a + 1 + (b - (a + 1))
        BY <1>1
    <2> QED BY <2>1
<1>3. b * c = a * c + c + d * c
    BY <1>2
<1>4. a * c \in Nat /\ d * c \in Nat
    BY ProductIs
<1> QED BY <1>3, <1>4

LEMMA ProductGrows ==
    ASSUME NEW a \in Nat \ {0}, NEW b \in Nat \ {0}
    PROVE  a * b \in Nat \ {0}
<1>1. a * b = (a - 1) * b + b
    OBVIOUS
<1>2. (a - 1) * b \in Nat
    BY ProductIs
<1> QED BY <1>1, <1>2

Weighs(new, seq) ==
    /\ Len(new) = Len(seq)
    /\ \A i \in 1 .. Len(seq) : SameHit(new[i], seq[i])
    /\ AnchorFloor # 0 =>
         \A i, j \in 1 .. Len(seq) :
           seq[i].package = seq[j].package /\ new[i].score >= new[j].score
             => seq[i].score >= seq[j].score

LEMMA AnchoredWeighs ==
    ASSUME NEW seq, seq \in Seq(HitType), seq # << >>
    PROVE  Weighs(Anchored(seq), seq)
<1> DEFINE factor(p) == AnchorFloor * MaxAnchor(seq) + (10 - AnchorFloor) * Anchor(seq, p)
           new == [i \in DOMAIN seq |-> [seq[i] EXCEPT !.score = @ * factor(seq[i].package)]]
<1>1. Len(seq) \in Nat \ {0} /\ DOMAIN seq = 1 .. Len(seq)
    OBVIOUS
<1>2. \A i \in 1 .. Len(seq) : seq[i] \in HitType
    <2> HIDE DEF HitType
    <2> QED BY <1>1
<1>3. \A i \in 1 .. Len(seq) : seq[i].score \in Nat
    BY <1>2 DEF HitType
<1>4. CASE Anchored(seq) = seq
    BY <1>4 DEF Weighs, SameHit
<1>5. CASE Anchored(seq) # seq
    <2>1. Anchored(seq) = new /\ MaxAnchor(seq) # 0
        BY <1>5 DEF Anchored
    <2>2. ASSUME AnchorFloor # 0, NEW p PROVE factor(p) \in Nat \ {0}
        <3>1. AnchorFloor \in Nat \ {0} /\ 10 - AnchorFloor \in Nat
            BY <2>2, SharesAreTenths
        <3>2. MaxAnchor(seq) \in Nat \ {0} /\ Anchor(seq, p) \in Nat
            BY <2>1, MaxAnchorIs, SumIs DEF Anchor
        <3>3. AnchorFloor * MaxAnchor(seq) \in Nat \ {0}
            BY <3>1, <3>2, ProductGrows
        <3>4. (10 - AnchorFloor) * Anchor(seq, p) \in Nat
            BY <3>1, <3>2, ProductIs
        <3> QED BY <3>3, <3>4
    <2> HIDE DEF factor
    <2>3. Len(new) = Len(seq)
        BY <1>1
    <2>4. ASSUME NEW i \in 1 .. Len(seq)
          PROVE  /\ SameHit(new[i], seq[i])
                 /\ new[i].score = seq[i].score * factor(seq[i].package)
        BY <1>1, <1>2 DEF SameHit, Key, HitType
    <2>5. ASSUME AnchorFloor # 0, NEW i \in 1 .. Len(seq), NEW j \in 1 .. Len(seq),
                 seq[i].package = seq[j].package, new[i].score >= new[j].score
          PROVE  seq[i].score >= seq[j].score
        <3> DEFINE c == factor(seq[i].package)
        <3>1. new[i].score = seq[i].score * c /\ new[j].score = seq[j].score * c
            BY <2>4, <2>5
        <3>2. c \in Nat \ {0}
            BY <2>2, <2>5
        <3> HIDE DEF c, new
        <3>3. seq[i].score * c >= seq[j].score * c
            BY <2>5, <3>1
        <3> QED BY <1>3, <3>2, <3>3, FactorKeepsOrder
    <2> HIDE DEF new
    <2> QED BY <2>1, <2>3, <2>4, <2>5 DEF Weighs
<1> QED BY <1>4, <1>5

LEMMA FuseConserves ==
    ASSUME Shaped, AnchorFloor # 0, Fuse, hits # << >>
    PROVE  /\ \A h \in ToSet(hits) :
                \E i \in DOMAIN hits' :
                  /\ Key(hits'[i]) = Key(h)
                  /\ Priority[hits'[i].origin] >= Priority[h.origin]
                  /\ \A j \in DOMAIN hits' : Key(hits'[j]) = Key(h) => j = i
           /\ \A i \in DOMAIN hits' :
                /\ hits'[i].original <=>
                     \E h \in ToSet(hits) : Key(h) = Key(hits'[i]) /\ h.original
                /\ \A j \in 1 .. i : hits'[j].package = hits'[i].package =>
                                       Evidence(Key(hits'[j])) >= Evidence(Key(hits'[i]))
<1> DEFINE n == Len(hits)
           seq == Deduped
           anch == Anchored(seq)
           m == Len(seq)
<1>1. hits \in Seq(HitType) /\ seq \in Seq(HitType) /\ Merged(seq, n)
    BY FusedAre, DedupedMerges DEF Shaped
<1> HIDE DEF HitType, seq, anch
<1>2. n \in Nat /\ DOMAIN hits = 1 .. n /\ m \in Nat /\ 1 \in 1 .. n
    BY <1>1
<1>3. seq # << >>
    <2>1. \E k \in 1 .. m : TRUE
        BY <1>1, <1>2 DEF Merged
    <2> QED BY <1>2, <2>1
<1>4. Weighs(anch, seq) /\ anch \in Seq(HitType)
    BY <1>1, <1>3, AnchoredWeighs, AnchoredAre DEF anch
<1>5. DOMAIN anch = 1 .. m /\ \A i \in 1 .. m : anch[i] \in HitType
    BY <1>2, <1>4 DEF Weighs
<1>6. \A i \in 1 .. m : anch[i].score \in Int
    BY <1>5 DEF HitType
<1>7. PICK p : Sorts(p, anch, m)
    BY <1>2, <1>5, <1>6, SortedPermutes
<1>8. hits' = [r \in 1 .. m |-> anch[p[r]]]
    BY <1>7 DEF Fuse, Sorts, anch, seq
<1>9. /\ DOMAIN hits' = 1 .. m
      /\ \A r \in 1 .. m :
           p[r] \in 1 .. m /\ hits'[r] = anch[p[r]] /\ SameHit(hits'[r], seq[p[r]])
    BY <1>4, <1>7, <1>8 DEF Sorts, Weighs
<1> HIDE DEF n, m
<1>10. ASSUME NEW h \in ToSet(hits)
       PROVE  \E i \in 1 .. m :
                /\ Key(hits'[i]) = Key(h)
                /\ Priority[hits'[i].origin] >= Priority[h.origin]
                /\ \A j \in 1 .. m : Key(hits'[j]) = Key(h) => j = i
    <2>1. PICK j \in 1 .. n : h = hits[j]
        BY <1>2 DEF ToSet
    <2>2. PICK k \in 1 .. m : /\ Key(seq[k]) = Key(h)
                              /\ Priority[seq[k].origin] >= Priority[h.origin]
        BY <1>1, <2>1 DEF Merged, m
    <2>3. PICK i \in 1 .. m : p[i] = k
        BY <1>7 DEF Sorts
    <2>4. Key(hits'[i]) = Key(h) /\ Priority[hits'[i].origin] >= Priority[h.origin]
        BY <1>9, <2>2, <2>3 DEF SameHit
    <2>5. ASSUME NEW r \in 1 .. m, Key(hits'[r]) = Key(h) PROVE r = i
        <3>1. p[r] \in 1 .. m /\ Key(seq[p[r]]) = Key(seq[k])
            BY <1>9, <2>2, <2>5 DEF SameHit
        <3>2. p[r] = k
            BY <1>1, <3>1 DEF Merged, m
        <3> QED BY <1>7, <2>3, <3>2 DEF Sorts
    <2> QED BY <2>4, <2>5
<1>11. ASSUME NEW i \in 1 .. m
       PROVE  hits'[i].original <=> \E h \in ToSet(hits) : Key(h) = Key(hits'[i]) /\ h.original
    <2>1. /\ hits'[i].original = seq[p[i]].original /\ Key(hits'[i]) = Key(seq[p[i]])
          /\ p[i] \in 1 .. m
        BY <1>9 DEF SameHit
    <2>2. seq[p[i]].original <=>
            \E j \in 1 .. n : Key(hits[j]) = Key(seq[p[i]]) /\ hits[j].original
        BY <1>1, <2>1 DEF Merged, m
    <2> QED BY <1>2, <2>1, <2>2 DEF ToSet
<1>12. ASSUME NEW i \in 1 .. m PROVE Evidence(Key(hits'[i])) = seq[p[i]].score
    <2>1. Key(hits'[i]) = Key(seq[p[i]]) /\ p[i] \in 1 .. m
        BY <1>9 DEF SameHit
    <2>2. seq[p[i]].score = Sums(Key(seq[p[i]]))[n]
        BY <1>1, <2>1 DEF Merged, m
    <2> QED BY <1>1, <2>1, <2>2, SumsAre DEF n
<1>13. ASSUME NEW i \in 1 .. m, NEW j \in 1 .. i, hits'[j].package = hits'[i].package
       PROVE  Evidence(Key(hits'[j])) >= Evidence(Key(hits'[i]))
    <2>1. j \in 1 .. m /\ (j = i \/ j < i)
        BY <1>2
    <2>2. /\ seq[p[j]].package = seq[p[i]].package /\ p[j] \in 1 .. m /\ p[i] \in 1 .. m
        BY <1>9, <1>13, <2>1 DEF SameHit
    <2>3. anch[p[j]].score >= anch[p[i]].score
        <3>1. j < i => Ahead(anch, p[j], p[i])
            BY <1>7, <2>1 DEF Sorts
        <3>2. anch[p[j]].score \in Int /\ anch[p[i]].score \in Int
            BY <1>6, <2>2
        <3> QED BY <2>1, <3>1, <3>2 DEF Ahead
    <2>4. seq[p[j]].score >= seq[p[i]].score
        BY <1>4, <2>2, <2>3 DEF Weighs, m
    <2> QED BY <1>12, <2>1, <2>4
<1> QED BY <1>9, <1>10, <1>11, <1>13

\* Fusion loses no evidence: whatever the order in which the searches of all
\* expansions found a thing, it stays once, in its richest form, is the query's
\* own exactly when a search of the query found it, and within a package the
\* order is that of the summed contributions (mcp.rs:2127-2128), provided that
\* anchoring leaves a hit some of its score (an anchor_floor of 0 makes all hits
\* of a package that the query itself did not find equal).
THEOREM FusionKeepsEvidence ==
    ASSUME AnchorFloor # 0
    PROVE  Spec => FusionConserves
<1>1. FrontInv /\ [Next]_vars =>
        [Fuse /\ hits # << >> =>
           /\ \A h \in ToSet(hits) :
                \E i \in DOMAIN hits' :
                  /\ Key(hits'[i]) = Key(h)
                  /\ Priority[hits'[i].origin] >= Priority[h.origin]
                  /\ \A j \in DOMAIN hits' : Key(hits'[j]) = Key(h) => j = i
           /\ \A i \in DOMAIN hits' :
                /\ hits'[i].original <=>
                     \E h \in ToSet(hits) : Key(h) = Key(hits'[i]) /\ h.original
                /\ \A j \in 1 .. i : hits'[j].package = hits'[i].package =>
                                       Evidence(Key(hits'[j])) >= Evidence(Key(hits'[i]))]_vars
    BY FuseConserves DEF FrontInv
<1> QED BY <1>1, FrontAlways, PTL DEF Spec, FusionConserves

-----------------------------------------------------------------------------
(* Lines of documentation                                                  *)

\* A hit of documentation shows the first lines of its chunk, in their order.
Chunked(h) ==
    h.origin = "docs" =>
      /\ 0 < h.start /\ h.start <= h.end /\ Len(h.text) <= h.end - h.start + 1
      /\ \A k \in 1 .. Len(h.text) : h.text[k] = h.start + k - 1
ChunkHit == {h \in HitType : Chunked(h)}

LEMMA HitIsChunked ==
    ASSUME NEW s \in PlanItem, NEW position, position \in Nat, NEW row \in Row,
           Sources[s.source].origin = "docs" =>
             0 < row.start /\ row.start <= row.end /\ row.text = From(row.start, row.end)
    PROVE  Hit(s, position, row) \in ChunkHit
<1> DEFINE h == Hit(s, position, row)
<1>1. h \in HitType
    BY HitIs
<1>2. ASSUME h.origin = "docs"
      PROVE  /\ 0 < h.start /\ h.start <= h.end /\ Len(h.text) <= h.end - h.start + 1
             /\ \A k \in 1 .. Len(h.text) : h.text[k] = h.start + k - 1
    <2>1. /\ Sources[s.source].origin = "docs" /\ h.start = row.start /\ h.end = row.end
          /\ h.text = Prefix(row.text, SnippetLines)
        BY <1>2 DEF Hit
    <2>2. /\ 0 < row.start /\ row.start <= row.end /\ row.text = From(row.start, row.end)
          /\ row.start \in Nat /\ row.end \in Nat /\ row.text \in Seq(Nat)
        BY <2>1 DEF Row
    <2>3. /\ Len(row.text) = row.end - row.start + 1
          /\ \A k \in 1 .. Len(row.text) : row.text[k] = row.start + k - 1
        BY <2>2 DEF From
    <2>4. SnippetLines \in Nat
        BY BoundsAreNumbers
    <2>5. /\ Len(h.text) = (IF SnippetLines < Len(row.text) THEN SnippetLines
                            ELSE Len(row.text))
          /\ \A k \in 1 .. Len(h.text) : k \in 1 .. Len(row.text) /\ h.text[k] = row.text[k]
        <3> DEFINE t == row.text
        <3>1. t \in Seq(Nat) /\ SnippetLines \in Nat /\ h.text = Prefix(t, SnippetLines)
            BY <2>1, <2>2, <2>4
        <3> HIDE DEF t, h
        <3>2. /\ Len(Prefix(t, SnippetLines)) = IF SnippetLines < Len(t) THEN SnippetLines
                                                ELSE Len(t)
              /\ \A k \in 1 .. Len(Prefix(t, SnippetLines)) :
                   k \in 1 .. Len(t) /\ Prefix(t, SnippetLines)[k] = t[k]
            BY <3>1, PrefixIs
        <3> QED BY <3>1, <3>2 DEF t
    <2>6. Len(h.text) <= Len(row.text)
        BY <2>2, <2>4, <2>5
    <2> HIDE DEF h
    <2> QED BY <2>1, <2>2, <2>3, <2>5, <2>6
<1> HIDE DEF h
<1> QED BY <1>1, <1>2 DEF ChunkHit, Chunked, h

LEMMA SearchKeepsChunks ==
    ASSUME Shaped, hits \in Seq(ChunkHit), Search
    PROVE  hits' \in Seq(ChunkHit)
<1>1. PICK answer \in Found[Head(plan).source] \cup {<< >>} :
         hits' = hits \o [i \in DOMAIN answer |-> Hit(Head(plan), i, answer[i])]
    BY DEF Search
<1>2. Head(plan) \in PlanItem
    <2>1. plan \in Seq(PlanItem) /\ plan # << >>
        BY DEF Shaped, Search
    <2> HIDE DEF PlanItem
    <2> QED BY <2>1
<1>3. Head(plan).source \in DOMAIN Sources
    BY <1>2 DEF PlanItem
<1>4. answer \in Seq(Row)
    BY <1>1, <1>3, AnswersAreSequences, NothingIsTyped
<1> DEFINE new == [i \in DOMAIN answer |-> Hit(Head(plan), i, answer[i])]
<1> HIDE DEF PlanItem, Row, HitType, ChunkHit
<1>5. ASSUME NEW i \in DOMAIN answer PROVE Hit(Head(plan), i, answer[i]) \in ChunkHit
    <2>1. answer[i] \in Row /\ i \in Nat
        BY <1>4
    <2>2. answer # << >>
        BY <1>4
    <2>3. answer \in Found[Head(plan).source] /\ answer[i] \in ToSet(answer)
        BY <1>1, <2>2 DEF ToSet
    <2>4. Sources[Head(plan).source].origin = "docs" =>
            /\ 0 < answer[i].start /\ answer[i].start <= answer[i].end
            /\ answer[i].text = From(answer[i].start, answer[i].end)
        BY <1>3, <2>3, ChunksHoldTheirLines
    <2> QED BY <1>2, <2>1, <2>4, HitIsChunked
<1>6. new \in Seq(ChunkHit)
    <2>1. Len(answer) \in Nat /\ DOMAIN answer = 1 .. Len(answer)
        BY <1>4
    <2> QED BY <1>5, <2>1
<1> HIDE DEF new
<1>7. hits' = hits \o new
    BY <1>1 DEF new
<1> QED BY <1>6, <1>7

LEMMA ComplementKeepsChunk ==
    ASSUME NEW winner \in ChunkHit, NEW donor \in ChunkHit
    PROVE  Complement(winner, donor) \in ChunkHit
<1> DEFINE x == Complement(winner, donor)
<1>1. winner \in HitType /\ donor \in HitType /\ Chunked(winner)
    BY DEF ChunkHit
<1>2. x \in HitType
    BY <1>1, ComplementIs
<1>3. /\ x.origin = winner.origin /\ x.text = winner.text
      /\ x.start = (IF winner.start = 0 THEN donor.start ELSE winner.start)
      /\ x.end = (IF winner.start = 0 /\ donor.start > 0 THEN donor.end ELSE winner.end)
    BY <1>1 DEF Complement, HitType
<1>4. winner.start \in Nat
    BY <1>1 DEF HitType
<1> HIDE DEF x
<1>5. Chunked(x)
    BY <1>1, <1>3, <1>4 DEF Chunked
<1> QED BY <1>2, <1>5 DEF ChunkHit, x

LEMMA AbsorbKeepsChunks ==
    ASSUME NEW seq, seq \in Seq(ChunkHit), NEW h \in ChunkHit
    PROVE  Absorb(seq, h) \in Seq(ChunkHit)
<1> DEFINE same == {i \in DOMAIN seq : Key(seq[i]) = Key(h)}
<1>1. ASSUME NEW i \in DOMAIN seq PROVE seq[i] \in ChunkHit /\ Fused(seq[i], h) \in ChunkHit
    <2> HIDE DEF ChunkHit
    <2>1. seq[i] \in ChunkHit
        OBVIOUS
    <2> QED BY <2>1, ComplementKeepsChunk DEF Fused
<1> HIDE DEF ChunkHit
<1>2. Append(seq, h) \in Seq(ChunkHit) /\ Len(seq) \in Nat /\ DOMAIN seq = 1 .. Len(seq)
    OBVIOUS
<1> HIDE DEF same
<1>3. [i \in DOMAIN seq |-> IF i \in same THEN Fused(seq[i], h) ELSE seq[i]] \in Seq(ChunkHit)
    BY <1>1, <1>2
<1>4. Absorb(seq, h) = IF same = {} THEN Append(seq, h)
                       ELSE [i \in DOMAIN seq |->
                           IF i \in same THEN Fused(seq[i], h) ELSE seq[i]]
    BY DEF Absorb, same
<1> QED BY <1>2, <1>3, <1>4

LEMMA DedupedKeepsChunks ==
    ASSUME hits \in Seq(HitType), hits \in Seq(ChunkHit)
    PROVE  Deduped \in Seq(ChunkHit)
<1> DEFINE n == Len(hits)
<1>1. PICK f : /\ f \in [0 .. n -> Seq(HitType)] /\ f[0] = << >>
               /\ \A i \in 1 .. n : f[i] = Absorb(f[i - 1], hits[i])
               /\ Deduped = f[n]
    BY DedupedRuns
<1>2. n \in Nat
    BY LenProperties
<1> HIDE DEF ChunkHit
<1>3. \A i \in 1 .. n : hits[i] \in ChunkHit
    OBVIOUS
<1> HIDE DEF n
<1> DEFINE good == {i \in 0 .. n : f[i] \in Seq(ChunkHit)}
<1>4. 0 \in good
    BY <1>1, <1>2, NothingIsTyped
<1>5. ASSUME NEW i \in 1 .. n, i - 1 \in good PROVE i \in good
    <2>1. f[i - 1] \in Seq(ChunkHit) /\ hits[i] \in ChunkHit
        BY <1>3, <1>5
    <2>2. Absorb(f[i - 1], hits[i]) \in Seq(ChunkHit)
        BY <2>1, AbsorbKeepsChunks
    <2> QED BY <1>1, <1>2, <2>2
<1>6. 0 .. n \subseteq good
    <2> HIDE DEF good
    <2> QED BY <1>2, <1>4, <1>5, UpTo
<1> QED BY <1>1, <1>2, <1>6

LEMMA AnchoredKeepsChunks ==
    ASSUME NEW seq, seq \in Seq(HitType), seq \in Seq(ChunkHit), seq # << >>
    PROVE  Anchored(seq) \in Seq(ChunkHit)
<1> DEFINE new == Anchored(seq)
           n == Len(seq)
<1>1. new \in Seq(HitType) /\ Weighs(new, seq)
    BY AnchoredAre, AnchoredWeighs
<1> HIDE DEF new, HitType
<1>2. n \in Nat /\ Len(new) = n /\ DOMAIN new = 1 .. n /\ \A i \in 1 .. n : new[i] \in HitType
    BY <1>1 DEF Weighs
<1>3. \A i \in 1 .. n : seq[i] \in ChunkHit
    <2> HIDE DEF ChunkHit
    <2> QED OBVIOUS
<1>4. ASSUME NEW i \in 1 .. n PROVE new[i] \in ChunkHit
    <2>1. Chunked(seq[i]) /\ SameHit(new[i], seq[i]) /\ new[i] \in HitType
        BY <1>1, <1>2, <1>3 DEF ChunkHit, Weighs
    <2>2. Chunked(new[i])
        BY <2>1 DEF SameHit, Chunked
    <2> QED BY <2>1, <2>2 DEF ChunkHit
<1> HIDE DEF ChunkHit
<1> SUFFICES new \in Seq(ChunkHit)
    BY DEF new
<1> QED BY <1>1, <1>2, <1>4

LEMMA FuseKeepsChunks ==
    ASSUME Shaped, hits \in Seq(ChunkHit), Fuse
    PROVE  hits' \in Seq(ChunkHit)
<1>1. CASE hits = << >>
    BY <1>1, NothingIsTyped DEF Fuse, Reset
<1>2. CASE hits # << >>
    <2>1. Deduped \in Seq(HitType) /\ Deduped \in Seq(ChunkHit)
        BY FusedAre, DedupedKeepsChunks DEF Shaped
    <2>2. Anchored(Deduped) \in Seq(ChunkHit)
        <3>1. CASE Deduped = << >>
            <4>1. Anchored(<< >>) \in Seq(ChunkHit)
                BY DEF Anchored
            <4> QED BY <3>1, <4>1
        <3>2. CASE Deduped # << >>
            BY <2>1, <3>2, AnchoredKeepsChunks
        <3> QED BY <3>1, <3>2
    <2>3. \A h \in ChunkHit : h.score \in Int
        BY DEF HitType, ChunkHit
    <2> QED BY <1>2, <2>2, <2>3, SortedAre DEF Fuse
<1> QED BY <1>1, <1>2

LEMMA ExpandKeepsChunks ==
    ASSUME Shaped, hits \in Seq(ChunkHit), Expand
    PROVE  hits' \in Seq(ChunkHit)
<1> DEFINE n == Len(hits)
<1>1. n \in Nat /\ DOMAIN hits = 1 .. n /\ DOMAIN hits' = 1 .. n /\ hits' \in Seq(HitType)
    <2>1. hits \in Seq(HitType) /\ hits' \in Seq(HitType) /\ DOMAIN hits' = DOMAIN hits
        BY ExpandKeepsShape DEF Shaped
    <2> HIDE DEF HitType
    <2> QED BY <2>1
<1>2. ASSUME NEW i \in 1 .. n PROVE hits'[i] \in ChunkHit
    <2>1. hits[i] \in ChunkHit
        <3> HIDE DEF ChunkHit
        <3> QED OBVIOUS
    <2>2. /\ hits'[i].origin = hits[i].origin /\ hits'[i].start = hits[i].start
          /\ hits'[i].end = hits[i].end /\ hits'[i].text = hits[i].text
        BY <1>1, ExpandKeepsShape
    <2>3. hits'[i] \in HitType
        <3> HIDE DEF HitType
        <3> QED BY <1>1
    <2> QED BY <2>1, <2>2, <2>3 DEF ChunkHit, Chunked
<1> HIDE DEF ChunkHit, HitType
<1>3. Len(hits') = n
    BY <1>1
<1> QED BY <1>1, <1>2, <1>3

\* A round of assemble_merged_content: what hit r adds to acc.
Grown(seq, acc, r) ==
    IF Len(acc.text) >= ContentCap THEN acc
    ELSE [text |-> Prefix(acc.text \o Adds(At(seq, r), acc.prev), ContentCap),
          prev |-> Greatest({At(seq, r).end, acc.prev})]

LEMMA AddsIs ==
    ASSUME NEW h \in HitType, NEW prev \in Nat
    PROVE  Adds(h, prev) \in Seq(Nat)
<1>1. Shown(h) \in Seq(Nat) /\ h.start \in Nat
    BY DEF Shown, HitType
<1>2. Skip(h, prev) \in Nat
    BY <1>1 DEF Skip
<1> DEFINE a == Skip(h, prev) + 1
           text == Shown(h)
<1>3. a \in Nat \ {0} /\ text \in Seq(Nat)
    BY <1>1, <1>2
<1>4. Adds(h, prev) = IF h.end <= prev THEN << >> ELSE SubSeq(text, a, Len(text))
    BY DEF Adds
<1> HIDE DEF a, text
<1>5. SubSeq(text, a, Len(text)) \in Seq(Nat)
    BY <1>3
<1> QED BY <1>4, <1>5

LEMMA GrownIs ==
    ASSUME NEW seq, Ranking(seq), NEW acc \in [text : Seq(Nat), prev : Nat],
           NEW r, r \in 1 .. Len(seq)
    PROVE  Grown(seq, acc, r) \in [text : Seq(Nat), prev : Nat]
<1> DEFINE h == At(seq, r)
<1>1. h \in HitType /\ h.end \in Nat /\ acc.text \in Seq(Nat) /\ acc.prev \in Nat
    BY RankedHits
<1>2. Adds(h, acc.prev) \in Seq(Nat)
    BY <1>1, AddsIs
<1>3. acc.text \o Adds(h, acc.prev) \in Seq(Nat)
    BY <1>1, <1>2
<1>4. ContentCap \in Nat
    BY BoundsAreNumbers
<1>5. Prefix(acc.text \o Adds(h, acc.prev), ContentCap) \in Seq(Nat)
    BY <1>3, <1>4, PrefixIs
<1>6. Greatest({h.end, acc.prev}) \in Nat
    <2> DEFINE a == h.end
               b == acc.prev
    <2>1. a \in Nat /\ b \in Nat /\ a \in Int /\ b \in Int
        BY <1>1
    <2> HIDE DEF a, b
    <2>2. Greatest({a, b}) \in {a, b}
        BY <2>1, GreaterOf
    <2> QED BY <2>1, <2>2 DEF a, b
<1> QED BY <1>5, <1>6 DEF Grown

\* The text of a run grows hit by hit.
LEMMA AssembledRuns ==
    ASSUME NEW seq, Ranking(seq), NEW run, run \in Seq(1 .. Len(seq))
    PROVE  \E f : /\ f \in [0 .. Len(run) -> [text : Seq(Nat), prev : Nat]]
                  /\ f[0] = [text |-> << >>, prev |-> 0]
                  /\ \A i \in 1 .. Len(run) : f[i] = Grown(seq, f[i - 1], run[i])
                  /\ Assembled(seq, run) = f[Len(run)].text
<1> DEFINE T == [text : Seq(Nat), prev : Nat]
           Round(x, i) == Grown(seq, x, run[i])
           step == [i \in 1 .. Len(run) |-> [x \in T |-> Round(x, i)]]
           Looped(f) == f = [i \in 0 .. Len(run) |->
               IF i = 0 THEN [text |-> << >>, prev |-> 0] ELSE Round(f[i - 1], i)]
           acc == CHOOSE f : Looped(f)
<1>1. IsLoop(Len(run), T, [text |-> << >>, prev |-> 0], step)
    <2>1. Len(run) \in Nat /\ [text |-> << >>, prev |-> 0] \in T
        BY NothingIsTyped
    <2> HIDE DEF T
    <2>2. ASSUME NEW i \in 1 .. Len(run), NEW x \in T PROVE Round(x, i) \in T
        <3>1. run[i] \in 1 .. Len(seq)
            OBVIOUS
        <3> QED BY <3>1, GrownIs DEF T
    <2> HIDE DEF Round
    <2> QED BY <2>1, <2>2 DEF IsLoop
<1>2. Assembled(seq, run) = acc[Len(run)].text
    BY DEF Loop, Assembled, Grown
<1> HIDE DEF T, Round
<1>3. PICK f : IsRun(f, Len(run), T, [text |-> << >>, prev |-> 0], step)
    <2> HIDE DEF step
    <2> QED BY <1>1, LoopRuns
<1>4. Looped(f)
    <2>1. ASSUME NEW i \in 1 .. Len(run) PROVE f[i] = Round(f[i - 1], i)
        <3>1. i - 1 \in 0 .. Len(run)
            BY <1>1 DEF IsLoop
        <3>2. f[i - 1] \in T /\ f[i] = step[i][f[i - 1]]
            <4> HIDE DEF step
            <4> QED BY <1>3, <3>1 DEF IsRun
        <3> QED BY <3>2
    <2> HIDE DEF step
    <2> QED BY <1>3, <2>1 DEF IsRun
<1>5. Looped(acc)
    <2> HIDE DEF Looped
    <2> QED BY <1>4
<1>6. /\ acc = [i \in 0 .. Len(run) |-> acc[i]] /\ acc[0] = [text |-> << >>, prev |-> 0]
      /\ \A i \in 1 .. Len(run) : acc[i] = Round(acc[i - 1], i)
    <2> HIDE DEF acc, step
    <2>1. Len(run) \in Nat
        BY <1>1 DEF IsLoop
    <2> QED BY <1>5, <2>1
<1>7. IsRun(acc, Len(run), T, [text |-> << >>, prev |-> 0], step)
    <2> HIDE DEF acc
    <2>1. \A i \in 1 .. Len(run) : acc[i - 1] \in T => acc[i] = step[i][acc[i - 1]]
        BY <1>6
    <2> HIDE DEF step, Looped
    <2> QED BY <1>1, <1>6, <2>1, RunOfLoop
<1> HIDE DEF acc
<1> QED BY <1>2, <1>6, <1>7 DEF IsRun, T, Round

\* text has lines from lo to hi in their order, none of them twice.
Increasing(text, lo, hi) ==
    /\ text \in Seq(Nat)
    /\ \A i \in 1 .. Len(text) : lo <= text[i] /\ text[i] <= hi
    /\ \A i, j \in 1 .. Len(text) : i < j => text[i] < text[j]

\* What a chunk adds are the lines of it that are after prev.
LEMMA AddsLines ==
    ASSUME NEW h \in HitType, Chunked(h), IsDocs(h), NEW prev \in Nat, ~(h.end <= prev)
    PROVE  /\ Increasing(Adds(h, prev), h.start, h.end)
           /\ \A k \in 1 .. Len(Adds(h, prev)) : prev < Adds(h, prev)[k]
<1> DEFINE text == h.text
           a == Skip(h, prev) + 1
           l == Len(text)
           add == Adds(h, prev)
<1>1. /\ h.start \in Nat /\ h.end \in Nat /\ text \in Seq(Nat) /\ l \in Nat
      /\ 0 < h.start /\ h.start <= h.end /\ l <= h.end - h.start + 1
      /\ \A k \in 1 .. l : text[k] = h.start + k - 1
    BY DEF HitType, Chunked, IsDocs
<1>2. add = SubSeq(text, a, l)
    BY DEF Adds, Shown, IsDocs
<1>3. a \in Nat \ {0} /\ h.start + a - 1 > prev
    BY <1>1 DEF Skip
<1> HIDE DEF text, a, l, add
<1>4. CASE a > l
    <2>1. add = << >>
        BY <1>1, <1>2, <1>3, <1>4
    <2>2. add \in Seq(Nat) /\ Len(add) = 0
        BY <2>1, NothingIsTyped
    <2> QED BY <2>2 DEF Increasing, add
<1>5. CASE a <= l
    <2>1. /\ add \in Seq(Nat) /\ Len(add) = l - a + 1
          /\ \A k \in 1 .. l - a + 1 : add[k] = text[a + k - 1] /\ a + k - 1 \in 1 .. l
        <3>1. /\ a \in Int /\ l \in Int /\ a <= l /\ a >= 1
              /\ text \in Seq(Nat) /\ l = Len(text)
            BY <1>1, <1>3, <1>5 DEF l
        <3>4. \A k \in a .. l : text[k] \in Nat
            BY <3>1
        <3>2. SubSeq(text, a, l) \in Seq(Nat) /\ Len(SubSeq(text, a, l)) = l - a + 1
            BY <3>1, <3>4, SubSeqProperties
        <3>3. ASSUME NEW k \in 1 .. l - a + 1
              PROVE  SubSeq(text, a, l)[k] = text[a + k - 1] /\ a + k - 1 \in 1 .. l
            BY <1>1, <1>3, <1>5, <3>1
        <3> QED BY <1>2, <3>2, <3>3
    <2>2. \A k \in 1 .. Len(add) : add[k] = h.start + (a + k - 1) - 1 /\ a + k - 1 \in 1 .. l
        BY <1>1, <2>1
    <2>5. ASSUME NEW k \in 1 .. Len(add)
          PROVE  add[k] = h.start + a + k - 2 /\ k \in Nat \ {0} /\ a + k - 1 <= l
        <3> DEFINE lo == h.start
                   m == Len(add)
        <3>1. /\ add[k] = lo + (a + k - 1) - 1 /\ a + k - 1 \in 1 .. l
              /\ k \in 1 .. m /\ m \in Nat /\ lo \in Nat /\ a \in Nat
            BY <1>1, <1>3, <1>5, <2>1, <2>2
        <3> HIDE DEF lo, m
        <3>2. add[k] = lo + a + k - 2 /\ k \in Nat \ {0} /\ a + k - 1 <= l
            BY <1>1, <3>1
        <3> QED BY <3>2 DEF lo
    <2>3. ASSUME NEW k \in 1 .. Len(add)
          PROVE  h.start <= add[k] /\ add[k] <= h.end /\ prev < add[k]
        <3> DEFINE lo == h.start
                   hi == h.end
        <3>1. /\ add[k] = lo + a + k - 2 /\ k \in Nat \ {0} /\ a + k - 1 <= l
              /\ a \in Nat \ {0}
              /\ lo \in Nat /\ hi \in Nat /\ l \in Nat /\ l <= hi - lo + 1 /\ lo + a - 1 > prev
            BY <1>1, <1>3, <2>5
        <3> HIDE DEF lo, hi
        <3>2. lo <= add[k] /\ add[k] <= hi /\ prev < add[k]
            BY <3>1
        <3> QED BY <3>2 DEF lo, hi
    <2>4. ASSUME NEW j \in 1 .. Len(add), NEW k \in 1 .. Len(add), j < k PROVE add[j] < add[k]
        <3> DEFINE lo == h.start
        <3>1. /\ add[j] = lo + a + j - 2 /\ add[k] = lo + a + k - 2
              /\ lo \in Nat /\ a \in Nat /\ j \in Nat /\ k \in Nat
            BY <1>1, <1>3, <2>5
        <3> HIDE DEF lo
        <3> QED BY <2>4, <3>1
    <2> QED BY <2>1, <2>3, <2>4 DEF Increasing, add
<1> QED BY <1>1, <1>3, <1>4, <1>5

LEMMA JoinIncreases ==
    ASSUME NEW s, NEW t, NEW lo \in Nat, NEW mid \in Nat, NEW hi \in Nat, mid <= hi,
           Increasing(s, lo, mid), NEW from \in Nat, lo <= from, Increasing(t, from, hi),
           \A k \in 1 .. Len(t) : mid < t[k]
    PROVE  Increasing(s \o t, lo, hi)
<1> DEFINE l == Len(s)
           m == Len(t)
           u == s \o t
<1>1. s \in Seq(Nat) /\ t \in Seq(Nat) /\ l \in Nat /\ m \in Nat
    BY DEF Increasing
<1>2. /\ \A i \in 1 .. l : s[i] \in Nat /\ lo <= s[i] /\ s[i] <= mid
      /\ \A i \in 1 .. m : t[i] \in Nat /\ from <= t[i] /\ t[i] <= hi /\ mid < t[i]
      /\ \A i, j \in 1 .. l : i < j => s[i] < s[j]
      /\ \A i, j \in 1 .. m : i < j => t[i] < t[j]
    BY <1>1 DEF Increasing
<1>3. /\ u \in Seq(Nat) /\ Len(u) = l + m
      /\ \A i \in 1 .. l + m : u[i] = IF i <= l THEN s[i] ELSE t[i - l]
    BY <1>1
<1> HIDE DEF l, m, u
<1>4. \A i \in 1 .. l + m : \/ i \in 1 .. l /\ u[i] = s[i]
                            \/ i > l /\ i - l \in 1 .. m /\ u[i] = t[i - l]
    BY <1>1, <1>3
<1>5. ASSUME NEW i \in 1 .. l + m PROVE lo <= u[i] /\ u[i] <= hi
    <2>1. CASE i \in 1 .. l /\ u[i] = s[i]
        BY <1>2, <2>1
    <2>2. CASE i - l \in 1 .. m /\ u[i] = t[i - l]
        BY <1>2, <2>2
    <2> QED BY <1>4, <2>1, <2>2
<1>6. ASSUME NEW i \in 1 .. l + m, NEW j \in 1 .. l + m, i < j PROVE u[i] < u[j]
    <2>1. CASE i \in 1 .. l /\ u[i] = s[i]
        <3>1. CASE j \in 1 .. l /\ u[j] = s[j]
            BY <1>2, <1>6, <2>1, <3>1
        <3>2. CASE j - l \in 1 .. m /\ u[j] = t[j - l]
            BY <1>2, <2>1, <3>2
        <3> QED BY <1>4, <3>1, <3>2
    <2>2. CASE i > l /\ i - l \in 1 .. m /\ u[i] = t[i - l]
        <3>1. j - l \in 1 .. m /\ u[j] = t[j - l] /\ i - l < j - l
            BY <1>1, <1>4, <1>6, <2>2
        <3> QED BY <1>2, <2>2, <3>1
    <2> QED BY <1>4, <2>1, <2>2
<1> QED BY <1>3, <1>5, <1>6 DEF Increasing, u

LEMMA HeadIncreases ==
    ASSUME NEW s, NEW lo, NEW hi, Increasing(s, lo, hi), NEW n, n \in Nat
    PROVE  Increasing(Prefix(s, n), lo, hi)
<1>1. s \in Seq(Nat)
    BY DEF Increasing
<1> DEFINE t == Prefix(s, n)
<1>2. t \in Seq(Nat) /\ \A k \in 1 .. Len(t) : k \in 1 .. Len(s) /\ t[k] = s[k]
    BY <1>1, PrefixIs
<1> HIDE DEF t
<1> SUFFICES Increasing(t, lo, hi)
    BY DEF t
<1> QED BY <1>2 DEF Increasing

\* What holds of the text after some hits of a run that ends at hi.
Lined(acc, lo, hi) ==
    acc.prev \in Nat /\ acc.prev <= hi /\ Increasing(acc.text, lo, acc.prev)

LEMMA LinedStep ==
    ASSUME NEW seq, Ranking(seq), NEW r, r \in 1 .. Len(seq), NEW lo \in Nat, NEW hi \in Nat,
           NEW acc, Lined(acc, lo, hi), Chunked(At(seq, r)), IsDocs(At(seq, r)),
           lo <= At(seq, r).start, At(seq, r).end <= hi
    PROVE  Lined(Grown(seq, acc, r), lo, hi)
<1> DEFINE h == At(seq, r)
           add == Adds(h, acc.prev)
           whole == acc.text \o add
           prev == Greatest({h.end, acc.prev})
<1>1. h \in HitType /\ h.start \in Nat /\ h.end \in Nat /\ ContentCap \in Nat
    BY RankedHits, BoundsAreNumbers
<1>2. acc.prev \in Nat /\ acc.prev <= hi /\ Increasing(acc.text, lo, acc.prev)
    BY DEF Lined
<1>3. /\ prev \in Nat /\ prev >= acc.prev /\ prev >= h.end /\ prev <= hi
      /\ prev \in {h.end, acc.prev}
    <2> DEFINE a == h.end
               b == acc.prev
    <2>1. a \in Nat /\ b \in Nat /\ a \in Int /\ b \in Int /\ a <= hi /\ b <= hi
        BY <1>1, <1>2
    <2> HIDE DEF a, b
    <2>2. Greatest({a, b}) \in {a, b} /\ Greatest({a, b}) >= a /\ Greatest({a, b}) >= b
        BY <2>1, GreaterOf
    <2> QED BY <2>1, <2>2 DEF a, b
<1>4. Increasing(whole, lo, prev)
    <2>1. CASE h.end <= acc.prev
        <3>1. add = << >>
            BY <2>1 DEF Adds
        <3>2. acc.text \in Seq(Nat)
            BY <1>2 DEF Increasing
        <3>3. whole = acc.text
            BY <3>1, <3>2
        <3>4. prev = acc.prev
            BY <1>1, <1>2, <1>3, <2>1
        <3> QED BY <1>2, <3>3, <3>4
    <2>2. CASE ~(h.end <= acc.prev)
        <3>1. Increasing(add, h.start, h.end) /\ \A k \in 1 .. Len(add) : acc.prev < add[k]
            BY <1>1, <1>2, <2>2, AddsLines
        <3>2. prev = h.end
            BY <1>1, <1>2, <1>3, <2>2
        <3> HIDE DEF add, prev, h
        <3> QED BY <1>1, <1>2, <1>3, <3>1, <3>2, JoinIncreases DEF h
    <2> QED BY <2>1, <2>2
<1>5. Increasing(Prefix(whole, ContentCap), lo, prev)
    <2> HIDE DEF whole, prev
    <2> QED BY <1>1, <1>4, HeadIncreases
<1>6. Grown(seq, acc, r) = IF Len(acc.text) >= ContentCap THEN acc
                           ELSE [text |-> Prefix(whole, ContentCap), prev |-> prev]
    BY DEF Grown
<1> HIDE DEF whole, prev, h
<1> QED BY <1>3, <1>5, <1>6 DEF Lined

\* All ranks of a run are of documentation.
AllDocs(seq, u) ==
    \A r \in ToSet(u) : r \in 1 .. Len(seq) /\ Chunked(At(seq, r)) /\ IsDocs(At(seq, r))

LEMMA AssembledLines ==
    ASSUME NEW seq, Ranking(seq), NEW u, u \in Seq(1 .. Len(seq)), u # << >>, AllDocs(seq, u),
           NEW lo \in Nat, \A r \in ToSet(u) : lo <= At(seq, r).start
    PROVE  Increasing(Assembled(seq, u), lo, Ends(seq, u))
<1> DEFINE n == Len(u)
           hi == Ends(seq, u)
<1>1. PICK f : /\ f \in [0 .. n -> [text : Seq(Nat), prev : Nat]]
               /\ f[0] = [text |-> << >>, prev |-> 0]
               /\ \A i \in 1 .. n : f[i] = Grown(seq, f[i - 1], u[i])
               /\ Assembled(seq, u) = f[n].text
    BY AssembledRuns
<1>2. n \in Nat /\ DOMAIN u = 1 .. n
    BY LenProperties
<1>3. hi \in Nat /\ \A k \in 1 .. n : At(seq, u[k]).end <= hi
    BY <1>2, EndsIs
<1>4. ASSUME NEW i \in 1 .. n
      PROVE  /\ u[i] \in 1 .. Len(seq) /\ Chunked(At(seq, u[i])) /\ IsDocs(At(seq, u[i]))
             /\ lo <= At(seq, u[i]).start /\ At(seq, u[i]).end <= hi
    <2>1. u[i] \in ToSet(u)
        BY <1>2 DEF ToSet
    <2> QED BY <1>3, <2>1 DEF AllDocs
<1> HIDE DEF n, hi
<1> DEFINE good == {i \in 0 .. n : Lined(f[i], lo, hi)}
<1>5. 0 \in good
    <2>1. f[0].text \in Seq(Nat) /\ Len(f[0].text) = 0 /\ f[0].prev = 0
        BY <1>1, NothingIsTyped
    <2> QED BY <1>2, <1>3, <2>1 DEF Lined, Increasing
<1>6. ASSUME NEW i \in 1 .. n, i - 1 \in good PROVE i \in good
    <2>1. Lined(Grown(seq, f[i - 1], u[i]), lo, hi)
        BY <1>3, <1>4, <1>6, LinedStep
    <2> QED BY <1>1, <1>2, <2>1
<1>7. Lined(f[n], lo, hi)
    <2> HIDE DEF good
    <2>1. 0 .. n \subseteq good
        BY <1>2, <1>5, <1>6, UpTo
    <2>2. n \in 0 .. n
        BY <1>2
    <2> QED BY <2>1, <2>2 DEF good
<1>8. Increasing(f[n].text, lo, hi)
    <2> DEFINE text == f[n].text
    <2>1. f[n].prev \in Nat /\ f[n].prev <= hi /\ Increasing(text, lo, f[n].prev)
        BY <1>7 DEF Lined
    <2>2. text \in Seq(Nat)
        BY <2>1 DEF Increasing
    <2> HIDE DEF text
    <2>3. ASSUME NEW i \in 1 .. Len(text) PROVE lo <= text[i] /\ text[i] <= hi
        <3> DEFINE prev == f[n].prev
        <3>1. text[i] \in Nat /\ lo <= text[i] /\ text[i] <= prev /\ prev \in Nat /\ prev <= hi
            BY <2>1, <2>2 DEF Increasing
        <3> HIDE DEF prev
        <3> QED BY <1>3, <3>1
    <2>4. \A i, j \in 1 .. Len(text) : i < j => text[i] < text[j]
        BY <2>1 DEF Increasing
    <2> QED BY <2>2, <2>3, <2>4 DEF Increasing, text
<1> QED BY <1>1, <1>8 DEF hi

\* A result of documentation is made of documentation only.
LEMMA DocResult ==
    ASSUME NEW seq, Ranking(seq), hits \in Seq(ChunkHit), NEW u \in Grouped(seq),
           IsResult(Result(seq, u), seq, u), IsDocs(hits[Result(seq, u).rep])
    PROVE  AllDocs(seq, u)
<1> DEFINE x == Result(seq, u)
<1>1. Shares(seq, Grouped(seq))
    BY GroupedAre
<1>2. u \in Seq(1 .. Len(seq)) /\ u # << >> /\ ToSet(u) \subseteq 1 .. Len(seq)
    <2>1. u \in Seq(1 .. Len(seq)) /\ u # << >>
        BY <1>1 DEF Shares
    <2> QED BY <2>1, ToSets
<1>3. x.rank \in ToSet(u) /\ IsDocs(At(seq, x.rank))
    BY DEF IsResult
<1>4. \A r \in ToSet(u) : Chunked(At(seq, r))
    <2>1. \A i \in DOMAIN hits : hits[i] \in ChunkHit
        <3> HIDE DEF ChunkHit
        <3> QED OBVIOUS
    <2>2. \A i \in DOMAIN hits : Chunked(hits[i])
        BY <2>1 DEF ChunkHit
    <2> QED BY <1>2, <2>2, RankedHits DEF At
<1>5. ASSUME NEW q, u = <<q>> PROVE \A r \in ToSet(u) : IsDocs(At(seq, r))
    <2>1. ToSet(<<q>>) = {q}
        BY DEF ToSet
    <2> QED BY <1>3, <1>5, <2>1
<1>6. ASSUME NEW d, RunOf(seq, d, u) PROVE \A r \in ToSet(u) : IsDocs(At(seq, r))
    <2>1. \A r \in ToSet(u) : Document(At(seq, r)) = d
        BY <1>6, OneRun DEF OfDocument
    <2>2. \A r \in ToSet(u) : IsDocs(At(seq, r)) = d[3]
        BY <2>1 DEF Document
    <2> QED BY <1>3, <2>2
<1>7. \/ \E q : u = <<q>>
      \/ \E d : RunOf(seq, d, u)
    BY RunsSplit DEF Grouped, Lone
<1> QED BY <1>2, <1>4, <1>5, <1>6, <1>7 DEF AllDocs

LEMMA DocTexts ==
    ASSUME NEW seq, Ranking(seq), hits \in Seq(ChunkHit), NEW u \in Grouped(seq),
           IsResult(Result(seq, u), seq, u), IsDocs(hits[Result(seq, u).rep])
    PROVE  Increasing(Result(seq, u).text, Result(seq, u).start, Result(seq, u).end)
<1> DEFINE x == Result(seq, u)
           starts == {At(seq, r).start : r \in ToSet(u)}
<1>1. /\ x.text = (IF Len(u) = 1 THEN Shown(At(seq, u[1])) ELSE Assembled(seq, u))
      /\ x.start = Least(starts) /\ x.end = Ends(seq, u)
    BY DEF Result
<1> HIDE DEF x, starts
<1>2. AllDocs(seq, u)
    BY DocResult
<1>3. u \in Seq(1 .. Len(seq)) /\ u # << >> /\ ToSet(u) \subseteq 1 .. Len(seq)
    <2>1. Shares(seq, Grouped(seq))
        BY GroupedAre
    <2>2. u \in Seq(1 .. Len(seq)) /\ u # << >>
        BY <2>1 DEF Shares
    <2> QED BY <2>2, ToSets
<1>4. x.start \in Nat /\ \A r \in ToSet(u) : x.start <= At(seq, r).start
    <2>1. \A r \in ToSet(u) : At(seq, r).start \in Nat
        BY <1>3, RankedHits
    <2>2. starts \subseteq Nat /\ \A r \in ToSet(u) : At(seq, r).start \in starts
        BY <2>1 DEF starts
    <2>3. starts # {}
        <3>1. \E r : r \in ToSet(u)
            BY <1>3, ToSets
        <3> QED BY <2>2, <3>1
    <2> QED BY <1>1, <2>2, <2>3, LeastOf
<1>5. CASE Len(u) # 1
    BY <1>1, <1>2, <1>3, <1>4, <1>5, AssembledLines DEF x
<1>6. CASE Len(u) = 1
    <2> DEFINE h == At(seq, u[1])
    <2>1. u[1] \in ToSet(u) /\ 1 \in DOMAIN u
        BY <1>3, <1>6 DEF ToSet
    <2>2. Chunked(h) /\ IsDocs(h) /\ h \in HitType /\ x.start <= h.start
        BY <1>2, <1>3, <1>4, <2>1, RankedHits DEF AllDocs
    <2>3. h.end <= x.end /\ x.end \in Nat
        BY <1>1, <1>3, <2>1, EndsIs
    <2>4. x.text = h.text
        BY <1>1, <1>6, <2>2 DEF Shown
    <2> HIDE DEF h
    <2>5. /\ h.start \in Nat /\ h.end \in Nat /\ h.text \in Seq(Nat)
          /\ Len(h.text) \in Nat /\ Len(h.text) <= h.end - h.start + 1
          /\ \A k \in 1 .. Len(h.text) : h.text[k] = h.start + k - 1
        BY <2>2 DEF HitType, Chunked, IsDocs
    <2>6. ASSUME NEW k \in 1 .. Len(h.text) PROVE x.start <= h.text[k] /\ h.text[k] <= x.end
        <3> DEFINE lo == h.start
                   hi == h.end
                   n == Len(h.text)
        <3>1. /\ h.text[k] = lo + k - 1 /\ k \in 1 .. n /\ n \in Nat /\ n <= hi - lo + 1
              /\ lo \in Nat /\ hi \in Nat /\ x.start <= lo /\ hi <= x.end
              /\ x.start \in Nat /\ x.end \in Nat
            BY <1>4, <2>2, <2>3, <2>5
        <3> HIDE DEF lo, hi, n
        <3> QED BY <3>1
    <2>7. ASSUME NEW j \in 1 .. Len(h.text), NEW k \in 1 .. Len(h.text), j < k
          PROVE  h.text[j] < h.text[k]
        <3> DEFINE lo == h.start
                   n == Len(h.text)
        <3>1. /\ h.text[j] = lo + j - 1 /\ h.text[k] = lo + k - 1
              /\ lo \in Nat /\ n \in Nat /\ j \in 1 .. n /\ k \in 1 .. n
            BY <2>5
        <3> HIDE DEF lo, n
        <3> QED BY <2>7, <3>1
    <2> QED BY <2>4, <2>5, <2>6, <2>7 DEF Increasing, x
<1> QED BY <1>5, <1>6

LEMMA AnswerShowsLines ==
    ASSUME Shaped, hits \in Seq(ChunkHit), Answer
    PROVE  DocLinesOnce'
<1> DEFINE seq == Relevant
           q == Combined(seq)
           U == Grouped(seq)
<1>1. Ranking(seq) /\ IsAnswer(q, seq, U)
    BY RelevantIs, CombinedIs
<1>2. hits' = hits
    BY DEF Answer
<1> HIDE DEF seq, q, U, ChunkHit
<1>3. SUFFICES ASSUME NEW k \in DOMAIN results', IsDocs(hits[results'[k].rep])
               PROVE  /\ ToSet(results'[k].text) \subseteq results'[k].start .. results'[k].end
                      /\ \A i, j \in DOMAIN results'[k].text :
                           i < j => results'[k].text[i] < results'[k].text[j]
    BY <1>2 DEF DocLinesOnce
<1> DEFINE x == results'[k]
           text == x.text
<1>4. k \in 1 .. Len(q) /\ x = q[k]
    BY AnswerIs DEF q, seq
<1>5. PICK u \in U : x = Result(seq, u) /\ IsResult(x, seq, u)
    BY <1>1, <1>4 DEF IsAnswer
<1>6. Increasing(x.text, x.start, x.end)
    BY <1>1, <1>3, <1>5, DocTexts DEF U
<1>7. x.start \in Nat /\ x.end \in Nat
    BY <1>5 DEF IsResult
<1> HIDE DEF x
<1>8. text \in Seq(Nat) /\ \A i \in 1 .. Len(text) : x.start <= text[i] /\ text[i] <= x.end
    BY <1>6 DEF Increasing
<1>9. \A i, j \in 1 .. Len(text) : i < j => text[i] < text[j]
    BY <1>6 DEF Increasing
<1> HIDE DEF text
<1>10. DOMAIN text = 1 .. Len(text) /\ \A i \in 1 .. Len(text) : text[i] \in x.start .. x.end
    BY <1>7, <1>8
<1>11. ToSet(text) \subseteq x.start .. x.end
    BY <1>10 DEF ToSet
<1> QED BY <1>9, <1>10, <1>11 DEF text, x

LinesInv == BackInv /\ hits \in Seq(ChunkHit) /\ DocLinesOnce

LEMMA LinesStep == LinesInv /\ [Next]_vars => LinesInv'
<1> SUFFICES ASSUME LinesInv, [Next]_vars PROVE LinesInv'
    OBVIOUS
<1>0. BackInv' /\ Shaped /\ hits \in Seq(ChunkHit) /\ (stage # "respond" => results = << >>)
    BY BackStep DEF LinesInv, BackInv, FrontInv
<1>1. results' = << >> => DocLinesOnce'
    BY DEF DocLinesOnce
<1>2. hits' = hits => hits' \in Seq(ChunkHit)
    BY <1>0
<1> SUFFICES hits' \in Seq(ChunkHit) /\ DocLinesOnce'
    BY <1>0 DEF LinesInv, ChunkHit, HitType
<1> HIDE DEF ChunkHit
<1>3. ASSUME NEW set \in Settings, NEW scope \in Scopes, NEW v \in Variants, Ask(set, scope, v)
      PROVE  hits' \in Seq(ChunkHit) /\ DocLinesOnce'
    BY <1>0, <1>1, <1>2, <1>3 DEF Ask
<1>4. CASE Search
    <2>1. results' = << >>
        BY <1>0, <1>4 DEF Search
    <2> QED BY <1>0, <1>1, <1>4, <2>1, SearchKeepsChunks
<1>5. CASE Fuse
    <2>1. results' = << >>
        BY <1>0, <1>5 DEF Fuse, Reset
    <2> QED BY <1>0, <1>1, <1>5, <2>1, FuseKeepsChunks
<1>6. CASE Select
    BY <1>0, <1>1, <1>2, <1>6 DEF Select
<1>7. CASE Expand
    <2>1. results' = << >>
        BY <1>0, <1>7 DEF Expand
    <2> QED BY <1>0, <1>1, <1>7, <2>1, ExpandKeepsChunks
<1>8. CASE Rerank
    BY <1>0, <1>1, <1>2, <1>8 DEF Rerank
<1>9. CASE Answer
    <2>1. hits' = hits
        BY <1>9 DEF Answer
    <2> QED BY <1>0, <1>2, <1>9, <2>1, AnswerShowsLines
<1>10. CASE Respond
    <2>1. hits' = << >> /\ results' = << >>
        BY <1>10 DEF Respond, Reset
    <2> QED BY <1>1, <2>1, NothingIsTyped
<1>11. CASE UNCHANGED vars
    <2>1. hits' = hits /\ results' = results
        BY <1>11 DEF vars
    <2> QED BY <1>2, <2>1 DEF LinesInv, DocLinesOnce
<1> QED BY <1>3, <1>4, <1>5, <1>6, <1>7, <1>8, <1>9, <1>10, <1>11 DEF Next

\* A documentation result shows lines between its first and its last, in their
\* order and none of them twice: a chunk adds only what is after the end of the
\* chunks before it, whatever they share, and the cuts to a snippet and to the
\* cap of the content keep that (mcp.rs:998-1003).
THEOREM DocLinesStayOnce == Spec => []DocLinesOnce
<1>1. Init => LinesInv
    BY InitShape, NothingIsApart, NothingIsTyped
       DEF Init, FrontInv, BackInv, LinesInv, DocLinesOnce
<1>2. LinesInv => DocLinesOnce
    BY DEF LinesInv
<1> QED BY <1>1, <1>2, LinesStep, PTL DEF Spec
=============================================================================
