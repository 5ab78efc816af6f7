----------------------------- MODULE LoopProofs -----------------------------
(***************************************************************************)
(* What the loops and the sorts of Loops are, for every length and order.  *)
(*                                                                         *)
(* Induction is by the least number that is not in a set, which needs no   *)
(* operator for a parameter; an order is a relation and a loop's step a    *)
(* function for the same reason, so that the lemmas can be cited.          *)
(***************************************************************************)
EXTENDS Loops, FiniteSetTheorems, WellFoundedInduction, Sequences, TLAPS

-----------------------------------------------------------------------------
(* Loops                                                                   *)

LEMMA NumbersAreWellFounded == IsWellFoundedOn({s \in Nat \X Nat : s[1] < s[2]}, Nat)
BY NatLessThanWellFounded, Zenon DEF OpToRel

\* Induction over an interval: good is the set of the numbers for which it holds.
LEMMA UpTo ==
    ASSUME NEW n \in Nat, NEW good, 0 \in good, \A i \in 1 .. n : i - 1 \in good => i \in good
    PROVE  0 .. n \subseteq good
<1> DEFINE bad == (0 .. n) \ good
           R == {s \in Nat \X Nat : s[1] < s[2]}
<1>1. SUFFICES ASSUME bad # {} PROVE FALSE
    OBVIOUS
<1>2. IsWellFoundedOn(R, Nat)
    BY NumbersAreWellFounded
<1>3. bad \subseteq Nat
    OBVIOUS
<1>4. \A x, y \in Nat : x < y => <<x, y>> \in R
    OBVIOUS
<1> HIDE DEF bad, R
<1>5. PICK x \in bad : \A y \in bad : ~(<<y, x>> \in R)
    BY <1>1, <1>2, <1>3, WFMin, Zenon
<1>6. x \in 1 .. n /\ x \notin good /\ x - 1 \in 0 .. n
    BY <1>5 DEF bad
<1>7. x - 1 \in Nat /\ x \in Nat /\ x - 1 < x
    BY <1>6
<1>8. x - 1 \notin bad
    BY <1>4, <1>5, <1>7
<1> QED BY <1>6, <1>8 DEF bad

\* A loop of n rounds over values of T: round i takes x to step[i][x].
IsLoop(n, T, init, step) == n \in Nat /\ init \in T /\ step \in [1 .. n -> [T -> T]]

\* f holds the value before the loop and the one after each of the k rounds.
IsRun(f, k, T, init, step) ==
    f \in [0 .. k -> T] /\ f[0] = init /\ \A i \in 1 .. k : f[i] = step[i][f[i - 1]]

LEMMA LoopRuns ==
    ASSUME NEW n, NEW T, NEW init, NEW step, IsLoop(n, T, init, step)
    PROVE  \E f : IsRun(f, n, T, init, step)
<1> DEFINE Runs(f, k) == IsRun(f, k, T, init, step)
           good == {k \in 0 .. n : \E f : Runs(f, k)}
<1>0. n \in Nat /\ init \in T /\ step \in [1 .. n -> [T -> T]]
    BY DEF IsLoop
<1>1. 0 \in good
    <2> DEFINE f == [i \in 0 .. 0 |-> init]
    <2>1. Runs(f, 0)
        BY <1>0 DEF IsRun
    <2> HIDE DEF f, Runs
    <2>2. 0 \in 0 .. n
        BY <1>0
    <2> QED BY <2>1, <2>2
<1>2. ASSUME NEW k \in 1 .. n, k - 1 \in good PROVE k \in good
    <2>1. PICK f : Runs(f, k - 1)
        BY <1>2
    <2> USE <1>0, <2>1 DEF IsRun
    <2> DEFINE g == [i \in 0 .. k |-> IF i < k THEN f[i] ELSE step[k][f[k - 1]]]
    <2>2. f[k - 1] \in T /\ step[k][f[k - 1]] \in T
        BY <2>1
    <2>3. g \in [0 .. k -> T] /\ g[0] = init
        BY <2>1, <2>2
    <2>4. ASSUME NEW i \in 1 .. k PROVE g[i] = step[i][g[i - 1]]
        <3>1. CASE i < k
            <4>1. i \in 1 .. k - 1 /\ i \in 0 .. k /\ i - 1 \in 0 .. k /\ i - 1 < k
                BY <3>1
            <4>2. g[i] = f[i] /\ g[i - 1] = f[i - 1]
                BY <3>1, <4>1
            <4> QED BY <2>1, <4>1, <4>2
        <3>2. CASE i = k
            <4>1. k \in 0 .. k /\ k - 1 \in 0 .. k /\ k - 1 < k /\ ~(k < k)
                OBVIOUS
            <4>2. g[k] = step[k][f[k - 1]] /\ g[k - 1] = f[k - 1]
                BY <4>1
            <4> QED BY <3>2, <4>2
        <3> QED BY <3>1, <3>2
    <2>5. Runs(g, k)
        BY <2>3, <2>4
    <2> HIDE DEF g, Runs
    <2> QED BY <2>5
<1>3. n \in good
    <2> HIDE DEF good
    <2>1. 0 .. n \subseteq good
        BY <1>1, <1>2, <1>0, UpTo
    <2>2. n \in 0 .. n
        BY <1>0
    <2> QED BY <2>1, <2>2
<1> QED BY <1>3

\* Whatever is what the loop makes of it is the run of the loop.
LEMMA RunOfLoop ==
    ASSUME NEW n, NEW T, NEW init, NEW step, IsLoop(n, T, init, step),
           NEW acc, acc = [i \in 0 .. n |-> acc[i]], acc[0] = init,
           \A i \in 1 .. n : acc[i - 1] \in T => acc[i] = step[i][acc[i - 1]]
    PROVE  IsRun(acc, n, T, init, step)
<1> DEFINE good == {i \in 0 .. n : acc[i] \in T}
<1>0. n \in Nat /\ init \in T /\ step \in [1 .. n -> [T -> T]]
    BY DEF IsLoop
<1>1. 0 \in good
    BY <1>0
<1>2. ASSUME NEW i \in 1 .. n, i - 1 \in good PROVE i \in good
    <2>1. acc[i - 1] \in T /\ step[i] \in [T -> T]
        BY <1>0, <1>2
    <2>2. acc[i] \in T
        BY <2>1
    <2> QED BY <1>0, <2>2
<1>3. 0 .. n \subseteq good
    <2> HIDE DEF good
    <2> QED BY <1>0, <1>1, <1>2, UpTo
<1>4. acc \in [0 .. n -> T]
    BY <1>3
<1>5. \A i \in 1 .. n : i - 1 \in 0 .. n
    BY <1>0
<1> QED BY <1>0, <1>3, <1>4, <1>5 DEF IsRun

-----------------------------------------------------------------------------
(* Sorts                                                                   *)

\* R is a strict total order on S.
Orders(R, S) ==
    /\ \A x \in S : <<x, x>> \notin R
    /\ \A x, y, z \in S : <<x, y>> \in R /\ <<y, z>> \in R => <<x, z>> \in R
    /\ \A x, y \in S : x # y => <<x, y>> \in R \/ <<y, x>> \in R

Below(R, S, x) == {y \in S : <<y, x>> \in R}

LEMMA BelowIsFinite ==
    ASSUME NEW S, IsFiniteSet(S), NEW R, Orders(R, S), NEW x \in S
    PROVE  /\ IsFiniteSet(Below(R, S, x))
           /\ Cardinality(Below(R, S, x)) \in 0 .. Cardinality(S) - 1
<1>1. Below(R, S, x) \in SUBSET S /\ x \notin Below(R, S, x)
    BY DEF Below, Orders
<1>2. /\ IsFiniteSet(S \ {x}) /\ Cardinality(S \ {x}) = Cardinality(S) - 1
    BY FS_RemoveElement
<1>3. Below(R, S, x) \in SUBSET (S \ {x})
    BY <1>1
<1>4. /\ IsFiniteSet(Below(R, S, x))
      /\ Cardinality(Below(R, S, x)) <= Cardinality(S \ {x})
    BY <1>2, <1>3, FS_Subset
<1>5. Cardinality(Below(R, S, x)) \in Nat /\ Cardinality(S) \in Nat
    BY <1>4, FS_CardinalityType
<1> QED BY <1>2, <1>4, <1>5

LEMMA BelowGrows ==
    ASSUME NEW S, IsFiniteSet(S), NEW R, Orders(R, S), NEW x \in S, NEW y \in S,
           <<x, y>> \in R
    PROVE  Cardinality(Below(R, S, x)) < Cardinality(Below(R, S, y))
<1>1. /\ IsFiniteSet(Below(R, S, x)) /\ IsFiniteSet(Below(R, S, y))
      /\ Cardinality(Below(R, S, x)) \in Nat /\ Cardinality(Below(R, S, y)) \in Nat
    BY BelowIsFinite, FS_CardinalityType
<1>2. x \notin Below(R, S, x)
    BY DEF Below, Orders
<1>3. Below(R, S, x) \cup {x} \in SUBSET Below(R, S, y)
    BY DEF Below, Orders
<1>4. Cardinality(Below(R, S, x) \cup {x}) = Cardinality(Below(R, S, x)) + 1
    BY <1>1, <1>2, FS_AddElement
<1>5. Cardinality(Below(R, S, x) \cup {x}) <= Cardinality(Below(R, S, y))
    BY <1>1, <1>3, FS_Subset
<1> QED BY <1>1, <1>4, <1>5

\* Every rank is that of exactly one element.
LEMMA RankIsOne ==
    ASSUME NEW S, IsFiniteSet(S), NEW R, Orders(R, S), NEW r \in 1 .. Cardinality(S)
    PROVE  \E x \in S : /\ Cardinality(Below(R, S, x)) = r - 1
                        /\ \A y \in S : Cardinality(Below(R, S, y)) = r - 1 => y = x
<1> DEFINE n == Cardinality(S)
           rank == [x \in S |-> Cardinality(Below(R, S, x)) + 1]
<1>1. n \in Nat
    BY FS_CardinalityType
<1>2. ASSUME NEW x \in S, NEW y \in S, x # y PROVE rank[x] # rank[y]
    <2>1. /\ Cardinality(Below(R, S, x)) \in Int /\ Cardinality(Below(R, S, y)) \in Int
        BY BelowIsFinite
    <2>2. <<x, y>> \in R \/ <<y, x>> \in R
        BY <1>2 DEF Orders
    <2>3. Cardinality(Below(R, S, x)) # Cardinality(Below(R, S, y))
        BY <2>1, <2>2, BelowGrows
    <2> QED BY <2>1, <2>3
<1>3. rank \in [S -> 1 .. n]
    BY <1>1, BelowIsFinite
<1>4. rank \in Injection(S, 1 .. n)
    BY <1>2, <1>3 DEF Injection, IsInjective
<1>5. IsFiniteSet(1 .. n) /\ Cardinality(1 .. n) = n
    BY <1>1, FS_Interval
<1>6. rank \in Surjection(S, 1 .. n)
    BY <1>4, <1>5, FS_Injection
<1>7. PICK x \in S : rank[x] = r
    BY <1>6 DEF Surjection
<1>8. Cardinality(Below(R, S, x)) = r - 1
    BY <1>7, BelowIsFinite
<1> QED BY <1>2, <1>8

\* What InOrder yields for an order R: a sequence of the elements of S, each of
\* them once, in the order.
RankIn(R, S) == [x \in S |-> Cardinality(Below(R, S, x))]
ByRank(rank, S) == [r \in 1 .. Cardinality(S) |-> CHOOSE x \in S : rank[x] = r - 1]
IsSort(q, R, S) ==
    /\ Cardinality(S) \in Nat /\ q \in [1 .. Cardinality(S) -> S]
    /\ \A x \in S : \E r \in DOMAIN q : q[r] = x
    /\ \A r, s \in DOMAIN q : r < s => <<q[r], q[s]>> \in R
    /\ \A r, s \in DOMAIN q : q[r] = q[s] => r = s

LEMMA Ordered ==
    ASSUME NEW S, IsFiniteSet(S), NEW R, Orders(R, S)
    PROVE  IsSort(ByRank(RankIn(R, S), S), R, S)
<1> DEFINE rank == RankIn(R, S)
           q == ByRank(rank, S)
<1>0. /\ rank = [x \in S |-> Cardinality(Below(R, S, x))]
      /\ q = [r \in 1 .. Cardinality(S) |-> CHOOSE x \in S : rank[x] = r - 1]
    BY DEF RankIn, ByRank
<1> HIDE DEF rank, q
<1> SUFFICES IsSort(q, R, S)
    BY DEF q, rank
<1> USE <1>0
<1> DEFINE n == Cardinality(S)
<1>1. n \in Nat
    BY FS_CardinalityType
<1>2. ASSUME NEW r \in 1 .. n PROVE q[r] \in S /\ rank[q[r]] = r - 1
    <2>1. \E x \in S : rank[x] = r - 1
        BY RankIsOne
    <2> QED BY <2>1
<1>3. q \in [1 .. n -> S]
    BY <1>2
<1>4. ASSUME NEW x \in S PROVE \E r \in 1 .. n : q[r] = x
    <2>1. rank[x] \in 0 .. n - 1
        BY BelowIsFinite
    <2>2. rank[x] + 1 \in 1 .. n
        BY <1>1, <2>1
    <2>3. PICK y \in S : \A z \in S : rank[z] = (rank[x] + 1) - 1 => z = y
        BY <2>2, RankIsOne
    <2>4. (rank[x] + 1) - 1 = rank[x]
        BY <2>1
    <2> DEFINE r == rank[x] + 1
    <2>5. rank[q[r]] = r - 1 /\ q[r] \in S
        BY <1>2, <2>2
    <2>6. q[r] = y /\ x = y
        BY <2>3, <2>4, <2>5
    <2>7. r \in 1 .. n
        BY <2>2
    <2> HIDE DEF r
    <2> QED BY <2>6, <2>7
<1>5. ASSUME NEW r \in 1 .. n, NEW s \in 1 .. n, r < s PROVE <<q[r], q[s]>> \in R
    <2>1. q[r] # q[s] /\ ~(<<q[s], q[r]>> \in R)
        <3>1. rank[q[r]] = r - 1 /\ rank[q[s]] = s - 1 /\ q[r] \in S /\ q[s] \in S
            BY <1>2
        <3>2. q[r] # q[s]
            BY <1>5, <3>1
        <3>3. ASSUME <<q[s], q[r]>> \in R PROVE FALSE
            <4>1. rank[q[s]] < rank[q[r]]
                BY <3>1, <3>3, BelowGrows
            <4> QED BY <1>5, <3>1, <4>1
        <3> QED BY <3>2, <3>3
    <2> QED BY <1>2, <2>1 DEF Orders
<1>6. ASSUME NEW r \in 1 .. n, NEW s \in 1 .. n, q[r] = q[s] PROVE r = s
    <2>1. r - 1 = s - 1
        BY <1>2, <1>6
    <2> QED BY <1>1, <2>1
<1>7. DOMAIN q = 1 .. n
    BY <1>3
<1> HIDE <1>0
<1>8. /\ \A x \in S : \E r \in DOMAIN q : q[r] = x
      /\ \A r, s \in DOMAIN q : r < s => <<q[r], q[s]>> \in R
      /\ \A r, s \in DOMAIN q : q[r] = q[s] => r = s
    <2> HIDE DEF n
    <2> QED BY <1>4, <1>5, <1>6, <1>7
<1> QED BY <1>1, <1>3, <1>8 DEF IsSort

\* The places of I, a set of places of a sequence, in their order.
IsListing(p, I, n) ==
    /\ Cardinality(I) \in 0 .. n /\ p \in [1 .. Cardinality(I) -> I]
    /\ \A i \in I : \E r \in DOMAIN p : p[r] = i
    /\ \A r, s \in DOMAIN p : r < s => p[r] < p[s]

LEMMA PlacesAre ==
    ASSUME NEW n, n \in Nat, NEW I, I \in SUBSET (1 .. n)
    PROVE  IsListing(Places(I), I, n)
<1> DEFINE R == {q \in I \X I : q[1] < q[2]}
<1>1. IsFiniteSet(I) /\ Cardinality(I) \in 0 .. n
    <2>1. IsFiniteSet(1 .. n) /\ Cardinality(1 .. n) = n
        BY FS_Interval
    <2>2. IsFiniteSet(I) /\ Cardinality(I) <= Cardinality(1 .. n)
        BY <2>1, FS_Subset
    <2> QED BY <2>1, <2>2, FS_CardinalityType
<1>2. \A x, y \in I : <<x, y>> \in R <=> x < y
    OBVIOUS
<1>3. Orders(R, I)
    <2> HIDE DEF R
    <2>1. \A x \in I : x \in Nat
        OBVIOUS
    <2> QED BY <1>2, <2>1 DEF Orders
<1>4. \A x \in I : {y \in I : y < x} = Below(R, I, x)
    BY <1>2 DEF Below
<1>5. Places(I) = ByRank(RankIn(R, I), I)
    <2> HIDE DEF R
    <2>1. RankIn(R, I) = [x \in I |-> Cardinality({y \in I : y < x})]
        BY <1>4 DEF RankIn
    <2> QED BY <2>1 DEF Places, InOrder, ByRank
<1>6. IsSort(Places(I), R, I)
    <2> HIDE DEF R
    <2> QED BY <1>1, <1>3, <1>5, Ordered
<1> HIDE DEF R
<1> QED BY <1>1, <1>2, <1>6 DEF IsSort, IsListing

-----------------------------------------------------------------------------
(* Counting                                                                *)

\* One more element of a sequence that is in P.
Counted(seq, P) == {k \in DOMAIN seq : seq[k] \in P}

LEMMA OneMore ==
    ASSUME NEW n, n \in Nat, NEW seq, seq \in Seq(1 .. n), NEW i, i \in 1 .. n, NEW P
    PROVE  /\ IsFiniteSet(Counted(seq, P)) /\ Cardinality(Counted(seq, P)) \in 0 .. Len(seq)
           /\ i \in P => Cardinality(Counted(Append(seq, i), P))
                         = Cardinality(Counted(seq, P)) + 1
           /\ i \notin P => Counted(Append(seq, i), P) = Counted(seq, P)
<1> DEFINE l == Len(seq)
           C == Counted(seq, P)
           D == Counted(Append(seq, i), P)
<1>1. l \in Nat /\ DOMAIN seq = 1 .. l /\ C \in SUBSET (1 .. l)
    BY DEF Counted
<1>2. IsFiniteSet(1 .. l) /\ Cardinality(1 .. l) = l
    <2> HIDE DEF l
    <2> QED BY <1>1, FS_Interval
<1>3. IsFiniteSet(C) /\ Cardinality(C) \in 0 .. l
    <2>1. IsFiniteSet(C) /\ Cardinality(C) <= Cardinality(1 .. l)
        BY <1>1, <1>2, FS_Subset
    <2> QED BY <1>1, <1>2, <2>1, FS_CardinalityType
<1>4. /\ DOMAIN Append(seq, i) = 1 .. l + 1 /\ Append(seq, i)[l + 1] = i
      /\ \A k \in 1 .. l : Append(seq, i)[k] = seq[k]
    OBVIOUS
<1>5. i \in P => D = C \cup {l + 1}
    BY <1>1, <1>4 DEF Counted
<1>6. i \notin P => D = C
    BY <1>1, <1>4 DEF Counted
<1>7. l + 1 \notin C
    BY <1>1
<1> HIDE DEF C, D, l
<1>8. i \in P => Cardinality(D) = Cardinality(C) + 1
    BY <1>3, <1>5, <1>7, FS_AddElement
<1> QED BY <1>3, <1>6, <1>8 DEF C, D, l
=============================================================================
