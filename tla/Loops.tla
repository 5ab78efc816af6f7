-------------------------------- MODULE Loops --------------------------------
(***************************************************************************)
(* Loops over a sequence and sorts of a finite set, as functions: the      *)
(* forms in which Query and GraphReader have the `for` loops, the sort_by  *)
(* calls and the ORDER BY clauses of the code.                             *)
(***************************************************************************)
EXTENDS Integers, FiniteSets, Sequences

\* for i in 1 .. n { acc = Step(acc, i) }
Loop(n, init, Step(_, _)) ==
    LET acc[i \in 0 .. n] == IF i = 0 THEN init ELSE Step(acc[i - 1], i)
    IN  acc[n]

\* The elements of S in an order that is strict and total on it: each stands at
\* the place that as many are before.
InOrder(S, Before(_, _)) ==
    LET rank == [x \in S |-> Cardinality({y \in S : Before(y, x)})]
    IN  [r \in 1 .. Cardinality(S) |-> CHOOSE x \in S : rank[x] = r - 1]

\* The elements of seq that pass a test.
Places(S) == InOrder(S, LAMBDA i, j : i < j)
Filter(seq, Test(_)) ==
    LET passing == Places({i \in DOMAIN seq : Test(seq[i])})
    IN  [r \in DOMAIN passing |-> seq[passing[r]]]
=============================================================================
