-------------------------------- MODULE Query --------------------------------
(***************************************************************************)
(* The query tool of the MCP server (mcp.rs, tool_query): it searches every *)
(* index with the query and its expansions, fuses what was found, selects  *)
(* a pool, reads the source of the symbols in it, has it reranked, and     *)
(* folds neighbouring hits of one document into one result.                *)
(*                                                                         *)
(* Scores are integers: Unit stands for the 1 of the code, and everything  *)
(* anchoring multiplies has the same factor.                               *)
(***************************************************************************)
EXTENDS SourceIndex, Loops, SequencesExt

CONSTANTS
  Sources,        \* sequence of [package, origin, how], in the order of search
  Found,          \* [DOMAIN Sources -> set of answers, sequences of rows]
  Scopes,         \* sets of packages a query may be restricted to
  Settings,       \* configurations of the server and limits asked for
  Variants,       \* sequences of expansions, each "lex" or "vec"
  Unit,           \* a multiple of the denominators of all contributions
  RrfK,           \* 60 in the code
  FetchLimit,     \* 20 or more: hits asked of a source, and size of the pool
  MinBucket,      \* 3: hits of one source the pool takes at least
  ExpansionShare, \* tenths of the pool for what only expansions found
  AnchorFloor,    \* tenths of its score that a hit keeps
  Pass1K,         \* 5: hits that are promoted at least
  Scores,         \* scores of a reranker
  Floor,          \* the least of them that is relevant
  SnippetLines,   \* lines of a snippet (600 or 400 characters)
  DocGap, CodeGap, \* 2 and 3: lines between neighbours
  ContentCap      \* lines of a combined text (12000 characters)

Origins == {"code", "docs", "codegraph"}
Row == [path : Paths, start : Nat, end : Nat, symbol : STRING, piece : Nat, text : Seq(Nat)]
Setting == [additive : BOOLEAN, anchoring : BOOLEAN, reranker : BOOLEAN,
            combine : BOOLEAN, limit : Nat \ {0}]

ASSUME SourcesAreSources ==
  Sources \in Seq([package : Packages, origin : Origins, how : {"lex", "vec"}])
ASSUME AnswersAreSequences ==
  \A i \in DOMAIN Sources : \A a \in Found[i] : a \in Seq(Row) /\ Len(a) <= FetchLimit
\* A chunk of documentation is a slice of its file: push_chunk (build.rs:1257).
ASSUME ChunksHoldTheirLines ==
  \A i \in DOMAIN Sources : Sources[i].origin = "docs" =>
    \A a \in Found[i] : \A r \in ToSet(a) :
      0 < r.start /\ r.start <= r.end /\ r.text = From(r.start, r.end)
ASSUME SettingsAreSettings ==
  /\ Settings # {} /\ Settings \subseteq Setting
  /\ \A s \in Settings : s.limit <= FetchLimit
ASSUME PackagesAreFinite == IsFiniteSet(Packages)
ASSUME BoundsAreNumbers ==
  /\ {Unit, FetchLimit, MinBucket, Pass1K, SnippetLines} \subseteq Nat
  /\ {DocGap, CodeGap, ContentCap} \subseteq Nat
  /\ RrfK \in Nat \ {0}
ASSUME VariantsAreSequences == Variants \subseteq Seq({"lex", "vec"})
ASSUME UnitIsDivisible == \A r \in 1 .. FetchLimit : Unit % (RrfK + r) = 0
ASSUME ScoresAreNumbers == Scores \subseteq Nat /\ 0 \in Scores /\ Floor \in Nat \ {0}
ASSUME SharesAreTenths == AnchorFloor \in 0 .. 10 /\ ExpansionShare \in 0 .. 10

VARIABLES
  stage,    \* what comes next
  conf,     \* settings of this query, and the number of its expansions
  plan,     \* searches to be made: [source, weight, original]
  hits,     \* sequence of hits: as they are found, later fused and sorted
  pool,     \* indices of the selected hits
  ranked,   \* sequence of [hit, score]
  results   \* sequence of results

vars == <<stage, conf, plan, hits, pool, ranked, results>>

NoQuery == [set |-> CHOOSE s \in Settings : TRUE, expanded |-> FALSE]

Init ==
  /\ stage = "idle" /\ conf = NoQuery /\ plan = << >>
  /\ hits = << >> /\ pool = << >> /\ ranked = << >> /\ results = << >>
-----------------------------------------------------------------------------
(***************************************************************************)
(* Retrieval.                                                              *)
(***************************************************************************)
\* The searches of a run: the query itself uses both ways and counts twice.
Searches(scope, how, weight, original) ==
  LET all == [i \in DOMAIN Sources |->
                [source |-> i, weight |-> weight, original |-> original]]
  IN  Filter(all, LAMBDA s : /\ Sources[s.source].package \in scope
                             /\ Sources[s.source].how \in how)
Plan(scope, variants) ==
  Loop(Len(variants), Searches(scope, {"lex", "vec"}, 2, TRUE),
       LAMBDA searches, i : searches \o Searches(scope, {variants[i]}, 1, FALSE))

Ask(set, scope, variants) ==
  /\ stage = "idle"
  /\ conf' = [set |-> set, expanded |-> variants # << >>]
  /\ plan' = Plan(scope, variants)
  /\ stage' = "search"
  /\ UNCHANGED <<hits, pool, ranked, results>>

Contribution(s, position) == (s.weight * Unit) \div (RrfK + position)

\* A node of the graph shows its signature, its first line.
Hit(s, position, row) ==
  LET src == Sources[s.source]
  IN  [package |-> src.package, origin |-> src.origin, path |-> row.path,
       start |-> row.start, end |-> row.end, symbol |-> row.symbol,
       text |-> IF src.origin = "codegraph" THEN <<row.start>>
                ELSE Prefix(row.text, SnippetLines),
       body |-> << >>, score |-> Contribution(s, position), original |-> s.original]

\* One search of an index; one that fails finds nothing.
Search ==
  /\ stage = "search" /\ plan # << >>
  /\ \E answer \in Found[Head(plan).source] \cup {<< >>} :
       hits' = hits \o [i \in DOMAIN answer |-> Hit(Head(plan), i, answer[i])]
  /\ plan' = Tail(plan)
  /\ UNCHANGED <<stage, conf, pool, ranked, results>>
-----------------------------------------------------------------------------
(***************************************************************************)
(* Fusion: hits of one symbol or one text are one, anchored and sorted.    *)
(***************************************************************************)
Key(h) ==
  IF h.origin = "docs" THEN <<"docs", h.package, h.path, h.text>>
  ELSE IF h.start > 0 THEN <<"line", h.package, h.path, h.start>>
  ELSE <<"name", h.package, h.path, h.symbol>>

Priority == [code |-> 2, codegraph |-> 1, docs |-> 0]
Richer(new, old) ==
  \/ Priority[new.origin] > Priority[old.origin]
  \/ new.origin = old.origin /\ Len(new.text) > Len(old.text)

\* merge_complementary, and the sum and the OR that follow it
Complement(winner, donor) ==
  [winner EXCEPT
    !.start = IF @ = 0 THEN donor.start ELSE @,
    !.end   = IF winner.start = 0 /\ donor.start > 0 THEN donor.end ELSE @,
    !.score = @ + donor.score,
    !.original = @ \/ donor.original]

\* Mutant of Fused: a richer hit replaces the old one and what is known of it.
FusedForgetful(old, new) == IF Richer(new, old) THEN new ELSE Complement(old, new)

Fused(old, new) == IF Richer(new, old) THEN Complement(new, old) ELSE Complement(old, new)

Absorb(seq, h) ==
  LET same == {i \in DOMAIN seq : Key(seq[i]) = Key(h)}
  IN  IF same = {} THEN Append(seq, h)
      ELSE [i \in DOMAIN seq |-> IF i \in same THEN Fused(seq[i], h) ELSE seq[i]]
Deduped == Loop(Len(hits), << >>, LAMBDA seq, i : Absorb(seq, hits[i]))

SumAt(seq, I) ==
  Loop(Len(seq), 0, LAMBDA sum, i : IF i \in I THEN sum + seq[i].score ELSE sum)
Anchor(seq, p) == SumAt(seq, {i \in DOMAIN seq : seq[i].package = p /\ seq[i].original})
MaxAnchor(seq) == Greatest({Anchor(seq, p) : p \in Packages})

\* Topical anchoring: a hit keeps AnchorFloor of its score, and the rest in
\* proportion to what the query itself found in its package.
Anchored(seq) ==
  IF ~conf.set.anchoring \/ ~conf.expanded \/ MaxAnchor(seq) = 0 THEN seq
  ELSE [i \in DOMAIN seq |->
         [seq[i] EXCEPT !.score = @ * (AnchorFloor * MaxAnchor(seq)
                              + (10 - AnchorFloor) * Anchor(seq, seq[i].package))]]

\* A stable sort by descending score.
Ahead(seq, i, j) ==
  \/ seq[i].score > seq[j].score
  \/ seq[i].score = seq[j].score /\ i < j
Sorted(seq) ==
  LET order == InOrder(DOMAIN seq, LAMBDA i, j : Ahead(seq, i, j))
  IN  [r \in DOMAIN seq |-> seq[order[r]]]

Reset == conf' = NoQuery /\ plan' = << >> /\ hits' = << >> /\ pool' = << >>
         /\ ranked' = << >> /\ results' = << >>

Fuse ==
  /\ stage = "search" /\ plan = << >>
  /\ IF hits = << >> THEN stage' = "idle" /\ Reset
     ELSE /\ hits' = Sorted(Anchored(Deduped))
          /\ stage' = "select"
          /\ UNCHANGED <<conf, plan, pool, ranked, results>>
-----------------------------------------------------------------------------
(***************************************************************************)
(* The pool.                                                               *)
(***************************************************************************)
MaxPerBucket == Greatest({FetchLimit \div 3, MinBucket})
ExpansionCap == IF conf.set.additive THEN 0 ELSE (FetchLimit * ExpansionShare) \div 10

InBucket(sel, h) ==
  Cardinality({k \in DOMAIN sel : /\ hits[sel[k]].package = h.package
                                  /\ hits[sel[k]].origin = h.origin})
Novel(sel) == Cardinality({k \in DOMAIN sel : ~hits[sel[k]].original})

\* Mutant of Admits: one hit too many of each source.
AdmitsOneMore(sel, h) ==
  /\ Len(sel) < FetchLimit
  /\ h.original \/ Novel(sel) < ExpansionCap
  /\ InBucket(sel, h) <= MaxPerBucket

Admits(sel, h) ==
  /\ Len(sel) < FetchLimit
  /\ h.original \/ Novel(sel) < ExpansionCap
  /\ InBucket(sel, h) < MaxPerBucket

Selected ==
  Loop(Len(hits), << >>,
       LAMBDA sel, i : IF Admits(sel, hits[i]) THEN Append(sel, i) ELSE sel)

Select ==
  /\ stage = "select"
  /\ pool' = Selected
  /\ stage' = "expand"
  /\ UNCHANGED <<conf, plan, hits, ranked, results>>

\* expand_pool_hits: the texts a lookup may deliver. The store may have changed
\* since the search, and a lookup may fail.
Bodies(h) ==
  IF h.origin = "docs" \/ h.package \notin HasCode THEN {}
  ELSE LET at == IF h.start > 0 THEN FetchAt(h.package, h.path, h.start) ELSE {}
       IN  IF at # {} THEN at ELSE FetchNamed(h.package, h.symbol)

Longer(h) == {b \in Bodies(h) : Len(b) > Len(h.text)}
Expansions ==
  {f \in [ToSet(pool) -> UNION {Longer(hits[i]) : i \in ToSet(pool)} \cup {<< >>}] :
     \A i \in ToSet(pool) : f[i] = << >> \/ f[i] \in Longer(hits[i])}

Expand ==
  /\ stage = "expand"
  /\ \E f \in Expansions :
       hits' = [i \in DOMAIN hits |->
                  IF i \in ToSet(pool) THEN [hits[i] EXCEPT !.body = f[i]] ELSE hits[i]]
  /\ stage' = "rerank"
  /\ UNCHANGED <<conf, plan, pool, ranked, results>>
-----------------------------------------------------------------------------
(***************************************************************************)
(* Ranking.                                                                *)
(***************************************************************************)
Scored(sel, f) == [k \in DOMAIN sel |-> [hit |-> sel[k], score |-> f[sel[k]]]]
HitsOf(seq) == [k \in DOMAIN seq |-> seq[k].hit]
Budget == Greatest({conf.set.limit, Pass1K})

\* Pass 1 scores the snippets, pass 2 the windows of the bodies of the best:
\* first is the score of a snippet, best the highest one of a hit's windows.
Cheap(first) == Sorted(Scored(pool, first))
Top(first) == Prefix(HitsOf(Cheap(first)), Budget)
Promoted(first) == ToSet(Top(first))

\* Mutant of TwoPasses: the hits beyond the budget are dropped.
TwoPassesWithoutTail(first, best) == Sorted(Scored(Top(first), best))

TwoPasses(first, best) ==
  Sorted(Scored(Top(first), best)) \o SubSeq(Cheap(first), Budget + 1, Len(pool))

\* A call of the reranker that fails scores everything 0.
Rerank ==
  /\ stage = "rerank"
  /\ IF conf.set.reranker
     THEN \E first \in [ToSet(pool) -> Scores] :
            \E best \in [Promoted(first) -> Scores] : ranked' = TwoPasses(first, best)
     ELSE ranked' = Scored(pool, [i \in ToSet(pool) |-> hits[i].score])
  /\ stage' = "answer"
  /\ UNCHANGED <<conf, plan, hits, pool, results>>
-----------------------------------------------------------------------------
(***************************************************************************)
(* Combination of neighbouring hits.                                       *)
(***************************************************************************)
Relevant == IF conf.set.reranker THEN Filter(ranked, LAMBDA r : r.score >= Floor)
            ELSE ranked

IsDocs(h) == h.origin = "docs"
Document(h) == <<h.package, h.path, IsDocs(h)>>
Gap(h) == IF IsDocs(h) THEN DocGap ELSE CodeGap
Spanned(h) == h.start > 0 /\ h.end > 0

\* plan_merge_runs: a run is a sequence of ranks in the order of their lines.
At(seq, r) == hits[seq[r].hit]
Precedes(seq, q, r) ==
  LET g == At(seq, q) h == At(seq, r)
  IN  \/ g.start < h.start
      \/ g.start = h.start /\ (g.end < h.end \/ (g.end = h.end /\ q < r))
InLineOrder(seq, S) == InOrder(S, LAMBDA q, r : Precedes(seq, q, r))
Ends(seq, run) == Greatest({At(seq, run[k]).end : k \in DOMAIN run})

\* Mutant of Joins: only hits that touch or overlap are joined.
JoinsTouching(seq, run, r) == At(seq, r).start <= Ends(seq, run) + 1

Joins(seq, run, r) == At(seq, r).start <= Ends(seq, run) + 1 + Gap(At(seq, r))

Placed(seq, runs, r) ==
  IF runs # << >> /\ Joins(seq, Last(runs), r)
  THEN Front(runs) \o <<Append(Last(runs), r)>>
  ELSE Append(runs, <<r>>)
Runs(seq, S) ==
  LET order == InLineOrder(seq, S)
  IN  Loop(Len(order), << >>, LAMBDA runs, i : Placed(seq, runs, order[i]))
AllRuns(seq) ==
  LET docs == {Document(At(seq, r)) : r \in DOMAIN seq}
      of(d) == {r \in DOMAIN seq : Document(At(seq, r)) = d}
  IN  {<<r>> : r \in {q \in DOMAIN seq : ~Spanned(At(seq, q))}}
      \cup UNION {ToSet(Runs(seq, {r \in of(d) : Spanned(At(seq, r))})) : d \in docs}

\* assemble_merged_content: what a member adds to the text so far
Shown(h) == IF ~IsDocs(h) /\ h.body # << >> THEN h.body ELSE h.text

\* Mutant of Skip: the shared line is kept.
SkipOneLess(h, prev) == IF h.start <= prev THEN prev - h.start ELSE 0

Skip(h, prev) == IF h.start <= prev THEN prev - h.start + 1 ELSE 0

Adds(h, prev) ==
  IF h.end <= prev THEN << >>
  ELSE SubSeq(Shown(h), Skip(h, prev) + 1, Len(Shown(h)))
Assembled(seq, run) ==
  Loop(Len(run), [text |-> << >>, prev |-> 0],
       LAMBDA acc, i :
         LET h == At(seq, run[i])
         IN  IF Len(acc.text) >= ContentCap THEN acc
             ELSE [text |-> Prefix(acc.text \o Adds(h, acc.prev), ContentCap),
                   prev |-> Greatest({h.end, acc.prev})]).text

BestRank(seq, ranks) == Least(ranks)

\* materialize_merged_hit, for the best of the run
Result(seq, run) ==
  LET ranks == ToSet(run)
  IN  [rep |-> seq[Least(ranks)].hit, rank |-> BestRank(seq, ranks), members |-> ranks,
       start |-> Least({At(seq, r).start : r \in ranks}),
       end |-> Ends(seq, run),
       text |-> IF Len(run) = 1 THEN Shown(At(seq, run[1])) ELSE Assembled(seq, run),
       score |-> Greatest({seq[r].score : r \in ranks})]

\* Mutant of Combined: the cut to the limit comes first.
CombinedAfterCut(seq) ==
  LET cut == Prefix(seq, conf.set.limit)
  IN  InOrder({Result(cut, run) : run \in AllRuns(cut)}, LAMBDA a, b : a.rank < b.rank)

Combined(seq) ==
  LET runs == IF conf.set.combine /\ Len(seq) >= 2 THEN AllRuns(seq)
              ELSE {<<r>> : r \in DOMAIN seq}
  IN  InOrder({Result(seq, run) : run \in runs}, LAMBDA a, b : a.rank < b.rank)

Answer ==
  /\ stage = "answer"
  /\ results' = Prefix(Combined(Relevant), conf.set.limit)
  /\ stage' = "respond"
  /\ UNCHANGED <<conf, plan, hits, pool, ranked>>

Respond == stage = "respond" /\ stage' = "idle" /\ Reset

Next ==
  \/ \E set \in Settings, scope \in Scopes, v \in Variants : Ask(set, scope, v)
  \/ Search \/ Fuse \/ Select \/ Expand \/ Rerank \/ Answer \/ Respond

Spec == Init /\ [][Next]_vars
-----------------------------------------------------------------------------
(***************************************************************************)
(* Properties.                                                             *)
(***************************************************************************)
HitType == [package : Packages, origin : Origins, path : Paths, start : Nat, end : Nat,
            symbol : STRING, text : Seq(Nat), body : Seq(Nat), score : Nat,
            original : BOOLEAN]

\* A request goes through its stages with hits, pool, ranking and results of
\* the forms the code gives them.
TypeOK ==
  /\ stage \in {"idle", "search", "select", "expand", "rerank", "answer", "respond"}
  /\ conf \in [set : Settings, expanded : BOOLEAN]
  /\ plan \in Seq([source : DOMAIN Sources, weight : {1, 2}, original : BOOLEAN])
  /\ hits \in Seq(HitType)
  /\ pool \in Seq(DOMAIN hits)
  /\ ranked \in Seq([hit : DOMAIN hits, score : Nat])
  /\ results \in Seq([rep : DOMAIN hits, rank : DOMAIN ranked,
                      members : SUBSET DOMAIN ranked, start : Nat, end : Nat,
                      text : Seq(Nat), score : Nat])

\* Fusion loses no evidence, whatever the order in which sources and runs found
\* a thing: it appears once, in its richest form, counts as found by the query
\* itself exactly when some search of the query found it, and within a package,
\* where anchoring changes nothing, the order is that of the summed
\* contributions (mcp.rs:2127-2128).
Evidence(k) == SumAt(hits, {i \in DOMAIN hits : Key(hits[i]) = k})
FusionConserves ==
  [][Fuse /\ hits # << >> =>
       /\ \A h \in ToSet(hits) :
            \E i \in DOMAIN hits' :
              /\ Key(hits'[i]) = Key(h)
              /\ Priority[hits'[i].origin] >= Priority[h.origin]
              /\ \A j \in DOMAIN hits' : Key(hits'[j]) = Key(h) => j = i
       /\ \A i \in DOMAIN hits' :
            /\ hits'[i].original <=>
                 \E h \in ToSet(hits) : Key(h) = Key(hits'[i]) /\ h.original
            /\ \A j \in 1 .. i : hits'[j].package = hits'[i].package =>
                                   Evidence(Key(hits'[j])) >= Evidence(Key(hits'[i]))]_vars

\* No source takes more of the pool than its share and expansions take no more
\* than theirs, none at all when they may only reinforce; and a hit is left out
\* only for better ones that have filled the pool, the share of its source or
\* that of the expansions (mcp.rs:2239-2262).
Better(i) == {k \in DOMAIN pool : pool[k] < i}
PoolIsFair ==
  stage \in {"expand", "rerank", "answer"} =>
    /\ Novel(pool) <= ExpansionCap
    /\ \A i \in DOMAIN hits : InBucket(pool, hits[i]) <= MaxPerBucket
    /\ \A i \in DOMAIN hits \ ToSet(pool) :
         \/ Cardinality(Better(i)) = FetchLimit
         \/ Cardinality({k \in Better(i) : /\ hits[pool[k]].package = hits[i].package
                                           /\ hits[pool[k]].origin = hits[i].origin})
              = MaxPerBucket
         \/ ~hits[i].original /\ Cardinality({k \in Better(i) : ~hits[pool[k]].original})
                                   = ExpansionCap

\* Two passes of reranking, with a budget for the second one, rank every hit of
\* the pool exactly once (mcp.rs:2458-2461).
RankingIsComplete ==
  stage \in {"answer", "respond"} =>
    Len(ranked) = Len(pool) /\ ToSet(HitsOf(ranked)) = ToSet(pool)

\* Folding neighbours never reorders results against the ranking, and a
\* relevant hit is in exactly one result unless `limit` results rank before it:
\* a run across the cut counts as one result (mcp.rs:1698-1702).
AnswerIsComplete ==
  [][Answer =>
       /\ \A k \in 1 .. Len(results') - 1 : results'[k].rank < results'[k + 1].rank
       /\ \A r \in DOMAIN Relevant :
            \/ Cardinality({k \in DOMAIN results' : r \in results'[k].members}) = 1
            \/ /\ Len(results') = conf.set.limit
               /\ \A k \in DOMAIN results' : results'[k].rank < r]_vars

\* No two results are neighbours in one document (mcp.rs:1695-1698).
ResultsAreApart ==
  conf.set.combine =>
    \A j, k \in DOMAIN results :
      LET g == hits[results[j].rep] h == hits[results[k].rep]
      IN  j # k /\ Document(g) = Document(h) /\ Spanned(g) /\ Spanned(h) =>
            \/ results[j].end + 1 + Gap(g) < results[k].start
            \/ results[k].end + 1 + Gap(g) < results[j].start

\* The text of a documentation result shows its lines in order, none of them
\* twice, although chunks share lines and are cut to snippets
\* (mcp.rs:998-1003).
DocLinesOnce ==
  \A k \in DOMAIN results :
    IsDocs(hits[results[k].rep]) =>
      /\ ToSet(results[k].text) \subseteq results[k].start .. results[k].end
      /\ \A i, j \in DOMAIN results[k].text :
           i < j => results[k].text[i] < results[k].text[j]
=============================================================================
