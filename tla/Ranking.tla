--------------------------------- MODULE Ranking -------------------------------
(***************************************************************************)
(* rank_entities (calculations/ranking.py): every criterion gives a row a  *)
(* percentile among the rows that have its metric, ties share the average  *)
(* rank, and the composite is the weighted mean of the percentiles.        *)
(*                                                                         *)
(* A row is [id, values], values a partial function from metrics to        *)
(* numbers; a criterion is [metric, higher, weight].  IDs are numbers, in  *)
(* the order of the strings they stand for.                                *)
(***************************************************************************)
EXTENDS Rationals, Sequences, SequencesExt, FiniteSetsExt

Has(row, c)     == c.metric \in DOMAIN row.values
ValueOf(row, c) == row.values[c.metric]
Better(c, x, y) == IF c.higher THEN x > y ELSE x < y

\* _rows, _criteria and the top_n check: what raises ValueError.
RefusesRanking(rows, criteria, topN) ==
  \/ rows = <<>> \/ criteria = <<>> \/ topN < 1
  \/ ~IsInjective([i \in DOMAIN rows |-> rows[i].id])
  \/ ~IsInjective([i \in DOMAIN criteria |-> criteria[i].metric])
  \/ \E i \in DOMAIN criteria : criteria[i].weight < 0
  \/ \A i \in DOMAIN criteria : criteria[i].weight = 0

Complete(row, criteria) == \A i \in DOMAIN criteria : Has(row, criteria[i])
Eligible(rows, criteria, policy) ==
  SelectSeq(rows, LAMBDA r : policy = "exclude" => Complete(r, criteria))

\* _percentile_scores: sorted best first, a group of equal values takes the
\* average of the ranks it occupies; a single value scores 100.
\* Mutant: ties share the best of their ranks.
AverageRankTwice_Best(ordered, c, id) ==
  LET at == CHOOSE i \in DOMAIN ordered : ordered[i].id = id
  IN  2 * Min({i \in DOMAIN ordered : ValueOf(ordered[i], c) = ValueOf(ordered[at], c)})

AverageRankTwice(ordered, c, id) ==
  LET at    == CHOOSE i \in DOMAIN ordered : ordered[i].id = id
      group == {i \in DOMAIN ordered : ValueOf(ordered[i], c) = ValueOf(ordered[at], c)}
  IN  Min(group) + Max(group)

Percentile(observed, c, id) ==
  LET ordered == SortSeq(observed, LAMBDA a, b : Better(c, ValueOf(a, c), ValueOf(b, c)))
      count   == Len(observed)
  IN  IF count = 1 THEN Whole(100)
      ELSE Rat(100 * (2 * count - AverageRankTwice(ordered, c, id)), 2 * (count - 1))

Score(eligible, c, policy, row) ==
  IF Has(row, c) THEN Percentile(SelectSeq(eligible, LAMBDA r : Has(r, c)), c, row.id)
  ELSE IF policy = "worst" THEN Whole(0) ELSE Whole(50)

WeightSum(criteria) == FoldLeft(LAMBDA s, c : s + c.weight, 0, criteria)

Composite(eligible, criteria, policy, row) ==
  FoldLeft(LAMBDA s, c : Add(s, Mul(Score(eligible, c, policy, row),
                                    Rat(c.weight, WeightSum(criteria)))),
           Whole(0), criteria)

\* The rounded composite decides, the ID breaks ties.
RankEntities(rows, criteria, policy, topN, scale) ==
  LET eligible == Eligible(rows, criteria, policy)
      scored   == [i \in DOMAIN eligible |->
                     [id |-> eligible[i].id,
                      score |-> RoundHalfEven(Composite(eligible, criteria, policy, eligible[i]), scale)]]
      ranked   == SortSeq(scored, LAMBDA a, b : a.score > b.score \/ (a.score = b.score /\ a.id < b.id))
  IN  SubSeq(ranked, 1, Min({topN, Len(ranked)}))

--------------------------------------------------------------------------------
(* Reference definitions.                                                       *)

\* The percentile as statistics books have it: the rows that are worse, and half
\* of those that are equal, out of the others.
MidRank(observed, c, row) ==
  LET others == {r \in ToSet(observed) : r.id # row.id}
      worse  == {r \in others : Better(c, ValueOf(row, c), ValueOf(r, c))}
      equal  == {r \in others : ValueOf(row, c) = ValueOf(r, c)}
  IN  Rat(100 * (2 * Cardinality(worse) + Cardinality(equal)), 2 * Cardinality(others))

AtLeastAsGood(criteria, a, b) ==
  \A i \in DOMAIN criteria : LET c == criteria[i]
                             IN  Has(a, c) /\ Has(b, c) /\ ~Better(c, ValueOf(b, c), ValueOf(a, c))

\* A percentile is the mid-rank; a row that is nowhere worse than another scores no
\* less and, with the lower ID, comes first; the ranking does not depend on the
\* order of the rows, and top_n cuts it off without changing it; no policy excludes
\* a row with all metrics.
RankingSound(rows, criteria, policy, topN, scale) ==
  LET eligible == Eligible(rows, criteria, policy)
      full     == RankEntities(rows, criteria, policy, Len(rows), scale)
      place(r) == CHOOSE i \in DOMAIN full : full[i].id = r.id
  IN  RefusesRanking(rows, criteria, topN)
      \/ /\ \A i \in DOMAIN criteria :
              LET c        == criteria[i]
                  observed == SelectSeq(eligible, LAMBDA r : Has(r, c))
              IN  \A r \in ToSet(observed) :
                    Len(observed) > 1 => Equals(Percentile(observed, c, r.id), MidRank(observed, c, r))
         /\ \A a, b \in ToSet(eligible) :
              a # b /\ AtLeastAsGood(criteria, a, b) =>
                /\ full[place(a)].score >= full[place(b)].score
                /\ a.id < b.id => place(a) < place(b)
         /\ RankEntities(Reverse(rows), criteria, policy, Len(rows), scale) = full
         /\ RankEntities(rows, criteria, policy, topN, scale) = SubSeq(full, 1, Min({topN, Len(full)}))
         /\ \A i \in DOMAIN rows : Complete(rows[i], criteria) => rows[i] \in ToSet(eligible)
================================================================================
