----------------------------- MODULE OptHistory -----------------------------
(***************************************************************************)
(* What the Opt page reads from the archive of option chains (opthist.py):  *)
(* the constant-shape series and the fan chart, over a set of archived rows *)
(* [date, exp, strike, right, bid, ask, last, delta] of one underlying.     *)
(* Deltas are hundredths without a sign; 0 is a value that is not there.    *)
(***************************************************************************)
EXTENDS Integers, Sequences, FiniteSets, FiniteSetsExt, SequencesExt

CONSTANTS MIN_DTE_TOL, MIN_STRIKE_TOL, DeltaTol,
          DEFAULT_BUCKETS,   (* half-open bands of delta, [lo, hi]           *)
          BandedBuckets,     (* the ones the archive has percentiles of      *)
          Shapes             (* [right, dte, delta, strike, dtePct, strikePct]: what is asked for *)

ASSUME HistoryAssumption ==
  /\ {MIN_DTE_TOL, MIN_STRIKE_TOL, DeltaTol} \subseteq Nat /\ DEFAULT_BUCKETS \in Seq(Nat \X Nat)
  /\ \A q \in Shapes :
       /\ q = [right |-> q.right, dte |-> q.dte, delta |-> q.delta, strike |-> q.strike,
               dtePct |-> q.dtePct, strikePct |-> q.strikePct]
       /\ {q.dte, q.delta, q.strike, q.dtePct, q.strikePct} \subseteq Nat

NONE == 0
Distance(a, b) == IF a < b THEN b - a ELSE a - b

TwoSided(r) == r.bid > 0 /\ r.ask >= r.bid
(* _mark: the middle of a two-sided quote, else the settlement, else none;   *)
(* twice over, with what it is.                                              *)
MarkOf(r) == IF TwoSided(r) THEN <<r.bid + r.ask, "mid">>
             ELSE IF r.last > 0 THEN <<2 * r.last, "settle">> ELSE <<0, "none">>

(* Mutant: a percentage replaces the flat window, whichever is wider.        *)
ResolveTolerances_NoFloor(dte, strike, dtePct, strikePct) ==
  [dte |-> IF dtePct > 0 THEN (dte * dtePct) \div 100 ELSE MIN_DTE_TOL,
   strike |-> Max({MIN_STRIKE_TOL, (strike * strikePct) \div 100})]

ResolveTolerances(dte, strike, dtePct, strikePct) ==
  [dte |-> Max({MIN_DTE_TOL, (dte * dtePct + 50) \div 100}),
   strike |-> Max({MIN_STRIKE_TOL, (strike * strikePct) \div 100})]

(* series_history: the rows near the shape, by delta where one is known and  *)
(* by strike elsewhere, and of every day the one that is nearest, both       *)
(* distances in units of their tolerance.                                    *)
Off(r, q) == IF q.delta > 0 THEN Distance(r.delta, q.delta) ELSE Distance(r.strike, q.strike)
Tol(q) == ResolveTolerances(q.dte, q.strike, q.dtePct, q.strikePct)
OffTol(q) == IF q.delta > 0 THEN DeltaTol ELSE Tol(q).strike
DteOff(r, q) == Distance(r.exp - r.date, q.dte)
Near(rows, q) ==
  {r \in rows : /\ r.right = q.right /\ (q.delta > 0 => r.delta > 0)
                /\ Off(r, q) <= OffTol(q) /\ DteOff(r, q) <= Tol(q).dte}
Score(r, q) ==
  LET d == Max({Tol(q).dte, 1})  n == OffTol(q)
  IN (DteOff(r, q) * n) * (DteOff(r, q) * n) + (Off(r, q) * d) * (Off(r, q) * d)
BestOf(S, q) == CHOOSE r \in S : \A x \in S : Score(r, q) <= Score(x, q)
Series(rows, q) ==
  LET near == Near(rows, q)
      On(d) == BestOf({r \in near : r.date = d}, q)
  IN {[row |-> On(d), mark |-> MarkOf(On(d))] : d \in {r.date : r \in near}}

(* history and fanchart: the days of one contract, the middle one of its     *)
(* deltas (the upper of two), and the band of contracts that live there.     *)
Life(rows, c) == {r \in rows : r.exp = c.exp /\ r.strike = c.strike /\ r.right = c.right}
DeltaAt(S, n) == CHOOSE r \in S : /\ Cardinality({x \in S : x.delta < r.delta}) <= n
                                  /\ Cardinality({x \in S : x.delta <= r.delta}) > n
BucketOf(rows, c) ==
  LET S == {r \in Life(rows, c) : r.delta > 0}
      med == DeltaAt(S, Cardinality(S) \div 2).delta
      fits == {i \in DOMAIN DEFAULT_BUCKETS : DEFAULT_BUCKETS[i][1] <= med /\ med < DEFAULT_BUCKETS[i][2]}
  IN IF S = {} \/ fits = {} THEN NONE ELSE CHOOSE i \in fits : \A j \in fits : i <= j
Fan(rows, c) ==
  IF Life(rows, c) = {} \/ \A r \in Life(rows, c) : r.delta = 0 THEN [available |-> FALSE]
  ELSE [available |-> TRUE,
        path |-> {<<r.exp - r.date, IF TwoSided(r) THEN r.ask - r.bid ELSE NONE>> : r \in Life(rows, c)},
        bucket |-> BucketOf(rows, c), band |-> BucketOf(rows, c) \in BandedBuckets]

-----------------------------------------------------------------------------
(* Grace only adds: whatever percentages the user sets, the series keeps     *)
(* every day the flat windows would have found, and each of its points is    *)
(* as near in shape as the best of the flat ones, in the units in use.       *)
GraceOnlyAdds(rows) ==
  \A q \in Shapes :
    LET flat == [q EXCEPT !.dtePct = 0, !.strikePct = 0]
        graced == Series(rows, q)
    IN \A old \in Series(rows, flat) :
         \E p \in graced : p.row.date = old.row.date /\ Score(p.row, q) <= Score(old.row, q)

(* A fan is drawn over contracts like this one: the band is one the contract *)
(* was in on some day of its life.                                           *)
FanIsOfItsKind(rows) ==
  \A c \in rows :
    LET f == Fan(rows, c)
    IN f.available /\ f.bucket # NONE =>
         \E r \in Life(rows, c) : LET b == DEFAULT_BUCKETS[f.bucket] IN b[1] <= r.delta /\ r.delta < b[2]
=============================================================================
