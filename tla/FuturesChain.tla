---------------------------- MODULE FuturesChain ----------------------------
(***************************************************************************)
(* A futures-option window as the live page gets it: which listing stands   *)
(* for an expiration and which contracts fit the budget of rows (options.py *)
(* futures_contracts), and which of them get a greek of their own           *)
(* (greeks.py).  What the Black-76 solver returns for a mark is left out.   *)
(***************************************************************************)
EXTENDS Orders, SequencesExt, FiniteSetsExt

CONSTANTS
  Listings,     (* sets of [exp, under, strikes]: what chains may list        *)
  FutureExps,   (* [under -> expiration]; a future that is not there: unknown *)
  StrikeLo, StrikeHi, MAX_ROWS,
  NEAREST,      (* how many pairs the forward is taken from: nine in the code *)
  Ladders       (* sequences of [call, put]: the marks at strikes 10 apart    *)

(* Expirations and strikes are numbers, marks are none (zero) or positive.   *)
ASSUME ListingsAssumption ==
  /\ IsFiniteSet(Listings) /\ \A l \in Listings : l.exp \in Nat
  /\ StrikeLo \in Nat /\ StrikeHi \in Nat /\ MAX_ROWS \in Nat
ASSUME LaddersAssumption ==
  /\ \A l \in Ladders : l \in Seq([{"call", "put"} -> Nat])
  /\ NEAREST \in Nat /\ NEAREST >= 3

VARIABLE page   (* [chain, ladder]: the nested chain and one expiration       *)

-----------------------------------------------------------------------------
(* pairing_rank: the nearest future that lives as long as the option, then   *)
(* an earlier one, then one the chain does not name.                         *)
PairingRank(l) ==
  IF l.under \notin DOMAIN FutureExps THEN 200
  ELSE FutureExps[l.under] + IF FutureExps[l.under] >= l.exp THEN 0 ELSE 100
BestForDate(chain, e) ==
  CHOOSE l \in {x \in chain : x.exp = e} : \A x \in chain : x.exp = e => PairingRank(l) <= PairingRank(x)

Dates(chain) == {l.exp : l \in chain}
Wanted(chain) ==
  UNION {LET l == BestForDate(chain, e)
         IN [exp : {e}, strike : l.strikes \cap (StrikeLo .. StrikeHi), right : {"C", "P"}, under : {l.under}] :
         e \in Dates(chain)}

(* Sharing the budget: of every expiration the contract nearest the middle,  *)
(* then of every one the next, nearest expiration first.                     *)
FromMiddle(c) == LET d == 2 * c.strike - (StrikeLo + StrikeHi) IN IF d < 0 THEN -d ELSE d
Nearer(a, b) ==
  \/ FromMiddle(a) < FromMiddle(b)
  \/ FromMiddle(a) = FromMiddle(b) /\ a.strike < b.strike
  \/ FromMiddle(a) = FromMiddle(b) /\ a.strike = b.strike /\ a.right = "C" /\ b.right = "P"
Depth(S) == [c \in S |-> Cardinality({x \in S : x.exp = c.exp /\ Nearer(x, c)})]

Before(depth, a, b) == depth[a] < depth[b] \/ (depth[a] = depth[b] /\ a.exp < b.exp)
Picked(chain) ==
  LET S == Wanted(chain)  depth == Depth(S)
  IN {c \in S : Cardinality({x \in S : Before(depth, x, c)}) < MAX_ROWS}

-----------------------------------------------------------------------------
(* The ladder of one right: the strikes with a mark that anything can be     *)
(* priced from, and the ones next to one of them.                            *)
Marked(ladder, r) == {i \in DOMAIN ladder : ladder[i][r] > 0}
Inner(ladder, r) ==
  {i \in Marked(ladder, r) : \E j, k \in Marked(ladder, r) : j < i /\ i < k}
Below(ladder, r, i) == ladder[Max({j \in Marked(ladder, r) : j < i})][r]
Above(ladder, r, i) == ladder[Min({j \in Marked(ladder, r) : j > i})][r]

(* Mutant: a mark above either neighbour is a spike.                         *)
Spike_Either(ladder, r, i) ==
  4 * ladder[i][r] > 5 * Below(ladder, r, i) \/ 4 * ladder[i][r] > 5 * Above(ladder, r, i)

(* suspect_marks: only inside the ladder, and above both neighbours.         *)
Spike(ladder, r, i) ==
  4 * ladder[i][r] > 5 * Below(ladder, r, i) /\ 4 * ladder[i][r] > 5 * Above(ladder, r, i)
Suspects(ladder, r) == {i \in Inner(ladder, r) : Spike(ladder, r, i)}

(* forward_and_discount, from the pairs that have both marks: the discount   *)
(* is the median slope of call less put, the forward the median of what the  *)
(* pairs nearest the money imply.  Both are kept as quotients, and medians   *)
(* twice over.                                                               *)
Strike(i) == 100 + 10 * i
Pairs(ladder) == {i \in DOMAIN ladder : ladder[i].call > 0 /\ ladder[i].put > 0}
Gap(ladder, i) == ladder[i].call - ladder[i].put
Slope(ladder, i, j) == ((Gap(ladder, j) - Gap(ladder, i)) * 10) \div (j - i)
Slopes(ladder) ==
  LET p == InOrderOf(Pairs(ladder)) IN [n \in 1 .. Len(p) - 1 |-> Slope(ladder, p[n], p[n + 1])]
Discount(ladder) == (* in 200ths *)
  LET d == -TwiceMedian(Slopes(ladder)) IN IF d <= 0 THEN 200 ELSE d
Size(n) == IF n < 0 THEN -n ELSE n
AtMoney(ladder) ==
  CHOOSE i \in Pairs(ladder) : \A j \in Pairs(ladder) : Size(Gap(ladder, i)) <= Size(Gap(ladder, j))
NearPairs(ladder) ==
  LET m == AtMoney(ladder)
      Ahead(i) == {j \in Pairs(ladder) : Size(j - m) < Size(i - m) \/ (Size(j - m) = Size(i - m) /\ j < i)}
  IN {i \in Pairs(ladder) : Cardinality(Ahead(i)) < NEAREST}
Implied(ladder, i, d) == Strike(i) * d + 200 * Gap(ladder, i)
Forward(ladder) == (* twice, as <<numerator, denominator>> *)
  LET p == InOrderOf(NearPairs(ladder))  d == Discount(ladder)
  IN <<TwiceMedian([n \in DOMAIN p |-> Implied(ladder, p[n], d)]), d>>

(* solve_expiration and solve_chain: rows that came without a delta, have a  *)
(* mark and are no spike; by parity from three pairs on, else by the price   *)
(* of the future, else not at all.                                           *)
Clean(ladder) ==
  [i \in DOMAIN ladder |-> [r \in {"call", "put"} |-> IF i \in Suspects(ladder, r) THEN 0 ELSE ladder[i][r]]]
ByParity(ladder) == Cardinality(Pairs(Clean(ladder))) >= 3
Solved(ladder, future) ==
  IF ~ByParity(ladder) /\ future = 0 THEN {}
  ELSE {q \in (DOMAIN ladder) \X {"call", "put"} : Clean(ladder)[q[1]][q[2]] > 0}

-----------------------------------------------------------------------------
PageInit == page \in [chain : SUBSET Listings, ladder : Ladders]
(* One mark goes bad: it is printed at ten times what it was.                *)
PageNext ==
  \E i \in DOMAIN page.ladder, r \in {"call", "put"} :
    /\ \A j \in DOMAIN page.ladder : page.ladder[j] \in UNION {ToSet(l) : l \in Ladders}
    /\ page' = [page EXCEPT !.ladder[i][r] = @ * 10]

(* However many strikes the front lists, the far expirations are shown: no   *)
(* expiration lacks a contract in the window while another shows two more    *)
(* than it does; and each shows the ones nearest the middle.                 *)
FarMonthsAreShown ==
  LET S == Wanted(page.chain)  shown == Picked(page.chain)
      Of(T, e) == {c \in T : c.exp = e}
  IN /\ Cardinality(shown) = Min({MAX_ROWS, Cardinality(S)})
     /\ \A e, f \in Dates(page.chain) :
          Of(shown, e) # Of(S, e) => Cardinality(Of(shown, f)) <= Cardinality(Of(shown, e)) + 1
     /\ \A c \in shown, d \in S \ shown : c.exp = d.exp => Nearer(c, d)

(* A bad print costs itself and nothing else: of a ladder that was in order  *)
(* before, the mark that jumped is the only one that is set aside, unless it *)
(* stands at an end, and from four pairs on the forward is what it was.  In  *)
(* order is a ladder without arbitrage: calls fall and puts rise, neither by *)
(* more than a factor of eight at a time, and the call less the put falls as *)
(* evenly as the strikes rise.                                               *)
InOrder(ladder) ==
  /\ \A r \in {"call", "put"} : \A i, j \in Marked(ladder, r) :
       /\ i < j => IF r = "call" THEN ladder[i][r] >= ladder[j][r] ELSE ladder[i][r] <= ladder[j][r]
       /\ (\A k \in Marked(ladder, r) : k <= i \/ j <= k) /\ i < j =>
            ladder[i][r] < 8 * ladder[j][r] /\ ladder[j][r] < 8 * ladder[i][r]
  /\ \A i, j, k, l \in Pairs(ladder) : i < j /\ k < l =>
       Slope(ladder, i, j) < 0 /\ 10 * (Gap(ladder, l) - Gap(ladder, k)) = Slope(ladder, i, j) * (l - k)
CostsItself(ladder, bad, i, r) ==
  /\ Suspects(bad, r) = {i} \cap Inner(ladder, r)
  /\ Solved(bad, 1) = Solved(ladder, 1) \ (({i} \cap Inner(ladder, r)) \X {r})
  /\ (Cardinality(Pairs(Clean(bad))) >= 4 => Forward(Clean(bad)) = Forward(Clean(ladder)))
BadPrintIsContained ==
  [][ page' # page /\ InOrder(page.ladder) =>
        \A i \in DOMAIN page.ladder, r \in {"call", "put"} :
          page'.ladder[i][r] # page.ladder[i][r] => CostsItself(page.ladder, page'.ladder, i, r) ]_page

(* What the page shows of a window is a fair part of it, and one bad print   *)
(* of the feed moves no other contract on it.                                *)
PageIsFair == []FarMonthsAreShown /\ BadPrintIsContained
=============================================================================
