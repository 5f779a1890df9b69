---------------------------- MODULE BtStructure ----------------------------
(***************************************************************************)
(* How a backtest turns legs into contracts (bt/selection.py), what the    *)
(* structure can lose (bt/portfolio.py) and how many of it are traded      *)
(* (bt/engine.py _size).  Pure: `order` is one request, answered at once.  *)
(* Strikes, prices and deltas are whole numbers.                           *)
(***************************************************************************)
EXTENDS Integers, Sequences, FiniteSets, SequencesExt, FiniteSetsExt, Orders

CONSTANTS
  Listed,   (* the contracts of a day                                        *)
  Spot,
  LegLists, (* the legs of strategies, as LegSpec.from_dict leaves them      *)
  Sizings,
  NetLiqs

Unset == -1   (* None *)
Contracts == [dte : Nat, right : {"C", "P"}, strike : Nat, mark : Nat, delta : Nat]
Selectors == {"delta", "premium", "strike", "atm", "otm_pct", "strike_of", "offset", "width"}
LegSpec ==
  [side : {-1, 1}, ratio : Int, right : {"C", "P"}, selector : Selectors, target : Int, anchor : Nat,
   dte : Nat \cup {Unset}, dteMin : Nat \cup {Unset}, dteMax : Nat \cup {Unset}, tie : {"longer", "shorter"},
   expirationOf : Nat, round : {"nearest", "up", "down"}, requireQuote : BOOLEAN]
SizingSpec ==
  [mode : {"fixed", "bp_fraction", "risk_fraction", "notional"}, n : Int, pct : Nat, factor : Nat,
   least : Nat, most : Nat]

(* An expiry keeps its contracts by right and strike (data.py side).         *)
ASSUME StructureAssumption ==
  /\ IsFiniteSet(Listed) /\ Listed \subseteq Contracts /\ Spot \in Nat
  /\ \A c, d \in Listed : c.dte = d.dte /\ c.right = d.right /\ c.strike = d.strike => c = d
  /\ \A legs \in LegLists : legs \in Seq(LegSpec)
  /\ Sizings \subseteq SizingSpec /\ NetLiqs \subseteq Int

VARIABLE order  (* [legs, live, sizing, netLiq]; live: contracts with a bid  *)

NoContract == [dte |-> Unset, right |-> "none", strike |-> 0, mark |-> 0, delta |-> 0]
Refused == <<NoContract>>   (* SelectionError                                *)

Dist(a, b) == IF a < b THEN b - a ELSE a - b

-----------------------------------------------------------------------------
(* pick_expiry: another leg's, the first of a window, or the nearest to the  *)
(* target, the longer of two unless the leg says otherwise.                  *)
Expirations == {c.dte : c \in Listed}
InWindow(leg) ==
  {e \in Expirations : (leg.dteMin = Unset \/ leg.dteMin <= e) /\ (leg.dteMax = Unset \/ e <= leg.dteMax)}
Bounded(leg) == leg.dteMin # Unset \/ leg.dteMax # Unset
PickExpiry(leg, chosen) ==
  IF leg.expirationOf # 0
  THEN IF leg.expirationOf \in DOMAIN chosen THEN chosen[leg.expirationOf].dte ELSE Unset
  ELSE LET window == InWindow(leg)
           near == {e \in window : \A f \in window : Dist(e, leg.dte) <= Dist(f, leg.dte)}
       IN IF window = {} \/ (leg.dte = Unset /\ ~Bounded(leg)) THEN Unset
          ELSE IF leg.dte = Unset THEN Min(window)
          ELSE IF leg.tie = "longer" THEN Max(near) ELSE Min(near)

(* _candidates: the live ones of that side; without any the ones with a      *)
(* mark; without those all.                                                  *)
Side(leg, exp) == {c \in Listed : c.dte = exp /\ c.right = leg.right}
Candidates(leg, exp) ==
  LET usable == {c \in Side(leg, exp) : leg.requireQuote => c \in order.live}
      marked == {c \in Side(leg, exp) : c.mark > 0}
  IN IF usable # {} THEN usable ELSE IF marked # {} THEN marked ELSE Side(leg, exp)

(* _nearest, by what a contract has: on the side the leg rounds to if there  *)
(* is any, and the lower strike of two.                                      *)
Strikes == [c \in Listed |-> c.strike]
Deltas == [c \in Listed |-> c.delta]
Premiums == [c \in Listed |-> c.mark]
Nearest(S, of, target, round) ==
  LET side == CASE round = "up" -> {c \in S : of[c] >= target}
                [] round = "down" -> {c \in S : of[c] <= target}
                [] OTHER -> S
      pool == IF side # {} THEN side ELSE S
      near == {c \in pool : \A d \in pool : Dist(of[c], target) <= Dist(of[d], target)}
  IN CHOOSE c \in near : \A d \in near : c.strike <= d.strike

(* Away from the money, by so much.                                          *)
Outward(leg) == IF leg.right = "P" THEN -1 ELSE 1
Out(leg) == Outward(leg) * Dist(leg.target, 0)

(* pick_strike.  A leg is measured from one before it, by its place, or from *)
(* the last one when it names none.                                          *)
Prev == 0
Anchor(leg, chosen) == IF leg.anchor = Prev THEN Last(chosen) ELSE chosen[leg.anchor]
PickStrike(leg, exp, chosen) ==
  LET S == Candidates(leg, exp)
      known == {c \in S : c.delta # 0}
      At(strike) == Nearest(S, Strikes, strike, leg.round)
  IN CASE leg.selector = "delta" ->
            Nearest(IF known # {} THEN known ELSE S, Deltas, Dist(leg.target, 0), leg.round)
       [] leg.selector = "premium" -> Nearest(S, Premiums, leg.target, leg.round)
       [] leg.selector = "strike" -> At(leg.target)
       [] leg.selector = "atm" -> At(Spot + leg.target)
       [] leg.selector = "otm_pct" -> At(Spot + Out(leg))
       [] leg.selector = "strike_of" -> At(Anchor(leg, chosen).strike)
       [] leg.selector = "offset" -> At(Anchor(leg, chosen).strike + leg.target)
       [] leg.selector = "width" -> At(Anchor(leg, chosen).strike + Out(leg))

Anchored(leg, chosen) ==
  leg.selector \in {"offset", "width", "strike_of"} =>
    IF leg.anchor = Prev THEN chosen # <<>> ELSE leg.anchor \in DOMAIN chosen

Resolve(chosen, leg) ==
  LET exp == PickExpiry(leg, chosen)
  IN IF chosen = Refused \/ Side(leg, exp) = {} \/ ~Anchored(leg, chosen) THEN Refused
     ELSE Append(chosen, PickStrike(leg, exp, chosen))

(* build_structure: legs in order, and no two on one contract.               *)
Places == DOMAIN order.legs
Resolved ==
  LET upTo[n \in 0 .. Len(order.legs)] == IF n = 0 THEN <<>> ELSE Resolve(upTo[n - 1], order.legs[n])
  IN upTo[Len(order.legs)]
BuildStructure == IF IsInjective(Resolved) THEN Resolved ELSE Refused

-----------------------------------------------------------------------------
(* What it costs and can lose, for one unit.                                 *)
Signed(i) == order.legs[i].ratio * order.legs[i].side
OpenMv(cs) == TotalOf([i \in Places |-> Signed(i) * cs[i].mark])
Keys(cs) == {<<cs[i].right, cs[i].dte>> : i \in Places}
On(cs, key) == {i \in Places : <<cs[i].right, cs[i].dte>> = key}
NakedSide(cs, key) == TotalOf([i \in On(cs, key) |-> Signed(i)]) < 0
Unbalanced(cs) == \E key \in Keys(cs) : NakedSide(cs, key)
Spread(cs, key) == Max({cs[i].strike : i \in On(cs, key)}) - Min({cs[i].strike : i \in On(cs, key)})
Width(cs) == Max({Spread(cs, key) : key \in Keys(cs)})
Undefined == -1   (* infinity *)

(* Mutant: the premium received is not set against the width.                *)
MaxLoss_Width(cs) == IF Unbalanced(cs) THEN Undefined ELSE Width(cs)

MaxLoss(cs) ==
  IF Unbalanced(cs) THEN Undefined
  ELSE IF Width(cs) = 0 THEN -Min({OpenMv(cs), 0}) ELSE Max({Width(cs) + OpenMv(cs), 0})

BuyingPowerOf(cs) == (* per unit; a fifth of the strikes when a short is naked *)
  IF Unbalanced(cs)
  THEN TotalOf([i \in Places |-> IF Signed(i) < 0 THEN -Signed(i) * cs[i].strike ELSE 0]) \div 5
  ELSE IF Width(cs) > 0 /\ OpenMv(cs) < 0 THEN Width(cs) ELSE Dist(OpenMv(cs), 0)

(* _size: the base of the mode, then a scale rule, which may shrink a trade  *)
(* but not cancel it, then the bounds.                                       *)
PerUnit(cs) ==
  CASE order.sizing.mode = "bp_fraction" -> BuyingPowerOf(cs)
    [] order.sizing.mode = "risk_fraction" -> MaxLoss(cs)
    [] OTHER -> Dist(OpenMv(cs), 0)
Base(cs) == IF order.sizing.mode = "fixed" THEN order.sizing.n
            ELSE IF PerUnit(cs) <= 0 THEN 0 ELSE ((order.netLiq * order.sizing.pct) \div 100) \div PerUnit(cs)
Size(cs) ==
  IF Base(cs) <= 0 THEN 0
  ELSE LET scaled == Max({(Base(cs) * order.sizing.factor) \div 100, 1})
       IN Max({order.sizing.least, Min({scaled, order.sizing.most})})

-----------------------------------------------------------------------------
Requests == [legs : LegLists, live : SUBSET Listed, sizing : Sizings, netLiq : NetLiqs]
StructureInit == order \in Requests
StructureNext == order' \in {[order EXCEPT !.live = Listed]} (* every quote comes alive *)

(* The reference: what the legs are worth if all are held to an expiration   *)
(* at every price the underlying can have, between and outside the strikes.  *)
Payoff(c, price) ==
  IF c.right = "C" THEN Max({price - c.strike, 0}) ELSE Max({c.strike - price, 0})
Worth(cs, price) == TotalOf([i \in Places |-> Signed(i) * Payoff(cs[i], price)])
Prices == 0 .. 2 * Max({c.strike : c \in Listed})
WorstCase(cs) == OpenMv(cs) - Min({Worth(cs, price) : price \in Prices})

(* The leg after i is the wing that is bought a width away from the one sold *)
(* at i, on the expiration that one is asked for.                            *)
SameExpiry(leg, wing, i) ==
  \/ wing.expirationOf = i
  \/ /\ wing.expirationOf = leg.expirationOf /\ wing.dte = leg.dte /\ wing.tie = leg.tie
     /\ wing.dteMin = leg.dteMin /\ wing.dteMax = leg.dteMax
Vertical(i) ==
  /\ {i, i + 1} \subseteq Places
  /\ LET leg == order.legs[i]  wing == order.legs[i + 1]
     IN /\ leg.side = -1 /\ wing.side = 1 /\ leg.ratio = 1 /\ wing.ratio = 1
        /\ wing.right = leg.right /\ wing.requireQuote = leg.requireQuote /\ SameExpiry(leg, wing, i)
        /\ wing.selector = "width" /\ wing.target # 0 /\ wing.anchor \in {Prev, i}

(* One vertical, or one on each side of the money for one expiration.        *)
Condor(cs) ==
  /\ Vertical(1) /\ Len(order.legs) = 4 /\ Vertical(3)
  /\ order.legs[1].right # order.legs[3].right /\ cs[1].dte = cs[3].dte
  /\ Outward(order.legs[3]) * (cs[3].strike - cs[1].strike) >= 0
SoldSpread(cs) == (Len(order.legs) = 2 /\ Vertical(1)) \/ Condor(cs)

(* A spread sold with a width is a spread: its wing is further out of the    *)
(* money than its short leg and on the same expiration, whatever quotes are  *)
(* dead that day; what a vertical or an iron condor is said to lose at most  *)
(* is what it loses at the worst price; and sized by risk it stays within    *)
(* the share of the account it was given.                                    *)
WingsAreOutside(cs) ==
  \A i \in Places : Vertical(i) =>
    Outward(order.legs[i]) * (cs[i + 1].strike - cs[i].strike) > 0 /\ cs[i + 1].dte = cs[i].dte
SizedByRisk == order.sizing.mode = "risk_fraction" /\ order.sizing.factor <= 100 /\ order.sizing.least = 0
SoldSpreadIsDefinedRisk ==
  LET cs == BuildStructure
  IN cs # Refused =>
       /\ WingsAreOutside(cs)
       /\ SoldSpread(cs) => MaxLoss(cs) = Max({WorstCase(cs), 0})
       /\ SoldSpread(cs) /\ SizedByRisk =>
            Size(cs) = 0 \/ 100 * Size(cs) * WorstCase(cs) <= order.netLiq * order.sizing.pct
=============================================================================
