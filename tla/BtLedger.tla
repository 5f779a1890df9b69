------------------------------ MODULE BtLedger ------------------------------
(***************************************************************************)
(* The backtest loop (bt/engine.py) and the positions it keeps             *)
(* (bt/portfolio.py).  A trading day is: exit rules, expirations, entries, *)
(* settlement; each visit of a position and each entry is a step.  What a  *)
(* rule says is left open (a rule may name any market state), what it      *)
(* makes the engine do is not.  One contract per expiration stands for the *)
(* strikes and rights, so its intrinsic value is a number of the day.      *)
(***************************************************************************)
EXTENDS Integers, Sequences, SequencesExt

CONSTANTS
  TradingDays,  (* the days of the options store, in order                   *)
  Strategies,   (* [legs, exits, closeAtExpiry, reentry, limit]; legs is a   *)
                (* sequence of [side, tenor]                                 *)
  Marks,        (* what a contract is quoted at on a day; 0: no live mark    *)
  Intrinsics,   (* what exercising a contract brings on a day                *)
  Capital, MULT, OpenFee, SellFee, ClearFee, AssignFee, Slip, Strike,
  Sizes,        (* the contracts a sizing rule may ask for                   *)
  MaxActive, MaxNew, LimitPct

Unlisted == -1   (* no row of the contract on that day                       *)
NoSpot   == -1   (* the chain gives no spot, and none was seen before        *)

ASSUME LedgerAssumption ==
  /\ TradingDays \in Seq(Nat)
  /\ \A i \in 1 .. Len(TradingDays) - 1 : TradingDays[i] < TradingDays[i + 1]
  /\ \A s \in Strategies : s.legs \in Seq([side : {-1, 1}, tenor : Nat]) \ {<<>>}
  /\ Marks \cup Intrinsics \cup Sizes \subseteq Nat
  /\ {MULT, Capital, OpenFee, SellFee, ClearFee, AssignFee, Slip, Strike, LimitPct} \subseteq Nat

Exps == UNION {{d + l.tenor : l \in ToSet(s.legs)} : d \in ToSet(TradingDays), s \in Strategies}

VARIABLES
  strat,     (* the strategy that is tested                                  *)
  day,       (* index into TradingDays                                       *)
  step,      (* where in the day the loop is                                 *)
  todo,      (* the positions the current pass has yet to visit              *)
  kept,      (* still_open of the pass                                       *)
  cash, realized, trades, nextId,
  quote,     (* quote[exp]: today's chain                                    *)
  spot,      (* today's intrinsic value, carried forward when there is none  *)
  closedToday, openedToday

ledgerVars == <<strat, day, step, todo, kept, cash, realized, trades, nextId, quote, spot,
                closedToday, openedToday>>

Date == TradingDays[day]
OpenPositions == kept \o todo
SumOf(numbers) ==
  LET sum[n \in 0 .. Len(numbers)] == IF n = 0 THEN 0 ELSE sum[n - 1] + numbers[n]
  IN  sum[Len(numbers)]
Total(Value(_), items) == SumOf([i \in DOMAIN items |-> Value(items[i])])
Earliest(S) == CHOOSE x \in S : \A y \in S : x <= y

-----------------------------------------------------------------------------
(* Holdings and positions.                                                   *)

Intrinsic(h) == IF spot = NoSpot THEN 0 ELSE spot
Mark(h) == h.qty * (IF quote[h.exp] > 0 THEN quote[h.exp] ELSE Intrinsic(h))
MarketValue(p) == Total(Mark, p.holdings)
FirstExp(p) == Earliest({p.holdings[i].exp : i \in DOMAIN p.holdings})

Premium(p) == IF p.openMv < 0 THEN -p.openMv ELSE p.openMv
Naked(p) == \E e \in Exps : Total(LAMBDA h : IF h.exp = e THEN h.qty ELSE 0, p.holdings) < 0
Shorts(p) == Total(LAMBDA h : IF h.qty < 0 THEN -h.qty ELSE 0, p.holdings)
BuyingPower(p) == (* one strike: no width, so a premium or a fifth of the strike *)
  p.contracts * MULT * (IF Naked(p) THEN (Shorts(p) * Strike) \div 5 ELSE Premium(p))

NetLiq == cash + Total(LAMBDA p : MarketValue(p) * p.contracts * MULT, OpenPositions)

(* A buyer pays half the spread and a seller gives it up; nothing is filled  *)
(* below zero.                                                               *)
FillPrice(exp, selling) ==
  LET px == quote[exp] + (IF selling THEN -Slip ELSE Slip) IN IF px < 0 \/ quote[exp] = 0 THEN 0 ELSE px

OptionFee(qty, opening, selling) ==
  qty * (ClearFee + (IF opening THEN OpenFee ELSE 0) + (IF selling THEN SellFee ELSE 0))

Abs(n) == IF n < 0 THEN -n ELSE n

-----------------------------------------------------------------------------
LedgerInit ==
  /\ strat \in Strategies
  /\ day = 0 /\ step = "settled" /\ todo = <<>> /\ kept = <<>>
  /\ cash = Capital /\ realized = 0 /\ trades = {} /\ nextId = 1
  /\ quote = [e \in Exps |-> Unlisted] /\ spot = NoSpot
  /\ closedToday = FALSE /\ openedToday = 0

(* The day's chain and context are read, and the exit rules are next.  The   *)
(* chain is drawn where the day can look: a listed contract that is neither  *)
(* held nor up for selection changes nothing.                                *)
InSight == {h.exp : h \in UNION {ToSet(p.holdings) : p \in ToSet(kept)}}
             \cup {Date' + l.tenor : l \in ToSet(strat.legs)}
NewDay ==
  /\ step = "settled" /\ day < Len(TradingDays)
  /\ day' = day + 1
  /\ \E q \in [{e \in InSight : e >= Date'} -> Marks \cup {Unlisted}], seen \in Intrinsics \cup {NoSpot} :
       /\ quote' = [e \in Exps |-> IF e \in DOMAIN q THEN q[e] ELSE Unlisted]
       /\ spot' = IF seen = NoSpot THEN spot ELSE seen
  /\ step' = "exits" /\ todo' = kept /\ kept' = <<>>
  /\ UNCHANGED <<strat, cash, realized, trades, nextId, closedToday, openedToday>>

Keep(p) == /\ kept' = Append(kept, p) /\ todo' = Tail(todo)
           /\ UNCHANGED <<strat, day, step, realized, trades, nextId, quote, spot, closedToday, openedToday>>

(* _record: the trade's profit is what its legs brought less every fee.      *)
Record(p, mv, flow, fees) ==
  LET pnl == (mv - p.openMv) * p.contracts * MULT - (p.fees + fees)
  IN /\ cash' = cash + flow
     /\ realized' = realized + pnl
     /\ trades' = trades \cup {p.id}
     /\ kept' = kept /\ todo' = Tail(todo) /\ closedToday' = TRUE
     /\ UNCHANGED <<strat, day, step, nextId, quote, spot, openedToday>>

(* _close: each leg at its fill, or at its intrinsic value when the chain    *)
(* has no such contract.                                                     *)
ClosePx(h) == IF quote[h.exp] # Unlisted THEN FillPrice(h.exp, h.qty > 0) ELSE Intrinsic(h)
CloseFee(p, h) == OptionFee(Abs(h.qty) * p.contracts, FALSE, h.qty > 0)
Close(p) ==
  LET mv == Total(LAMBDA h : h.qty * ClosePx(h), p.holdings)
      fees == Total(LAMBDA h : CloseFee(p, h), p.holdings)
  IN Record(p, mv, mv * p.contracts * MULT - fees, fees)

VisitExit ==
  /\ step = "exits" /\ todo # <<>>
  /\ \/ Keep(Head(todo)) /\ cash' = cash
     \/ strat.exits /\ Close(Head(todo))

(* Mutant: the premium of a settled leg stays in the books of the position.  *)
Residue_KeepsPremium(p, remaining, mv, fees) == [p EXCEPT !.holdings = remaining, !.fees = @ + fees]

(* What is left of a position whose near legs have been settled.             *)
Residue(p, remaining, mv, fees) ==
  [p EXCEPT !.holdings = remaining, !.openMv = @ - mv, !.fees = @ + fees]

(* The holdings with one of these expirations, in their order.               *)
Expiring(holdings, exps) ==
  LET some[n \in 0 .. Len(holdings)] ==
        IF n = 0 THEN <<>>
        ELSE IF holdings[n].exp \in exps THEN Append(some[n - 1], holdings[n]) ELSE some[n - 1]
  IN  some[Len(holdings)]

(* _settle_expiry: intrinsic value changes hands, with a fee for exercise.   *)
AssignmentFee(p, h) == IF Intrinsic(h) > 0 THEN AssignFee * Abs(h.qty) * p.contracts ELSE 0
SettleExpiry(p) ==
  LET expiring == Expiring(p.holdings, {e \in Exps : e <= Date})
      remaining == Expiring(p.holdings, {e \in Exps : e > Date})
      mv == Total(LAMBDA h : h.qty * Intrinsic(h), expiring)
      fees == Total(LAMBDA h : AssignmentFee(p, h), expiring)
      flow == mv * p.contracts * MULT - fees
  IN IF remaining = <<>> THEN Record(p, mv, flow, fees)
     ELSE Keep(Residue(p, remaining, mv, fees)) /\ cash' = cash + flow

(* Mutant: only a contract that expires today is settled, so one whose       *)
(* expiration was no trading day never is.                                   *)
VisitExpiry_SameDay ==
  /\ step = "expiry" /\ todo # <<>>
  /\ LET p == Head(todo)
     IN IF FirstExp(p) # Date THEN Keep(p) /\ cash' = cash
        ELSE IF strat.closeAtExpiry THEN Close(p) ELSE SettleExpiry(p)

VisitExpiry ==
  /\ step = "expiry" /\ todo # <<>>
  /\ LET p == Head(todo)
     IN IF FirstExp(p) > Date THEN Keep(p) /\ cash' = cash
        ELSE IF strat.closeAtExpiry THEN Close(p) ELSE SettleExpiry(p)

PassEnds ==
  /\ step \in {"exits", "expiry"} /\ todo = <<>>
  /\ IF step = "exits" THEN step' = "expiry" /\ todo' = kept /\ kept' = <<>>
     ELSE step' = "entries" /\ UNCHANGED <<todo, kept>>
  /\ UNCHANGED <<strat, day, cash, realized, trades, nextId, quote, spot, closedToday, openedToday>>

-----------------------------------------------------------------------------
(* Entries.  _entry_allowed: the book is not full; a calendar that forbids   *)
(* the day is one of the refusals of EntriesEnd.                             *)
EntryAllowed ==
  /\ Len(kept) < MaxActive
  /\ openedToday < MaxNew
  /\ closedToday => strat.reentry

(* Mutant: the portfolio variables are computed once a day.                  *)
BpUsed_Stale == Total(LAMBDA p : IF p.opened = Date THEN 0 ELSE BuyingPower(p), kept)

BpUsed == Total(BuyingPower, kept)
WithinLimit(p) == strat.limit => BpUsed * 100 + BuyingPower(p) * 100 <= LimitPct * NetLiq

OpenPx(leg) == FillPrice(Date + leg.tenor, leg.side < 0)
Opened(n) ==
  LET legs == strat.legs
  IN [id |-> nextId, opened |-> Date, contracts |-> n,
      holdings |-> [i \in DOMAIN legs |-> [exp |-> Date + legs[i].tenor, qty |-> legs[i].side]],
      openMv |-> Total(LAMBDA l : l.side * OpenPx(l), legs),
      fees |-> Total(LAMBDA l : OptionFee(n, TRUE, l.side < 0), legs)]

(* _open: every leg is listed and has a price, and the limit leaves room.    *)
Enter(n) ==
  /\ step = "entries" /\ EntryAllowed
  /\ \A i \in DOMAIN strat.legs : quote[Date + strat.legs[i].tenor] # Unlisted /\ OpenPx(strat.legs[i]) > 0
  /\ WithinLimit(Opened(n))
  /\ kept' = Append(kept, Opened(n))
  /\ cash' = cash - Opened(n).openMv * n * MULT - Opened(n).fees
  /\ nextId' = nextId + 1 /\ openedToday' = openedToday + 1
  /\ UNCHANGED <<strat, day, step, todo, realized, trades, quote, spot, closedToday>>

(* The loop stops at the first refusal: the book is full, a rule says no, a  *)
(* leg is not to be had, the size is zero, an exit is already met.           *)
EntriesEnd ==
  /\ step = "entries" /\ step' = "settled"
  /\ quote' = [e \in Exps |-> Unlisted] /\ closedToday' = FALSE /\ openedToday' = 0
  /\ UNCHANGED <<strat, day, todo, kept, cash, realized, trades, nextId, spot>>

LedgerNext ==
  \/ NewDay \/ VisitExit \/ VisitExpiry \/ PassEnds \/ EntriesEnd
  \/ \E n \in Sizes : Enter(n)

LedgerSpec == LedgerInit /\ [][LedgerNext]_ledgerVars

LedgerTypeOK ==
  /\ day \in 0 .. Len(TradingDays) /\ step \in {"settled", "exits", "expiry", "entries"}
  /\ todo # <<>> => step \in {"exits", "expiry"}
  /\ \A i \in DOMAIN OpenPositions : OpenPositions[i].holdings # <<>> /\ OpenPositions[i].contracts \in Sizes

-----------------------------------------------------------------------------
(* What an open position has cost so far, its fees included.                 *)
Cost(p) == p.openMv * p.contracts * MULT + p.fees

(* The books balance at every step of the day: the cash is the capital, what *)
(* closed trades made, and what the open positions cost to open with their   *)
(* fees so far.  So a day's total profit is the realised and the open one.   *)
BooksBalance ==
  cash = Capital + realized - Total(Cost, OpenPositions)

(* Every position that was opened is open or is one trade, never both and    *)
(* never neither; and when a day is settled nothing is open that has expired *)
(* by then, whether or not the expiration was a trading day.                 *)
EveryPositionSettles ==
  /\ {OpenPositions[i].id : i \in DOMAIN OpenPositions} \cup trades = 1 .. nextId - 1
  /\ \A i \in DOMAIN OpenPositions : OpenPositions[i].id \notin trades
  /\ step \in {"entries", "settled"} =>
       \A i \in DOMAIN OpenPositions : OpenPositions[i].opened < Date => FirstExp(OpenPositions[i]) > Date

(* The books and the positions agree at every step of the loop.              *)
LedgerIsSound == LedgerTypeOK /\ BooksBalance /\ EveryPositionSettles

(* The book never grows past the buying power the strategy allows, entries   *)
(* of the same day included.                                                 *)
LimitIsKept ==
  [][ nextId' # nextId /\ strat.limit =>
        100 * Total(BuyingPower, kept') <= LimitPct * NetLiq ]_ledgerVars
=============================================================================
