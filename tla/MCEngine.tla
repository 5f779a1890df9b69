------------------------------ MODULE MCEngine ------------------------------
(***************************************************************************)
(* The engine's loop and books, its prices, the structures it picks, its   *)
(* indicator series and its rules: each is a component of its own, and a   *)
(* behaviour is one of them.                                               *)
(***************************************************************************)
EXTENDS BtLedger, BtPrices, BtStructure, BtIndicators, BtRules, BtSweep

CONSTANTS
  Parts,  (* the components the run looks at *)
  Put     (* a word in a strategy file       *)
VARIABLE part
engineVars == <<part, ledgerVars, pricesVars, order, seriesVars, rulesVars, sweepVars>>

(* The loop: one leg or two of different tenors over a gap in the calendar.  *)
MCDays == <<1, 2, 4>>
MCLegs == {<<[side |-> -1, tenor |-> 1]>>,
           <<[side |-> -1, tenor |-> 1], [side |-> 1, tenor |-> 2]>>}
MCStrategies ==
  {[legs |-> l, exits |-> x, closeAtExpiry |-> c, reentry |-> x, limit |-> c] :
     l \in MCLegs, x \in BOOLEAN, c \in BOOLEAN}

(* The selection: puts, calls and a later expiration; the sold leg by delta, *)
(* premium, strike, money or distance, its wing by width, offset or strike.  *)
MCContract(d, r, k, m, dl) == [dte |-> d, right |-> r, strike |-> k, mark |-> m, delta |-> dl]
MCListed ==
  {MCContract(7, "P", 2, 1, 10), MCContract(7, "P", 4, 2, 20), MCContract(7, "P", 5, 3, 35),
   MCContract(7, "P", 8, 5, 0), MCContract(7, "C", 8, 4, 40), MCContract(7, "C", 11, 2, 20),
   MCContract(9, "P", 4, 3, 25)}
MCLeg(side, selector, target, right, anchor, dte) ==
  [side |-> side, ratio |-> 1, right |-> right, selector |-> selector, target |-> target,
   anchor |-> anchor, dte |-> dte, dteMin |-> Unset, dteMax |-> Unset, tie |-> "longer",
   expirationOf |-> 0, round |-> "nearest", requireQuote |-> TRUE]
MCLegLists ==
  {<<MCLeg(-1, "delta", d, "P", 0, e), [MCLeg(1, "width", w, "P", 0, e) EXCEPT !.round = r]>> :
     d \in {20, 35}, w \in {2, 3}, e \in {7, 8}, r \in {"nearest", "up", "down"}} \cup
  {<<[MCLeg(-1, "delta", 35, "P", 0, Unset) EXCEPT !.dteMin = m],
     [MCLeg(1, "width", 2, "P", 1, Unset) EXCEPT !.dteMin = m]>> : m \in {Unset, 5, 8, 10}} \cup
  {<<MCLeg(-1, "delta", 20, "P", 0, 7), MCLeg(1, "width", 2, "P", 0, 7),
     MCLeg(-1, "delta", 40, "C", 0, 7), MCLeg(1, "width", 3, "C", 3, 7)>>} \cup
  {<<MCLeg(-1, s, 3, "P", 0, 7)>> : s \in {"premium", "strike", "atm", "otm_pct"}} \cup
  {<<MCLeg(-1, "atm", 0, "P", 0, 7),
     [MCLeg(1, s, 1, "P", 1, Unset) EXCEPT !.expirationOf = 1]>> : s \in {"offset", "strike_of", "width"}}
MCSizings ==
  {[mode |-> m, n |-> 1, pct |-> 50, factor |-> 50, least |-> 0, most |-> 5] :
     m \in {"fixed", "risk_fraction", "bp_fraction"}}

(* The rules: of every supplier's names, a parameter, a typo, an open() and  *)
(* a keyword argument.                                                       *)
MCRule(n, c) == [names |-> n, calls |-> c, keywords |-> FALSE]
MCRules ==
  {MCRule({"spot"}, {"rsi"}), MCRule({"net_liq", "true"}, {"abs"}), MCRule({"dte"}, {}), MCRule({}, {"dte_of"}),
   MCRule({"gate"}, {}), MCRule({"typo"}, {}), MCRule({}, {"open"}),
   [MCRule({}, {"abs"}) EXCEPT !.keywords = TRUE]}
MCParams == {{}, {"gate"}, {"spot"}}
MCTenors == {<<"own", "nothing">>, <<"window", "nothing", "other">>, <<"nothing", "own">>}

(* The sweeps: legs by position and by name (the first of that name), ranges *)
(* up, down and not reaching their stop, one leaf swept twice, a word, what  *)
(* the base does not set, and paths that lead nowhere.                       *)
MCBase ==
  <<"legs", "0", "delta">> :> 20 @@ <<"legs", "0", "right">> :> Put @@
  <<"legs", "1", "delta">> :> 10 @@ <<"legs", "2", "delta">> :> 5 @@
  <<"exits", "dte">> :> 7 @@ <<"exits", "when">> :> NoValue
MCNameAt == <<"legs", "0">> :> "short" @@ <<"legs", "1">> :> "wing" @@ <<"legs", "2">> :> ""
Key(k) == [key |-> k, index |-> "none"]
At(k, i) == [key |-> k, index |-> i]
Swept(p, l) == [path |-> p, range |-> <<>>, list |-> l]
Ranged(p, r) == [path |-> p, range |-> r, list |-> <<>>]
MCAxes ==
  {<<Swept(<<At("legs", "0"), Key("delta")>>, <<16, 30>>),
     Ranged(<<Key("legs"), Key("wing"), Key("delta")>>, <<5, 10, 5>>),
     Swept(<<Key("exits"), Key("when")>>, <<1, Put>>)>>,
   <<Ranged(<<At("legs", "2"), Key("delta")>>, <<9, 2, -3>>),
     Ranged(<<Key("exits"), Key("dte")>>, <<0, 9, 4>>)>>,
   <<Swept(<<At("legs", "0"), Key("delta")>>, <<16, 30>>),
     Swept(<<Key("legs"), Key("short"), Key("delta")>>, <<16, 20>>)>>,
   <<Ranged(<<Key("exits"), Key("dte")>>, <<0, 20, 2>>)>>,
   <<Ranged(<<Key("exits"), Key("dte")>>, <<3, 9, 0>>)>>,
   <<Swept(<<At("legs", "0"), Key("right")>>, <<Put, 3>>)>>} \cup
  {<<Swept(<<Key("exits"), Key("dte")>>, <<7, 14>>), Swept(p, <<1, 2>>)>> :
     p \in {<<Key("exits"), Key("stop")>>, <<At("legs", "3"), Key("delta")>>,
            <<Key("legs"), Key("call"), Key("delta")>>, <<Key("exits"), Key("dte"), Key("days")>>}}
MCUncompilable == {<<<<"exits", "dte">>, 4>>, <<<<"exits", "when">>, Put>>}
MCFailing == {<<<<"legs", "1", "delta">>, 5>>, <<<<"legs", "2", "delta">>, 3>>}

SomeStrategy == CHOOSE s \in Strategies : TRUE
SomeOrder == CHOOSE o \in Requests : TRUE
SomeDocument == CHOOSE d \in Documents : TRUE
SomeSweep == CHOOSE s \in Sweeps : TRUE
EngineInit ==
  /\ part \in Parts
  /\ part = "ledger" \/ strat = SomeStrategy
  /\ part = "rules" \/ raw = SomeDocument
  /\ part = "structure" \/ order = SomeOrder
  /\ part = "series" \/ (closes = (0 :> Missing) /\ lookback = Earliest(Periods))
  /\ part = "sweep" \/ axes = SomeSweep
  /\ LedgerInit /\ PricesInit /\ StructureInit /\ SeriesInit /\ RulesInit /\ SweepInit

EngineNext ==
  /\ part' = part
  /\ \/ part = "ledger" /\ LedgerNext /\ UNCHANGED <<pricesVars, order, seriesVars, rulesVars, sweepVars>>
     \/ part = "prices" /\ PricesNext /\ UNCHANGED <<ledgerVars, order, seriesVars, rulesVars, sweepVars>>
     \/ part = "structure" /\ StructureNext /\ UNCHANGED <<ledgerVars, pricesVars, seriesVars, rulesVars, sweepVars>>
     \/ part = "series" /\ SeriesNext /\ UNCHANGED <<ledgerVars, pricesVars, order, rulesVars, sweepVars>>
     \/ part = "rules" /\ RulesNext /\ UNCHANGED <<ledgerVars, pricesVars, order, seriesVars, sweepVars>>
     \/ part = "sweep" /\ SweepNext
          /\ UNCHANGED <<ledgerVars, pricesVars, order, seriesVars, rulesVars>>

EngineSpec == EngineInit /\ [][EngineNext]_engineVars

(* What a strategy says is what is run: the structure's risk, the series up  *)
(* to yesterday, the rules' names, and every cell of a sweep (bt/selection.py, *)
(* bt/context.py, bt/spec.py and bt/sweep.py).                               *)
StrategyIsHonoured ==
  /\ SoldSpreadIsDefinedRisk
  /\ NoLookAhead /\ SeriesAreWhatTheySay
  /\ LoadedRulesResolve
  /\ PathsAreSettledFirst /\ GridIsWhole
=============================================================================
