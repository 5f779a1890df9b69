----------------------------- MODULE Expectancy -----------------------------
(***************************************************************************)
(* Puts priced as insurance (insurance.py and the insure routes of app.py): *)
(* what the archive of chains and the daily closes say a class of puts has  *)
(* cost, and the answer that is kept of it.  Day 0 is a Monday.  Rows are   *)
(* those of OptHistory; premiums and losses are thousandths of the strike,  *)
(* and the mean of a cluster is held in sixtieths.                          *)
(***************************************************************************)
EXTENDS OptHistory, Orders

CONSTANTS
  DTE_BANDS, DELTA_BANDS, OTM_BANDS,   (* sequences of <<lo, hi>>             *)
  SUSPECT_JUMP,                        (* per cent                            *)
  DTE_ANCHORS, DELTA_ANCHORS, OTM_ANCHORS, SCAN_DTE,   (* where a scan looks  *)
  THIN_N, SOLID_N,
  ChainOf,    (* [day -> the puts recorded on it]                             *)
  CloseOf,    (* [session -> its close]: what really happened                 *)
  FormingOf,  (* [session -> the prices its bar shows before the close]       *)
  Backfills,  (* do days that are past still reach the archive                *)
  LastDay,    (* bound                                                        *)
  Reaches,    (* bounds how many days back the bars of a fetch may go         *)
  Cutoffs,    (* bounds the days a retention may cut at                       *)
  Stretches   (* bounds the stretches <<from, to>> of days a backfill asks of *)

VARIABLES
  today,
  archive,   (* the days of hist_chain                                        *)
  cachedBars, (* bar_cache: [day -> the close it shows]                       *)
  recBars,   (* rec_bars: likewise                                            *)
  expected,  (* insure_expectancy: [fp, stats] and, which is not kept but     *)
             (* told by it, the closes they were measured over; or NoStats    *)
  sweep      (* the measuring thread: [fp, closes], or Idle                   *)
insureVars == <<today, archive, cachedBars, recBars, expected, sweep>>
barVars == <<cachedBars, recBars>>

ASSUME InsureAssumption ==
  /\ LastDay \in Nat
  /\ \A d \in DOMAIN ChainOf :
       /\ IsFiniteSet(ChainOf[d])
       /\ \A r \in ChainOf[d] :
            {r.date, r.exp, r.strike, r.bid, r.ask} \subseteq Nat /\ r.strike > 0 /\ r.delta \in 0 .. 100
  /\ \A d \in DOMAIN CloseOf : d \in Nat /\ CloseOf[d] \in Nat /\ CloseOf[d] > 0 /\ FormingOf[d] \subseteq Nat \ {0}
  /\ DELTA_ANCHORS \in Seq(Nat) /\ OTM_ANCHORS \in Seq(Nat)
  /\ Stretches \subseteq Nat \X Nat

Unknown == -1
NoStats == [fp |-> <<>>, stats |-> <<>>, closes |-> <<>>]
Idle == [fp |-> <<>>, closes |-> <<>>]
Rows == UNION {ChainOf[d] : d \in archive}
Weekend(d) == d % 7 >= 5

-----------------------------------------------------------------------------
(* class_of: bands of days are closed, bands of delta and distance are       *)
(* half-open; a row with a delta is never placed by its distance.            *)
DteBand(n) == {i \in DOMAIN DTE_BANDS : DTE_BANDS[i][1] <= n /\ n <= DTE_BANDS[i][2]}
BandOf(bands, x) == {i \in DOMAIN bands : bands[i][1] <= x /\ x < bands[i][2]}
ClassesOf(r, closes) ==
  LET mode == IF r.delta > 0 THEN "delta" ELSE "otm"
      bands == IF r.delta > 0 THEN BandOf(DELTA_BANDS, r.delta)
               ELSE IF r.date \in DOMAIN closes
                    THEN BandOf(OTM_BANDS, ((closes[r.date] - r.strike) * 100) \div closes[r.date]) ELSE {}
  IN {mode} \X DteBand(r.exp - r.date) \X bands

(* _settle_close: the close of the day; of a day that was no session, a      *)
(* weekend or a hole between two weekdays with closes, the last close of the *)
(* three days before it; of any other day none.                              *)
WeekdayBefore(d) == Max({x \in (d - 3) .. (d - 1) : ~Weekend(x)})
WeekdayAfter(d) == Min({x \in (d + 1) .. (d + 3) : ~Weekend(x)})

(* Mutant: one neighbour is enough to call a hole a holiday.                 *)
NoSession_OneSide(e, closes) == Weekend(e) \/ {WeekdayBefore(e), WeekdayAfter(e)} \cap DOMAIN closes # {}

NoSession(e, closes) == Weekend(e) \/ {WeekdayBefore(e), WeekdayAfter(e)} \subseteq DOMAIN closes
SettleClose(e, closes) ==
  LET before == DOMAIN closes \cap ((e - 3) .. (e - 1))
  IN IF e \in DOMAIN closes THEN closes[e]
     ELSE IF NoSession(e, closes) /\ before # {} THEN closes[Max(before)] ELSE Unknown

(* trials: each row of a class, with what became of it by the day given.     *)
Jumps(closes) ==
  {d \in DOMAIN closes :
     LET before == {x \in DOMAIN closes : x < d}
     IN before # {} /\ Distance(closes[d], closes[Max(before)]) * 100 > SUSPECT_JUMP * closes[Max(before)]}
StatusOf(r, closes, day) ==
  IF r.date \notin DOMAIN closes THEN "no_spot"
  ELSE IF r.exp > day THEN "pending"
  ELSE IF SettleClose(r.exp, closes) = Unknown THEN "no_close"
  ELSE IF \E j \in Jumps(closes) : r.date < j /\ j <= r.exp THEN "suspect" ELSE "settled"
Severity(r, closes) == (Max({0, r.strike - SettleClose(r.exp, closes)}) * 1000) \div r.strike
Trial(r, closes, day) ==
  [row |-> r, class |-> CHOOSE c \in ClassesOf(r, closes) : TRUE, status |-> StatusOf(r, closes, day),
   claim |-> IF SettleClose(r.exp, closes) \in 0 .. r.strike - 1 THEN 1 ELSE 0,
   sev |-> Severity(r, closes),
   credit |-> IF TwoSided(r) THEN ((r.bid + r.ask) * 500) \div r.strike ELSE Unknown]
Trials(rows, closes, day) == {Trial(r, closes, day) : r \in {x \in rows : ClassesOf(x, closes) # {}}}

-----------------------------------------------------------------------------
Reasons == {"pending", "no_close", "no_spot", "suspect"}

(* _episodes: runs of expirations in a row that had a claim.                 *)
Episodes(exps) ==
  Cardinality({e \in DOMAIN exps : /\ exps[e].claims > 0
                                   /\ \A p \in DOMAIN exps :
                                        p < e /\ (\A x \in DOMAIN exps : x <= p \/ x >= e) => exps[p].claims = 0})

(* The zero-claims rule: no claim measures no price.                         *)
LossOf(claims, sevs) == IF TotalOf(claims) = 0 THEN Unknown ELSE TotalOf(sevs)

(* What is said of a class: every expiration has one vote.                   *)
Summary(exps, credits, won, lost, deltas, first, last, censored) ==
  IF exps = <<>> THEN [exps |-> {}, days |-> 0, censored |-> censored]
  ELSE LET claims == [e \in DOMAIN exps |-> (60 * exps[e].claims) \div exps[e].n]
           sevs == [e \in DOMAIN exps |-> (60 * exps[e].sev) \div exps[e].n]
           hit == {e \in DOMAIN exps : exps[e].claims > 0}
       IN [exps |-> {<<e, exps[e].n, claims[e], sevs[e]>> : e \in DOMAIN exps},
           days |-> TotalOf([e \in DOMAIN exps |-> exps[e].n]), episodes |-> Episodes(exps),
           claimed |-> TotalOf(claims), loss |-> LossOf(claims, sevs), implied |-> deltas,
           worst |-> IF hit = {} THEN 0 ELSE Max({sevs[e] : e \in hit}),
           won |-> IF credits = <<>> THEN Unknown
                   ELSE Cardinality({e \in DOMAIN exps : 2 * sevs[e] < 60 * TwiceMedian(credits)}),
           ratio |-> IF won[2] = 0 \/ lost[2] = 0 THEN <<>> ELSE <<won, lost>>,
           priced |-> Len(credits), window |-> <<first, last>>, censored |-> censored]

(* class_stats: all the trials at once.                                      *)
Vote(G) == [n |-> Cardinality(G), claims |-> TotalOf([t \in G |-> t.claim]), sev |-> TotalOf([t \in G |-> t.sev])]
Votes(S) == [e \in {t.row.exp : t \in S} |-> Vote({t \in S : t.row.exp = e})]
Tally(Q) == <<TotalOf([t \in Q |-> Distance(t.credit, t.sev)]), Cardinality(Q)>>
Deltas(D) == <<TotalOf([t \in D |-> t.row.delta]), Cardinality(D)>>
StatsOf(of) ==
  LET S == {t \in of : t.status = "settled"}
      P == {t \in S : t.credit # Unknown}
      order == SetToSeq(P)
  IN Summary(Votes(S), [i \in DOMAIN order |-> order[i].credit],
             Tally({t \in P : t.credit > t.sev}), Tally({t \in P : t.credit <= t.sev}),
             Deltas({t \in S : t.row.delta > 0}),
             Min({t.row.date : t \in S} \cup {LastDay}), Max({t.row.date : t \in S} \cup {0}),
             [w \in Reasons |-> Cardinality({t \in of : t.status = w})])
ClassStats(trials) == [c \in {t.class : t \in trials} |-> StatsOf({t \in trials : t.class = c})]

(* fold_trials: chunk after chunk into running sums, one trial at a time.    *)
NewClass == [exps |-> <<>>, credits |-> <<>>, won |-> <<0, 0>>, lost |-> <<0, 0>>, deltas |-> <<0, 0>>,
             first |-> LastDay, last |-> 0, censored |-> [w \in Reasons |-> 0]]
Plus(pair, x) == <<pair[1] + x, pair[2] + 1>>

FirstOf(c, t) == Min({c.first, t.row.date})
Settled(c, t) ==
  LET e == IF t.row.exp \in DOMAIN c.exps THEN c.exps[t.row.exp] ELSE [n |-> 0, claims |-> 0, sev |-> 0]
      more == [n |-> e.n + 1, claims |-> e.claims + t.claim, sev |-> e.sev + t.sev]
  IN [exps |-> [x \in DOMAIN c.exps \cup {t.row.exp} |-> IF x = t.row.exp THEN more ELSE c.exps[x]],
      deltas |-> IF t.row.delta > 0 THEN Plus(c.deltas, t.row.delta) ELSE c.deltas,
      credits |-> IF t.credit # Unknown THEN Append(c.credits, t.credit) ELSE c.credits,
      won |-> IF t.credit > t.sev THEN Plus(c.won, t.credit - t.sev) ELSE c.won,
      lost |-> IF t.credit # Unknown /\ t.credit <= t.sev THEN Plus(c.lost, t.sev - t.credit) ELSE c.lost,
      first |-> FirstOf(c, t), last |-> Max({c.last, t.row.date}), censored |-> c.censored]
FoldOne(t, agg) ==
  LET c == IF t.class \in DOMAIN agg THEN agg[t.class] ELSE NewClass
      now == IF t.status = "settled" THEN Settled(c, t) ELSE [c EXCEPT !.censored[t.status] = @ + 1]
  IN [x \in DOMAIN agg \cup {t.class} |-> IF x = t.class THEN now ELSE agg[x]]
FoldAny(b) ==
  LET t == CHOOSE t \in b.left : TRUE IN [left |-> b.left \ {t}, sums |-> FoldOne(t, b.sums)]
FoldTrials(agg, chunk) ==
  LET upTo[n \in 0 .. Cardinality(chunk)] ==
        IF n = 0 THEN [left |-> chunk, sums |-> agg] ELSE FoldAny(upTo[n - 1])
  IN upTo[Cardinality(chunk)].sums
FinishStats(agg) ==
  [k \in DOMAIN agg |-> LET c == agg[k]
                        IN Summary(c.exps, c.credits, c.won, c.lost, c.deltas, c.first, c.last, c.censored)]

-----------------------------------------------------------------------------
(* What a feed gives of a stretch of days: closes, and of today the price so *)
(* far; what a table has with it; and what it has left of a day and later.   *)
GivenBars(from, to, price) ==
  [d \in {x \in DOMAIN CloseOf : from <= x /\ x <= to} |-> IF d = today THEN price ELSE CloseOf[d]]
PricesOf(d) == IF d \in DOMAIN CloseOf THEN {CloseOf[d]} \cup FormingOf[d] ELSE {0}
Replaced(old, new) == [d \in DOMAIN old \cup DOMAIN new |-> IF d \in DOMAIN new THEN new[d] ELSE old[d]]
Since(closes, day) == [d \in {x \in DOMAIN closes : day <= x} |-> closes[d]]

(* _insure_closes, but for Yahoo, which is asked when neither table has any.  *)
Closes == Replaced(recBars, cachedBars)
Fingerprint(closes) == <<Max(archive), Max(DOMAIN closes)>>

InsureInit == /\ today = 0 /\ archive = {} /\ cachedBars = <<>> /\ recBars = <<>> /\ expected = NoStats
              /\ sweep = Idle

(* pick_candidates, of the puts of one expiration: for each anchor the one   *)
(* nearest to it, and of every class one.  By delta a later anchor wins that *)
(* is strictly nearer than what the class has, by distance the first one.    *)
OtmOf(r, spot) == ((spot - r.strike) * 100) \div spot
NearestTo(S, anchor, spot, byDelta) ==
  LET Miss(r) == IF byDelta THEN Distance(r.delta, anchor) ELSE Distance(OtmOf(r, spot), anchor)
      Middle(r) == Distance(20 * r.strike, 17 * spot)
      Key(r) == (Miss(r) * 4000 + Middle(r)) * 1000 + r.strike
  IN CHOOSE r \in S : \A x \in S : Key(r) <= Key(x)
PickCandidates(puts, spot) ==
  LET otm == {r \in puts : r.strike < spot}
      known == {r \in otm : r.delta > 0}
      byDelta == known # {}
      Better(r, old, anchor) == byDelta /\ Distance(r.delta, anchor) < Distance(old.delta, anchor)
      Pick(picked, anchor) ==
        LET r == NearestTo(IF byDelta THEN known ELSE otm, anchor, spot, byDelta)
            class == ClassesOf(r, [d \in {r.date} |-> spot])
        IN [c \in DOMAIN picked \cup class |->
              IF c \in class /\ (c \in DOMAIN picked => Better(r, picked[c], anchor)) THEN r ELSE picked[c]]
      anchors == IF byDelta THEN DELTA_ANCHORS ELSE OTM_ANCHORS
      upTo[n \in 0 .. Len(anchors)] == IF n = 0 THEN <<>> ELSE Pick(upTo[n - 1], anchors[n])
  IN IF otm = {} THEN <<>> ELSE upTo[Len(anchors)]

(* insure_scan: the expirations nearest to the anchors among those listed    *)
(* near the money, and each of their candidates with what its class cost.    *)
(* The live chain is what the recorder would archive of today.               *)
Live == IF today \in DOMAIN ChainOf THEN ChainOf[today] ELSE {}
Targets(spot) ==
  LET listed == {r.exp : r \in {x \in Live : /\ x.exp - today \in SCAN_DTE[1] .. SCAN_DTE[2]
                                             /\ 95 * spot <= 100 * x.strike /\ x.strike <= spot}}
  IN IF listed = {} THEN {}
     ELSE {CHOOSE e \in listed : \A x \in listed :
             LET Away(y) == Distance(y - today, a) IN Away(e) < Away(x) \/ (Away(e) = Away(x) /\ e <= x) : a \in DTE_ANCHORS}

Tier(n) == IF n = 0 THEN "unmeasured" ELSE IF n >= SOLID_N THEN "solid" ELSE IF n >= THIN_N THEN "thin" ELSE "none"
Candidate(r, class, stats) ==
  LET exps == IF class \in DOMAIN stats THEN stats[class].exps ELSE {}
      n == Cardinality(exps)
      offered == IF TwoSided(r) THEN ((r.bid + r.ask) * 500) \div r.strike ELSE Unknown
  IN [row |-> r, class |-> class, offered |-> offered, tier |-> Tier(n),
      edge |-> IF n > 0 /\ offered # Unknown /\ stats[class].loss # Unknown
               THEN {60 * n * offered - stats[class].loss} ELSE {},
      won |-> IF n > 0 /\ offered # Unknown THEN {Cardinality({x \in exps : x[4] < 60 * offered})} ELSE {}]
Scan(stats, spot) ==
  UNION {LET puts == {r \in Live : r.exp = e /\ 70 * spot <= 100 * r.strike /\ r.strike <= spot}
             picked == PickCandidates(puts, spot)
         IN {Candidate(picked[c], c, stats) : c \in DOMAIN picked} : e \in Targets(spot)}

(* _insure_expectancy: what is kept when its fingerprint is that of now,     *)
(* else what is kept, marked as stale, and one thread that measures.  What   *)
(* an insure page is told at this moment:                                    *)
ToldNow ==
  IF archive = {} \/ Closes = <<>> THEN [status |-> "none", stats |-> <<>>]
  ELSE IF expected # NoStats /\ expected.fp = Fingerprint(Closes) THEN [status |-> "ready", stats |-> expected.stats]
  ELSE [status |-> IF expected = NoStats THEN "measuring" ELSE "stale", stats |-> expected.stats]
SpotNow == IF Closes = <<>> THEN 0 ELSE Closes[Max(DOMAIN Closes)]
ShownNow == IF Closes = <<>> THEN {} ELSE Scan(ToldNow.stats, SpotNow)
Ask ==
  /\ ToldNow.status \in {"measuring", "stale"} /\ sweep = Idle
  /\ sweep' = [fp |-> Fingerprint(Closes), closes |-> Closes]
  /\ UNCHANGED <<today, archive, barVars, expected>>

(* _measure: the archive of now, the closes and the fingerprint of then.     *)

(* Mutant: what is measured is kept under the fingerprint of its end.        *)
SweptAs_AtEnd(s) == IF Closes = <<>> THEN s.fp ELSE Fingerprint(Closes)

SweptAs(s) == s.fp
SweepEnds ==
  /\ sweep # Idle /\ sweep' = Idle
  /\ expected' = [fp |-> SweptAs(sweep), stats |-> ClassStats(Trials(Rows, sweep.closes, today)),
                   closes |-> sweep.closes]
  /\ UNCHANGED <<today, archive, barVars>>
SweepFails == sweep # Idle /\ sweep' = Idle /\ UNCHANGED <<today, archive, barVars, expected>>

(* append_day, by the recorder today and by a backfill for a day that is     *)
(* past.                                                                     *)
AppendDay(d) ==
  /\ d <= today /\ (~Backfills => d = today) /\ d \in DOMAIN ChainOf
  /\ archive' = archive \cup {d}
  /\ UNCHANGED <<today, barVars, expected, sweep>>

(* A chart fetches its last bars, and bar_cache_store sweeps in the same     *)
(* transaction what was fetched too long ago: of a symbol, its oldest bars.  *)
(* The chart of another symbol sweeps them alone.                            *)
CacheStores(back, price, keep) ==
  /\ \E to \in {today - 1, today} :
       LET bars == GivenBars(today - back, to, price)
       IN bars # <<>> /\ cachedBars' = Replaced(Since(cachedBars, keep), bars)
  /\ UNCHANGED <<today, archive, recBars, expected, sweep>>
OthersSweep(keep) ==
  /\ Since(cachedBars, keep) # cachedBars /\ cachedBars' = Since(cachedBars, keep)
  /\ UNCHANGED <<today, archive, recBars, expected, sweep>>

(* The recorder collects bars from the last one on, or all there are, a      *)
(* backfill asks for some that are past, and _prune removes the oldest.      *)
Collects(back, price) ==
  /\ \E to \in {today - 1, today} :
       LET from == IF recBars = <<>> THEN today - back ELSE Max(DOMAIN recBars)
       IN recBars' = Replaced(recBars, GivenBars(from, to, price))
  /\ UNCHANGED <<today, archive, cachedBars, expected, sweep>>
BackfillsBars(from, to) ==
  /\ to < today /\ recBars' = Replaced(recBars, GivenBars(from, to, 0))
  /\ UNCHANGED <<today, archive, cachedBars, expected, sweep>>
PrunesBars(keep) ==
  /\ recBars' = Since(recBars, keep)
  /\ UNCHANGED <<today, archive, cachedBars, expected, sweep>>
NewDay == today < LastDay /\ today' = today + 1 /\ UNCHANGED <<archive, barVars, expected, sweep>>

InsureNext ==
  \/ NewDay \/ Ask \/ SweepEnds \/ SweepFails
  \/ \E d \in 0 .. LastDay : AppendDay(d)
  \/ \E keep \in Cutoffs : OthersSweep(keep) \/ PrunesBars(keep)
  \/ \E back \in Reaches, price \in PricesOf(today) :
       Collects(back, price) \/ \E keep \in Cutoffs : CacheStores(back, price, keep)
  \/ \E s \in Stretches : BackfillsBars(s[1], s[2])

-----------------------------------------------------------------------------
(* A measurement that is served as current is one of the archive as it is,   *)
(* over closes up to the last day the stores have one of: no day has been    *)
(* archived and no session has come since that it does not count.  The       *)
(* fingerprint tells no more: what moved under it, see ReadyIsOfNow.         *)
UpTo(stats, day) == [c \in DOMAIN stats |-> {x \in stats[c].exps : x[1] <= day}]
Measured(stats, day) == {<<c, UpTo(stats, day)[c]>> : c \in {k \in DOMAIN stats : UpTo(stats, day)[k] # {}}}
ReadyIsCurrent ==
  ToldNow.status = "ready" =>
    LET over == expected.closes  last == Max(DOMAIN Closes) IN
      /\ last = Max(DOMAIN over)
      /\ Measured(ToldNow.stats, last) = Measured(ClassStats(Trials(Rows, over, today)), last)

(* TLC refutes that it is one over the closes as they are: the price of      *)
(* today moves on, a close comes late into a hole, and old ones are swept,   *)
(* all without a new fingerprint.                                            *)
ReadyIsOfNow ==
  ToldNow.status = "ready" =>
    LET last == Max(DOMAIN Closes)
    IN Measured(ToldNow.stats, last) = Measured(ClassStats(Trials(Rows, Closes, today)), last)

(* Folding the archive in chunks, cut anywhere, measures what one pass over  *)
(* all of it measures.                                                       *)
ChunksAgree ==
  Closes # <<>> =>
    LET T == Trials(Rows, Closes, today)
        whole == ClassStats(T)
    IN \A cut \in archive :
         LET early == {t \in T : t.row.date < cut}
         IN FinishStats(FoldTrials(FoldTrials(<<>>, early), T \ early)) = whole

(* A put settles over the bar of the expiration, or of the session before a  *)
(* day without one; a bar that is merely missing settles nothing, but for a  *)
(* lone missing weekday, which looks like a holiday, and a weekend after a   *)
(* missing Friday.                                                           *)
GapSettlesNothing ==
  Closes # <<>> =>
    \A t \in Trials(Rows, Closes, today) :
      LET e == t.row.exp
          session == Max({d \in DOMAIN CloseOf : d <= e})
      IN t.status = "settled" =>
           \/ session \in DOMAIN Closes /\ SettleClose(e, Closes) = Closes[session]
           \/ {WeekdayBefore(e), WeekdayAfter(e)} \subseteq DOMAIN Closes \/ Weekend(e)

(* TLC refutes that the bar shows a close: a put settles on its last day     *)
(* over the price so far, and over that price for good where no later fetch  *)
(* reaches the day again.                                                    *)
SettledOverCloses ==
  Closes # <<>> =>
    \A t \in Trials(Rows, Closes, today) :
      t.status = "settled" => SettleClose(t.row.exp, Closes) \in {CloseOf[d] : d \in DOMAIN CloseOf}

(* The far wing is no free money: a class whose puts never paid a claim      *)
(* gives no loss to hold a premium against, at any time of the archive.      *)
FarWingIsUnpriced ==
  \A c \in DOMAIN expected.stats :
    LET measured == expected.stats[c]
    IN measured.exps # {} /\ (\A x \in measured.exps : x[3] = 0) => measured.loss = Unknown

(* An edge is one over claims that were paid: a put has one only when it can *)
(* be sold and its class ever cost something; it is held against its own     *)
(* class, by delta or by distance and never mixed; a premium that beat every *)
(* expiration beats their mean; and a class is shown once an expiration.     *)
EdgesAreEarned ==
  LET stats == ToldNow.stats IN
  \A c \in ShownNow :
    /\ c.edge # {} => TwoSided(c.row) /\ \E x \in stats[c.class].exps : x[3] > 0
    /\ c.edge # {} /\ c.won = {Cardinality(stats[c.class].exps)} => Max(c.edge) > 0
    /\ c.class \in ClassesOf(c.row, [d \in {c.row.date} |-> SpotNow])
    /\ \A other \in ShownNow : other.class = c.class /\ other.row.exp = c.row.exp => other = c

(* What is measured of a put is what happened to it, however the archive is  *)
(* cut, whatever closes are missing and whether or not a class ever claimed; *)
(* and nothing else is held against a premium.                               *)
TrialsAreSound == ChunksAgree /\ GapSettlesNothing /\ FarWingIsUnpriced /\ EdgesAreEarned

(* What the Opt page draws from the same archive is of the kind that was     *)
(* asked for, whatever days come in: see GraceOnlyAdds, FanIsOfItsKind.      *)
LikeWithLike == [][ archive' # archive => \A rows \in {Rows'} : GraceOnlyAdds(rows) /\ FanIsOfItsKind(rows) ]_archive
=============================================================================
