------------------------------ MODULE ChartBars ------------------------------
(***************************************************************************)
(* The daily chart of a symbol (the bars route of app.py) and what it is    *)
(* drawn from: the broker's feed, the cache of what the feed returned last  *)
(* (bar_cache of marketdb.py), the bars the user recorded, the permanent    *)
(* store of the deepener (bar_hist), and the keyless feed that lengthens a  *)
(* chart backwards.  Days stand for the days that traded.                   *)
(***************************************************************************)
EXTENDS Orders, FiniteSetsExt, SequencesExt

CONSTANTS
  LastBarDay,         (* bounds the calendar                                     *)
  BrokerFrom,      (* the first day the broker's feed has; Yahoo has them all *)
  CardLimit,       (* the bars the search card asks for                       *)
  Candles,         (* values of chart_candles; LastBarDay stands for "all"       *)
  KeepDays,        (* equity_cache_days                                       *)
  Keeping          (* the values of the setting deep_history                  *)

(* The cache keeps no longer than the shortest chart goes back: 7, 30 or 90  *)
(* days against the 200 candles or more a chart asks for.  A retention of a  *)
(* year under 200 candles, or forever, may leave a hole in the cache.        *)
ASSUME ChartAssumption ==
  /\ {LastBarDay, BrokerFrom} \cup {CardLimit} \cup Candles \subseteq Nat \ {0}
  /\ KeepDays \in Nat /\ \A n \in {CardLimit} \cup Candles : KeepDays <= n

VARIABLES
  day,             (* today                                                   *)
  barCache,        (* [day -> the day its bar was fetched]                    *)
  recorded,        (* the days in rec_bars                                    *)
  permanent,       (* [day -> the feed its bar came from]: bar_hist           *)
  keeping          (* deep_history is on                                      *)
chartVars == <<day, barCache, recorded, permanent, keeping>>

Newest(S, n) == {d \in S : Cardinality({e \in S : e > d}) < n}
BarsBy(S, sourceOf) ==
  LET days == InOrderOf(S) IN [i \in DOMAIN days |-> [day |-> days[i], source |-> sourceOf[days[i]]]]
Bars(S, source) == BarsBy(S, [d \in S |-> source])

(* A request: how many bars, whether that is all there are, and which feeds  *)
(* answer it.                                                                *)
Depths == {[limit |-> n, all |-> n = LastBarDay /\ n \in Candles] : n \in {CardLimit} \cup Candles}
ChartRequests == {[limit |-> d.limit, all |-> d.all, broker |-> b, yahoo |-> y] :
               d \in Depths, b \in BOOLEAN, y \in BOOLEAN}

-----------------------------------------------------------------------------
(* stock_bars: sorted newest first, so that the limit cuts the oldest.       *)
FeedDays(r) == IF r.broker THEN Newest(BrokerFrom .. day, r.limit) ELSE {}
YahooDays(r) == IF r.yahoo THEN 1 .. day ELSE {}

(* bar_cache_store: the bars replace those of their days, and what has not   *)
(* been fetched for KeepDays goes.                                           *)

(* Mutant: nothing is swept.                                                 *)
Swept_Never(cache) == cache

Swept(cache) == [d \in {e \in DOMAIN cache : cache[e] >= day - KeepDays} |-> cache[d]]
Cached(days) == Swept([d \in DOMAIN barCache \cup days |-> IF d \in days THEN day ELSE barCache[d]])

(* deepen: when all is asked for, Yahoo's bars before the first one.         *)
Deepened(r, bars, source) ==
  LET older == {d \in YahooDays(r) : d < bars[1].day}
  IN IF ~r.all \/ older = {} THEN [bars |-> bars, source |-> source, joined |-> 0]
     ELSE [bars |-> Bars(older, "yahoo") \o bars, source |-> source, joined |-> bars[1].day]
Cut(chart, n) == [chart EXCEPT !.bars = SubSeq(@, Max({1, Len(@) - n + 1}), Len(@))]

(* bar_hist_read: one segment per run of bars of one feed.                   *)
Extended(segs, b) ==
  IF segs # <<>> /\ segs[Len(segs)].source = b.source
  THEN [segs EXCEPT ![Len(segs)].to = b.day]
  ELSE Append(segs, [source |-> b.source, from |-> b.day, to |-> b.day])
Segments(bars) ==
  LET upTo[n \in 0 .. Len(bars)] == IF n = 0 THEN <<>> ELSE Extended(upTo[n - 1], bars[n])
  IN upTo[Len(bars)]
Permanent(r) == BarsBy(Newest(DOMAIN permanent, r.limit), permanent)

(* symbol_bars: the permanent store when it is deep enough; the feed; its    *)
(* cache; the recorded bars; Yahoo; nothing.                                 *)
NoChart == [bars |-> <<>>, source |-> "none", joined |-> 0]
ChartOf(r) ==
  LET stored == Permanent(r)
      cached == Newest(DOMAIN barCache, r.limit)
      own == Newest(recorded, r.limit)
  IN IF keeping /\ stored # <<>> /\ (r.all \/ Len(stored) >= r.limit)
     THEN [bars |-> stored, source |-> "segments", joined |-> 0]
     ELSE IF FeedDays(r) # {} THEN Cut(Deepened(r, Bars(FeedDays(r), "alpaca"), "alpaca"), r.limit)
     ELSE IF cached # {} THEN Deepened(r, Bars(cached, "cached"), "cached")
     ELSE IF own # {} THEN Deepened(r, Bars(own, "recorded"), "recorded")
     ELSE IF YahooDays(r) # {} THEN Cut([bars |-> Bars(YahooDays(r), "yahoo"), source |-> "yahoo", joined |-> 0], r.limit)
     ELSE NoChart

-----------------------------------------------------------------------------
OpensChart(r) ==
  /\ barCache' = IF ChartOf(r).source = "alpaca" THEN Cached(FeedDays(r)) ELSE barCache
  /\ UNCHANGED <<day, recorded, permanent, keeping>>
(* A chart of another symbol sweeps too.                                     *)
OpensAnother == barCache' = Cached({}) /\ UNCHANGED <<day, recorded, permanent, keeping>>
DayPasses ==
  /\ day < LastBarDay /\ day' = day + 1
  /\ \E s \in SUBSET {day'} : recorded' = recorded \cup s
  /\ UNCHANGED <<barCache, permanent, keeping>>
(* The deepener stores what one feed has before or after what is there.      *)
Deepens(source) ==
  /\ keeping
  /\ LET all == (IF source = "alpaca" THEN BrokerFrom ELSE 1) .. day
         head == {d \in all : \A e \in DOMAIN permanent : d < e}
         tail == {d \in all : \A e \in DOMAIN permanent : d > e}
     IN \E days \in {head, tail} \ {{}} :
          permanent' = [d \in DOMAIN permanent \cup days |-> IF d \in days THEN source ELSE permanent[d]]
  /\ UNCHANGED <<day, barCache, recorded, keeping>>

ChartInit ==
  /\ day = 1 /\ barCache = <<>> /\ recorded = {} /\ permanent = <<>> /\ keeping \in Keeping
ChartNext ==
  \/ \E r \in ChartRequests : OpensChart(r)
  \/ OpensAnother \/ DayPasses
  \/ \E source \in {"alpaca", "yahoo"} : Deepens(source)

-----------------------------------------------------------------------------
(* A chart does not lie about where its candles came from (app.py:1321): its *)
(* days ascend, each candle is of the source its stretch is labelled with,   *)
(* an answer of the feed reaches today, and the cache that draws it while    *)
(* the feed is away has no hole in it.                                       *)
ChartIsSound ==
  \A r \in ChartRequests :
    LET c == ChartOf(r) IN
    /\ \A i, j \in DOMAIN c.bars : i < j => c.bars[i].day < c.bars[j].day
    /\ c.source = "alpaca" => c.bars[Len(c.bars)].day = day
    /\ c.source # "segments" =>
         \A i \in DOMAIN c.bars :
           c.bars[i].source = IF c.bars[i].day < c.joined THEN "yahoo" ELSE c.source
    /\ c.source = "segments" =>
         \A i \in DOMAIN c.bars : \E s \in ToSet(Segments(c.bars)) :
           s.from <= c.bars[i].day /\ c.bars[i].day <= s.to /\ s.source = c.bars[i].source
    /\ c.source = "cached" =>
         \A d \in Min(DOMAIN barCache) .. Max(DOMAIN barCache) : d \in DOMAIN barCache
=============================================================================
