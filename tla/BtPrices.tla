------------------------------ MODULE BtPrices ------------------------------
(***************************************************************************)
(* What a backtest runner remembers of prices: the chains, spots and VIX   *)
(* levels of bt/data.py and bt/vix.py in the order bt/context.py and       *)
(* bt/engine.py ask for them, and backtest_cache.db, which every run       *)
(* (bt_runner.py, backtests.engine_paths) opens, whatever store it reads.  *)
(***************************************************************************)
EXTENDS Naturals, Sequences, FiniteSets, SequencesExt, Functions

CONSTANTS
  Underlyings, StoreDays,
  CsvDays,     (* days of the bundled VIX history                            *)
  CacheSize,   (* chains kept in memory                                      *)
  Resync,      (* may a day be recorded again after its last snapshot        *)
  MaxRuns      (* bounds the runner processes                                *)

ASSUME PricesAssumption ==
  /\ StoreDays \subseteq Nat /\ CsvDays \subseteq StoreDays
  /\ CacheSize \in Nat \ {0} /\ Resync \in BOOLEAN

(* A day of a store has no rows, a chain too thin to show a spot, its last   *)
(* snapshot, or (with Resync) a later one still.                             *)
Thin == 1
Final == 2
Snapshots == 1 .. IF Resync THEN 3 ELSE 2

Nan    == <<"nan">>
Seen(u, n) == IF n = Thin THEN Nan ELSE <<"of", u, n>>
NoRun  == "none"

VARIABLES
  optRows,   (* optRows[u][d]: the snapshot in the options store of u        *)
  disk,      (* disk[t][d]: the rows of backtest_cache.db, t spot or vix     *)
  runner,    (* the underlying the process tests, or NoRun                   *)
  phase,     (* what the process is doing                                    *)
  ahead,     (* the days the current pass has yet to visit                   *)
  window,    (* the days of the run, the warm-up ahead of them included      *)
  mem,       (* mem[t]: the values it holds                                  *)
  unsaved,   (* unsaved[t]: inserted on connection t and not committed       *)
  chains,    (* the chain cache, least recently used first: [day, n, spot,   *)
             (* checked]                                                     *)
  runs

pricesVars == <<optRows, disk, runner, phase, ahead, window, mem, unsaved, chains, runs>>

Tables == {"spot", "vix"}
Nothing == [d \in {} |-> Nan]
AllDates(u) == {d \in StoreDays : optRows[u][d] # 0}
Smallest(S) == CHOOSE x \in S : \A y \in S : x <= y

PricesInit ==
  /\ optRows = [u \in Underlyings |-> [d \in StoreDays |-> 0]]
  /\ disk = [t \in Tables |-> Nothing]
  /\ runner = NoRun /\ phase = "idle" /\ ahead = {} /\ window = {} /\ runs = 0
  /\ mem = [t \in Tables |-> Nothing] /\ unsaved = [t \in Tables |-> {}] /\ chains = <<>>

(* The recorder's sync or an import writes a snapshot of a day, over an      *)
(* earlier one; not while a run reads the store.                             *)
Snapshot(u, d) ==
  /\ phase = "idle" /\ optRows[u][d] + 1 \in Snapshots
  /\ \E n \in Snapshots : n > optRows[u][d] /\ optRows' = [optRows EXCEPT ![u][d] = n]
  /\ UNCHANGED <<disk, runner, phase, ahead, window, mem, unsaved, chains, runs>>

-----------------------------------------------------------------------------
(* Mutant: a chain without a spot is written to the cache as well.           *)
Persists_NaN(v) == TRUE

(* Only finite values are written.                                           *)
Persists(v) == v # Nan

(* _market: both tables of the one cache are read into memory.               *)
StartRunner(u) ==
  /\ phase = "idle" /\ runs < MaxRuns /\ AllDates(u) # {}
  /\ runner' = u /\ runs' = runs + 1
  /\ mem' = disk /\ chains' = <<>>
  /\ \E days \in SUBSET AllDates(u) \ {{}} : window' = days /\ ahead' = days
  /\ phase' = "spots"
  /\ UNCHANGED <<optRows, disk, unsaved>>

(* MarketData.chain: a hit becomes the most recent, a miss is read from the  *)
(* store, with the spot that is remembered for the day, and the oldest goes. *)
Cached(d) == \E i \in DOMAIN chains : chains[i].day = d
Fresh(d) == [day |-> d, n |-> optRows[runner][d],
             spot |-> IF d \in DOMAIN mem["spot"] THEN mem["spot"][d] ELSE <<>>, checked |-> FALSE]
PlaceOf(d) == CHOOSE i \in DOMAIN chains : chains[i].day = d
ChainOf(d) == IF Cached(d) THEN chains[PlaceOf(d)] ELSE Fresh(d)
Evicted(s) == IF Len(s) > CacheSize THEN Tail(s) ELSE s
Use(c) ==
  LET others == IF Cached(c.day) THEN RemoveAt(chains, PlaceOf(c.day)) ELSE chains
  IN  chains' = Evicted(Append(others, c))

(* _compute_spot: the median of the front forwards; with a spot in hand the  *)
(* forwards that stray from it are replaced (checked).  A chain that was     *)
(* given its spot never does either.                                         *)
WithSpot(c) == IF c.spot # <<>> THEN c
               ELSE [c EXCEPT !.spot = Seen(runner, c.n), !.checked = Seen(runner, c.n) # Nan]

Remember(t, d, v) ==
  /\ mem' = [mem EXCEPT ![t] = [x \in DOMAIN @ \cup {d} |-> IF x = d THEN v ELSE @[x]]]
  /\ unsaved' = IF Persists(v) THEN [unsaved EXCEPT ![t] = @ \cup {d}] ELSE unsaved

(* MarketData.spot, for the next day of spot_series.                         *)
AskSpot ==
  /\ phase = "spots" /\ ahead # {}
  /\ LET d == Smallest(ahead)
     IN /\ ahead' = ahead \ {d}
        /\ IF d \in DOMAIN mem["spot"] THEN UNCHANGED <<mem, unsaved, chains>>
           ELSE Use(WithSpot(ChainOf(d))) /\ Remember("spot", d, WithSpot(ChainOf(d)).spot)
  /\ UNCHANGED <<optRows, disk, runner, phase, window, runs>>

Committed(t) == [x \in DOMAIN disk[t] \cup unsaved[t] |-> IF x \in unsaved[t] THEN mem[t][x] ELSE disk[t][x]]

(* Mutant: the spots are left for the flush at the end of the run.           *)
SpotsDone_NoFlush ==
  /\ phase = "spots" /\ ahead = {}
  /\ phase' = "levels" /\ ahead' = window
  /\ UNCHANGED <<optRows, disk, runner, window, mem, unsaved, chains, runs>>

SpotsDone == (* spot_series commits before anything else is asked            *)
  /\ phase = "spots" /\ ahead = {}
  /\ disk' = [disk EXCEPT !["spot"] = Committed("spot")] /\ unsaved' = [unsaved EXCEPT !["spot"] = {}]
  /\ phase' = "levels" /\ ahead' = window
  /\ UNCHANGED <<optRows, runner, window, mem, chains, runs>>

(* VixSeries.get: the CSV wins, then what is remembered, then the proxy of   *)
(* the day's chain, which is a number when the chain is not too thin.        *)
AskLevel ==
  /\ phase = "levels" /\ ahead # {}
  /\ LET d == Smallest(ahead)
     IN /\ ahead' = ahead \ {d}
        /\ IF d \in CsvDays \cup DOMAIN mem["vix"] THEN UNCHANGED <<mem, unsaved, chains>>
           ELSE Use(ChainOf(d)) /\ Remember("vix", d, Seen(runner, ChainOf(d).n))
  /\ UNCHANGED <<optRows, disk, runner, phase, window, runs>>

LevelsDone ==
  /\ phase = "levels" /\ ahead = {} /\ phase' = "days" /\ ahead' = window
  /\ UNCHANGED <<optRows, disk, runner, window, mem, unsaved, chains, runs>>

(* The loop takes the chain of one trading day after the other.              *)
TradeDay ==
  /\ phase = "days" /\ ahead # {}
  /\ ahead' = ahead \ {Smallest(ahead)} /\ Use(ChainOf(Smallest(ahead)))
  /\ UNCHANGED <<optRows, disk, runner, phase, window, mem, unsaved, runs>>

(* The run commits both connections; a calibration goes on with the next     *)
(* reference in the same process, any other job ends.                        *)
RunDone ==
  /\ phase = "days" /\ ahead = {}
  /\ disk' = [t \in Tables |-> Committed(t)] /\ unsaved' = [t \in Tables |-> {}]
  /\ \/ /\ phase' = "idle" /\ runner' = NoRun /\ window' = {} /\ ahead' = {} /\ chains' = <<>>
        /\ mem' = [t \in Tables |-> Nothing] /\ runs' = runs
     \/ /\ runs < MaxRuns /\ runs' = runs + 1 /\ phase' = "spots"
        /\ \E days \in SUBSET AllDates(runner) \ {{}} : window' = days /\ ahead' = days
        /\ UNCHANGED <<runner, mem, chains>>
  /\ UNCHANGED optRows

(* Cancelled, crashed, or a rule that raised: what was not committed is gone. *)
RunnerDies ==
  /\ phase # "idle" /\ phase' = "idle" /\ runner' = NoRun /\ window' = {} /\ ahead' = {} /\ chains' = <<>>
  /\ mem' = [t \in Tables |-> Nothing] /\ unsaved' = [t \in Tables |-> {}]
  /\ UNCHANGED <<optRows, disk, runs>>

PricesNext ==
  \/ \E u \in Underlyings : StartRunner(u) \/ \E d \in StoreDays : Snapshot(u, d)
  \/ AskSpot \/ SpotsDone \/ AskLevel \/ LevelsDone \/ TradeDay \/ RunDone \/ RunnerDies

PricesSpec == PricesInit /\ [][PricesNext]_pricesVars

PricesTypeOK ==
  /\ optRows \in [Underlyings -> [StoreDays -> Snapshots \cup {0}]]
  /\ Len(chains) <= CacheSize /\ window \subseteq StoreDays /\ ahead \subseteq window
  /\ \A t \in Tables : unsaved[t] \subseteq DOMAIN mem[t] /\ DOMAIN disk[t] \subseteq StoreDays

-----------------------------------------------------------------------------
(* A run computes with the prices of its own store: once the spots are read, *)
(* the spot of every day is the one the day's chain shows, and the level     *)
(* too, whatever earlier runs, cancelled ones included, left in the cache.   *)
PricesAreOwn ==
  /\ phase \in {"levels", "days"} =>
       \A d \in window : mem["spot"][d] = Seen(runner, optRows[runner][d])
  /\ phase = "days" =>
       \A d \in window \ CsvDays : mem["vix"][d] = Seen(runner, optRows[runner][d])

(* The two connections a process has to the cache never hold a transaction   *)
(* at the same time: the second writer would wait for its own process and    *)
(* end the run with "database is locked".                                    *)
OneTransaction == unsaved["spot"] = {} \/ unsaved["vix"] = {}

(* The cache of prices serves the run that reads it and never locks it out.  *)
CacheIsSound == PricesTypeOK /\ PricesAreOwn /\ OneTransaction
=============================================================================
