# Grindstone, specified

Grindstone is a desktop program for market data: an Electron shell (`code/app`) around a
Python sidecar (`code/backend`, FastAPI on the loopback interface) and two SQLite databases,
`grindstone.db` (the encrypted vault) and `market.db` (recorded data, coverage, backtests).
This directory holds TLA+ modules for the parts of it where several actors act on the same
state, the TLC configurations that check them on small instances, and TLAPS proofs of the
properties that matter most, for instances of any size.

Contents: [inventory](#inventory), [modules](#modules), [runs](#runs),
[fairness](#fairness), [proofs](#proofs), [findings](#findings),
[properties that do not hold](#properties-that-do-not-hold),
[not modelled](#not-modelled), [plan](#plan), [how to run](#how-to-run).

All paths below are relative to the repository.

## Inventory

### Processes and threads

| who | where | runs |
|---|---|---|
| shell (Electron main) | `code/app/src/main` | one event loop: IPC handlers, timers, promises |
| views (renderers) | `code/app/src/renderer` | a chrome per window, one page per tab, one overlay, a divider per split; they speak to the shell by IPC only |
| sidecar | `code/backend/main.py`, `app.py` | request handlers in a thread pool, one recorder thread, one deep-history worker, import and pull threads, a reader thread per backtest |
| runner | `code/backend/bt_runner.py` | a process per backtest, spawned by the sidecar |
| unattended recorder | `code/backend/recorder_main.py` | started by a logon task; a recorder without a sidecar |

The shell spawns the sidecar and restarts it; the sidecar dies with the shell
(`main.py:_die_with_parent`), the runner and the unattended recorder do not. Sidecar and
unattended recorder exclude one another by a bound socket (`instancelock.py`). Runner and
sidecar share a directory per run and the rows of `backtest_runs`.

### Components

Hard behaviours are what a test would hardly reach; the properties are what makes the
component correct, with the module that states them in brackets.

| component | state | operations | hard | correct when |
|---|---|---|---|---|
| backtest runs (`backtests.py`, `bt_runner.py`, `main.py`) | `backtest_runs`, a directory per run, `_proc`, `_run_id`, `_cancelled_run`, `_progress`, `_report_keys` | start, cancel, read loop, ingest, delete, mint key, boot sweep | two readers and a start at once, rowids that are used again, crash with a run in flight, a last write that fails | one runner at a time, it can be cancelled, every row settles once and with its own numbers [BacktestRuns] |
| sidecar supervisor (`sidecar.ts`) | `proc`, `state`, `restarts`, timers, `quitting` | start, announcement, health check, exit, restart, give up, stop | the exit event and the failed health check of one death; restarts in flight at stop | never rests without a backend unless it gave up, and gives up only after `MAX_RESTARTS` failures [Sidecar] |
| session proxy and store (`api.ts`, `index.ts`, `sessions.py`, `app.py`) | `sessionToken`, lock flag, session entries with their keys | login, requests, 401, lock, logout, idle expiry, crash | late answers, a key wiped under a request, unlock racing a lock | unlocked only over a token; nothing sealed with a wiped key [ShellSession] |
| recorder ownership (`instancelock.py`, `recorder_main.py`, `autostart.py`, `syskey.py`) | bound socket, stop flag, schedule, system key | acquire, release, register, unregister, boot, shutdown | start and stop of two processes overlapping, a kill of the owner, a flag left over | one process writes `market.db`; nobody is stopped by an old flag [RecorderOwnership] |
| history, coverage, backfill (`coverage.py`, `backfill.py`, `recorder.py`, `onclick.py`, `marketdb.py`) | `data_cover`, `rec_bars`, the option archive | plan, fetch, store, mark, collect, prune, reconcile | kill between store and mark, short answers, outages, sessions that cannot be taken in, cooldowns, a moving window | a claim never outruns the data, nothing is written off that exists, no day that fails keeps another from its turn [MarketHistory] |
| windows and tabs (`tabs.ts`) | `wins`, tabs, splits, dividers, `attachedOverlay`, the drag | open, close, move, tear off, split, reorder, lock | messages and menu clicks for what has gone, asynchronous closing | no view leaks or is shown twice; a lock covers every window [TabManager] |
| gesture wheel and launcher (`wheel.ts`, `WheelOverlay.tsx`) | `session`, `launcherSession`, `spawnSeq`, `releaseDuringSpawn`, the overlay | press, move, release, toggle, pick, post picker, lock | two awaits per spawn with windows closing and locks in between | one occupant of the overlay, nothing over the sign-in form [WheelOverlay] |
| deep history (`depth.py`) | queue, `_seen`, `deep_at`, `tail_at`, `bar_hist` | submit, fill head, fill tail, stop | stop or kill between the two ends, a feed that fails, classes of symbols | the stored days have no hole, a horizon is one that was reached [DeepHistory] |
| data jobs (`datajobs.py`, `chainimport.py`, `btdata.py`, `onclick.py`) | one slot for an import, one for a pull, the options store | import, pull, stop, sync, refuse | failure mid-import, sync against a growing archive, two stops | what a job reports is in the store; a pull that is stopped ends [DataJobs] |
| favorites and auto-record (`favorites.py`, `autorecord.py`, routes of `app.py`) | starred pages with icons, recording jobs, the setting | star, un-star, icon, switch, pause, edit | commits in two databases, one per plan entry, with requests overlapping | what is starred is recorded, what was paused rests [Stars] |
| recording jobs (`recorder.py`, routes of `app.py`, `brokers/tastytrade.py`) | `record_jobs`, the rows a round has read | begin, run, fail, finish; slice of a futures chain; make, patch, delete | a failing or locked job before others; edits and re-used ids in mid-round | every job has its turn, "ok" was earned, a snapshot is whole [JobRounds] |
| archive tools (`tools/databento_import.py`, `tools/loadhist.py`) | `hist_chain`, the engine stores, the continuous futures bars | import a pull, rebuild from the vault, append | ids that are used again, a rebuild beside the recorder, kills | a price keeps the contract its id named that day, a rebuild that ended is whole [ArchiveLoads] |
| chart objects (`chartobjects.py`, `ChartDraw.ts`, `chartStore.ts`) | a document per chart key, its bucket in the page, `savedDocs`, a debounce | load, edit, save, flush, switch, close | a switch within the debounce, a save that fails late, a load that is slow | what is believed saved is stored, only clearing deletes [ChartDocs] |
| wheel configuration, settings, notepad (`wheels.py`, `GesturesPanel.tsx`, `settings.py`, `notepad.py`) | a document or rows per user | panel save, hub lock, put, add, edit | two writers of one document; count before insert | the panel keeps the lock; bounds hold [UserDocs] |
| backtest engine (`bt/engine.py`, `portfolio.py`, `data.py`, `vix.py`, `selection.py`, `context.py`, `spec.py`, `expr.py`, `sweep.py`) | positions, cash, pending exits; cached prices; a grid of cells | the day loop; pick, size, open, close, settle; load, compile, evaluate; sweep | the order of a day, a cache shared by processes, gaps, ties | books balance, limits hold, no look-ahead, nothing is run that was not asked for [BtLedger, BtPrices, BtStructure, BtIndicators, BtRules, BtSweep] |
| options analytics (`options.py`, `greeks.py`, `opthist.py`, `insurance.py`, routes of `app.py`) | `chain_cache`, `chain_cover`, answers in memory, `insure_expectancy`, one sweep thread | fetch, filter, pair, fan, series, trials, sweep, scan | overlapping fetches, expiry of parts of a cache, closes that are missing, still forming or swept | an answer is whole, a measurement counts every day there is and is of like with like [ChainCache, FuturesChain, OptHistory, Expectancy] |
| market data and brokers (`app.py` bars and quotes, `marketdb.py`, `market.py`, `providers/*`, `brokers/*`, `syskey.py`, `keyprobe.py`) | `bar_cache`, breakers and pools, tokens, accounts, the sealed key | draw, quote, mint, retry, enrol, probe, remove | time-outs that do not stop the work, early revocation, refusals, sealed file and metadata | a chart does not lie about its sources, what piles up is bounded per outage and cooldown, a stored key was proved [ChartBars, KeylessFeeds, Brokerage, SystemKey] |
| search, news, universe (`search.py`, `newsstore.py`, `universe.py`) | articles with a full-text index, the synced symbols and their index in memory | back-fill, upsert, set body, prune; sync, load, swap; query | answers that land late, a prune between them; a swap in the middle of a search | nothing readable goes blank, an index is whole, names lead [NewsStore, SymbolSearch] |
| backtest numerics and reports (`bt/pricing.py`, `stats.py`, `calibrate.py`, `report.py`), vault and schema, routes that read a row, pages, installers, other tools | none, or one row each | - | rounding; formats | see [not modelled](#not-modelled) |

### How they interact

- A view calls the sidecar through the shell's proxy (`api.ts`), which adds the token. A 401,
  a logout or the death of the sidecar (`index.ts:onStatus`) clears the token; `setToken`
  announces the lock by `setImmediate`; `TabManager.setLocked` closes every window but one and
  `WheelManager` despawns. ShellSession, TabManager and WheelOverlay meet at that flag.
- The supervisor publishes the backend that requests go to. What the others may rely on is
  Backend. Sidecar implements it, and ShellSession EXTENDS it: the session is composed with every
  behaviour the supervisor's interface allows, and needs nothing else of it.
- The sidecar and the unattended recorder compete for the recorder lock (RecorderOwnership).
  Who holds it sweeps `backtest_runs` at boot (BacktestRuns: `ownsLock`) and records and
  backfills (MarketHistory, which has one recorder because `OneWriter` holds).
- The bars a chart shows come from the broker, the cache of its last answer, what the recorder
  wrote and what the deep retriever keeps (ChartBars; DeepHistory is where the last one is made).
- The recorder's snapshots reach a backtest through the sync of the options store (DataJobs) and the
  prices a runner caches (BtPrices); they reach the Opt and Insure pages as the daily archive (OptHistory,
  which Expectancy EXTENDS).
- A star in the omnibox makes recording jobs (Stars), which the rounds of JobRounds run while RecorderOwnership
  says whose they are.
- The wheel attaches its overlay through the tab manager, which keeps it above every view
  (TabManager: `attachedOverlay`); a window that goes and a lock are callbacks into the wheel.

## Modules

| module | models | code |
|---|---|---|
| RunLedger | abstract: the table `backtest_runs`, whoever writes to it | - |
| BacktestRuns | manager, readers, runners, directories, report keys, crash and boot | `backtests.py`, `bt_runner.py`, `main.py` |
| Backend | abstract: which backend requests are sent to | - |
| Sidecar | supervisor with its children | `sidecar.ts` |
| ShellSession | proxy, session store, request handlers, lock screen | `api.ts`, `index.ts`, `sessions.py`, `app.py` |
| RecorderOwnership | lock, recorders, sweep, stop flag, system key | `instancelock.py`, `recorder_main.py`, `autostart.py`, `syskey.py`, `main.py` |
| MarketHistory | coverage, planning, fetching, live collection, retention | `coverage.py`, `backfill.py`, `recorder.py`, `onclick.py` |
| TabManager | windows, tabs, splits, child views, drags, menus, lock | `tabs.ts` |
| WheelOverlay | wheel and launcher on the one overlay | `wheel.ts`, `WheelOverlay.tsx` |
| DeepHistory | the deep retriever with its queue and its two ends | `depth.py`, `marketdb.py` |
| DataJobs | import, pull and sync of an options store | `datajobs.py`, `chainimport.py`, `btdata.py`, `onclick.py`, `backtests.py` |
| JobRounds | the rounds of recording jobs, futures snapshots | `recorder.py`, `brokers/tastytrade.py`, `app.py` |
| ArchiveLoads | import of raw pulls, rebuild of the archive | `databento_import.py`, `loadhist.py`, `opthist.py` |
| Stars | favourites, icons, recording jobs, the setting | `favorites.py`, `autorecord.py`, `app.py` |
| ChartDocs | a chart's drawings in the page and in the database | `chartobjects.py`, `ChartDraw.ts`, `chartStore.ts` |
| UserDocs | wheels, settings, notepad | `wheels.py`, `GesturesPanel.tsx`, `settings.py`, `notepad.py` |
| BtLedger | the day loop and the books | `bt/engine.py`, `bt/portfolio.py` |
| BtPrices | chains, spots and levels a runner caches | `bt/data.py`, `bt/vix.py`, `bt_runner.py` |
| BtStructure | expirations, strikes, risk, size | `bt/selection.py`, `bt/portfolio.py`, `bt/engine.py` |
| BtIndicators | the series rules read | `bt/context.py` |
| BtRules | loading, compiling and evaluating a strategy | `bt/spec.py`, `bt/expr.py`, `bt/engine.py` |
| BtSweep | paths, grid and workers of a sweep | `bt/sweep.py` |
| ChainCache | the live chain behind the option pages | `options.py` |
| FuturesChain | a page of futures options | `options.py`, `greeks.py` |
| OptHistory | series and fan over the archive (operators only) | `opthist.py` |
| Expectancy | puts as insurance: trials, classes, sweep, scan | `insurance.py`, `app.py` |
| NewsStore | articles and their full-text index | `newsstore.py`, `app.py`, `recorder.py` |
| SymbolSearch | the universe and what a query finds | `universe.py`, `search.py`, `app.py` |
| ChartBars | the daily chart and its four sources | `app.py`, `marketdb.py`, `depth.py` |
| KeylessFeeds | pool, deadline and breaker of the keyless sources | `providers/yahoo.py`, `websearch.py`, `reader.py` |
| Brokerage | accounts, tokens and the source of a quote | `app.py`, `market.py`, `brokers/tastytrade.py` |
| SystemKey | the key of the unattended recorder | `syskey.py`, `keyprobe.py`, `app.py` |
| BacktestsProofs | theorems about BacktestRuns, BtLedger, BtPrices, BtStructure, BtIndicators, BtRules, BtSweep, MCEngine | |
| ProcessesProofs | theorems about Sidecar, RecorderOwnership | |
| WindowsProofs | theorems about TabManager, ShellSession | |
| MarketHistoryProofs | theorems about MarketHistory, KeylessFeeds | |
| StoresProofs | theorems about DeepHistory, DataJobs, JobRounds, ArchiveLoads | |
| DeskProofs | theorems about Stars, ChartDocs, UserDocs, WheelOverlay | |
| MarketProofs | theorems about ChainCache, Brokerage, SystemKey, NewsStore, SymbolSearch, OptHistory, Expectancy, ChartBars, FuturesChain | |
| Orders | sorting, parts of sequences, medians and sums that several modules use, and what the proofs know of them | `search.py`, `greeks.py`, `insurance.py`, `marketdb.py` |
| MCProcesses, MCWindows, MCStores, MCDesk, MCEngine, MCMarket | several independent components in one run | |

The last kind EXTENDS components that share no state and adds one variable, `part`, which picks
at the start the component a behaviour is about; the others stand still. The states of such a run are
the sum of those of its components, and its invariants speak of all of them. A component whose start is
a choice (a document, a strategy, a window) makes it only in its own part. Components that do
interact are composed otherwise: ShellSession EXTENDS Backend, Expectancy EXTENDS OptHistory.

Every module has one action per handler, thread step or process step, in the order the code
takes them; a point where the code awaits, releases a lock, commits or waits for a process is
a state between two actions. Operators named `X_Something` next to an operator `X` are
alternative forms of it with a plausible mistake in them: `PROJECT.json` lists, for every
property of a run, one that the property tells apart from the code. Nothing uses them.

### BacktestRuns

`status`, `occupant`, `ingested` are the columns of a row and the run whose INSERT and whose
result it carries; `dirs`, `jobs`, `resultBy`, `resultOk` the run's directory; `proc` and
`exitedOk` the runner processes; the others the manager's fields under their own names.
`start` is two actions under `self._lock`: the INSERT (`StartInsert`), then directory, job file, Popen and the fields
(`StartLaunch`), any of which may fail (`StartFail`). A reader thread reads progress
(`ReaderProgress`), waits for the exit (`ReaderWait`), decides under the lock whether its run was
cancelled (`ReaderVerdict`), and settles the row (`ReaderCancelled`, `ReaderError`, `ReaderDone`); a
cancelled run's directory goes (`ReaderCleanup`), a finished run's result and job files go
(`ReaderUnlink`); last come the manager's fields (`ReaderClose`). `ReaderFail` is its exception
handler. It and `StartFail` end with `_finish` once more, which nothing catches if the database refuses it
again (`FinishOrStrand`): the row stays 'running' with no run that will settle it, until a boot sweeps it.
`stranded` is history: the runs of this sidecar that ended so. `delete_run` checks, deletes the row
and removes the directory in three actions, and minting a report key reads the row and writes
the key in two, since they hold neither connection nor lock in between. `Crash` loses the
sidecar's memory and keeps the database, the directories and the runners; `Boot` sweeps rows
marked 'running' if the process owns the recorder lock. Rowids are used again as SQLite does
(`max + 1`). `Keeper` maps a state to RunLedger: the keeper of a row is its run while that
run's start or reader has still to settle it; one that cannot write the row loses it (`Lose`).

### Sidecar

A child is unborn, booting, listening or dead, and each of the things it says arrives at the
shell by an action of its own: the announcement (`spoke`), the answer of the health fetch, the
exit event (`exitSeen`, delivered some time after the death). `launch[p]` is where the
`launch()` that spawned p stands. A child's name is given to a new one when nothing
of it is left. `tries` is history: launches since a backend was last ready.

### ShellSession

`home[s]` is the process whose store has session s, `idle` the sessions past
`idle_seconds` (they are dropped when somebody looks, as in `SessionStore.get`), `token`,
`windowsLocked`, `lockDue` and `unlockDue` the shell's. A request goes through being sent with the
token of that moment, authorised (which copies the key), finished (which may encrypt a
credential with what the copy holds by then) and delivered; it can fail or time out in the
shell while the backend goes on with it.

### RecorderOwnership

Two kinds of process, apps and unattended recorders, step through `main()`; `holder` is the
process whose socket is bound, which the operating system releases on its death in any state.
`connected` and `ticking` separate the recorder's connection from its thread, since `stop()`
does not wait for the thread.

### MarketHistory

One series of days, either bars or an option chain. `rows[d]` says how much of a day is
stored (none, part or all of it), `cover[d]` is its coverage row, `rest` the days in cooldown,
`queue` what is left of the plan, `claims` what is about to be marked. The provider
(`carried`: which days it has) is fixed in a behaviour and unknown to the code. A fetch fails and is
marked (`FetchFails`), answers (`FetchAnswers`), or brings a session that the parser refuses or a store
cannot take (`FetchBreaks`): then the cycle is over, nothing is marked and no attempt counted. Dates are
numbers; the window, the chunk, the gap a plan may bridge and the pages of the two
collectors are constants.

### TabManager

`wins` is the list with its order (index 1 is the window a lock keeps), `win[w]` a window's
tabs, active tab, previous tab, split, child views and divider; `live` and
`dividers` are the views that exist, whoever owns them; `closing` the windows that were told to
close and whose 'closed' event is still to come. `Reconcile` is the part of `reconcile()` that
attaches and detaches. Of the stacking order only the overlay's place relative to the others is kept.
A message from a view may arrive after the view's window has started closing; a drag, a tab
menu and a report request hold names of tabs and windows across turns of the loop.

### WheelOverlay

`session` and `launcher` are `this.session` and `this.launcherSession`, `overlay` and
`attached` the window that has the overlay as a child and the one the tab manager remembers.
Every `await` is an element of `calls`, answered later and in any order; spawn has two
("doc", then "pad"). A newer press removes the older calls of the first wait (`spawnSeq`);
nothing is compared after the second. `face` is what the overlay's page draws: messages to a
page that is not loaded evaporate and `wheelui:ready` replays what is live. `crossed` is
history: something came into a wait after which the code checks nothing (see
[below](#properties-that-do-not-hold)); it is cleared once nothing holds the overlay.

### DeepHistory

Days are sessions, `hist[s][d]` the feed a stored bar came from. `submit` is two steps (the lock,
the queue), and a fill is one step per transaction or request: `Work` advances the one that is under
way. The keyless feed answers with the whole series or not at all and is asked once per fill; the broker
answers for equities, from its floor on. `Die` loses the queue and keeps the table.

### DataJobs

`opt[d][c]` is a row of the options store with the writer it came from. The three writers (`Import`,
`Pull`, `Sync`) advance one committed day at a time; `taken` are the recorder's snapshots and
`chainLast` the mark up to which they are synced. The refusals of `chainimport.py` are one file each in
the run. `"set"` and `"asked"` in `pullStop` keep the event apart from the caller that saw a thread.

### JobRounds

`round` is one call of `run_due_jobs`: `left` are the rows as they were read when it began, and each request,
commit and `_finish` is a step, between which the Data page edits `table`. A time is an age in ticks up to the
interval. Whether the vault is unlocked is asked once per job, so it is a choice there. `heir` is history: the
row was made under the id of a deleted one that the round still held. A contract is its days to expiration,
kind and strike; which of the two rights, and the numbers of a quote, do not matter to the slice.

### ArchiveLoads

`archive` maps a row of `hist_chain` to where its price is from: an instrument id of a pull, the vault, the
recorder. An import works a day at a time, a rebuild a file at a time, and a commit is a step. The rows of a
file reach the archive in batches; which of them are still in the batch does not matter, so it is a choice.
A file of the vault has at most one fault: its header, or the engine's store that refuses the day.

### Stars

A request is a record in `request`, one per symbol and one for the settings page, and is a step per
commit: the favourite in `app.db`, the reading of the setting, and one step per entry of `PLAN` in
`market.db`. `paused` and `excused` are history: jobs the user paused by hand, and pairs for which the
setting promises nothing (no entry of the plan fits, a job was deleted, the backend died in between).

### ChartDocs

A bucket per chart key, a load per key, one engine, its debounce and the saves in flight. Documents are
sets of objects with ids; the validation is that of `chartobjects.py` as far as it looks at more than
one number. `Orderly` states what the page relies on: requests of one page served in order, and a load
answered before the chart is touched or left. Run `desk` assumes it; `chart_lost` shows what happens
without.

### UserDocs

Three small stores. The panel of the wheels keeps the document it was mounted with and saves in two
requests (read the lock, put the document), the hub of an open wheel writes the lock. A setting has bounds
that are applied where it is read. An entry of the notepad is counted, then inserted; edited after
it was read; each step may meet another caller's.

### BtLedger, BtPrices

`BtLedger` is the loop over days: positions still to visit (`todo`) and visited (`kept`), exit
rules (`VisitExit`), expirations (`VisitExpiry`), entries (`Enter`). Whether a rule says yes is open, the
quotes of a day are arbitrary, and arithmetic is exact. One contract per expiration stands for all
strikes, so structures are of one strike; `BtStructure` has the others. Premiums, commissions, clearing
and assignment fees are separate constants.
`BtPrices` is one runner after another over one store and one `backtest_cache.db`: what is asked for
in which order, which values are kept in memory, which are committed and when, and a death between.

### BtStructure, BtIndicators, BtRules, BtSweep

Four pure parts with a small state around them. `BtStructure`: an `order` (legs, which contracts have
a bid, a sizing, a net value) is resolved leg by leg (`Resolved`, a recursive function), and the contracts
then all have a bid. A leg's days to expiration may be a target, a window, both or another leg's
(`Unset` is None). What a sold spread can lose (`WorstCase`) is the worst of `Worth`, the intrinsic values at
any price. `BtIndicators`:
a series grows by one close, which may be missing, and must not change its past; the code's rolling
definitions are compared with definitions over the window. `BtRules`: a document is loaded (`Load`),
and a rule that was let through is evaluated in the environment the engine builds for its
place (`Evaluate`). `BtSweep`: axes are parsed and validated, then workers take cells in order
(`Take`), end them in any order (`Finish`), and the parent hands over what is finished (`Deliver`); a worker
may die.

### ChainCache, FuturesChain

`ChainCache` keeps time in ticks and identifies a quote with its time. A request is answered from
memory, from a cover that holds it, or goes out padded (`Request`), is quoted (`Quoted`) and lands
(`Landed`), where it is stored with its region and old covers and rows are swept together; requests
overlap, the provider may fail, the backend may restart.
`FuturesChain` is one page: which listing stands for a date, how the budget of rows is shared, which
marks are dropped as bad prints, and what forward the pairs give; a step is one bad print.

### OptHistory, Expectancy

`OptHistory` has operators only: windows with grace, scores, marks and bands over archived rows.
`Expectancy` EXTENDS it. Chains are archived day by day. Closes are read from two tables, the one of the
recorder and under it the one charts fill (`Closes`); a fetch gives of today the price so far (`GivenBars`),
which a later one replaces; each table loses its oldest days, of the symbol or by the charts of others, and
a backfill may fill in days that are past. A scan starts the sweep in a thread when the fingerprint has moved,
is told "measuring" or "stale", or is answered from what is kept. Both aggregations
of the code (all at once, and folded in chunks) are there, and are compared. What a scan reads, the
measurement and the last close, it reads in one moment here; that its edges are earned is proved of any
measurement made of trials and any close (`ScansEarn`).

### NewsStore, SymbolSearch

Articles are numbers with a revision and the length of a body. The writers are the back-fill, the live
look-up, the recorder and the reader that extracted a page. An answer is kept as it was read (`fetched`) until
it is stored, among the steps of the others; the recorder's prune takes articles and their index rows
together. `SymbolSearch` has the two threads that
replace the table of symbols and load the index from it, and the answer to a query, of which the
matches are given and the fusing, pinning, filling and paging are the code's. A search is as many steps as
it reads the index (`Seeks`, three times `LooksUp`, then the answer, which the results page gives after its
wait for the web and a last read), and the index may be swapped between any two.

### ChartBars, KeylessFeeds, Brokerage, SystemKey

`ChartBars` is the route that draws a daily chart, with days for bars. `KeylessFeeds` is one pool with
its breaker: a call that times out leaves its work behind, and nothing ends work that hangs. A call is let
through by the breaker in one step and submitted in another. `rounds` is history: the cooldowns that ran
out since a call was last answered. `Brokerage` has the accounts with their
sealed fields, the cached access tokens and a quote between its requests; a mint may be answered 400 and a
request 403 whatever the grant, and either may fail on the network. `SystemKey` has an
enrolment step by step: probe, write the temporary file, replace, describe; several at once, with a kill
and a reset of the Windows profile in between.

## Runs

All runs finish within a few minutes; `expect: violation` runs stop at the counterexample they are for.

| run | module | instance | shows |
|---|---|---|---|
| backtests_crash | BacktestRuns | 2 runs, 2 rowids, 1 crash, boots with and without the recorder lock | `RowsAreTracked`, `FatesAreHonest`, the refinement `LedgerOf` |
| backtests_live | BacktestRuns | the same, the rebooted sidecar owns the lock | `EveryRunSettles` under fairness |
| backtests_dir_lost | BacktestRuns | no crash | finding: `OnlyFinishedDirsGo` |
| processes | MCProcesses | 2 child names, 3 restarts, 2 timers; 2 apps, 2 unattended recorders | `SupervisorIsHonest`, `OneOwner`, the refinement `SupervisesBackend`, `ProcessesSettle` |
| windows | MCWindows | 2 windows, 3 tabs, one pending drag, menu, report or wheel; 1 backend name, 2 sessions, 2 requests | `ViewsAreAccounted`, `NoBlankWindow`, `LockCoversEveryWindow`, `SessionIsSound` |
| history | MarketHistory | 4 days, chunks of 2, gap 1, window 3, retention 2, 2 attempts, 2 crashes, 2 cooldowns that end | `CoverageIsTrue`, `SettledStays`, `EveryDayGetsItsTurn` |
| stores | MCStores | an index or equity and a crypto symbol, 3 sessions, 1 death; 3 dates, 2 contracts, 7 files, 2 snapshots, 2 jobs; 2 recording jobs, 2 edits, 1 cut; 2 pulls, 5 vault files, 2 runs of the tools | `HistoryUnbroken`, `StoreIsTrue`, `TakenUpIsLetGo`, `EveryJobHasItsTurn` |
| desk | MCDesk | 1 equity, 1 futures root, 1 page, 2 requests; 2 charts, 5 touches; 2 saves of the panel; 2 pad callers; 2 windows and 2 wheel identities | `StarsAreKept`, `SavedIsStored`, `PanelKeepsTheLock`, `OverlayIsClaimed`, `GestureIsAnswered` |
| chart_lost | MCDesk | requests in any order, slow loads | finding: `OnlyClearingDeletes` |
| engine | MCEngine | 3 trading days over a gap, 8 strategies; 3 store days, 3 runs; 7 contracts; series of 5 days; 9 sweeps of up to 8 cells with 3 workers | `LedgerIsSound`, `LimitIsKept`, `CacheIsSound`, `StrategyIsHonoured` |
| spot_foreign | MCEngine | two underlyings | finding: `PricesAreOwn` |
| market | MCMarket | 3 contracts, 2 windows, 3 ticks; 5 listings; 6 puts over 5 days; 2 articles, 2 answers out; 6 queries; 5 chart days; 2 callers on 2 workers, 2 cooldowns; 2 grants; 3 keys | the twelve properties of its nine components |

A property that bundles several named ones (`RowsAreTracked`, `ViewsAreAccounted`, ...) is stated with its
parts in the module it belongs to; the parts say what each is about.

What the market run shows, by component: `AnswerIsWhole` (ChainCache), `PageIsFair` (FuturesChain),
`LikeWithLike`, `TrialsAreSound`, `ReadyIsCurrent` (OptHistory and Expectancy), `NewsStaysReadable`
(NewsStore), `UniverseIsWhole`, `NamesLead` (SymbolSearch), `ChartIsSound` (ChartBars),
`BacklogIsBounded` (KeylessFeeds), `QuoteIsHonest` (Brokerage), `StoredKeyWasProven` (SystemKey).

Why the bounds are enough to be of interest:

- *backtests*: every race in the code is between one run and the next one, or between a run and
  a delete; two runs and two rowids reach a reused rowid, an old reader under a new run, a cancel
  for each of them, and a crash under any of these. A run is an object, not a slot: no run is
  used twice.
- *processes*: names of children are used again, so two names do not bound the number of launches; they
  bound how many children the shell knows of at once, which is two when launches overlap. `MaxTimers`
  bounds the restart timers that are set together. A launch with no free name is disabled;
  `SettlesAgain` says so in its last disjunct. Two apps and two recorders give every pair that can meet.
- *windows*: two windows and three tabs give a split with a third tab, a move that empties a
  window, a tear-off, and a window that closes under a menu or a drag. `MaxPending` bounds how
  many drags, menus, report requests and wheels are under way together; with one of them at a
  time each meets every change of tabs, windows and lock. A backend, a session and a request are used
  again once nothing refers to them; two requests are one that is late and one that is current.
- *history*: a window shorter than the time line makes days leave it, a chunk shorter than the
  window makes two chunks per cycle of which one is fetched, and a retention shorter than both
  makes stored bars disappear under their claims. `LivePage` and `BackPage` are larger than any
  answer here; smaller ones are discussed [below](#properties-that-do-not-hold).
- *stores*: the broker's floor lies inside the calendar, so head and tail can come from different feeds;
  three dates with a Saturday between sessions and a provider window of two make a pull skip, refuse,
  store and stop. A sync of a day and the recording of that day do not overlap midnight. Two recording jobs, one per route, and
  two edits are a delete and a new job under its id in mid-round; a batch of one quote makes two batches.
  Two pulls share an id that was priced before it was defined; a batch of three leaves a last, partial one.
  Two runs of the tools are an import in a rebuild, or a rebuild after one that was killed.
- *desk*: two requests at once (`AtOnce`) are a star against the switch of the setting or against the
  un-star of another symbol; one request per symbol and one save of the settings is under way, as the pages
  send them. Two charts give a switch with a pending save, five touches a failed save, a switch and a
  return. Two wheel identities overlap in two windows; three, which add a late answer of a third press,
  were checked too and take five minutes.
- *engine*: two positions of one and two legs over three days with a gap reach an expiration that falls on
  a day without a session, a calendar spread of which one leg expires, a loss of the mark, and each
  kind of exit. One underlying and one sync per day, other values being the subject of the finding. In a
  sweep the paths differ; two may address one leaf, one by position and one by name: the later wins in the
  code, and the label of the cell names both.
- *market*: the clock of the chain is twice its time to live; the provider lists new contracts and
  removes none. A fetch takes at most `MaxFlight`. Expectancy archives two days, in order (no back-fills of
  chains), and three sessions with a hole between them that looks like a holiday and a Friday without a
  session. A fetch of bars reaches back to the first session (`Reaches`), a retention removes nothing or all
  but the last days (`Cutoffs`), a backfill asks for the session in the middle (`Stretches`), and of that session
  a price of before the close can be read (`FormingOf`); the live chain is what the recorder archives on that
  day, and clusters have means that are whole numbers. `MaxRevision` and `MaxFetched` are an answer that was read
  before an article was rewritten and is stored after another one. A chart's cache keeps no longer than the shortest chart goes back
  (`ChartAssumption`; days are trading days). In the code that holds for a retention of 7, 30 or 90 days, since
  the app's charts ask for 200 candles or more, and of a year from 260 candles on; a year under 200
  candles or "forever" may leave a hole ([below](#properties-that-do-not-hold)). For the keyless pool
  `MaxRounds` bounds the cooldowns that run out: after two, with as many callers as workers, every worker hangs
  and the pile has grown twice. An access token
  outlives the request it was minted for. One user with one account, whose id is used again, one quote at a
  time, two enrolments. In the code up to 2 symbols more than are built in count as none synced (`HINT_SLACK`),
  here 0.

`CHECK_DEADLOCK FALSE` is set where the system really may stop: all runs are used up (backtests), the
supervisor has given up or the app has quit (processes, windows), the calendar is over or the bounded
requests are made (history, stores, desk, engine, market).

Symmetry is used only in runs without liveness properties: the runs of backtests_crash; windows, tabs,
sessions and requests of windows (a window's place in the list is in the state); windows and identities of
desk.

## Fairness

- *FairSpec* (BacktestRuns): `WF` of the boot (the shell restarts the sidecar), of a start that
  holds the lock, of every runner (the engine terminates) and of every reader thread. No
  fairness on `start`, `cancel`, `delete_run`: nobody has to press a button. A row whose last write failed
  waits for the next boot, and nothing says that there is one: `EveryRunSettles` excepts it.
- *ProcessesFairness*: timers fire, delivered events are handled, the health fetch ends (it has a
  deadline), a child that was killed dies; an unattended recorder that is scheduled proceeds through
  `main()`. A child never has to announce itself.
- *StoresSpec*: the retriever's worker and the threads of the jobs run while the process does, and a
  `put` follows its `submit`. Feeds need not answer; a request that fails ends. The recorder's loop goes on
  (`_loop` catches whatever a tick raises) and time passes.
- *FairHistorySpec*: a backfill cycle starts whenever the thread is free (`BACKFILL_EVERY` while
  it is switched on), a fetch ends (each has a timeout), a day is marked. It does not say that a fetch
  succeeds, nor that a cooldown ends. `EveryDayGetsItsTurn` promises nothing while sessions that came cannot be
  taken in again and again (`FetchBreaks`): then the head of the queue keeps its place.

The other runs have no liveness property and assume no fairness: a request may never be answered, a
button never pressed.

## Proofs

TLAPS proves these for any number of runs, children, processes, sessions, windows, tabs, requests, days,
contracts and positions, from the assumptions on constants the modules name (`None` is not a run, amounts are
natural numbers, the trading days of a store increase, the set of tabs is finite, and so on). In each case
the strengthening was model-checked as an invariant first. A theorem that needs more of the constants than
its module assumes says so in its ASSUME:

| theorem | assumes | why |
|---|---|---|
| CoverageStaysTrue | `ChunkDays <= BackPage` | `stock_bars_range` asks for one page of at most 10000 bars; a chunk of 30 calendar days of regular sessions has about 8000. With a shorter page the last days of a chunk are taken for absent |
| ChartsAreStored | `Orderly = TRUE` | loads and saves are answered in the order they were sent; without that the drawings can be lost (finding 2) |
| ChainsAreWhole | `Delisting = FALSE` | a contract that is gone is served from its cover |
| ReadyStaysCurrent | `Backfills = FALSE` | the fingerprint has only the newest archived day and the last close ([below](#properties-that-do-not-hold)) |
| CacheServesItsRun | one underlying, `Resync = FALSE` | the cache is keyed by the day alone (finding 3), and a day that is synced again keeps its cached spot |
| StrategyStaysHonoured, SweepsAreSettledFirst | `GridLimit < RangeCap` | 400 and 500 in the code; a `--limit` of 500 or more lets a range through that was cut at 500 values |

**BacktestsProofs, the runs.** `IInv` is inductive. Besides the types and the properties themselves it has

- `RowsInv`: a row is free exactly when it has no occupant, and a row's occupant has that rowid;
- `LifeInv`: INSERT, Popen and reader come in this order, and a live child of this sidecar is
  followed by a reader;
- `DownInv`: while the sidecar is down it has no start, no tracked runner, no delete, no reader;
- `TrackInv`: `_proc` and `_run_id` speak of one run, which has a reader, and a start goes on only
  while no tracked runner lives;
- `CancelInv`: a cancellation, pending or decided, was asked for by that run's user;
- `ResultInv`: a result file that a held run can still read in is its own or an orphan's.

The properties are not inductive by themselves, because each of them depends on where the other
threads stand: that a row is still 'running' when its reader settles it needs that no delete
touches a running row, that the sweep ran before any reader of this process existed, and that a
rowid is given again only after its row is gone. Of a run that is stranded `StrandedIsOver`, a part of
`RowsAreTracked`, says that its runner is dead and nothing will settle its row: that makes the refinement's
`Lose` a step that is taken once. Every conjunct is one lemma with one case per
action. From `IInv` follow `RowsAreTracked` (RowsStayTracked) and from it "one run at a time"
(AtMostOneRun), `FatesAreHonest` (FatesStayHonest), and `ImplementsLedger`: every step is a step of
RunLedger under `Keeper`, or leaves its variables alone.

**BacktestsProofs, the books.** `LedgerInv` is `LedgerTypes`, `Balanced` (cash is what was started with,
plus what the trades made, plus what the open positions cost or brought), `Numbered` (every number handed
out is one position, open in this pass or one trade) and `Expired` (what is held past a visit of the day
has not expired, which an exit that is pending does not change). It gives LedgerStaysSound; LimitStaysKept is
the action property that an entry never takes the book past the allowed buying power, and needs that the
risk of what is open is counted once per position.

**BacktestsProofs, the price cache.** `PricesInv` is the types, `Shape` (which days have rows),
`DiskIsFinal` (a day on disk was computed when nothing more could come to it), `MemoryIsOwn` (the least
recently used levels in memory are those of this store), `UnsavedIsShown` and `PassesAreDone`. It gives
CacheServesItsRun.

**BacktestsProofs, a strategy.** Little is carried from step to step here (`EngineInv`: the request is one,
the closes are a series, what was loaded compiled, what a sweep took was let through); what is proved is what the
code computes, of any input.

*Rules* (LoadedRulesAreSupplied). What the loader allows at a place (`Allowed`) is part of what the engine
supplies there (`Env`), so a compiled rule has its names, and `ExitRules` is in order of priority whatever the
document lists.

*Sweeps* (SweepsAreWhole, SweepsAreSettledFirst). The cells are numbered by the values they take: the number of
cells that share the first k values (`Below`) is a product, each divides the one before, and a number has one digit per
axis (`DigitsAreSomeones`, `DigitsAreOnes`), so each combination is one cell. A range that is not cut ends less than a step short
of its stop (`RangeIs`). A cell goes through the path that `validate` went through, since a value never changes
what is a list or a mapping. `SweepInv` says that what is taken, finished or handed over is the cell of its place.

*Series* (SeriesStayHonest). Each indicator is shown to be a function of the closes up to its day: two series that
agree up to a day agree there (`RollingAlike`, `EmaAlike`, `RsiAlike`, `WindowsAlike`). Differences of running sums are
sums over the window (`RollingIs`), Wilder's averages are no less than 0 (`WilderIs`), and a rank lies between
those of the lowest and the highest value.

*Structures* (SoldSpreadsStayDefined). What was chosen for a leg stays chosen (`ChosenStay`), so a wing that is
asked for the same expiration gets it, and there the nearest strike to one further out, other than the
leg's own, is further out (`WingIs`, from `NearestIs`). Then the worst case of a vertical is at a price beyond the wing, and
of an iron condor at one side of it (`VerticalPays`, `CondorPays`), which is what `max_loss` says; and a number
of contracts rounded down to a share stays within it.

StrategyStaysHonoured puts them together for `StrategyIsHonoured`.

**ProcessesProofs, the supervisor.** `SidecarInv` is the types, `NeverIdleWhileDown` and
`RestartsAreLaunches`: every restart that is counted is a timer that is still set or a launch that was made
since the count was reset. It gives `SupervisorIsHonest` (SupervisorKeepsItsWord);
`SidecarImplementsBackend` is the refinement, step by step.

**ProcessesProofs, the recorder lock.** `OwnInv` adds to the types `HolderKnows` (the lock is held exactly
where `main()` says so), `ConnectedWhere` and `LiveWhere` (in which stages a connection or a
backtest can exist), and `FlagIsForMe` (the flag a recorder watches was written while it was
running). It gives `OneOwner` (OwnerIsAlone), and that the lock never stays with a process that is gone
(LockIsNeverOrphaned).

**WindowsProofs, the session.** `UnlockedNeedsToken` is inductive as it stands. `SealedWithRealKey` needs
`RequestInv`: a handler that runs works on a copy of the key that was taken while the entry was there.
Together they are `SessionIsSound` (SessionStaysSound).

**WindowsProofs, the tabs.** `TabInv` says of every window what the code never writes down: `WindowsSound`
(its order, its active and previous tab and its split are of one piece, and its child views are exactly the
wanted ones, with the overlay on top at its host and nowhere else), `TabsHoused` (every tab has one window,
every view of a closed tab is gone), `BlankLeaves` (a window without tabs is on its way out, except the
first one under a lock), and `LockCoversEveryWindow` itself. `showActive`, `detach` and the divider are
lemmas of their own. It gives ViewsStayAccounted, NoWindowIsBlank, LockStaysCovering.

**MarketHistoryProofs.** `HistoryInv` adds what is under way between two transactions:
`ClaimsBacked` (what `run_one` is about to mark "have" is stored, which is why the rows are
committed before the claims) and `PlannedIsOpen` (a day that is planned or claimed is open, and
is in one place only, which is why a cycle may go on with a plan made from an older table). They
give `HaveIsStored` (ClaimsAreStored) and the action property `SettledStays` (AnswersAreKept).
`AnswersInv` is what an answer says of the days it leaves out: chunks are short, a day is written off only
where the feed has none, and a page that is on its way carries every bar of its span that exists. With it
`CoverageIsTrue` is a theorem (CoverageStaysTrue). That a chunk has a first and a last day, and that the
planner's recursion cuts the missing days into chunks that do not overlap, is proved by the least
counterexample.

In the same module: `FeedInv` counts the work behind the keyless pool: `CallsSound` says in which order it
stands and which of it nobody waits for any more, `PileSound` that what was given up is bounded by the callers
and the failures so far, and the failures by `Room`: one call of every caller for each cooldown that ran out,
and the threshold. While the breaker is closed the failures keep to the rounds so far; while it is open those
that are still to come, of calls that are out or were let through and not yet submitted, are counted with
them and fill the next round at most. A cooldown that runs out begins that round (BacklogStaysBounded).

**StoresProofs.** One part per store:

- `DeepInv`: the stored days are one interval, a head that was walked has none before it, and what a fill
  has fetched but not stored touches the interval it will extend. An exception or a death between the two
  ends leaves it so (HistoryStaysUnbroken).
- `JobsInv`: what an import has yet to write is all that is missing of its file (`ImportSound`), and what a
  sync has left is newer than all it need not write (`SyncSound`), which is why the sync may go from the
  newest snapshot back.
- `RoundInv`: what a round has read is what the table has, or a job edited, deleted or made under a re-used
  id since; the statuses it earned are of those.
- `LoadsInv`: a rebuild under way has written every contract of the files it has passed, under the meaning
  its id had that day.

The last three are StoresAreTrue.

**DeskProofs.** `StarsInv` has, of every request that is between two commits, what it still owes
(`Attended`): a starred page without jobs is attended by a request that will make them, or was made while the
switch was off. `PadInv` counts the adders that have counted and not yet inserted. `WheelsInv` has what the
panel knows of the stored lock since its last echo. They give DeskStaysKept, of which StarsStayKept is the
part that matters most, and LocksAreKept. `ChartSync` relates what a chart believes saved, what is under way
and what is stored (ChartsAreStored). `WheelInv` holds until two gestures cross (a spawn in one window
while one in another waits): `Claimed` (who has the overlay), `Pressed` (which press the wheel that is up
belongs to), `Facing` (what the page shows). It gives OverlayStaysClaimed and GesturesAreAnswered, for any
number of windows and wheels.

**MarketProofs.** `KeyInv` follows an enrolment through its files: the key that replaces the stored one is
the one that was probed, whoever else enrols (StoredKeyIsProven). `BrokerInv` has of each account and of each
quote on its way what its token was minted for (QuotesAreHonest). `ChainInv` relates the two caches, what is
covered and the fetches that are out: a window that is covered has all its rows as of its time or later, and
a fetch that lands late brings nothing that is older than what it replaces without the age saying so
(ChainsAreWhole). `NewsInv`: what is stored or on its way are articles, of whatever age, and the index has the
rows of the table with their words; a store, a prune and a late body each keep that, and a prune removes a
first stretch (ArticlesStayReadable).
`SymbolInv`: a thread that syncs holds a list as the broker gave it, or a whole index (IndexStaysWhole).
`InsureInv`: a sweep holds closes up to some day and the fingerprint of that day; what is kept was measured
from such closes and from an archive that has only grown by later days
since. So equal fingerprints mean the same archive and the same last session, and the passing of a day changes
nothing of an expiration up to it (ReadyStaysCurrent, which needs `~Backfills`). It says nothing of closes that
moved or went under the same fingerprint; TLC refutes that there are none (`ReadyIsOfNow`).
LikeIsDrawnWithLike needs of the archive that it
is a finite union of chains: scores are naturals, so every day has a nearest row, and a finite set of
deltas has a middle one, which is in the band its own value picks. `ChartInv` says of the bar cache that
with an entry all days from its own to that of its fetch are there, fetched no earlier, and that there is no
hole between two entries (`CacheHolds`). A sweep keeps that, whichever chart
causes it: it removes a first stretch of the cached days. A new answer reaches back as far as anything may still be kept
(`ChartAssumption`) or as far as the feed goes, so it leaves none either. The rest of ChartsAreSound is about one answer: days in order by
their rank, older bars before the first one, the newest of them after a cut, and one stretch after the other, each of
which ends at the last bar so far.

*A page of futures options* (BadPrintsAreContained). `PageTyped` is all that is inductive; what is proved is about
the page that is computed from it. Contracts are ranked by how many of their own expiration are nearer the middle,
then by expiration; so while one expiration still waits, none has been given two more. Prints: "in order" says of a
ladder that calls fall and puts rise with the strike, neither by a factor of eight from one to the next, and
that the call less the put falls as evenly as the strikes rise. A mark that then jumps tenfold is above both its
neighbours by more than the quarter a spike needs, and nobody else is, because every other mark has a neighbour left
that is as large. It stays if it stands at an end, where it spoils one slope and one price of the underlying;
from four pairs on all others are equal, and the median of numbers that are equal but for one is that number.
The code takes the nine pairs nearest the money, the run four; the theorem any number from three on
(`LaddersAssumption`).

*The omnibox* (WhatIsNamedLeads). Fused scores order the hits by a strict order (score, then place), and what is
sorted by a strict order is a permutation: every hit once, each after those ahead of it. Pinning and filling
keep that, so a list holds no row twice, and what was pinned is what the query named. `SearchInv` follows a search
from look-up to look-up: the symbol it spells and the one it surely means are as the index says, unless the index became another meanwhile.

*Trials* (TrialsStaySound). `Holds` says of the running sums of a class which trials they are the sums of,
and `HoldAll` of all classes which archive; `FoldAny` adds a trial to either, whichever comes first. So an archive
that is cut in two and one that is not hold the same trials, and what is said of a class is a function of what it
holds: sums, and the median of its credits, which is the same for every listing of them. `TrialsInv` is
that the archive and the bars are of days there are and what a sweep holds are bars of sessions (with any price
such a bar ever shows), that what is kept and what was told was measured (`IsMeasured`: its
votes are quotients of sums over trials, a class without claims has no loss), and that what is shown was earned.
An edge then has a class with a claim behind it, a premium that beat every expiration beats their sum, and of a
class one candidate is shown because candidates are a function of the class.

**Orders** has the operators that several modules use: a set's numbers from the least on (`InOrderOf`), what a
strict order sorts (`SortedBy`), a part of a sequence (`Only`), a sum (`TotalOf`) and the median
(`TwiceMedian`), defined by rank rather than by `SortSeq`, whose definition the prover cannot open. About them it proves
that a strict order on a finite set has one place for every member (`SortedByIs`), that the k-th number is there and where it
stands (`KthIs`, `TwiceMedianIs`), that sums add up over disjoint sets and lie between their bounds, and that
two listings of the same numbers have one median (`SameMedian`). A set of naturals has a least element, a bounded one a
greatest; and a function that goes from one natural to the next exists (`Recursion`). The models' recursive functions
(the contracts of a chain without those of given roots, front months, sums over positions, the first days of
chunks, expiring positions, folded chunks) are shown by it to be well defined, and their values by taking the
least counterexample, since the library's induction theorems cannot be used with the installed provers.

Only model-checked is all liveness (`EveryRunSettles`, `ProcessesSettle`, `EveryDayGetsItsTurn`,
`TakenUpIsLetGo`, `EveryJobHasItsTurn`), which the prover cannot do under fairness. Every other property of a
passing run is a theorem.

What `SoldSpreadIsDefinedRisk` says has a scope, which its definition states. The wing is outside its leg for every pair that
is a leg sold and one bought by width for the same expiration, both of ratio 1; the loss and the size are
right for one such pair, and for an iron condor, one on each side for one expiration with the sold strikes not
crossed. The code means other lists too, and is wrong of some ([below](#properties-that-do-not-hold)).

## Findings

Each is the property of a run that TLC refutes; the counterexample is the schedule.

1. **A delete removes the directory of the next run** (`backtests_dir_lost`,
   `backtests.py:578`). `delete_run` commits its DELETE and removes `out_root/<id>` afterwards,
   outside the lock. SQLite gives the rowid to the next INSERT; a `start()` in between writes
   its job file there, and loses it.
2. **A chart that is left before it has loaded is deleted** (`chart_lost`, `ChartDraw.ts:2975`). A
   flush before the load has come back saves the blank bucket, and saving a blank document deletes the row.
   Nobody cleared anything; the drawings are gone.
3. **A backtest computes with another underlying's prices** (`spot_foreign`, `backtests.py:115`).
   `backtest_cache.db` is one file for all underlyings, its tables are keyed by the day alone, and a cached
   spot or level is used before it is computed.

## Properties that do not hold

These are stated in the modules, or easily added to a configuration in place of its
properties, and TLC refutes each in seconds. They are documented here and not run: they follow from
documented trade-offs, or need an environment the code may exclude.

BacktestRuns (`backtests_crash.cfg`, without `SYMMETRY` for the last):

- `CancelledNotIngested`: `_cancelled_run` is one field; a `start()` between the cancel and the
  old reader's look at it (`backtests.py:360`) clears it, and the cancelled run is read in.
- `NextRunIsNotWiped`, `ProgressIsTracked` (`:457`, `:434`): the old reader compares rowids, which
  are used again; it wipes the next run's fields, or its last lines overwrite the next run's progress.
- `KeyIsForOccupant` (`:541`, `:567`): a key is minted for a row that was read before it was deleted.
- `OrphansAreSwept`: a rebooted sidecar that does not get the recorder lock sweeps nothing
  (`main.py:103`), so `EveryRunSettles` needs `LockOutcomes = OnlyOwner`.
- a row whose last write failed says 'running' while nothing runs, for as long as this sidecar lives:
  `EveryRunSettles` and `RunningIsHeld` without their exception for `stranded` fail, as the comment at
  `backtests.py:452` says ("strands the row; the restart sweep is the backstop"); the same `_finish` at `:357` has
  no such comment.

Sidecar: `OneRestartPerDeath` (a child that dies while its health check is under way is noticed by the exit
handler and by the rejected fetch; if the exit handler runs first, both schedule a restart,
`sidecar.ts:163`, against the comment at 11-12), `NothingOutlivesStop` (a restart timer that fires after
`stop()`, a child whose announcement timed out), `ExitUnpublishes` (the exit of a child that was replaced in
`this.proc` leaves `this.state` pointing at it).

ShellSession: `ClearedByItsOwn401` (`api.ts:299`: the late 401 of a request sent with the
previous token ends the new session and locks the windows), `SignedOutVaultIsLocked` (a login
that timed out in the shell is granted later; its entry stays until it idles out).

RecorderOwnership: `SweepSparesLiveRuns` (a backend that lost the recorder lock to an unattended recorder
may be running a backtest when the lock becomes free; the next backend gets it and marks that row 'error',
`main.py:106` against 104), `UnregisterStops` (the flag is written before a starting recorder reaches
`recorder_main.py:139` and deletes it as stale), `OneTicks` (`stop()` does not join the thread,
so the tick of a process that has released the lock can overlap the next owner's; the database
connection is closed first, hence `OneWriter`).

JobRounds: `StatusIsEarned` without the exception for `heir` (`record_jobs` uses ids again and `_finish`
updates by id, `recorder.py:247`: a job made while a round still holds the deleted owner of its id is marked
"ok" and as just run, and waits an interval for its first run). Seen while translating: a snapshot without
quotes, as after hours, replaces the day's quoted rows in the archive with blanks (`opthist.py:170`), whose
key also makes one of two futures options of different roots that share expiration, strike and right.

ArchiveLoads: `[][\A k \in DOMAIN archive : archive[k] = "recorder" => k \in DOMAIN archive']_loadVars`
(a rebuild empties `hist_chain` of all symbols, also of those it was not asked to load, `loadhist.py:222`;
what the recorder or an import archived since the vault ends is gone, while `data_cover` goes on saying
'have'). Seen while translating: a rebuild that is killed leaves the `hist_meta` of the one before it; and
an id priced before its first known definition takes the first one that follows (`databento_import.py:131`),
against the comment at 121 that "what must never happen is borrowing a LATER id's meaning".

MarketHistory: `AbsentIsEarned` (`reconcile` seeds coverage from the archive, which Alpaca's live
collection writes too; one such day counts as evidence that OnclickMedia carries the symbol, and its 404s
become 'absent', `recorder.py:527` against `coverage.py:159`), `HaveIsWhole` (today's session, or the newest
page of a long gap, is stored in part and reconciled as 'have'); `NeverAbsentOverData` with
`BackPage = 1`, `ChunkDays = 3` (`stock_bars_range` asks for at most 10000 bars and does not continue: the
last days of a longer chunk are taken for absent); `NothingStarves` ("no day sits at the head of the queue for
ever", which is what the attempts of `coverage.py:257` are for): a session that came and cannot be taken in, since
the parser refuses it or a store raises, leaves the cycle without a mark (`recorder.py:566-584`), so it is planned
first again and again, and the days after it, with the chains whose turn is after this one's, get none.

TabManager: `NoTabsWhileLocked` (`openReport` looks at the lock before the key is minted,
`tabs.ts:1063`; a menu click and a message of a closing strip do not look at all),
`PreviousIsAnother` (`prevActiveId` is never cleared, against the comment at 351-353),
`LockKeepsAWindow` (the window a lock keeps has been told to close already; the lock closes the
others and the program quits; checked without `SYMMETRY`), `UnlockReachesEveryWindow` (a window
torn off by a late drag while locked keeps its sign-in page).

WheelOverlay, the same properties as in the run but without `~crossed`:

- `LockKillsTheWheel` ("Lock kills the wheel (and the launcher ...), unconditionally",
  `wheel.ts:228`): a lock that falls into a wait of spawn or openLauncher finds nothing to
  despawn, and the wheel or the launcher appears over the sign-in form.
- `NeverBoth` ("Never live alongside a wheel session", `wheel.ts:206`): the launcher opens
  in the second wait of a spawn; the wheel then draws over it, and a click on the wheel picks
  a tile of the launcher.
- `OverlayIsOwned`: spawns that overlap in two windows leave the overlay on a window whose
  session is gone, where nothing can be clicked, and a blur listener of the older session.
- a stale `toggleLock` answer (`wheel.ts:1003`) draws the old wheel on the new one, so that the
  face is not what acts.

Engine. With `Resync = TRUE`, `PricesAreOwn` fails for one underlying too: a day that is synced again keeps
its cached spot. Seen while translating, and outside the stated instances:

- the risk of a long single leg is 0 and of a debit vertical its width plus the debit; a vertical of ratio 2
  is said to lose what one of ratio 1 does less a double premium, two put spreads on one expiration what the widest strikes are
  apart, and a condor whose sides expire on different days the wider side, where both can be lost
  (`portfolio.py:140-158`); so a sizing by risk sees another number than the loss;
- `dte_of` compiles in every rule (`expr.py:89-95`), though `expr.py:63` says "exit rules only", and is
  supplied to exits alone (`engine.py:452`): an entry rule that calls it ends the run with a RuleError; "simply not met" for a missing value does not hold under `not` and `!=`;
- `weekdays` given as a string shadows a name in `EntrySpec.from_dict` and ends in a TypeError;
- `net_liq` in exit rules counts positions closed earlier in the same pass twice; a contract marked 0 is
  valued at its intrinsic value and closed at 0;
- the best cell of a sweep is the largest value of any metric, those marked lower-is-better included
  (`sweep.py:36` and 193); a range is cut at 500 values without a word; an exception `run_cell` does not
  expect loses all cells.

Market. With `Delisting = TRUE` a contract that is gone is served as fresh from its cover; with
`Backfills = TRUE` `ReadyIsCurrent` fails, since the fingerprint has only the newest archived day and the last
close (`insurance.py:530`). And of the modules' own definitions:

- `ReadyIsOfNow` (Expectancy): the same fingerprint stands while the price of today moves, a close comes late
  into a hole, and old closes are swept (`marketdb.py:252`, `265`); a measurement over the closes of
  then is served as ready. So `ReadyIsCurrent` says that no archived day and no session is left out, over the
  closes that were measured, and no more.
- `SettledOverCloses` (Expectancy): a put that expires today is settled over the bar of today, which is still
  forming (`insurance.py:188`, `app.py:1011`), and over that price for good where no later fetch reaches the day.
- `ToldOfTheRevoked` (Brokerage): every 400 of a mint and every 403 tells the user to enter the grant again, whether or
  not it was revoked (`tastytrade.py:244`, `279`).
- `WordsNeverAge`, `BodiesNeverShrink` (NewsStore): an answer that was read before an article was rewritten
  and is stored after the newer one puts the older words back (`newsstore.py:30`); a page extracted for a
  short body replaces a longer one that was stored meanwhile (`app.py:1566`).
- `ChartLeads` (SymbolSearch): the results page reads the index for its chart, waits for the web, and reads it
  again for its pins (`search.py:254`, `316`); a sync in between gives a ticker that leads without a chart, or a
  chart of one that is gone.
- `BacklogStaysSmall` (KeylessFeeds): work that hangs keeps its worker, and every cooldown that runs out adds a
  call of every caller to what waits (`websearch.py:18`: the library's own time limit does not bound a call, and
  the deadline leaves the work where it is). `BacklogIsBounded` is what does hold.

Seen while translating:

- an empty futures chain makes `futures_contracts` return one list where its caller unpacks two
  (`options.py:326`): a 422 instead of an empty page; three parity pairs are accepted, of which one stale wing
  moves the forward;
- a Saturday expiration after a Friday without a close settles on Thursday's; a sweep that fails starts
  again at every poll;
- the back-fill of news asks from the newest article on and takes one page, so a longer absence leaves a
  hole (`newsstore.py:111`); pages from the second on
  have no results of the program's own nor of the web (`search.py:303`), against the comment at 299;
- `bar_cache` keeps a hole when it keeps longer than the chart asks for; a quote does not fall back to the
  keyless feed when the preferred source answers without a price;
- a kill between replacing the sealed key and describing it leaves the description of the old one
  (`syskey.py:201`); two set-ups of the first user may both count none (`app.py:398`);
- a late success closes a breaker that has just opened, hence the term of `BREAKER_THRESHOLD` in
  `BacklogIsBounded`.

## Not modelled

- *Numerics and reports*: option pricing, greeks, implied volatility, statistics, calibration against
  other programs' exports, HTML reports. Pure functions of floating-point data, with no state to interleave;
  their tests compare numbers.
- *Formats*: parsing of imported chains, of queries, of provider answers; drawing.
- *Vault and schema*: cryptography, table creation, data paths. ShellSession has what becomes of
  a data key, SystemKey of the system key.
- *Renderer*: pages that load by symbol and draw; what they keep is in ChartDocs and WheelOverlay.
- *Installers, other tools and self-test*: scripts that run once. The self-test is a third of the program's Python
  and holds no state of its own.
- *Within the modelled parts*: sign-up and the request shapes of the routes that read one
  row (ShellSession); layout, titles, addresses and history
  inside a tab (TabManager); what a wheel holds, its geometry, quotes and predictions, and the chart and data
  actions it sends (WheelOverlay); what a rule computes (BtRules); the order of favourites (Stars); string
  matching (SymbolSearch); a measurement baked into the program and closes from the keyless feed
  when neither table has any (Expectancy); a reader's thread that cannot be started once its runner was (BacktestRuns).

## Plan

Done, in this order: BacktestRuns with RunLedger; Sidecar with Backend; ShellSession;
RecorderOwnership; MarketHistory; TabManager; WheelOverlay; DeepHistory and
DataJobs; JobRounds; ArchiveLoads; Stars, ChartDocs, UserDocs; the engine (BtLedger, BtPrices, BtStructure, BtIndicators, BtRules,
BtSweep); the market (ChainCache, FuturesChain, OptHistory, Expectancy, NewsStore, SymbolSearch, ChartBars,
KeylessFeeds, Brokerage, SystemKey); proofs of the safety properties of the runs.

Next:

1. Compositions: the lock flag of ShellSession with WheelOverlay's waits; DeepHistory's writes under
   ChartBars.
2. Sign-up; the pages that load by symbol (an answer for the previous symbol is
   not shown for the next one).

## How to run

```
tlc -workers 2 -config windows.cfg MCWindows      # module and cfg of a run: PROJECT.json
tlapm BacktestsProofs.tla                            # takes minutes; remembers what it has proved
```
