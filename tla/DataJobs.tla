------------------------------ MODULE DataJobs ------------------------------
(***************************************************************************)
(* The backtest store of one underlying (backend/btdata.py) and the three  *)
(* threads that write it: the import of a file (chainimport.py), the slow  *)
(* pull from OnclickMedia (onclick.py), both of datajobs.py, and the sync  *)
(* of what the recorder has captured (BacktestManager.sync_now).  Each     *)
(* commits one day at a time; an exception or a death of the process can   *)
(* come between any two commits.                                           *)
(***************************************************************************)
EXTENDS Naturals, Sequences, FiniteSets

CONSTANTS
  LastDate,     (* the calendar is 1 .. LastDate                            *)
  Weekend,      (* its Saturdays and Sundays                                *)
  Contracts,
  Chains,       (* the sets of contracts a chain may show                   *)
  Files,        (* files a user may bring: [kind, declared, rows]           *)
  Own, Other,   (* the underlying of the store, and another symbol          *)
  ReachDays,    (* onclick.WINDOW_DAYS                                      *)
  MaxSnapshots, (* bounds what the recorder captures                        *)
  MaxJobs       (* bounds the imports, pulls and syncs that are started     *)

Dates == 1 .. LastDate

ASSUME JobsAssumption ==
  /\ {LastDate, ReachDays, MaxSnapshots, MaxJobs} \subseteq Nat
  /\ Weekend \subseteq Dates /\ Chains \subseteq SUBSET Contracts /\ Own # Other
  /\ \A file \in Files : \A i \in DOMAIN file.rows : file.rows[i].d \in Dates /\ file.rows[i].c \in Contracts

VARIABLES
  date,          (* today                                                   *)
  taken,         (* rec_chain: the recorder's snapshots, in the order of ts *)
  opt,           (* opt[d][c]: where the row came from, and its bid         *)
  chainLast,     (* sync_state: the number of the last synced snapshot      *)
  importJob, pullJob, syncJob, (* status and the work that is left          *)
  pullStop,      (* "set": _pull_stop; "asked": stop_pull has seen a thread *)
  jobs           (* how many have been started                              *)

jobsVars == <<date, taken, opt, chainLast, importJob, pullJob, syncJob, pullStop, jobs>>

NoRow    == [src |-> "none", snap |-> 0, bid |-> <<>>]
NoImport == [state |-> "idle", left |-> {}]
NoPull   == [state |-> "idle", left |-> {}]
NoSync   == [state |-> "idle", left |-> {}]

(* sync_now of the backend, and the sync a backtest begins with.            *)
Syncers == {"backend", "runner"}

JobsInit ==
  /\ date \in Dates /\ taken = <<>> /\ chainLast = 0
  /\ opt = [d \in Dates |-> [c \in Contracts |-> NoRow]]
  /\ importJob = NoImport /\ pullJob = NoPull /\ syncJob = [y \in Syncers |-> NoSync]
  /\ pullStop = {} /\ jobs = 0

JobsTypeOK ==
  /\ date \in Dates /\ Len(taken) <= MaxSnapshots /\ chainLast \in 0 .. Len(taken)
  /\ \A d \in Dates, c \in Contracts :
       opt[d][c].src \in {"none", "recorded", "upload", "onclickmedia"}
  /\ importJob.state \in {"idle", "running", "writing", "done", "refused", "error"}
  /\ importJob.left \subseteq Dates
  /\ pullJob.state \in {"idle", "running", "done", "stopped", "error"}
  /\ pullJob.left \subseteq Dates
  /\ \A y \in Syncers : /\ syncJob[y].state \in {"idle", "running", "done", "error"}
                         /\ syncJob[y].left \subseteq 1 .. Len(taken)
  /\ pullStop \subseteq {"asked", "set"} /\ jobs \in 0 .. MaxJobs

Min1(S) == CHOOSE n \in S : \A m \in S : n <= m
Max1(S) == CHOOSE n \in S : \A m \in S : m <= n

-----------------------------------------------------------------------------
(* Reading a file (chainimport).  A row is a date, a symbol, a contract, a  *)
(* cell with its bid, one with its implied volatility, and whether a date,  *)
(* a right or a required number of it cannot be read.  A cell is empty, a   *)
(* number <<n>>, or junk.                                                   *)
Junk == <<0, 0>>
Num(cell) == cell            (* _num: absent stays absent, never a zero     *)
Readable(row) == ~row.fault /\ row.sym # "" /\ row.bid # Junk /\ row.iv # Junk

(* _check_iv: a mean over 3.0 reads as percent; iv counts halves here, and  *)
(* a file has two rows at most.                                             *)
PercentIv(rows) ==
  LET quoted == {i \in DOMAIN rows : rows[i].iv # <<>>}
  IN  \/ \E i \in quoted : quoted = {i} /\ rows[i].iv[1] > 6
      \/ \E i, j \in quoted : i # j /\ rows[i].iv[1] + rows[j].iv[1] > 12

(* _check_dupes_chain                                                       *)
Doubled(rows) ==
  \E i, j \in DOMAIN rows : i # j /\ <<rows[i].sym, rows[i].d, rows[i].c>> = <<rows[j].sym, rows[j].d, rows[j].c>>

(* parse_text: the kind is declared, never guessed.                         *)
Parses(file) ==
  /\ file.declared \in {"", file.kind} /\ file.rows # <<>>
  /\ \A i \in DOMAIN file.rows : Readable(file.rows[i])
  /\ ~PercentIv(file.rows) /\ ~Doubled(file.rows)

(* The refusals of import_chain, before it writes a day: the store has one  *)
(* Mutant: the weekend check is left to the caller.                         *)
Refuses_SymbolOnly(rows) == \E i \in DOMAIN rows : rows[i].sym # Own

(* symbol, and its dates become the engine's trading calendar.              *)
Refuses(rows) ==
  \/ \E i \in DOMAIN rows : rows[i].sym # Own
  \/ \E i \in DOMAIN rows : rows[i].d \in Weekend

DatesOf(rows) == {rows[i].d : i \in DOMAIN rows}

(* One short transaction: the rows of a day replace those of the same key.  *)
WriteDay(d, quotes, src, snap) ==
  opt' = [opt EXCEPT ![d] = [c \in Contracts |->
            IF c \in DOMAIN quotes THEN [src |-> src, snap |-> snap, bid |-> quotes[c]] ELSE @[c]]]

QuotesOf(rows, d) ==
  [c \in {rows[i].c : i \in {j \in DOMAIN rows : rows[j].d = d}} |->
     Num(rows[CHOOSE i \in DOMAIN rows : rows[i].d = d /\ rows[i].c = c].bid)]

-----------------------------------------------------------------------------
StartImport(file) ==
  /\ jobs < MaxJobs /\ importJob.state \notin {"running", "writing"}
  /\ importJob' = [state |-> "running", file |-> file, left |-> {}] /\ jobs' = jobs + 1
  /\ UNCHANGED <<date, taken, opt, chainLast, pullJob, syncJob, pullStop>>

ReadFile ==
  /\ importJob.state = "running"
  /\ importJob' = IF Parses(importJob.file) /\ ~Refuses(importJob.file.rows)
                  THEN [importJob EXCEPT !.state = "writing", !.left = DatesOf(importJob.file.rows)]
                  ELSE [importJob EXCEPT !.state = "refused"]
  /\ UNCHANGED <<date, taken, opt, chainLast, pullJob, syncJob, pullStop, jobs>>

ImportDay ==
  /\ importJob.state = "writing" /\ importJob.left # {}
  /\ LET d == Min1(importJob.left)
     IN  /\ WriteDay(d, QuotesOf(importJob.file.rows, d), "upload", 0)
         /\ importJob' = [importJob EXCEPT !.left = @ \ {d},
                                           !.state = IF importJob.left = {d} THEN "done" ELSE @]
  /\ UNCHANGED <<date, taken, chainLast, pullJob, syncJob, pullStop, jobs>>

(* Mutant: the failure of a day is swallowed and the job reports its end.   *)
ImportFails_Quietly ==
  /\ importJob.state \in {"running", "writing"}
  /\ importJob' = [importJob EXCEPT !.state = "done"]
  /\ UNCHANGED <<date, taken, opt, chainLast, pullJob, syncJob, pullStop, jobs>>

ImportFails ==
  /\ importJob.state \in {"running", "writing"}
  /\ importJob' = [importJob EXCEPT !.state = "error"]
  /\ UNCHANGED <<date, taken, opt, chainLast, pullJob, syncJob, pullStop, jobs>>

-----------------------------------------------------------------------------
(* clamp, window and trading_days: the weekdays that can be served.         *)
PullDays(from, to) ==
  {d \in from .. to : d + ReachDays >= date /\ d < date /\ d \notin Weekend}

StartPull(from, to) ==
  /\ jobs < MaxJobs /\ pullJob.state # "running" /\ PullDays(from, to) # {}
  /\ pullStop' = pullStop \ {"set"} /\ jobs' = jobs + 1
  /\ pullJob' = [state |-> "running", left |-> PullDays(from, to)]
  /\ UNCHANGED <<date, taken, opt, chainLast, importJob, syncJob>>

(* stop_pull sees that the thread is alive, and sets the event after that.  *)
StopPull ==
  /\ \/ pullJob.state = "running" /\ pullStop' = pullStop \cup {"asked"}
     \/ "asked" \in pullStop /\ pullStop' = {"set"}
  /\ UNCHANGED <<date, taken, opt, chainLast, importJob, pullJob, syncJob, jobs>>

(* fetch_day and check_body: a chain, or nothing to store (no such session, *)
(* outside the plan's range, the columns of an open session).               *)
PullDay ==
  /\ pullJob.state = "running" /\ "set" \notin pullStop /\ pullJob.left # {}
  /\ LET d == Min1(pullJob.left)
     IN  /\ pullJob' = [pullJob EXCEPT !.left = @ \ {d}]
         /\ \/ \E cs \in Chains :
                 WriteDay(d, [c \in cs |-> Num(<<1>>)], "onclickmedia", 0)
            \/ UNCHANGED opt
  /\ UNCHANGED <<date, taken, chainLast, importJob, syncJob, pullStop, jobs>>

(* Mutant: the loop goes round without looking at what has been asked.      *)
PullEnds_Deaf ==
  /\ pullJob.state = "running"
  /\ \/ pullJob.left = {} /\ pullJob' = [pullJob EXCEPT !.state = "done"]
     \/ pullJob.left # {} /\ "set" \notin pullStop /\ pullJob' = [pullJob EXCEPT !.state = "error"]
  /\ UNCHANGED <<date, taken, opt, chainLast, importJob, syncJob, pullStop, jobs>>

PullEnds ==
  /\ pullJob.state = "running"
  /\ \/ pullJob.left = {} /\ pullJob' = [pullJob EXCEPT !.state = "done"]
     \/ pullJob.left # {} /\ "set" \in pullStop /\ pullJob' = [pullJob EXCEPT !.state = "stopped"]
     \/ pullJob.left # {} /\ "set" \notin pullStop /\ pullJob' = [pullJob EXCEPT !.state = "error"]
  /\ UNCHANGED <<date, taken, opt, chainLast, importJob, syncJob, pullStop, jobs>>

-----------------------------------------------------------------------------
(* The recorder takes a snapshot, in market hours or outside them; the      *)
(* chain it sees moves with the price.                                      *)
Record(hours, cs) ==
  /\ Len(taken) < MaxSnapshots /\ (hours => date \notin Weekend)
  /\ taken' = Append(taken, [d |-> date, hours |-> hours, cs |-> cs])
  /\ UNCHANGED <<date, opt, chainLast, importJob, pullJob, syncJob, pullStop, jobs>>

(* sync_from_recorded: one snapshot per day, the last one in market hours   *)
(* among those newer than the last sync; decided once, at the start.        *)
InHours(n) == taken[n].hours
NewSnapshots ==
  LET fresh == {n \in chainLast + 1 .. Len(taken) : InHours(n)}
  IN  {n \in fresh : \A m \in fresh : taken[m].d = taken[n].d => m <= n}

StartSync(y) ==
  /\ jobs < MaxJobs /\ syncJob[y].state # "running" /\ jobs' = jobs + 1
  /\ syncJob' = [syncJob EXCEPT ![y] = [state |-> "running", left |-> NewSnapshots]]
  /\ UNCHANGED <<date, taken, opt, chainLast, importJob, pullJob, pullStop>>

(* Mutant: the mark runs ahead to the newest day of the batch.              *)
SyncDay_MarksNewest(y) ==
  /\ syncJob[y].state = "running" /\ syncJob[y].left # {}
  /\ LET n == Min1(syncJob[y].left)
     IN  /\ WriteDay(taken[n].d, [c \in taken[n].cs |-> <<>>], "recorded", n)
         /\ chainLast' = Max1(syncJob[y].left) /\ syncJob' = [syncJob EXCEPT ![y].left = @ \ {n}]
  /\ UNCHANGED <<date, taken, importJob, pullJob, pullStop, jobs>>

(* The rows of a day and the mark that it is synced, in one transaction.    *)
SyncDay(y) ==
  /\ syncJob[y].state = "running" /\ syncJob[y].left # {}
  /\ LET n == Min1(syncJob[y].left)
     IN  /\ WriteDay(taken[n].d, [c \in taken[n].cs |-> <<>>], "recorded", n)
         /\ chainLast' = n /\ syncJob' = [syncJob EXCEPT ![y].left = @ \ {n}]
  /\ UNCHANGED <<date, taken, importJob, pullJob, pullStop, jobs>>

SyncEnds(y) ==
  /\ syncJob[y].state = "running"
  /\ syncJob' = [syncJob EXCEPT ![y].state = IF syncJob[y].left = {} THEN "done" ELSE "error"]
  /\ UNCHANGED <<date, taken, opt, chainLast, importJob, pullJob, pullStop, jobs>>

-----------------------------------------------------------------------------
NextDate ==
  /\ date < LastDate /\ date' = date + 1
  /\ \A y \in Syncers : syncJob[y].state # "running" (* a sync takes seconds *)
  /\ UNCHANGED <<taken, opt, chainLast, importJob, pullJob, syncJob, pullStop, jobs>>

(* The process dies; the threads and their status go with it.               *)
Killed ==
  /\ \/ importJob # NoImport \/ pullJob # NoPull \/ \E y \in Syncers : syncJob[y] # NoSync
  /\ importJob' = NoImport /\ pullJob' = NoPull /\ syncJob' = [y \in Syncers |-> NoSync] /\ pullStop' = {}
  /\ UNCHANGED <<date, taken, opt, chainLast, jobs>>

Import == ReadFile \/ ImportDay \/ ImportFails
Pull   == PullDay \/ PullEnds
Sync   == \E y \in Syncers : SyncDay(y) \/ SyncEnds(y)

JobsNext ==
  \/ \E f \in Files : StartImport(f)
  \/ \E a, b \in Dates : StartPull(a, b)
  \/ \E hours \in BOOLEAN, cs \in Chains : Record(hours, cs)
  \/ \E y \in Syncers : StartSync(y)
  \/ StopPull \/ Import \/ Pull \/ Sync \/ NextDate \/ Killed

-----------------------------------------------------------------------------
(* An import that reports its end has written every row of the file: a      *)
(* half-imported file never "looks like success" (docs/DATA_IMPORT.md).     *)
DoneMeansWhole ==
  importJob.state = "done" =>
    \A i \in DOMAIN importJob.file.rows :
      LET row == importJob.file.rows[i] IN opt[row.d][row.c] # NoRow

(* No writer makes a Saturday a session of the engine's calendar            *)
(* (btdata.import_chain, btdata._in_market_hours).                          *)
CalendarIsSessions ==
  \A d \in Weekend, c \in Contracts : opt[d][c] = NoRow

(* A snapshot that the mark has passed and that was the last of its day is  *)
(* in the store, whatever came between two days of a sync                   *)
(* (btdata.sync_from_recorded).                                             *)
SyncedMeansStored ==
  \A n \in 1 .. chainLast :
    (InHours(n) /\ \A m \in n + 1 .. Len(taken) : InHours(m) => taken[m].d # taken[n].d) =>
      \A c \in taken[n].cs : LET row == opt[taken[n].d][c] IN row.snap = n \/ row.src \in {"upload", "onclickmedia"}

(* A pull that was asked to stop does stop (DataJobs.stop_pull).            *)
StopEndsPull == (pullJob.state = "running" /\ "set" \in pullStop) ~> pullJob.state # "running"
=============================================================================
