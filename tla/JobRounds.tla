----------------------------- MODULE JobRounds -----------------------------
(***************************************************************************)
(* The rounds of the recorder (Recorder.run_due_jobs): the jobs that are   *)
(* enabled are read at once, then run one after the other, each with a     *)
(* request or more and a status of its own at its end, while the Data page *)
(* makes, patches and deletes jobs on connections of its own.  A futures   *)
(* root is recorded through TastyTrade, contract quotes in batches.        *)
(* Times are ages: how many ticks ago, up to the interval of a job.        *)
(***************************************************************************)
EXTENDS Integers, Sequences, FiniteSets, FiniteSetsExt

CONSTANTS
  Wants,       (* what a job may record: "bars", "chain", "news", "futures"  *)
  Interval,    (* interval_seconds, in ticks of the model                    *)
  FirstJobs,   (* what the jobs record that are there at the start           *)
  MaxJobId,    (* bounds the ids                                             *)
  MaxJobEdits, (* bounds what the user does                                  *)
  MaxCuts,     (* bounds the rounds that are cut off                         *)
  NestedChains,(* the chains TastyTrade lists                                *)
  FuturePrices,(* the quotes of the front contract: [last, mark, mid]        *)
  FUTURE_CHAIN_MAX_DTE, FUTURE_CHAIN_NEAR_DTE,
  BandPercent, (* FUTURE_CHAIN_STRIKE_BAND                                   *)
  FUTURE_QUOTE_BATCH

ASSUME RoundsAssumption ==
  /\ {Interval, MaxJobId, FUTURE_QUOTE_BATCH} \subseteq Nat \ {0}
  /\ {MaxJobEdits, MaxCuts, FUTURE_CHAIN_MAX_DTE, FUTURE_CHAIN_NEAR_DTE, BandPercent} \subseteq Nat
  /\ FUTURE_CHAIN_NEAR_DTE <= FUTURE_CHAIN_MAX_DTE
  /\ FirstJobs \in Seq(Wants) /\ Len(FirstJobs) <= MaxJobId

VARIABLES
  table,    (* record_jobs: [id -> the row]; heir: made under the id of a    *)
            (* job deleted while a round still had its row                   *)
  round,    (* the round under way                                           *)
  landed,   (* what has rows in market.db                                    *)
  jobEdits, cuts

roundVars == <<table, round, landed, jobEdits, cuts>>

Unknown == -1
Never == Interval + 1     (* last_run_at is empty *)
Rest == [at |-> "rest"]

NewRow(id, want, heir) ==
  [id |-> id, want |-> want, on |-> TRUE, age |-> Never, status |-> "never ran", heir |-> heir]

RoundsTypeOK ==
  /\ DOMAIN table \subseteq 1 .. MaxJobId /\ landed \subseteq Wants
  /\ \A i \in DOMAIN table : table[i] \in
       [id : {i}, want : Wants, on : BOOLEAN, age : 0 .. Never, heir : BOOLEAN,
        status : {"never ran", "ok", "failed"}]
  /\ round.at \in {"rest", "next", "ask", "chain", "mark", "quotes", "write", "finish"}
  /\ jobEdits \in 0 .. MaxJobEdits /\ cuts \in 0 .. MaxCuts

RoundsInit ==
  /\ table \in {<<>>, [i \in DOMAIN FirstJobs |-> NewRow(i, FirstJobs[i], FALSE)]}
  /\ round = Rest /\ landed = {} /\ jobEdits = 0 /\ cuts = 0

-----------------------------------------------------------------------------
(* select_future_contracts: near expirations all, later ones but weeklies,   *)
(* strikes about the mark - or all of them where no mark is known.           *)
Abs(n) == IF n < 0 THEN -n ELSE n

(* Mutant: without a mark there is nothing to be about.                      *)
NearMark_NeedsMark(strike, mark) == mark > 0 /\ 100 * Abs(strike - mark) <= BandPercent * mark

NearMark(strike, mark) == mark > 0 => 100 * Abs(strike - mark) <= BandPercent * mark

SelectFutureContracts(chain, mark) ==
  {c \in chain :
     /\ c.dte # Unknown /\ c.dte <= FUTURE_CHAIN_MAX_DTE
     /\ c.dte > FUTURE_CHAIN_NEAR_DTE => ~c.weekly
     /\ c.strike # Unknown /\ NearMark(c.strike, mark)}

(* parse_quotes: the price is the last trade, or the mark, or the mid.       *)
PriceOf(q) == IF q.last # Unknown THEN q.last ELSE IF q.mark # Unknown THEN q.mark ELSE q.mid

-----------------------------------------------------------------------------
(* The round *)

(* is_due: of the row as it was read, at the time the round began.           *)
IsDue(row) == row.age >= Interval

(* The rows that are read, with what the round looks at of them.             *)
JobsRead ==
  {[id |-> i, want |-> table[i].want, due |-> IsDue(table[i])] : i \in {j \in DOMAIN table : table[j].on}}

BeginRound ==
  /\ round = Rest
  /\ round' = [at |-> "next", left |-> JobsRead, elapsed |-> 0]
  /\ UNCHANGED <<table, landed, jobEdits, cuts>>

(* The scan of record_jobs goes by id.                                       *)
JobNow == CHOOSE job \in round.left : \A other \in round.left : job.id <= other.id
Later == round.left \ {JobNow}
Proceeds(at) == round' = [round EXCEPT !.at = at]
Ended(status) == round' = [at |-> "finish", left |-> round.left, elapsed |-> round.elapsed, status |-> status]

(* _run_job: credentials, if the vault is unlocked just now, and the route.  *)
NextJob ==
  /\ round.at = "next"
  /\ IF round.left = {} THEN round' = Rest
     ELSE IF ~JobNow.due THEN round' = [round EXCEPT !.left = Later]
     ELSE \/ Ended("failed")
          \/ Proceeds(IF JobNow.want = "futures" THEN "chain" ELSE "ask")
  /\ UNCHANGED <<table, landed, jobEdits, cuts>>

(* Mutant: what goes wrong in a job is not caught.                           *)
Fails_Escapes == round' = Rest

(* Mutant: the status of a job is "ok" however it ended.                     *)
Fails_Unsaid == Ended("ok")

(* A BrokerError, or anything else that is raised, is the job's status.      *)
Fails == Ended("failed")

(* _collect_bars, _collect_chain, _collect_news: a request and a commit.     *)
CollectsFromAlpaca ==
  /\ round.at = "ask"
  /\ \/ Fails /\ UNCHANGED landed
     \/ Ended("ok") /\ landed' = landed \cup {JobNow.want}
  /\ UNCHANGED <<table, jobEdits, cuts>>

(* nested_future_chain: an answer with a chain in it, or an error.           *)
AsksChain ==
  /\ round.at = "chain"
  /\ \/ Fails
     \/ \E chain \in NestedChains :
          round' = [at |-> "mark", left |-> round.left, elapsed |-> round.elapsed, chain |-> chain]
  /\ UNCHANGED <<table, landed, jobEdits, cuts>>

(* future_snapshot: no quote is no mark.                                     *)
AsksMark ==
  /\ round.at = "mark"
  /\ \/ Fails
     \/ \E mark \in {PriceOf(q) : q \in FuturePrices} \cup {Unknown} :
          round' = [at |-> "quotes", left |-> round.left, elapsed |-> round.elapsed, chain |-> round.chain,
                    mark |-> mark, wanted |-> SelectFutureContracts(round.chain, mark),
                    answered |-> {}]
  /\ UNCHANGED <<table, landed, jobEdits, cuts>>

Unasked == round.wanted \ round.answered
Batch == LET n == Cardinality(Unasked)
         IN CHOOSE b \in SUBSET Unasked : Cardinality(b) = (IF n < FUTURE_QUOTE_BATCH THEN n ELSE FUTURE_QUOTE_BATCH)

(* Mutant: the first batch is the only one.                                  *)
AsksQuotes_OneBatch ==
  /\ round.at = "quotes"
  /\ IF round.answered # {} \/ round.wanted = {} THEN Proceeds("write")
     ELSE Fails \/ round' = [round EXCEPT !.answered = @ \cup Batch]
  /\ UNCHANGED <<table, landed, jobEdits, cuts>>

(* The batches, one request each; what the feed says of a contract, blanks   *)
(* included, is its row.                                                     *)
AsksQuotes ==
  /\ round.at = "quotes"
  /\ IF Unasked = {} THEN Proceeds("write")
     ELSE Fails \/ round' = [round EXCEPT !.answered = @ \cup Batch]
  /\ UNCHANGED <<table, landed, jobEdits, cuts>>

(* _collect_future_chain: the snapshot in one transaction.                   *)
WritesSnapshot ==
  /\ round.at = "write"
  /\ \/ Fails /\ UNCHANGED landed
     \/ /\ landed' = landed \cup {"futures"}
        /\ round' = [at |-> "finish", left |-> round.left, elapsed |-> round.elapsed, status |-> "ok",
                     rows |-> round.wanted, chain |-> round.chain, mark |-> round.mark,
                     answered |-> round.answered]
  /\ UNCHANGED <<table, jobEdits, cuts>>

(* _finish: by id; the run counts from when the round began.                 *)
FinishesJob ==
  /\ round.at = "finish"
  /\ table' = [i \in DOMAIN table |->
       IF i = JobNow.id THEN [table[i] EXCEPT !.age = round.elapsed, !.status = round.status] ELSE table[i]]
  /\ round' = [at |-> "next", left |-> Later, elapsed |-> round.elapsed]
  /\ UNCHANGED <<landed, jobEdits, cuts>>

RoundGoesOn == BeginRound \/ NextJob \/ CollectsFromAlpaca \/ AsksChain \/ AsksMark \/ AsksQuotes
               \/ WritesSnapshot \/ FinishesJob

(* The process dies, or a commit that fails twice ends the tick.             *)
RoundIsCut ==
  /\ round # Rest /\ cuts < MaxCuts /\ cuts' = cuts + 1 /\ round' = Rest
  /\ UNCHANGED <<table, landed, jobEdits>>

-----------------------------------------------------------------------------
(* The user and the clock *)
EditsJobs(t) == jobEdits < MaxJobEdits /\ jobEdits' = jobEdits + 1 /\ table' = t
                /\ UNCHANGED <<round, landed, cuts>>

(* jobs_create: the id is one more than the largest in the table.            *)
FreshId == IF DOMAIN table = {} THEN 1 ELSE 1 + Max(DOMAIN table)
CreatesJob(want) ==
  /\ FreshId <= MaxJobId
  /\ EditsJobs([i \in DOMAIN table \cup {FreshId} |->
       IF i \in DOMAIN table THEN table[i]
       ELSE NewRow(i, want, round # Rest /\ \E job \in round.left : job.id = i)])
SwitchesJob(id, on) == table[id].on # on /\ EditsJobs([table EXCEPT ![id].on = on])
DeletesJob(id) == EditsJobs([i \in DOMAIN table \ {id} |-> table[i]])

Older(age) == IF age < Interval THEN age + 1 ELSE age
TimePasses ==
  /\ table' = [i \in DOMAIN table |-> [table[i] EXCEPT !.age = Older(@)]]
  /\ round' = IF round = Rest THEN Rest ELSE [round EXCEPT !.elapsed = Older(@)]
  /\ UNCHANGED <<landed, jobEdits, cuts>>

RoundsNext ==
  \/ RoundGoesOn \/ RoundIsCut \/ TimePasses
  \/ \E want \in Wants : CreatesJob(want)
  \/ \E id \in DOMAIN table : DeletesJob(id) \/ \E on \in BOOLEAN : SwitchesJob(id, on)

-----------------------------------------------------------------------------
(* "ok" beside a job means that its data was committed, whatever was edited, *)
(* locked or cut off meanwhile (_run_job, _finish) - except beside one made  *)
(* under the id of a job the round was yet to finish.                        *)
StatusIsEarned ==
  \A id \in DOMAIN table : table[id].status = "ok" /\ ~table[id].heir => table[id].want \in landed

(* A futures snapshot as it is committed has a row for each near contract    *)
(* about the mark, and the feed was asked about all of its rows: a blank is  *)
(* the feed's.  Without a mark it is as wide as with any mark (recorder.py:  *)
(* "wider slice beats no snapshot").                                         *)
SnapshotIsFeeds ==
  "rows" \in DOMAIN round =>
  LET any == {PriceOf(q) : q \in FuturePrices} IN
  /\ round.rows \subseteq round.answered
  /\ \A mark \in IF round.mark = Unknown THEN any ELSE {round.mark} :
       {c \in round.chain : c.dte \in 0 .. FUTURE_CHAIN_NEAR_DTE /\ c.strike # Unknown
                             /\ 100 * Abs(c.strike - mark) <= BandPercent * mark} \subseteq round.rows

(* Every job that is on is run again and again: no failure, lock, slow       *)
(* answer or edit of another one keeps its turn from it (run_due_jobs: "the  *)
(* loop must survive anything").                                             *)
TurnOf(id) == round.at = "finish" /\ JobNow.id = id
IsOn(id) == id \in DOMAIN table /\ table[id].on
EveryJobHasItsTurn == \A id \in 1 .. MaxJobId : IsOn(id) ~> (TurnOf(id) \/ ~IsOn(id))
=============================================================================
