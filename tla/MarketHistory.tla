--------------------------- MODULE MarketHistory ---------------------------
(***************************************************************************)
(* What the recorder knows about one series of market data: the rows it    *)
(* has stored and the claims of the coverage table (backend/coverage.py),  *)
(* as they are made by the live collector, the backfill and the retention  *)
(* sweep (recorder.py, backfill.py), which run one after the other in one  *)
(* thread, and are cut off by a crash or a stop at any point.              *)
(*                                                                         *)
(* A series is either daily or intraday bars, from Alpaca, a range of days *)
(* per request; or the option chain of a symbol, from OnclickMedia, one    *)
(* session per request, archived beside the sessions the live collector    *)
(* archives from Alpaca.  Days are trading days, numbered.  How many bars  *)
(* a day has does not matter: its rows are none, some or all of them.      *)
(***************************************************************************)
EXTENDS Naturals, FiniteSets

CONSTANTS
  LastDay,     (* bounds the calendar: the model ends on this day           *)
  ChunkDays,   (* backfill.CHUNK_DAYS                                       *)
  GapDays,     (* the 5 of backfill.plan                                    *)
  MaxChunks,   (* BACKFILL_CHUNKS_PER_CYCLE, CHAIN_DAYS_PER_CYCLE           *)
  MaxAttempts, (* coverage.MAX_ATTEMPTS                                     *)
  WindowDays,  (* onclick.WINDOW_DAYS                                       *)
  RetainDays,  (* retention_days of the job                                 *)
  LivePage,    (* days of bars in one answer of stock_bars, newest first    *)
  BackPage,    (* days of bars in one answer of stock_bars_range, oldest first *)
  MaxRests,    (* bounds how many times a cooldown ends                     *)
  MaxCrashes   (* bounds crashes and stops                                  *)

Days == 1 .. LastDay

ASSUME HistoryAssumption ==
  /\ {LastDay, ChunkDays, MaxChunks, MaxAttempts} \subseteq Nat \ {0}
  /\ {GapDays, WindowDays, RetainDays, LivePage, BackPage, MaxRests, MaxCrashes} \subseteq Nat

VARIABLES
  feed,    (* "bars" or "chain"                                             *)
  carried, (* the days the backfill's provider has data for                 *)
  today,
  rows,    (* rows[d]: what rec_bars, or the archive, holds of a day        *)
  cover,   (* cover[d]: the row of data_cover, state "none" if there is none*)
  rest,    (* days asked about MAX_ATTEMPTS times, the last one recently    *)
  queue,   (* the chunks of the plan that are left                          *)
  claims,  (* claims[d]: what run_one is about to mark                      *)
  rests, crashes

dbVars      == <<rows, cover, rest>>
cycleVars   == <<queue, claims>>
historyVars == <<feed, carried, today, dbVars, cycleVars, rests, crashes>>

Settled == {"have", "absent"}
Claim   == Settled \cup {"failed", "unknown"}

HistoryTypeOK ==
  /\ feed \in {"bars", "chain"} /\ carried \subseteq Days /\ today \in Days
  /\ rows \in [Days -> {"none", "some", "all"}]
  /\ cover \in [Days -> [state : Claim \cup {"none"}, attempts : 0 .. MaxAttempts]]
  /\ \A d \in Days : cover[d].attempts = 0 <=> cover[d].state \in Settled \cup {"none"}
  /\ rest \subseteq {d \in Days : cover[d].attempts = MaxAttempts}
  /\ queue \subseteq SUBSET Days
  /\ DOMAIN claims \subseteq Days /\ \A d \in DOMAIN claims : claims[d] \in Claim
  /\ rests \in 0 .. MaxRests /\ crashes \in 0 .. MaxCrashes

HistoryInit ==
  /\ feed \in {"bars", "chain"}
  /\ carried \in SUBSET Days
  /\ today \in Days
  /\ rows = [d \in Days |-> "none"]
  /\ cover = [d \in Days |-> [state |-> "none", attempts |-> 0]]
  /\ rest = {} /\ queue = {} /\ claims = <<>>
  /\ rests = 0 /\ crashes = 0

Idle == queue = {} /\ claims = <<>>

Stored(r) == {d \in Days : r[d] # "none"}
Newest(S) == CHOOSE d \in S : \A e \in S : e <= d
Oldest(S) == CHOOSE d \in S : \A e \in S : d <= e

(* INSERT OR REPLACE: a day once whole stays whole.                         *)
Store(whole, part) ==
  rows' = [d \in Days |-> IF d \in whole \/ rows[d] = "all" THEN "all"
                          ELSE IF d \in part THEN "some" ELSE rows[d]]

----------------------------------------------------------------------------
(* The coverage table *)

(* Alpaca may say "absent" of bars; OnclickMedia earns it for a symbol by a *)
(* day it has returned.                                                     *)
MayClaimAbsent(cv) == feed = "bars" \/ \E d \in Days : cv[d].state = "have"

(* has_older: this provider is known to reach further back than d.          *)
HasOlder(cv, d) == \E e \in Days : e < d /\ cv[e].state = "have"

(* The row mark writes; attempts are counted up to the cap.                 *)
MarkRow(cv, d, s) ==
  LET t == IF s = "absent" /\ ~MayClaimAbsent(cv) THEN "unknown" ELSE s
      n == cv[d].attempts
  IN  [state |-> t,
       attempts |-> IF t \in Settled THEN 0 ELSE IF n < MaxAttempts THEN n + 1 ELSE n]

(* The days a cycle may ask about: bars up to yesterday, chains as far back *)
(* as the provider's window reaches.                                        *)
Window == {d \in Days : d < today /\ (feed = "bars" \/ d + WindowDays >= today)}

(* Mutant: settled days are asked about again.                              *)
Gaps_Settled(cv, resting) == Window \ resting

(* Mutant: the cap on attempts is dropped.                                  *)
Gaps_NoCap(cv, resting) == {d \in Window : cv[d].state \notin Settled}

(* gaps: neither settled nor asked about too often lately.                  *)
Gaps(cv, resting) == {d \in Window \ resting : cv[d].state \notin Settled}

(* reconcile_bars and reconcile_chain: what is on disk already is "have".   *)
OnDisk == IF feed = "bars" THEN Stored(rows) ELSE Stored(rows) \cap Window

Reconciled(ds) == [d \in Days |-> IF d \in ds THEN MarkRow(cover, d, "have") ELSE cover[d]]

----------------------------------------------------------------------------
(* The plan *)

(* Newest first; for chains, days that have failed come after the others.   *)
Before(cv, d, e) ==
  LET late(x) == feed = "chain" /\ cv[x].state = "failed"
  IN  (late(e) /\ ~late(d)) \/ (late(e) = late(d) /\ d > e)

(* Bars are asked for in runs of missing days that are close together and   *)
(* span less than CHUNK_DAYS, chains a day at a time: FirstDay(missing)[d]  *)
(* is the day the run of d begins with.                                     *)
FirstDay(missing) ==
  LET first[d \in missing] ==
        LET older == {e \in missing : e < d}
        IN  IF feed = "chain" \/ older = {} THEN d
            ELSE LET p == Newest(older)
                 IN  IF d >= first[p] + ChunkDays \/ d > p + GapDays THEN d ELSE first[p]
  IN  first

Chunks(missing) ==
  LET first == FirstDay(missing)
  IN  {{e \in missing : first[e] = first[d]} : d \in missing}

(* The chunks that run before chunk c.                                      *)
Ahead(cv, cs, c) == {b \in cs : Before(cv, Newest(b), Newest(c))}

Plan(cv, resting) ==
  LET cs == Chunks(Gaps(cv, resting))
  IN  {c \in cs : Cardinality(Ahead(cv, cs, c)) < MaxChunks}

(* The first half of run_backfill and _backfill_chains.                     *)
StartCycle ==
  /\ Idle
  /\ cover' = Reconciled(OnDisk)
  /\ rest' = rest \ OnDisk
  /\ queue' = Plan(cover', rest')
  /\ UNCHANGED <<feed, carried, today, rows, claims, rests, crashes>>

----------------------------------------------------------------------------
(* One request *)

NextChunk(c) == c \in queue /\ Ahead(cover, queue, c) = {} /\ claims = <<>>

(* The days an answer holds: a range of bars is cut at one page.            *)
Asked(c) == {d \in carried : Oldest(c) <= d /\ d <= Newest(c)}
Nth(S, d) == Cardinality({e \in S : e <= d})
Whole(c) == {d \in Asked(c) : feed = "chain" \/ Nth(Asked(c), d) <= BackPage}
Part(c)  == {d \in Asked(c) \ Whole(c) : Nth(Asked(c), d) = BackPage + 1}

(* Mutant: an empty window is believed, whatever is known of older days.    *)
Claims_EmptyIsAbsent(c, got) ==
  [d \in c |-> IF d \in got THEN "have" ELSE "absent"]

(* What an answer says of the days that were asked about: an empty window   *)
(* of bars that nothing older is known of is not a claim about the market.  *)
Claims(c, got) ==
  IF feed = "bars" /\ got = {} /\ ~HasOlder(cover, Oldest(c))
    THEN [d \in c |-> "unknown"]
    ELSE [d \in c |-> IF d \in got THEN "have" ELSE "absent"]

(* Mutant: an error is taken for an empty answer.                           *)
FetchFails_Empty(c) ==
  /\ NextChunk(c)
  /\ queue' = queue \ {c}
  /\ claims' = Claims(c, {})
  /\ UNCHANGED <<feed, carried, today, dbVars, rests, crashes>>

(* Any error: every day of the chunk is to be asked about again; so is a    *)
(* session that has left the provider's window since it was planned (403).  *)
FetchFails(c) ==
  /\ NextChunk(c)
  /\ queue' = queue \ {c}
  /\ \E s \in {"failed"} \cup (IF c \subseteq Window THEN {} ELSE {"unknown"}) :
       claims' = [d \in c |-> s]
  /\ UNCHANGED <<feed, carried, today, dbVars, rests, crashes>>

(* Mutant: the answer is only looked at, nothing is stored.                 *)
FetchAnswers_NotStored(c) ==
  /\ NextChunk(c)
  /\ queue' = queue \ {c}
  /\ claims' = Claims(c, Whole(c) \cup Part(c))
  /\ UNCHANGED <<feed, carried, today, dbVars, rests, crashes>>

(* The rows are committed first, before any claim.                          *)
FetchAnswers(c) ==
  /\ NextChunk(c)
  /\ queue' = queue \ {c}
  /\ Store(Whole(c), Part(c))
  /\ claims' = Claims(c, Whole(c) \cup Part(c))
  /\ UNCHANGED <<feed, carried, today, cover, rest, rests, crashes>>

(* A session that came but cannot be taken in: the parser refuses it        *)
(* (chainimport.Refused) or one of the two stores raises.  Nothing catches  *)
(* that on the day, so nothing is marked and no attempt is counted; the     *)
(* cycle is over, and the next plan begins with the same day.               *)
FetchBreaks(c) ==
  /\ NextChunk(c)
  /\ feed = "chain" /\ Asked(c) # {}
  /\ queue' = {}
  /\ UNCHANGED <<feed, carried, today, dbVars, claims, rests, crashes>>

(* Each day is marked in a transaction of its own.                          *)
MarkDay ==
  /\ \E d \in DOMAIN claims :
       LET row == MarkRow(cover, d, claims[d])
       IN  /\ \A e \in DOMAIN claims : d <= e
           /\ cover' = [cover EXCEPT ![d] = row]
           /\ rest' = IF row.attempts = MaxAttempts THEN rest \cup {d} ELSE rest \ {d}
           /\ claims' = [e \in DOMAIN claims \ {d} |-> claims[e]]
  /\ UNCHANGED <<feed, carried, today, rows, queue, rests, crashes>>

----------------------------------------------------------------------------
(* The rest of the recorder thread, and what happens to it *)

(* _collect_bars: everything since the newest row, but the newest page of   *)
(* it only.  Today's session may still be open.                             *)
CollectBars ==
  /\ Idle /\ feed = "bars"
  /\ LET since == IF Stored(rows) = {} THEN 1 ELSE Newest(Stored(rows))
         new   == {d \in carried : since <= d /\ d <= today}
         page  == {d \in new : d + LivePage > today}
         cut   == {d \in new : d + LivePage = today}
     IN  \E open \in SUBSET (page \cap {today}) : Store(page \ open, cut \cup open)
  /\ UNCHANGED <<feed, carried, today, cover, rest, cycleVars, rests, crashes>>

(* _collect_chain archives today's session from Alpaca.                     *)
CollectChain ==
  /\ Idle /\ feed = "chain"
  /\ Store({today}, {})
  /\ UNCHANGED <<feed, carried, today, cover, rest, cycleVars, rests, crashes>>

(* The retention sweep: rec_bars only, the archive is kept; coverage is not *)
(* touched.                                                                 *)
Prune ==
  /\ Idle /\ feed = "bars"
  /\ rows' = [d \in Days |-> IF d + RetainDays < today THEN "none" ELSE rows[d]]
  /\ UNCHANGED <<feed, carried, today, cover, rest, cycleVars, rests, crashes>>

(* RETRY_COOLDOWN_HOURS after a day was last asked about.                   *)
CooldownEnds(d) ==
  /\ d \in rest /\ rests < MaxRests
  /\ rest' = rest \ {d} /\ rests' = rests + 1
  /\ UNCHANGED <<feed, carried, today, rows, cover, cycleVars, crashes>>

Midnight ==
  /\ today < LastDay
  /\ today' = today + 1
  /\ UNCHANGED <<feed, carried, dbVars, cycleVars, rests, crashes>>

(* The process dies, or stop() ends the cycle: the plan is gone, whatever   *)
(* was marked stays marked, and that includes part of a reconciliation.     *)
Interrupted ==
  /\ crashes < MaxCrashes
  /\ crashes' = crashes + 1
  /\ \/ ~Idle /\ UNCHANGED <<cover, rest>>
     \/ Idle /\ \E ds \in SUBSET OnDisk : cover' = Reconciled(ds) /\ rest' = rest \ ds
  /\ queue' = {} /\ claims' = <<>>
  /\ UNCHANGED <<feed, carried, today, rows, rests>>

FetchStep == \E c \in queue : FetchFails(c) \/ FetchAnswers(c) \/ FetchBreaks(c)

HistoryNext ==
  \/ StartCycle \/ FetchStep \/ MarkDay
  \/ CollectBars \/ CollectChain \/ Prune
  \/ \E d \in Days : CooldownEnds(d)
  \/ Midnight \/ Interrupted

HistorySpec == HistoryInit /\ [][HistoryNext]_historyVars

(* The thread goes on, and a backfill runs every BACKFILL_EVERY while it is *)
(* switched on and has credentials; that it gets as far as this series is   *)
(* assumed: a session of a chain before it that breaks ends it too.         *)
FairHistorySpec ==
  /\ HistorySpec
  /\ WF_historyVars(StartCycle) /\ WF_historyVars(FetchStep) /\ WF_historyVars(MarkDay)

----------------------------------------------------------------------------
(* Properties *)

(* "have is settled forever, so it must never outrun the data" (recorder.py *)
(* 575): a day is claimed only with its rows on disk, until retention takes *)
(* them, wherever the recorder was cut off.                                 *)
HaveIsStored ==
  \A d \in Days :
    cover[d].state = "have" => rows[d] # "none" \/ (feed = "bars" /\ d + RetainDays < today)

(* An outage, a crash or a short answer never writes off a day that the     *)
(* provider has data for (coverage.py 14-19).                               *)
NeverAbsentOverData ==
  \A d \in Days : cover[d].state = "absent" => d \notin carried

(* Days before the provider's history begins stay open, except next to it   *)
(* ("1,818 permanent write-offs", backfill.py 166).                         *)
HorizonStaysOpen ==
  \A d \in Days : feed = "bars" /\ cover[d].state = "absent"
                    => \E e \in carried : e < d + ChunkDays

(* What coverage says of a day is so: "have" has its rows, and "absent" is  *)
(* not a day the provider has, nor one before its history begins.           *)
CoverageIsTrue == HaveIsStored /\ NeverAbsentOverData /\ HorizonStaysOpen

(* No later step of a stale plan, a retry or a crash takes back an answer.  *)
SettledStays ==
  [][\A d \in Days :
       /\ cover[d].state = "have" => cover'[d].state = "have"
       /\ cover[d].state = "absent" => cover'[d].state \in Settled]_historyVars

(* Every day the provider has and the window reaches is got in the end, or  *)
(* rests after MAX_ATTEMPTS errors: no day that fails keeps another from    *)
(* its turn (coverage.py 257).  One whose session breaks does: while that   *)
(* happens again and again nothing is promised, and TLC refutes it.         *)
EveryDayGetsItsTurn ==
  \/ []<><<\E c \in queue : FetchBreaks(c)>>_historyVars
  \/ \A d \in Days : <>[](d \in carried \cap Window => cover[d].state = "have" \/ d \in rest)

(* recorder.py 523: no day sits at the head of the queue for ever.          *)
NothingStarves ==
  \A d \in Days : <>[](d \in carried \cap Window => cover[d].state = "have" \/ d \in rest)

(* coverage.py 159: OnclickMedia says "absent" only of a symbol it carries. *)
AbsentIsEarned ==
  \A d \in Days : feed = "chain" /\ cover[d].state = "absent" => carried # {}

(* recorder.py 123: a day that is "still moving" must not be settled.       *)
HaveIsWhole ==
  \A d \in Days : cover[d].state = "have" /\ d < today => rows[d] = "all"
=============================================================================
