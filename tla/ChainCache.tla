----------------------------- MODULE ChainCache -----------------------------
(***************************************************************************)
(* The live chain of one underlying as /options serves it (options.py       *)
(* fetch): the cover and contract rows of market.db, the answers kept in    *)
(* memory, and the requests that are out at the provider.  Time passes in   *)
(* ticks, and a quote is the time it was made at.                           *)
(***************************************************************************)
EXTENDS Integers, FiniteSets, FiniteSetsExt

CONSTANTS
  Contracts,   (* [exp, strike, right]: all there will ever be               *)
  NewListings, (* the ones that are listed later                             *)
  Windows,     (* [from, to, lo, hi, right]: what users ask for              *)
  Delisting,   (* may the provider stop listing a contract                   *)
  DayLength, TtlTicks, MemTicks, KeepTicks,  (* options_cache_minutes, ...   *)
  PAD_DAYS, PAD_STRIKE_MIN, PAD_STRIKE_MAX,
  MaxFlight,   (* the time-out of a request                                 *)
  MaxTicks, MaxOut   (* bounds: the clock, requests at a time                *)

Either == "either"   (* no right asked for, '' in the table                   *)

ASSUME ChainCacheAssumption ==
  /\ {TtlTicks, MemTicks, KeepTicks, MaxFlight, PAD_DAYS, PAD_STRIKE_MIN, PAD_STRIKE_MAX} \subseteq Nat
  /\ TtlTicks <= KeepTicks /\ MemTicks <= KeepTicks /\ DayLength \in Nat \ {0}
  /\ \A c \in Contracts : c.exp \in Int /\ c.strike \in Nat
  /\ \A w \in Windows : /\ DOMAIN w = {"from", "to", "lo", "hi", "right"}
                        /\ {w.from, w.to, w.lo, w.hi} \subseteq Int

NoAnswer == [window |-> <<>>]

VARIABLES
  clock,
  listedAt,  (* listedAt[c]: since when the provider has had it, -1: not     *)
  chainRows, (* [c -> [quote, stamp]]: chain_cache                           *)
  covers,    (* [region -> stamp]: chain_cover                               *)
  kept,      (* [window -> [at, rows]]: the answers in memory                *)
  out,       (* the requests at the provider: [window, region, began, got]   *)
  answer     (* the last answer: [window, rows, age, at]                     *)
chainVars == <<clock, listedAt, chainRows, covers, kept, out, answer>>

Today == clock \div DayLength
Quotes == {[of |-> c, quote |-> clock] : c \in {d \in Contracts : listedAt[d] >= 0}}
None == [x \in {} |-> 0]

(* filter_contracts and the WHERE clause: inclusive on every bound.          *)
Inside(c, w) ==
  /\ w.from <= c.exp /\ c.exp <= w.to
  /\ w.lo <= c.strike /\ c.strike <= w.hi
  /\ w.right \in {Either, c.right}

ChainInit ==
  /\ clock = 0 /\ listedAt = [c \in Contracts |-> IF c \in NewListings THEN -1 ELSE 0]
  /\ chainRows = None /\ covers = None /\ kept = None /\ out = {} /\ answer = NoAnswer

-----------------------------------------------------------------------------
(* cache_lookup: some fresh region contains the window, and was asked for    *)
(* both rights or for the same.  Without an order the table may return any.  *)

(* Mutant: a request for both rights is satisfied by a cover of one.         *)
Covering_AnyRight(w) ==
  {r \in DOMAIN covers : /\ r.from <= w.from /\ w.to <= r.to /\ r.lo <= w.lo /\ w.hi <= r.hi
                         /\ covers[r] >= clock - TtlTicks}

Covering(w) ==
  {r \in DOMAIN covers : /\ r.from <= w.from /\ w.to <= r.to /\ r.lo <= w.lo /\ w.hi <= r.hi
                         /\ r.right \in {Either, w.right}
                         /\ covers[r] >= clock - TtlTicks}
Served(w) == {[of |-> c, quote |-> chainRows[c].quote] : c \in {d \in DOMAIN chainRows : Inside(d, w)}}

(* The padding of a fetch: days on both sides, never before today, and       *)
(* strikes by the width of the window within bounds.                         *)
PadStrikes(w) == Min({Max({w.hi - w.lo, 1, PAD_STRIKE_MIN}), PAD_STRIKE_MAX})
Padded(w) ==
  [w EXCEPT !.from = Max({Today, @ - PAD_DAYS}), !.to = @ + PAD_DAYS,
            !.lo = Max({0, @ - PadStrikes(w)}), !.hi = @ + PadStrikes(w)]

Clamped(w) == [w EXCEPT !.from = Max({@, Today})]
Says(w, rows, age) == answer' = [window |-> w, rows |-> rows, age |-> age, at |-> clock]
Remembered(w) == w \in DOMAIN kept /\ clock - kept[w].at < MemTicks

(* fetch: a window that lies in the past is answered at once; then the       *)
(* database, then the memory, then the provider.                             *)
Request(asked) ==
  LET w == Clamped(asked)
  IN /\ w.from <= w.to
     /\ IF Covering(w) # {}
        THEN /\ \E r \in Covering(w) : Says(w, Served(w), clock - covers[r])
             /\ UNCHANGED out
        ELSE IF Remembered(w) THEN Says(w, kept[w].rows, clock - kept[w].at) /\ UNCHANGED out
        ELSE /\ Cardinality(out) < MaxOut
             /\ out' = out \cup {[window |-> w, region |-> Padded(w), began |-> clock, got |-> {}]}
             /\ UNCHANGED answer
  /\ UNCHANGED <<clock, listedAt, chainRows, covers, kept>>

(* The provider answers, with the quotes it has by then.                     *)
Quoted(f) ==
  /\ f \in out /\ f.got = {}
  /\ out' = (out \ {f}) \cup {[f EXCEPT !.got = {{q \in Quotes : Inside(q.of, f.region)}}]}
  /\ UNCHANGED <<clock, listedAt, chainRows, covers, kept, answer>>

(* cache_store, in one transaction: the contracts, the region they cover,    *)
(* and a sweep of what is old or has expired.                                *)
Upserted(rows) ==
  [c \in DOMAIN chainRows \cup {r.of : r \in rows} |->
     IF \E r \in rows : r.of = c THEN [quote |-> (CHOOSE r \in rows : r.of = c).quote, stamp |-> clock]
     ELSE chainRows[c]]
SweptCovers(all) == [r \in {x \in DOMAIN all : all[x] >= clock - KeepTicks} |-> all[r]]
SweptRows(all) ==
  [c \in {x \in DOMAIN all : all[x].stamp >= clock - KeepTicks /\ x.exp >= Today} |-> all[c]]
Store(f, rows) ==
  /\ chainRows' = SweptRows(Upserted(rows))
  /\ covers' = SweptCovers([r \in DOMAIN covers \cup {f.region} |-> IF r = f.region THEN clock ELSE covers[r]])

(* The answer of the provider lands: stored, filtered, kept and handed over; *)
(* old answers in memory go.                                                 *)
Landed(f) ==
  /\ f \in out /\ f.got # {}
  /\ LET got == CHOOSE g \in f.got : TRUE
         rows == {q \in got : Inside(q.of, f.window)}
         now == [w \in DOMAIN kept \cup {f.window} |-> IF w = f.window THEN [at |-> f.began, rows |-> rows] ELSE kept[w]]
     IN /\ Store(f, got)
        /\ kept' = [w \in {x \in DOMAIN now : clock - now[x].at < MemTicks} |-> now[w]]
        /\ Says(f.window, rows, clock - f.began)
  /\ out' = out \ {f}
  /\ UNCHANGED <<clock, listedAt>>

(* BrokerError: available is False, with the reason.                         *)
ProviderFails(f) == f \in out /\ f.got = {} /\ out' = out \ {f}
                    /\ UNCHANGED <<clock, listedAt, chainRows, covers, kept, answer>>

(* A restart of the backend: what was in memory or under way is gone.        *)
BackendRestarts == /\ kept' = None /\ out' = {} /\ answer' = NoAnswer
                   /\ UNCHANGED <<clock, listedAt, chainRows, covers>>

Tick == /\ clock < MaxTicks /\ \A f \in out : clock - f.began < MaxFlight
        /\ clock' = clock + 1
        /\ UNCHANGED <<listedAt, chainRows, covers, kept, out, answer>>
Lists(c) == /\ \/ listedAt[c] = -1 /\ listedAt' = [listedAt EXCEPT ![c] = clock]
               \/ Delisting /\ listedAt[c] >= 0 /\ listedAt' = [listedAt EXCEPT ![c] = -1]
            /\ UNCHANGED <<clock, chainRows, covers, kept, out, answer>>

ChainNext ==
  \/ Tick \/ BackendRestarts
  \/ \E w \in Windows : Request(w)
  \/ \E f \in out : Quoted(f) \/ Landed(f) \/ ProviderFails(f)
  \/ \E c \in Contracts : Lists(c)

ChainSpec == ChainInit /\ [][ChainNext]_chainVars

-----------------------------------------------------------------------------
(* An answer is whole and as fresh as it says, but for the time its fetch    *)
(* was under way: it holds every contract the provider already listed in the *)
(* window at the time the answer is said to be of, quoted no earlier, and    *)
(* nothing from outside.  So a drag inside a covered region, a second        *)
(* request that lands first, a sweep or a new day lose no contract.          *)
AnswerIsWhole ==
  answer # NoAnswer =>
    LET asOf == answer.at - answer.age - MaxFlight
    IN /\ \A c \in Contracts : Inside(c, answer.window) /\ listedAt[c] \in 0 .. asOf - 1 =>
            \E r \in answer.rows : r.of = c
       /\ \A r \in answer.rows : Inside(r.of, answer.window) /\ r.quote >= asOf
=============================================================================
