---------------------------- MODULE DeepHistory ----------------------------
(***************************************************************************)
(* The deep data retriever (backend/depth.py): every symbol whose chart is *)
(* opened is queued once, and one worker brings its permanent daily bars   *)
(* (the bar_hist tables of marketdb.py) up to date, older bars first.      *)
(* The keyless feed answers with a whole series or not at all; the broker  *)
(* answers for equities only, back to its floor.  The process may die      *)
(* between two transactions; what was queued dies with it.                 *)
(***************************************************************************)
EXTENDS Naturals, Sequences, FiniteSets

CONSTANTS
  Syms,
  LastSession, (* bounds the calendar                                       *)
  Floor,       (* the first session the broker has ("2016-01-01")           *)
  MaxDeaths    (* bounds how often the process dies                         *)

ASSUME DeepAssumption == {LastSession, MaxDeaths} \subseteq Nat /\ Floor \in 1 .. LastSession

Sessions == 1 .. LastSession
Feeds    == {"yahoo", "alpaca"}
Classes  == {"us_equity", "index", "crypto"}

VARIABLES
  class,    (* class[s]: what classify says of s                            *)
  creds,    (* whether the user has broker credentials                      *)
  session,  (* the session of today                                         *)
  hist,     (* hist[s][d]: the feed a stored bar came from, "none" if none  *)
  deepAt,   (* the symbols whose head is at its horizon (deep_at)           *)
  recent,   (* the symbols whose tail_at is younger than TAIL_COOLDOWN      *)
  submitted, seen, waiting, (* submit: between lock and put; _seen; _q      *)
  fill,     (* the fill under way: symbol, step, and the memoized series    *)
  deaths

deepVars == <<class, creds, session, hist, deepAt, recent, submitted, seen, waiting, fill, deaths>>

NoSeries == [asked |-> FALSE, days |-> {}]
NoFill   == [at |-> "idle"]

Providers(c) == CASE c = "us_equity" -> {"alpaca", "yahoo"} [] c = "index" -> {"yahoo"}
                  [] c = "crypto" -> {}

DeepInit ==
  /\ class \in [Syms -> Classes] /\ creds \in BOOLEAN
  /\ session \in 2 .. LastSession
  /\ hist = [s \in Syms |-> [d \in Sessions |-> "none"]]
  /\ deepAt = {} /\ recent = {} /\ submitted = {} /\ seen = {} /\ waiting = <<>>
  /\ fill = NoFill /\ deaths = 0

DeepTypeOK ==
  /\ class \in [Syms -> Classes] /\ creds \in BOOLEAN /\ session \in Sessions
  /\ hist \in [Syms -> [Sessions -> Feeds \cup {"none"}]]
  /\ deepAt \subseteq Syms /\ recent \subseteq Syms
  /\ submitted \subseteq seen /\ seen \subseteq Syms /\ waiting \in Seq(seen)
  /\ fill = NoFill \/ fill.sym \in seen
  /\ deaths \in 0 .. MaxDeaths

Held(s)    == {d \in Sessions : hist[s][d] # "none"}
Oldest(S)  == CHOOSE d \in S : \A e \in S : d <= e
Newest(S)  == CHOOSE d \in S : \A e \in S : e <= d

(* INSERT OR REPLACE, tagged with the feed.                                 *)
BarHistStore(s, days, feed) ==
  hist' = [hist EXCEPT ![s] = [d \in Sessions |-> IF d \in days THEN feed ELSE @[d]]]

(* plan: the head is wanted until deep_at is stamped, the tail from the     *)
(* session after the newest bar.                                            *)
HeadWanted(s) ==
  Providers(class[s]) # {} /\ (Held(s) = {} \/ s \notin deepAt)
TailFrom(s) ==
  IF Providers(class[s]) # {} /\ Held(s) # {} /\ Newest(Held(s)) < session
  THEN {Newest(Held(s)) + 1} ELSE {}

(* YahooProvider().daily_bars: the whole series, with or without the bar of *)
(* the open session; or nothing, an outage.                                 *)
YahooAnswers == {{}, 1 .. session - 1, 1 .. session}
DeepSeries(f) == IF f.asked THEN {f.days} ELSE YahooAnswers

(* stock_bars of the broker; a failure counts as nothing.                   *)
AlpacaAnswers(s, from) ==
  IF creds /\ class[s] = "us_equity" THEN {{}, from .. session - 1, from .. session} ELSE {{}}

-----------------------------------------------------------------------------
(* submit: the symbol enters _seen under the lock, and the queue after it.  *)
Submit(s) ==
  /\ s \notin seen
  /\ seen' = seen \cup {s} /\ submitted' = submitted \cup {s}
  /\ UNCHANGED <<class, creds, session, hist, deepAt, recent, waiting, fill, deaths>>
Put(s) ==
  /\ s \in submitted
  /\ submitted' = submitted \ {s} /\ waiting' = Append(waiting, s)
  /\ UNCHANGED <<class, creds, session, hist, deepAt, recent, seen, fill, deaths>>

Step(from, to) == fill # NoFill /\ fill.at = from /\ fill' = [fill EXCEPT !.at = to]

(* Mutant: a symbol that is taken is forgotten at once.                     *)
Take_Discards ==
  /\ fill = NoFill /\ waiting # <<>>
  /\ fill' = [sym |-> Head(waiting), at |-> "head", deep |-> NoSeries]
  /\ waiting' = Tail(waiting) /\ seen' = seen \ {Head(waiting)}
  /\ UNCHANGED <<class, creds, session, hist, deepAt, recent, submitted, deaths>>

Take ==
  /\ fill = NoFill /\ waiting # <<>>
  /\ fill' = [sym |-> Head(waiting), at |-> "head", deep |-> NoSeries]
  /\ waiting' = Tail(waiting)
  /\ UNCHANGED <<class, creds, session, hist, deepAt, recent, submitted, seen, deaths>>

(* Mutant: an empty answer counts as the horizon.                           *)
FillHead_EmptyIsHorizon ==
  /\ fill # NoFill /\ fill.at = "head"
  /\ IF ~HeadWanted(fill.sym)
     THEN fill' = [fill EXCEPT !.at = "tail"] /\ UNCHANGED hist
     ELSE \E days \in YahooAnswers :
            LET s == fill.sym
                older == {d \in days : Held(s) # {} => d < Oldest(Held(s))}
            IN  /\ BarHistStore(s, older, "yahoo")
                /\ fill' = [fill EXCEPT !.at = "deep", !.deep = [asked |-> TRUE, days |-> days]]
  /\ UNCHANGED <<class, creds, session, deepAt, recent, submitted, seen, waiting, deaths>>

FillHead ==
  /\ fill # NoFill /\ fill.at = "head"
  /\ IF ~HeadWanted(fill.sym)
     THEN fill' = [fill EXCEPT !.at = "tail"] /\ UNCHANGED hist
     ELSE \E days \in YahooAnswers :
            LET s == fill.sym
                older == {d \in days : Held(s) # {} => d < Oldest(Held(s))}
            IN  /\ BarHistStore(s, older, "yahoo")
                /\ fill' = [fill EXCEPT !.at = IF days # {} THEN "deep" ELSE "tail",
                                        !.deep = [asked |-> TRUE, days |-> days]]
  /\ UNCHANGED <<class, creds, session, deepAt, recent, submitted, seen, waiting, deaths>>

MarkDeep ==
  /\ Step("deep", "tail") /\ deepAt' = deepAt \cup {fill.sym}
  /\ UNCHANGED <<class, creds, session, hist, recent, submitted, seen, waiting, deaths>>

FillTail ==
  /\ fill # NoFill /\ fill.at = "tail"
  /\ LET s == fill.sym
         want == (TailFrom(s) # {} \/ Held(s) = {}) /\ s \notin recent
         from == IF TailFrom(s) # {} THEN Oldest(TailFrom(s)) ELSE Floor
     IN  IF ~want
         THEN fill' = [fill EXCEPT !.at = "end"] /\ UNCHANGED hist
         ELSE /\ fill' = [fill EXCEPT !.at = "mark"]
              /\ \E got \in AlpacaAnswers(s, from) :
                   IF got # {} THEN BarHistStore(s, got, "alpaca")
                   ELSE \E days \in DeepSeries(fill.deep) :
                          BarHistStore(s, {d \in days : Held(s) # {} => d > Newest(Held(s))}, "yahoo")
  /\ UNCHANGED <<class, creds, session, deepAt, recent, submitted, seen, waiting, deaths>>

MarkTail ==
  /\ Step("mark", "end") /\ recent' = recent \cup {fill.sym}
  /\ UNCHANGED <<class, creds, session, hist, deepAt, submitted, seen, waiting, deaths>>

(* Mutant: an exception skips the discard.                                  *)
Finish_Leaks ==
  /\ fill # NoFill
  /\ seen' = (IF fill.at = "end" THEN seen \ {fill.sym} ELSE seen) /\ fill' = NoFill
  /\ UNCHANGED <<class, creds, session, hist, deepAt, recent, submitted, waiting, deaths>>

(* The end of a fill, or an exception out of any of its steps.              *)
Finish ==
  /\ fill # NoFill
  /\ seen' = seen \ {fill.sym} /\ fill' = NoFill
  /\ UNCHANGED <<class, creds, session, hist, deepAt, recent, submitted, waiting, deaths>>

NextSession ==
  /\ session < LastSession /\ session' = session + 1
  /\ UNCHANGED <<class, creds, hist, deepAt, recent, submitted, seen, waiting, fill, deaths>>
CooldownEnds ==
  /\ recent # {} /\ recent' = {}
  /\ UNCHANGED <<class, creds, session, hist, deepAt, submitted, seen, waiting, fill, deaths>>
Die ==
  /\ deaths < MaxDeaths /\ deaths' = deaths + 1
  /\ submitted' = {} /\ seen' = {} /\ waiting' = <<>> /\ fill' = NoFill
  /\ UNCHANGED <<class, creds, session, hist, deepAt, recent>>

Work == Take \/ FillHead \/ MarkDeep \/ FillTail \/ MarkTail \/ Finish
DeepNext ==
  \/ \E s \in Syms : Submit(s) \/ Put(s)
  \/ Work \/ NextSession \/ CooldownEnds \/ Die

-----------------------------------------------------------------------------
(* What is stored of a symbol has no hole, whichever feeds answered and     *)
(* wherever a fill was cut off; and once deep_at keeps the head from being  *)
(* walked again, the head is there (depth.fill "stores what it fetched      *)
(* BEFORE claiming progress").                                              *)
HistoryUnbroken ==
  \A s \in Syms :
    /\ \A a, b \in Held(s) : a .. b \subseteq Held(s)
    /\ s \in deepAt => 1 \in Held(s)

(* A symbol that was submitted does not stay in _seen, where it could not   *)
(* be submitted again, however its fill ends (Deepener._loop).              *)
SubmittedIsReleased == \A s \in Syms : s \in seen ~> s \notin seen
=============================================================================
