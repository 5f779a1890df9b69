---------------------------- MODULE StoresProofs ----------------------------
(***************************************************************************)
(* Proofs about the stores: the deep data retriever leaves no hole in the  *)
(* daily bars of a symbol, and what the data jobs, the rounds of the       *)
(* recorder and the archive's tools say they have put into a store is in   *)
(* it. Each of the four has an inductive invariant of its own.             *)
(***************************************************************************)
EXTENDS MCStores, Orders

-----------------------------------------------------------------------------
(* The deep data retriever *)

(* What waits, and sets of sessions without a hole.                          *)
Queue == {waiting[i] : i \in DOMAIN waiting}

(* What is queued is queued once, and known as submitted.                    *)
DeepTypes ==
  /\ class \in [Syms -> Classes] /\ creds \in BOOLEAN /\ session \in Sessions /\ session >= 2
  /\ hist \in [Syms -> [Sessions -> Feeds \cup {"none"}]]
  /\ deepAt \subseteq Syms /\ recent \subseteq Syms
  /\ seen \subseteq Syms /\ submitted \subseteq seen /\ waiting \in Seq(Syms)
  /\ Queue \subseteq seen \ submitted
  /\ \A i, j \in DOMAIN waiting : waiting[i] = waiting[j] => i = j
  /\ fill # NoFill =>
       /\ DOMAIN fill = {"sym", "at", "deep"} /\ fill.sym \in seen \ (submitted \cup Queue)
       /\ DOMAIN fill.deep = {"asked", "days"}
       /\ fill.deep.days = {} \/ \E t \in 1 .. session : fill.deep.days = 1 .. t
  /\ deaths \in 0 .. MaxDeaths

(* A set of sessions without a hole in it.                                   *)
Whole(S) == S \subseteq 1 .. session /\ \A a, b \in S : a .. b \subseteq S

(* A walk that has answered has brought the oldest bar.                      *)
DeepInv ==
  /\ DeepTypes
  /\ \A s \in Syms : Whole(Held(s))
  /\ \A s \in deepAt : 1 \in Held(s)
  /\ fill # NoFill /\ fill.at = "deep" => 1 \in Held(fill.sym)

(* The ends of what is held.                                                 *)
LEMMA EndsAre ==
  ASSUME NEW S, S # {}, S \subseteq Sessions
  PROVE  /\ Oldest(S) \in S /\ \A e \in S : Oldest(S) <= e
         /\ Newest(S) \in S /\ \A e \in S : e <= Newest(S)
<1>1. S \subseteq Nat /\ S \subseteq 0 .. LastSession /\ LastSession \in Nat
  BY DeepAssumption DEF Sessions
<1>2. \E d \in S : \A e \in S : d <= e
  BY <1>1, Least
<1>3. \E d \in S : \A e \in S : e <= d
  BY <1>1, Greatest
<1> QED BY <1>2, <1>3 DEF Oldest, Newest

(* Older and newer bars leave no hole when they reach what is held.          *)
LEMMA OlderIs ==
  ASSUME DeepTypes, NEW S, Whole(S), NEW t \in {session - 1, session}
  PROVE  LET older == {d \in 1 .. t : S # {} => d < Oldest(S)} IN Whole(S \cup older) /\ 1 \in S \cup older
<1> DEFINE older == {d \in 1 .. t : S # {} => d < Oldest(S)}
<1>0. session \in Nat /\ session >= 2 /\ t \in Nat /\ t >= 1 /\ t <= session /\ S \subseteq Sessions /\ S \subseteq 1 .. session
  BY DeepAssumption DEF DeepTypes, Sessions, Whole
<1>1. CASE S = {}
  <2>1. older = 1 .. t
    BY <1>1
  <2> QED BY <1>0, <1>1, <2>1 DEF Whole
<1>2. CASE S # {}
  <2>1. Oldest(S) \in S /\ Oldest(S) \in 1 .. session /\ \A e \in S : Oldest(S) <= e
    BY <1>0, <1>2, EndsAre
  <2>2. older = 1 .. Oldest(S) - 1
    BY <1>0, <1>2, <2>1
  <2> HIDE DEF older
  <2>3. \A a, b \in S \cup older : a .. b \subseteq S \cup older
    <3> SUFFICES ASSUME NEW a \in S \cup older, NEW b \in S \cup older, NEW x \in a .. b, ~(x < Oldest(S)) PROVE x \in S
      BY <1>0, <2>1, <2>2
    <3>1. b \in S
      BY <1>0, <2>1, <2>2
    <3>2. x \in Oldest(S) .. b
      BY <1>0, <2>1, <2>2
    <3> QED BY <3>1, <3>2, <2>1 DEF Whole
  <2>4. \A x \in older : x \in 1 .. session
    BY <1>0, <2>1, <2>2
  <2>5. 1 \in S \cup older
    BY <1>0, <2>1, <2>2
  <2>6. Whole(S \cup older)
    BY <1>0, <2>3, <2>4 DEF Whole
  <2> QED BY <2>5, <2>6 DEF older
<1> QED BY <1>1, <1>2

(* The sessions newer than what is held.                                     *)
LEMMA NewerIs ==
  ASSUME DeepTypes, NEW S, Whole(S), S # {}, NEW newer,
         newer = {} \/ \E t \in 1 .. session : newer = Newest(S) + 1 .. t
  PROVE  Whole(S \cup newer)
<1>0. session \in Nat /\ S \subseteq Sessions /\ S \subseteq 1 .. session
  BY DeepAssumption DEF DeepTypes, Sessions, Whole
<1>1. Newest(S) \in S /\ Newest(S) \in 1 .. session /\ \A e \in S : e <= Newest(S)
  BY <1>0, EndsAre
<1>2. CASE newer = {}
  BY <1>2 DEF Whole
<1>3. ASSUME NEW t \in 1 .. session, newer = Newest(S) + 1 .. t PROVE Whole(S \cup newer)
  <2>1. \A a, b \in S \cup newer : a .. b \subseteq S \cup newer
    <3> SUFFICES ASSUME NEW a \in S \cup newer, NEW b \in S \cup newer, NEW x \in a .. b, ~(x > Newest(S)) PROVE x \in S
      BY <1>0, <1>1, <1>3
    <3>1. a \in S
      BY <1>0, <1>1, <1>3
    <3>2. x \in a .. Newest(S)
      BY <1>0, <1>1, <1>3
    <3> QED BY <3>1, <3>2, <1>1 DEF Whole
  <2>2. \A x \in newer : x \in 1 .. session
    <3> SUFFICES ASSUME NEW x \in Newest(S) + 1 .. t PROVE x \in 1 .. session
      BY <1>3
    <3> QED BY <1>0, <1>1
  <2> QED BY <1>0, <2>1, <2>2 DEF Whole
<1> QED BY <1>2, <1>3

(* What is held once bars are stored.                                        *)
LEMMA StoreIs ==
  ASSUME DeepTypes, NEW s \in Syms, NEW days, NEW feed \in Feeds, days \subseteq Sessions,
         BarHistStore(s, days, feed)
  PROVE  /\ hist' \in [Syms -> [Sessions -> Feeds \cup {"none"}]]
         /\ Held(s)' = Held(s) \cup days /\ \A o \in Syms \ {s} : Held(o)' = Held(o)
<1>1. hist' = [hist EXCEPT ![s] = [d \in Sessions |-> IF d \in days THEN feed ELSE hist[s][d]]]
  BY DEF BarHistStore
<1>2. hist' \in [Syms -> [Sessions -> Feeds \cup {"none"}]]
  BY <1>1 DEF DeepTypes
<1>3. \A d \in Sessions : hist'[s][d] = IF d \in days THEN feed ELSE hist[s][d]
  BY <1>1 DEF DeepTypes
<1>4. \A o \in Syms \ {s} : hist'[o] = hist[o]
  BY <1>1 DEF DeepTypes
<1> QED BY <1>2, <1>3, <1>4 DEF Held, Feeds

(* The strengthening says more than the property,                            *)
LEMMA DeepInvHolds == DeepInv => DeepTypeOK /\ HistoryUnbroken
<1> SUFFICES ASSUME DeepInv PROVE DeepTypeOK /\ HistoryUnbroken
  OBVIOUS
<1>1. waiting \in Seq(seen)
  <2>1. \A i \in 1 .. Len(waiting) : waiting[i] \in seen
    BY DEF DeepInv, DeepTypes, Queue
  <2> QED BY <2>1 DEF DeepInv, DeepTypes
<1> QED BY <1>1 DEF DeepInv, DeepTypes, DeepTypeOK, HistoryUnbroken, Whole

(* and holds at the start.                                                   *)
LEMMA DeepInvInit == DeepInit => DeepInv
<1> SUFFICES ASSUME DeepInit PROVE DeepInv
  OBVIOUS
<1>1. waiting = <<>> /\ DOMAIN waiting = {} /\ Queue = {} /\ waiting \in Seq(Syms)
  BY DEF DeepInit, Queue
<1>2. \A s \in Syms : Held(s) = {}
  BY DEF DeepInit, Held
<1>3. session \in 2 .. LastSession /\ session \in Sessions /\ session >= 2
  BY DeepAssumption DEF DeepInit, Sessions
<1>4. hist \in [Syms -> [Sessions -> Feeds \cup {"none"}]]
  BY DEF DeepInit
<1>5. fill = NoFill /\ deaths = 0 /\ deepAt = {} /\ recent = {} /\ submitted = {} /\ seen = {}
      /\ class \in [Syms -> Classes] /\ creds \in BOOLEAN
  BY DEF DeepInit
<1>6. DeepTypes
  BY <1>1, <1>3, <1>4, <1>5, DeepAssumption DEF DeepTypes
<1> QED BY <1>2, <1>5, <1>6 DEF DeepInv, Whole

(* Submitting.                                                               *)
LEMMA SubmitKeeps ==
  ASSUME DeepInv, NEW s \in Syms, Submit(s)
  PROVE  DeepInv'
<1>1. /\ s \notin seen /\ seen' = seen \cup {s} /\ submitted' = submitted \cup {s} /\ Queue' = Queue
      /\ UNCHANGED <<class, creds, session, hist, deepAt, recent, waiting, fill, deaths>>
  BY DEF Submit, Queue
<1>2. Queue \subseteq seen \ submitted
  BY DEF DeepInv, DeepTypes
<1>3. DeepTypes'
  BY <1>1, <1>2 DEF DeepInv, DeepTypes
<1> QED BY <1>1, <1>3 DEF DeepInv, Whole, Held

(* A symbol that enters the queue keeps it,                                  *)
LEMMA PutKeeps ==
  ASSUME DeepInv, NEW s \in Syms, Put(s)
  PROVE  DeepInv'
<1>1. /\ s \in submitted /\ submitted' = submitted \ {s} /\ waiting' = Append(waiting, s)
      /\ UNCHANGED <<class, creds, session, hist, deepAt, recent, seen, fill, deaths>>
  BY DEF Put
<1>2. waiting \in Seq(Syms) /\ Queue \subseteq seen \ submitted /\ submitted \subseteq seen /\ seen \subseteq Syms
  BY DEF DeepInv, DeepTypes
<1>3. /\ waiting' \in Seq(Syms) /\ DOMAIN waiting' = 1 .. Len(waiting) + 1 /\ Len(waiting) \in Nat
      /\ waiting'[Len(waiting) + 1] = s /\ \A i \in 1 .. Len(waiting) : waiting'[i] = waiting[i]
  BY <1>1, <1>2
<1>4. Queue' = Queue \cup {s}
  BY <1>2, <1>3 DEF Queue
<1>5. \A i \in 1 .. Len(waiting) : waiting[i] # s
  BY <1>1, <1>2 DEF Queue
<1>6. \A i, j \in DOMAIN waiting' : waiting'[i] = waiting'[j] => i = j
  BY <1>2, <1>3, <1>5 DEF DeepInv, DeepTypes
<1>7. DeepTypes'
  BY <1>1, <1>2, <1>3, <1>4, <1>6 DEF DeepInv, DeepTypes
<1> QED BY <1>1, <1>7 DEF DeepInv, Whole, Held

(* A symbol is taken from the queue ...                                      *)
LEMMA TakeKeeps ==
  ASSUME DeepInv, Take
  PROVE  DeepInv'
<1> DEFINE q == [sym |-> Head(waiting), at |-> "head", deep |-> NoSeries]
<1>1. /\ fill = NoFill /\ waiting # <<>> /\ fill' = q /\ waiting' = Tail(waiting)
      /\ UNCHANGED <<class, creds, session, hist, deepAt, recent, submitted, seen, deaths>>
  BY DEF Take
<1>2. /\ DOMAIN q = {"sym", "at", "deep"} /\ q.sym = Head(waiting) /\ q.at = "head"
      /\ DOMAIN q.deep = {"asked", "days"} /\ q.deep.days = {}
  BY DEF NoSeries
<1> HIDE DEF q
<1>3. waiting \in Seq(Syms) /\ Queue \subseteq seen \ submitted
  BY DEF DeepInv, DeepTypes
<1>4. /\ waiting' \in Seq(Syms) /\ DOMAIN waiting' = 1 .. Len(waiting) - 1 /\ Len(waiting) \in Nat \ {0}
      /\ Head(waiting) = waiting[1] /\ \A i \in 1 .. Len(waiting) - 1 : waiting'[i] = waiting[i + 1]
      /\ DOMAIN waiting = 1 .. Len(waiting)
  BY <1>1, <1>3
<1>5. Queue' \subseteq Queue \ {q.sym} /\ q.sym \in Queue
  <2>1. ASSUME NEW i \in 1 .. Len(waiting) - 1 PROVE waiting'[i] \in Queue /\ waiting'[i] # waiting[1]
    <3>1. i + 1 \in DOMAIN waiting /\ 1 \in DOMAIN waiting /\ i + 1 # 1
      BY <1>4
    <3>2. \A k, l \in DOMAIN waiting : waiting[k] = waiting[l] => k = l
      BY DEF DeepInv, DeepTypes
    <3>3. waiting[i + 1] # waiting[1]
      BY <3>1, <3>2
    <3>4. waiting[i + 1] \in Queue /\ waiting'[i] = waiting[i + 1]
      BY <3>1, <1>4 DEF Queue
    <3> QED BY <3>3, <3>4
  <2> QED BY <2>1, <1>2, <1>4 DEF Queue
<1>6. \A i, j \in DOMAIN waiting' : waiting'[i] = waiting'[j] => i = j
  <2> SUFFICES ASSUME NEW i \in 1 .. Len(waiting) - 1, NEW j \in 1 .. Len(waiting) - 1, waiting'[i] = waiting'[j]
               PROVE  i = j
    BY <1>4
  <2>1. i + 1 \in DOMAIN waiting /\ j + 1 \in DOMAIN waiting /\ waiting[i + 1] = waiting[j + 1]
    BY <1>4
  <2>2. i + 1 = j + 1
    BY <2>1 DEF DeepInv, DeepTypes
  <2> QED BY <2>2
<1>7. DeepTypes'
  BY <1>1, <1>2, <1>3, <1>4, <1>5, <1>6 DEF DeepInv, DeepTypes
<1> QED BY <1>1, <1>2, <1>7 DEF DeepInv, Whole, Held

(* ... and walked: its fill moves on, and may store.                         *)
LEMMA FillMoves ==
  ASSUME DeepInv, fill # NoFill, NEW f, fill' = f, DOMAIN f = {"sym", "at", "deep"}, f.sym = fill.sym,
         DOMAIN f.deep = {"asked", "days"}, f.deep.days = {} \/ \E t \in 1 .. session : f.deep.days = 1 .. t,
         f.at = "deep" => 1 \in Held(fill.sym)',
         UNCHANGED <<class, creds, session, deepAt, recent, submitted, seen, waiting, deaths>>,
         hist' \in [Syms -> [Sessions -> Feeds \cup {"none"}]],
         \A o \in Syms \ {fill.sym} : Held(o)' = Held(o),
         Held(fill.sym) \subseteq Held(fill.sym)', Whole(Held(fill.sym)')
  PROVE  DeepInv'
<1>1. fill.sym \in Syms /\ Queue' = Queue
  BY DEF DeepInv, DeepTypes, Queue
<1>2. DeepTypes'
  BY <1>1 DEF DeepInv, DeepTypes
<1>3. \A o \in Syms : Whole(Held(o)')
  BY <1>1 DEF DeepInv
<1>4. \A o \in deepAt : 1 \in Held(o)'
  BY <1>1 DEF DeepInv, DeepTypes
<1> QED BY <1>1, <1>2, <1>3, <1>4 DEF DeepInv, Whole

(* an answer with older sessions does,                                       *)
LEMMA FillHeadKeeps ==
  ASSUME DeepInv, FillHead
  PROVE  DeepInv'
<1> DEFINE s == fill.sym
<1>1. /\ fill # NoFill /\ DOMAIN fill = {"sym", "at", "deep"} /\ s \in Syms /\ DOMAIN fill.deep = {"asked", "days"}
      /\ fill.deep.days = {} \/ \E t \in 1 .. session : fill.deep.days = 1 .. t
      /\ UNCHANGED <<class, creds, session, deepAt, recent, submitted, seen, waiting, deaths>>
      /\ Whole(Held(s)) /\ DeepTypes
  BY DEF DeepInv, DeepTypes, FillHead
<1>2. CASE ~HeadWanted(s)
  <2> DEFINE f == [fill EXCEPT !.at = "tail"]
  <2>1. fill' = f /\ hist' = hist
    BY <1>2 DEF FillHead
  <2>2. DOMAIN f = {"sym", "at", "deep"} /\ f.sym = s /\ f.deep = fill.deep /\ f.at = "tail"
    BY <1>1
  <2>3. \A o : Held(o)' = Held(o)
    BY <2>1 DEF Held
  <2> HIDE DEF f
  <2> QED BY <1>1, <2>1, <2>2, <2>3, FillMoves DEF DeepTypes
<1>3. CASE HeadWanted(s)
  <2>1. PICK days \in YahooAnswers :
          /\ BarHistStore(s, {d \in days : Held(s) # {} => d < Oldest(Held(s))}, "yahoo")
          /\ fill' = [fill EXCEPT !.at = IF days # {} THEN "deep" ELSE "tail",
                                  !.deep = [asked |-> TRUE, days |-> days]]
    BY <1>3 DEF FillHead
  <2> DEFINE older == {d \in days : Held(s) # {} => d < Oldest(Held(s))}
             f == [fill EXCEPT !.at = IF days # {} THEN "deep" ELSE "tail",
                               !.deep = [asked |-> TRUE, days |-> days]]
  <2>2. /\ DOMAIN f = {"sym", "at", "deep"} /\ f.sym = s /\ DOMAIN f.deep = {"asked", "days"} /\ f.deep.days = days
        /\ f.at = "deep" => days # {}
    BY <1>1
  <2>3. session \in Nat /\ session >= 2 /\ session <= LastSession /\ LastSession \in Nat
    BY DeepAssumption, <1>1 DEF DeepTypes, Sessions
  <2>4. days = {} \/ \E t \in {session - 1, session} : days = 1 .. t
    BY DEF YahooAnswers
  <2>5. days \subseteq Sessions /\ (days = {} \/ \E t \in 1 .. session : days = 1 .. t)
    BY <2>3, <2>4 DEF Sessions
  <2>6. Whole(Held(s) \cup older) /\ (days # {} => 1 \in Held(s) \cup older)
    <3>1. CASE days = {}
      BY <3>1, <1>1
    <3>2. ASSUME NEW t \in {session - 1, session}, days = 1 .. t PROVE Whole(Held(s) \cup older) /\ 1 \in Held(s) \cup older
      BY <1>1, <3>2, OlderIs
    <3> QED BY <2>4, <3>1, <3>2
  <2>7. older \subseteq Sessions
    BY <2>5
  <2>8. BarHistStore(s, older, "yahoo") /\ fill' = f
    BY <2>1
  <2> HIDE DEF older, f
  <2>9. /\ hist' \in [Syms -> [Sessions -> Feeds \cup {"none"}]]
        /\ Held(s)' = Held(s) \cup older /\ \A o \in Syms \ {s} : Held(o)' = Held(o)
    <3>1. "yahoo" \in Feeds
      BY DEF Feeds
    <3>2. PICK z \in Syms : z = s /\ z = fill.sym'
      BY <1>1, <2>2, <2>8
    <3>3. BarHistStore(z, older, "yahoo")
      BY <2>8, <3>2
    <3>4. Held(z)' = Held(z) \cup older /\ \A o \in Syms \ {z} : Held(o)' = Held(o)
      BY <1>1, <2>7, <3>1, <3>3, StoreIs
    <3>5. hist' \in [Syms -> [Sessions -> Feeds \cup {"none"}]]
      BY <1>1, <2>7, <3>1, <3>3, StoreIs
    <3> QED BY <3>2, <3>4, <3>5 DEF Held
  <2> QED BY <1>1, <2>2, <2>5, <2>6, <2>8, <2>9, FillMoves
<1> QED BY <1>2, <1>3

(* The step that marks what was walked.                                      *)
LEMMA MarksKeep ==
  ASSUME DeepInv, MarkDeep \/ MarkTail
  PROVE  DeepInv'
<1> DEFINE f(to) == [fill EXCEPT !.at = to]
<1>1. /\ fill # NoFill /\ DOMAIN fill = {"sym", "at", "deep"} /\ fill.sym \in Syms
      /\ (MarkDeep => fill.at = "deep" /\ 1 \in Held(fill.sym))
  BY DEF DeepInv, DeepTypes, MarkDeep, MarkTail, Step
<1>2. PICK to \in {"tail", "end"} : fill' = f(to)
  BY DEF MarkDeep, MarkTail, Step
<1>3. DOMAIN f(to) = {"sym", "at", "deep"} /\ f(to).sym = fill.sym /\ f(to).deep = fill.deep /\ f(to).at # "deep"
  BY <1>1
<1>4. /\ UNCHANGED <<class, creds, session, hist, submitted, seen, waiting, deaths>>
      /\ deepAt' = deepAt \/ (deepAt' = deepAt \cup {fill.sym} /\ MarkDeep)
      /\ recent' \subseteq recent \cup {fill.sym} /\ Queue' = Queue /\ \A o : Held(o)' = Held(o)
  BY DEF MarkDeep, MarkTail, Queue, Held
<1> HIDE DEF f
<1>5. DeepTypes'
  BY <1>1, <1>2, <1>3, <1>4 DEF DeepInv, DeepTypes
<1> QED BY <1>1, <1>2, <1>3, <1>4, <1>5 DEF DeepInv, Whole

(* one with newer ones,                                                      *)
LEMMA FillTailKeeps ==
  ASSUME DeepInv, FillTail
  PROVE  DeepInv'
<1> DEFINE s == fill.sym
           H == Held(s)
           want == (TailFrom(s) # {} \/ H = {}) /\ s \notin recent
           from == IF TailFrom(s) # {} THEN Oldest(TailFrom(s)) ELSE Floor
           f(to) == [fill EXCEPT !.at = to]
<1>1. /\ fill # NoFill /\ DOMAIN fill = {"sym", "at", "deep"} /\ s \in Syms /\ DOMAIN fill.deep = {"asked", "days"}
      /\ fill.deep.days = {} \/ \E t \in 1 .. session : fill.deep.days = 1 .. t
      /\ UNCHANGED <<class, creds, session, deepAt, recent, submitted, seen, waiting, deaths>>
      /\ Whole(H) /\ DeepTypes
  BY DEF DeepInv, DeepTypes, FillTail
<1>2. \A to \in {"end", "mark"} :
        DOMAIN f(to) = {"sym", "at", "deep"} /\ f(to).sym = s /\ f(to).deep = fill.deep /\ f(to).at # "deep"
  BY <1>1
<1>3. session \in Nat /\ session >= 2 /\ session <= LastSession /\ LastSession \in Nat /\ H \subseteq 1 .. session
      /\ Floor \in 1 .. LastSession
  BY DeepAssumption, <1>1 DEF DeepTypes, Sessions, Whole
<1>4. CASE ~want
  <2>1. fill' = f("end") /\ hist' = hist
    BY <1>4 DEF FillTail
  <2>2. \A o : Held(o)' = Held(o)
    BY <2>1 DEF Held
  <2> HIDE DEF f, want, from
  <2> QED BY <1>1, <1>2, <2>1, <2>2, FillMoves DEF DeepTypes
<1>5. CASE want
  <2>1. PICK got \in AlpacaAnswers(s, from), days \in DeepSeries(fill.deep) \cup {{}} :
          /\ fill' = f("mark")
          /\ IF got # {} THEN BarHistStore(s, got, "alpaca")
             ELSE BarHistStore(s, {d \in days : H # {} => d > Newest(H)}, "yahoo")
    BY <1>5 DEF FillTail
  <2>2. days = {} \/ \E t \in 1 .. session : days = 1 .. t
    <3>1. days = fill.deep.days \/ days \in YahooAnswers \/ days = {}
      BY DEF DeepSeries
    <3>2. session - 1 \in 1 .. session /\ session \in 1 .. session
      BY <1>3
    <3> QED BY <1>1, <3>1, <3>2 DEF YahooAnswers
  <2>3. got = {} \/ \E t \in 1 .. session : got = from .. t
    <3>1. session - 1 \in 1 .. session /\ session \in 1 .. session
      BY <1>3
    <3> HIDE DEF from
    <3> QED BY <3>1 DEF AlpacaAnswers
  <2>4. H # {} => Newest(H) \in 1 .. session /\ from = Newest(H) + 1
    <3> SUFFICES ASSUME H # {} PROVE Newest(H) \in 1 .. session /\ from = Newest(H) + 1
      OBVIOUS
    <3>1. H \subseteq Sessions
      BY <1>3 DEF Sessions
    <3>2. Newest(H) \in H
      BY <3>1, EndsAre
    <3>3. TailFrom(s) = {Newest(H) + 1}
      BY <1>5 DEF TailFrom
    <3>4. TailFrom(s) \subseteq Sessions
      <4>1. Newest(H) < session
        BY <1>5 DEF TailFrom
      <4> QED BY <4>1, <3>2, <3>3, <1>3 DEF Sessions
    <3>5. Oldest(TailFrom(s)) \in TailFrom(s)
      BY <3>3, <3>4, EndsAre
    <3> QED BY <3>2, <3>3, <3>5, <1>3
  <2>5. from \in 1 .. LastSession + 1
    BY <1>3, <2>4 DEF TailFrom
  <2> DEFINE newer == IF got # {} THEN got ELSE {d \in days : H # {} => d > Newest(H)}
  <2>6. newer = {} \/ \E t \in 1 .. session : newer = from .. t \/ (H = {} /\ newer = 1 .. t)
    <3>1. CASE got # {}
      BY <3>1, <2>3
    <3>2. CASE got = {} /\ H # {}
      <4>1. CASE days = {}
        BY <4>1, <3>2
      <4>2. ASSUME NEW t \in 1 .. session, days = 1 .. t PROVE newer = from .. t
        BY <4>2, <3>2, <2>4, <1>3
      <4> QED BY <4>1, <4>2, <2>2
    <3>3. CASE got = {} /\ H = {}
      BY <3>3, <2>2
    <3> QED BY <3>1, <3>2, <3>3
  <2>7. BarHistStore(s, newer, "alpaca") \/ BarHistStore(s, newer, "yahoo")
    BY <2>1
  <2> HIDE DEF newer, from
  <2>8. newer \subseteq 1 .. session
    BY <2>5, <2>6, <1>3
  <2>9. Whole(H \cup newer)
    <3>1. CASE H = {}
      <4>1. newer = {} \/ \E a \in Nat, t \in 1 .. session : newer = a .. t
        BY <2>5, <2>6, <1>3
      <4> SUFFICES ASSUME NEW a \in newer, NEW b \in newer PROVE a .. b \subseteq newer
        BY <3>1, <2>8 DEF Whole
      <4>2. PICK n \in Nat, t \in 1 .. session : newer = n .. t
        BY <4>1
      <4> QED BY <4>2, <1>3
    <3>2. CASE H # {}
      BY <3>2, <2>4, <2>6, <1>1, NewerIs
    <3> QED BY <3>1, <3>2
  <2>10. newer \subseteq Sessions
    BY <2>8, <1>3 DEF Sessions
  <2>11. /\ hist' \in [Syms -> [Sessions -> Feeds \cup {"none"}]]
         /\ Held(s)' = H \cup newer /\ \A o \in Syms \ {s} : Held(o)' = Held(o)
    <3>1. PICK feed \in Feeds : BarHistStore(s, newer, feed)
      BY <2>7 DEF Feeds
    <3>2. PICK z \in Syms : z = s /\ z = fill.sym'
      BY <1>1, <1>2, <2>1
    <3>3. BarHistStore(z, newer, feed)
      BY <3>1, <3>2
    <3>4. Held(z)' = Held(z) \cup newer /\ \A o \in Syms \ {z} : Held(o)' = Held(o)
      BY <1>1, <2>10, <3>3, StoreIs
    <3>5. hist' \in [Syms -> [Sessions -> Feeds \cup {"none"}]]
      BY <1>1, <2>10, <3>3, StoreIs
    <3> QED BY <3>2, <3>4, <3>5 DEF Held
  <2>12. fill' = f("mark")
    BY <2>1
  <2> HIDE DEF f, want
  <2> QED BY <1>1, <1>2, <2>9, <2>11, <2>12, FillMoves
<1> QED BY <1>4, <1>5

(* A fill ends, or the process does.                                         *)
LEMMA FinishKeeps ==
  ASSUME DeepInv, Finish
  PROVE  DeepInv'
<1>1. /\ fill # NoFill /\ seen' = seen \ {fill.sym} /\ fill' = NoFill /\ Queue' = Queue
      /\ UNCHANGED <<class, creds, session, hist, deepAt, recent, submitted, waiting, deaths>>
  BY DEF Finish, Queue
<1>2. DeepTypes'
  BY <1>1 DEF DeepInv, DeepTypes
<1> QED BY <1>1, <1>2 DEF DeepInv, Whole, Held

(* a session that passes,                                                    *)
LEMMA NextSessionKeeps ==
  ASSUME DeepInv, NextSession
  PROVE  DeepInv'
<1>1. /\ session' = session + 1 /\ session' \in Sessions /\ session' >= 2 /\ session \in Nat /\ Queue' = Queue
      /\ UNCHANGED <<class, creds, hist, deepAt, recent, submitted, seen, waiting, fill, deaths>>
  BY DeepAssumption DEF NextSession, DeepInv, DeepTypes, Sessions, Queue
<1>2. 1 .. session \subseteq 1 .. session'
  BY <1>1
<1>3. DeepTypes'
  BY <1>1, <1>2 DEF DeepInv, DeepTypes
<1>4. \A o \in Syms : Whole(Held(o))'
  BY <1>1, <1>2 DEF DeepInv, Whole, Held
<1> QED BY <1>1, <1>3, <1>4 DEF DeepInv, Held

(* and the end of a cooldown, or a death.                                    *)
LEMMA RestKeeps ==
  ASSUME DeepInv, CooldownEnds \/ Die \/ UNCHANGED deepVars
  PROVE  DeepInv'
<1>1. CASE CooldownEnds
  <2>1. recent' = {} /\ Queue' = Queue
        /\ UNCHANGED <<class, creds, session, hist, deepAt, submitted, seen, waiting, fill, deaths>>
    BY <1>1 DEF CooldownEnds, Queue
  <2>2. DeepTypes'
    BY <2>1 DEF DeepInv, DeepTypes
  <2> QED BY <2>1, <2>2 DEF DeepInv, Whole, Held
<1>2. CASE Die
  <2>1. /\ submitted' = {} /\ seen' = {} /\ waiting' = <<>> /\ fill' = NoFill /\ deaths' \in 0 .. MaxDeaths
        /\ UNCHANGED <<class, creds, session, hist, deepAt, recent>>
    BY <1>2, DeepAssumption DEF Die, DeepInv, DeepTypes
  <2>2. waiting' \in Seq(Syms) /\ DOMAIN waiting' = {} /\ Queue' = {}
    BY <2>1 DEF Queue
  <2>3. DeepTypes'
    BY <2>1, <2>2 DEF DeepInv, DeepTypes
  <2> QED BY <2>1, <2>3 DEF DeepInv, Whole, Held
<1>3. CASE UNCHANGED deepVars
  BY <1>3 DEF deepVars, DeepInv, DeepTypes, Whole, Held, Queue
<1> QED BY <1>1, <1>2, <1>3

(* Every step keeps the invariant.                                           *)
LEMMA DeepInvStep ==
  ASSUME DeepInv, [DeepNext]_deepVars
  PROVE  DeepInv'
BY SubmitKeeps, PutKeeps, TakeKeeps, FillHeadKeeps, MarksKeep, FillTailKeeps, FinishKeeps, NextSessionKeeps, RestKeeps
DEF DeepNext, Work

-----------------------------------------------------------------------------
(* The data jobs *)

(* The store has the rows of a snapshot, or better ones.                     *)
Stored(n) ==
  \A c \in taken[n].cs :
    opt[taken[n].d][c].snap = n \/ opt[taken[n].d][c].src \in {"upload", "onclickmedia"}
(* The last snapshot of a day, and the jobs that run.                        *)
LastOfDay(n) == InHours(n) /\ \A m \in n + 1 .. Len(taken) : InHours(m) => taken[m].d # taken[n].d
(* A sync that is under way.                                                 *)
Running(y) == syncJob[y].state = "running"

(* What the parts of the jobs are.                                           *)
JobTypes ==
  /\ date \in Dates /\ taken \in Seq([d : Dates, hours : BOOLEAN, cs : Chains]) /\ Len(taken) <= MaxSnapshots
  /\ chainLast \in 0 .. Len(taken)
  /\ opt = [d \in Dates |-> [c \in Contracts |-> opt[d][c]]]
  /\ \A d \in Dates, c \in Contracts : opt[d][c].src \in {"none", "recorded", "upload", "onclickmedia"}
  /\ importJob.state \in {"idle", "running", "writing", "done", "refused", "error"} /\ importJob.left \subseteq Dates
  /\ {"state", "left"} \subseteq DOMAIN importJob /\ (importJob.state # "idle" => importJob.file \in Files)
  /\ pullJob \in [state : {"idle", "running", "done", "stopped", "error"}, left : SUBSET Dates]
  /\ syncJob \in [Syncers -> [state : {"idle", "running", "done", "error"}, left : SUBSET (1 .. MaxSnapshots)]]
  /\ \A y \in Syncers : syncJob[y].left \subseteq 1 .. Len(taken)
  /\ pullStop \subseteq {"asked", "set"} /\ jobs \in 0 .. MaxJobs

(* Snapshots come in the order of their days.                                *)
TakenInOrder ==
  /\ \A n \in 1 .. Len(taken) : taken[n].d <= date /\ (InHours(n) => taken[n].d \notin Weekend)
  /\ \A m, n \in 1 .. Len(taken) : m < n => taken[m].d <= taken[n].d

(* What an import has yet to write is all that is missing.                   *)
ImportSound ==
  /\ importJob.state = "writing" => importJob.left \cap Weekend = {}
  /\ importJob.state = "done" => importJob.left = {}
  /\ importJob.state \in {"writing", "done"} =>
       \A i \in DOMAIN importJob.file.rows :
         LET row == importJob.file.rows[i] IN row.d \in importJob.left \/ opt[row.d][row.c] # NoRow

(* What a sync has left is newer than all it need not write; and a snapshot  *)
(* taken since it began is of the day it began on.                           *)
SyncSound(y) ==
  \A n \in syncJob[y].left :
    /\ InHours(n)
    /\ \A k \in 1 .. n - 1 : LastOfDay(k) /\ k \notin syncJob[y].left => Stored(k)
    /\ \A k \in n + 1 .. Len(taken) : InHours(k) /\ taken[k].d = taken[n].d => taken[k].d = date

(* The strengthening: a sync under way has stored what it has passed.        *)
JobsInv ==
  /\ JobTypes /\ TakenInOrder /\ ImportSound /\ CalendarIsSessions /\ pullJob.left \cap Weekend = {}
  /\ \A y \in Syncers : Running(y) => SyncSound(y)
  /\ \A n \in 1 .. chainLast : LastOfDay(n) => Stored(n)

(* It says more than the properties,                                         *)
LEMMA JobsInvHolds == JobsInv => JobsTypeOK /\ DoneMeansWhole /\ CalendarIsSessions /\ SyncedMeansStored
<1> SUFFICES ASSUME JobsInv PROVE JobsTypeOK /\ DoneMeansWhole /\ CalendarIsSessions /\ SyncedMeansStored
  OBVIOUS
<1>1. JobsTypeOK
  BY DEF JobsInv, JobTypes, JobsTypeOK
<1>2. DoneMeansWhole
  BY DEF JobsInv, ImportSound, DoneMeansWhole
<1>3. SyncedMeansStored
  BY DEF JobsInv, SyncedMeansStored, LastOfDay, Stored
<1> QED BY <1>1, <1>2, <1>3 DEF JobsInv

(* and holds at the start.                                                   *)
LEMMA JobsInvInit == JobsInit => JobsInv
<1> SUFFICES ASSUME JobsInit PROVE JobsInv
  OBVIOUS
<1>1. /\ date \in Dates /\ taken = <<>> /\ chainLast = 0 /\ jobs = 0 /\ pullStop = {}
      /\ importJob.state = "idle" /\ importJob.left = {} /\ DOMAIN importJob = {"state", "left"}
      /\ pullJob = NoPull /\ syncJob = [y \in Syncers |-> NoSync]
  BY DEF JobsInit, NoImport
<1>2. opt = [d \in Dates |-> [c \in Contracts |-> NoRow]]
  BY DEF JobsInit
<1>3. opt = [d \in Dates |-> [c \in Contracts |-> opt[d][c]]] /\ \A d \in Dates, c \in Contracts : opt[d][c] = NoRow
  BY <1>2
<1>4. pullJob \in [state : {"idle", "running", "done", "stopped", "error"}, left : SUBSET Dates] /\ pullJob.left = {}
  BY <1>1 DEF NoPull
<1>5. /\ syncJob \in [Syncers -> [state : {"idle", "running", "done", "error"}, left : SUBSET (1 .. MaxSnapshots)]]
      /\ \A y \in Syncers : syncJob[y].left = {} /\ syncJob[y].state = "idle"
  BY <1>1 DEF NoSync
<1>6. NoRow.src = "none"
  BY DEF NoRow
<1>7. JobTypes
  BY <1>1, <1>3, <1>4, <1>5, <1>6, JobsAssumption DEF JobTypes
<1>8. CalendarIsSessions
  BY <1>3, JobsAssumption DEF CalendarIsSessions
<1>9. TakenInOrder /\ ImportSound
  BY <1>1 DEF TakenInOrder, ImportSound
<1> QED BY <1>1, <1>4, <1>5, <1>7, <1>8, <1>9 DEF JobsInv, Running

(* Writing a day.                                                            *)
LEMMA WriteIs ==
  ASSUME JobTypes, NEW d \in Dates, NEW quotes, NEW src \in {"recorded", "upload", "onclickmedia"}, NEW snap,
         WriteDay(d, quotes, src, snap)
  PROVE  /\ opt' = [e \in Dates |-> [c \in Contracts |-> opt'[e][c]]]
         /\ \A e \in Dates, c \in Contracts : opt'[e][c].src \in {"none", "recorded", "upload", "onclickmedia"}
         /\ \A e \in Dates, c \in Contracts : e # d \/ c \notin DOMAIN quotes => opt'[e][c] = opt[e][c]
         /\ \A c \in Contracts : c \in DOMAIN quotes => opt'[d][c].src = src /\ opt'[d][c].snap = snap
<1> DEFINE row(c) == [src |-> src, snap |-> snap, bid |-> quotes[c]]
<1>1. \A c : row(c).src = src /\ row(c).snap = snap
  OBVIOUS
<1>2. opt' = [opt EXCEPT ![d] = [c \in Contracts |-> IF c \in DOMAIN quotes THEN row(c) ELSE opt[d][c]]]
  BY DEF WriteDay
<1> HIDE DEF row
<1>3. opt = [e \in Dates |-> [c \in Contracts |-> opt[e][c]]]
  BY DEF JobTypes
<1>4. opt' = [e \in Dates |-> IF e = d THEN [c \in Contracts |-> IF c \in DOMAIN quotes THEN row(c) ELSE opt[d][c]]
                              ELSE [c \in Contracts |-> opt[e][c]]]
  BY <1>2, <1>3
<1>5. \A e \in Dates, c \in Contracts : opt'[e][c] = IF e = d /\ c \in DOMAIN quotes THEN row(c) ELSE opt[e][c]
  BY <1>4
<1>6. opt' = [e \in Dates |-> [c \in Contracts |-> opt'[e][c]]]
  BY <1>4
<1>7. \A e \in Dates, c \in Contracts : opt[e][c].src \in {"none", "recorded", "upload", "onclickmedia"}
  BY DEF JobTypes
<1> QED BY <1>1, <1>5, <1>6, <1>7

(* It makes no session of a weekend, and takes no row away.                  *)
LEMMA WriteKeeps ==
  ASSUME JobTypes, CalendarIsSessions, NEW d \in Dates, d \notin Weekend, NEW quotes,
         NEW src \in {"recorded", "upload", "onclickmedia"}, NEW snap, WriteDay(d, quotes, src, snap)
  PROVE  /\ CalendarIsSessions' /\ \A e \in Dates, c \in Contracts : opt[e][c] # NoRow => opt'[e][c] # NoRow
<1>1. /\ \A e \in Dates, c \in Contracts : e # d \/ c \notin DOMAIN quotes => opt'[e][c] = opt[e][c]
      /\ \A c \in Contracts : c \in DOMAIN quotes => opt'[d][c].src = src
  <2>1. JobTypes /\ WriteDay(d, quotes, src, snap) /\ src \in {"recorded", "upload", "onclickmedia"}
    OBVIOUS
  <2> QED BY <2>1, d \in Dates, WriteIs
<1>2. NoRow.src # src
  BY DEF NoRow
<1>3. \A c \in Contracts : c \in DOMAIN quotes => opt'[d][c] # NoRow
  BY <1>1, <1>2
<1> QED BY <1>1, <1>3, JobsAssumption DEF CalendarIsSessions

(* What is written from a file or from the broker is better than a snapshot. *)
LEMMA BetterStored ==
  ASSUME JobTypes, NEW d \in Dates, NEW quotes, NEW src \in {"upload", "onclickmedia"}, NEW snap,
         WriteDay(d, quotes, src, snap), taken' = taken, NEW n \in 1 .. Len(taken), Stored(n)
  PROVE  Stored(n)'
<1> DEFINE S == [d : Dates, hours : BOOLEAN, cs : Chains]
<1>0. taken \in Seq(S)
  BY DEF JobTypes
<1>1. taken[n] \in S
  <2> HIDE DEF S
  <2> QED BY <1>0
<1>2. taken[n].cs \subseteq Contracts /\ taken[n].d \in Dates
  BY <1>1, JobsAssumption
<1>3. /\ \A e \in Dates, c \in Contracts : e # d \/ c \notin DOMAIN quotes => opt'[e][c] = opt[e][c]
      /\ \A c \in Contracts : c \in DOMAIN quotes => opt'[d][c].src = src
  <2>1. src \in {"recorded", "upload", "onclickmedia"}
    OBVIOUS
  <2> QED BY <2>1, WriteIs
<1> QED BY <1>2, <1>3 DEF Stored

(* The rest of the invariant, where neither snapshots nor syncs move.        *)
LEMMA SyncsStand ==
  ASSUME JobsInv, UNCHANGED <<date, taken, chainLast, syncJob>>,
         \A n \in 1 .. Len(taken) : Stored(n) => Stored(n)'
  PROVE  /\ TakenInOrder' /\ (\A y \in Syncers : Running(y) => SyncSound(y))'
         /\ (\A n \in 1 .. chainLast : LastOfDay(n) => Stored(n))'
<1>1. TakenInOrder'
  BY DEF JobsInv, TakenInOrder, InHours
<1>2. \A n : LastOfDay(n)' = LastOfDay(n)
  BY DEF LastOfDay, InHours
<1>3. chainLast \in 0 .. Len(taken) /\ Len(taken) \in Nat
  BY DEF JobsInv, JobTypes
<1>4. \A n \in 1 .. chainLast : LastOfDay(n)' => Stored(n)'
  BY <1>2, <1>3 DEF JobsInv
<1>5. ASSUME NEW y \in Syncers, Running(y)' PROVE SyncSound(y)'
  <2>1. SyncSound(y) /\ syncJob[y].left \subseteq 1 .. Len(taken)
    BY <1>5 DEF JobsInv, JobTypes, Running
  <2>2. ASSUME NEW n \in syncJob[y].left, NEW k \in 1 .. n - 1, LastOfDay(k)', k \notin syncJob[y].left PROVE Stored(k)'
    <3>1. k \in 1 .. Len(taken)
      BY <2>1, <2>2, <1>3
    <3>2. Stored(k)
      BY <2>1, <2>2, <1>2 DEF SyncSound
    <3> QED BY <3>1, <3>2
  <2> QED BY <2>1, <2>2 DEF SyncSound, InHours
<1>6. \A y \in Syncers : Running(y)' => SyncSound(y)'
  BY <1>5
<1> QED BY <1>1, <1>4, <1>6

(* An import loses none of the rows it has written.                          *)
LEMMA ImportStands ==
  ASSUME JobsInv, importJob' = importJob,
         \A e \in Dates, c \in Contracts : opt[e][c] # NoRow => opt'[e][c] # NoRow
  PROVE  ImportSound'
<1>1. CASE importJob.state \in {"writing", "done"}
  <2>1. importJob.file \in Files /\ importJob'.file = importJob.file /\ importJob'.left = importJob.left
    BY <1>1 DEF JobsInv, JobTypes
  <2>2. \A i \in DOMAIN importJob.file.rows : importJob.file.rows[i].d \in Dates /\ importJob.file.rows[i].c \in Contracts
    BY <2>1, JobsAssumption
  <2>3. \A i \in DOMAIN importJob.file.rows :
          importJob.file.rows[i].d \in importJob.left \/ opt[importJob.file.rows[i].d][importJob.file.rows[i].c] # NoRow
    BY <1>1 DEF JobsInv, ImportSound
  <2>4. \A i \in DOMAIN importJob.file.rows :
          importJob.file.rows[i].d \in importJob.left \/ opt'[importJob.file.rows[i].d][importJob.file.rows[i].c] # NoRow
    BY <2>2, <2>3
  <2>5. (importJob.state = "writing" => importJob.left \cap Weekend = {}) /\ (importJob.state = "done" => importJob.left = {})
    BY DEF JobsInv, ImportSound
  <2> QED BY <2>4, <2>5 DEF ImportSound
<1>2. CASE importJob.state \notin {"writing", "done"}
  BY <1>2 DEF ImportSound
<1> QED BY <1>1, <1>2

(* Importing a file.                                                         *)
LEMMA StartImportKeeps ==
  ASSUME JobsInv, NEW file \in Files, StartImport(file)
  PROVE  JobsInv'
<1> DEFINE job == [state |-> "running", file |-> file, left |-> {}]
<1>1. job.state = "running" /\ job.file = file /\ job.left = {} /\ DOMAIN job = {"state", "file", "left"}
  OBVIOUS
<1>2. /\ importJob' = job /\ jobs < MaxJobs /\ jobs' = jobs + 1
      /\ UNCHANGED <<date, taken, opt, chainLast, pullJob, syncJob, pullStop>>
  BY DEF StartImport
<1> HIDE DEF job
<1>3. JobTypes'
  BY <1>1, <1>2, JobsAssumption DEF JobsInv, JobTypes
<1>4. ImportSound'
  BY <1>1, <1>2 DEF ImportSound
<1>5. \A n : Stored(n)' = Stored(n)
  BY <1>2 DEF Stored
<1>6. /\ TakenInOrder' /\ (\A y \in Syncers : Running(y) => SyncSound(y))'
      /\ (\A n \in 1 .. chainLast : LastOfDay(n) => Stored(n))'
  BY <1>2, <1>5, SyncsStand
<1> QED BY <1>2, <1>3, <1>4, <1>6 DEF JobsInv, CalendarIsSessions

(* The job moves on, and nothing else.                                       *)
LEMMA ImportMoves ==
  ASSUME JobsInv, UNCHANGED <<date, taken, opt, chainLast, pullJob, syncJob, pullStop, jobs>>,
         JobTypes', ImportSound'
  PROVE  JobsInv'
<1>1. \A n : Stored(n)' = Stored(n)
  BY DEF Stored
<1>2. /\ TakenInOrder' /\ (\A y \in Syncers : Running(y) => SyncSound(y))'
      /\ (\A n \in 1 .. chainLast : LastOfDay(n) => Stored(n))'
  BY <1>1, SyncsStand
<1> QED BY <1>2 DEF JobsInv, CalendarIsSessions

(* A file that is read keeps it,                                             *)
LEMMA ReadFileKeeps ==
  ASSUME JobsInv, ReadFile
  PROVE  JobsInv'
<1> DEFINE writing == [importJob EXCEPT !.state = "writing", !.left = DatesOf(importJob.file.rows)]
           refused == [importJob EXCEPT !.state = "refused"]
<1>1. /\ importJob.state = "running" /\ importJob.file \in Files /\ {"state", "left"} \subseteq DOMAIN importJob
      /\ importJob.left \subseteq Dates
  BY DEF ReadFile, JobsInv, JobTypes
<1>2. /\ writing.state = "writing" /\ writing.left = DatesOf(importJob.file.rows) /\ writing.file = importJob.file
      /\ refused.state = "refused" /\ refused.left = importJob.left /\ refused.file = importJob.file
      /\ DOMAIN writing = DOMAIN importJob /\ DOMAIN refused = DOMAIN importJob
  BY <1>1
<1>3. /\ IF Parses(importJob.file) /\ ~Refuses(importJob.file.rows) THEN importJob' = writing ELSE importJob' = refused
      /\ UNCHANGED <<date, taken, opt, chainLast, pullJob, syncJob, pullStop, jobs>>
  BY DEF ReadFile
<1> HIDE DEF writing, refused
<1>4. CASE Parses(importJob.file) /\ ~Refuses(importJob.file.rows)
  <2>1. DatesOf(importJob.file.rows) \subseteq Dates
    BY <1>1, JobsAssumption DEF DatesOf
  <2>2. DatesOf(importJob.file.rows) \cap Weekend = {}
    BY <1>4 DEF DatesOf, Refuses
  <2>3. JobTypes'
    BY <1>1, <1>2, <1>3, <1>4, <2>1 DEF JobsInv, JobTypes
  <2>4. ImportSound'
    BY <1>2, <1>3, <1>4, <2>2 DEF ImportSound, DatesOf
  <2> QED BY <1>3, <2>3, <2>4, ImportMoves
<1>5. CASE ~(Parses(importJob.file) /\ ~Refuses(importJob.file.rows))
  <2>1. JobTypes'
    BY <1>1, <1>2, <1>3, <1>5 DEF JobsInv, JobTypes
  <2>2. ImportSound'
    BY <1>2, <1>3, <1>5 DEF ImportSound
  <2> QED BY <1>3, <2>1, <2>2, ImportMoves
<1> QED BY <1>4, <1>5

(* an import that fails does,                                                *)
LEMMA ImportFailsKeeps ==
  ASSUME JobsInv, ImportFails
  PROVE  JobsInv'
<1> DEFINE failed == [importJob EXCEPT !.state = "error"]
<1>1. /\ importJob.state \in {"running", "writing"} /\ importJob.file \in Files
      /\ {"state", "left"} \subseteq DOMAIN importJob /\ importJob.left \subseteq Dates
  BY DEF ImportFails, JobsInv, JobTypes
<1>2. /\ failed.state = "error" /\ failed.left = importJob.left /\ failed.file = importJob.file
      /\ DOMAIN failed = DOMAIN importJob
  BY <1>1
<1>3. importJob' = failed /\ UNCHANGED <<date, taken, opt, chainLast, pullJob, syncJob, pullStop, jobs>>
  BY DEF ImportFails
<1> HIDE DEF failed
<1>4. JobTypes' /\ ImportSound'
  BY <1>1, <1>2, <1>3 DEF JobsInv, JobTypes, ImportSound
<1> QED BY <1>3, <1>4, ImportMoves

(* and a day that is imported.                                               *)
LEMMA ImportDayKeeps ==
  ASSUME JobsInv, ImportDay
  PROVE  JobsInv'
<1> DEFINE rows == importJob.file.rows
<1>1. /\ importJob.state = "writing" /\ importJob.left # {} /\ importJob.file \in Files
      /\ {"state", "left"} \subseteq DOMAIN importJob /\ importJob.left \subseteq Dates
      /\ importJob.left \cap Weekend = {}
      /\ \A i \in DOMAIN rows : rows[i].d \in importJob.left \/ opt[rows[i].d][rows[i].c] # NoRow
      /\ \A i \in DOMAIN rows : rows[i].d \in Dates /\ rows[i].c \in Contracts
  BY JobsAssumption DEF ImportDay, JobsInv, JobTypes, ImportSound
<1>2. Min1(importJob.left) \in importJob.left
  <2>1. importJob.left \subseteq Nat
    BY <1>1, JobsAssumption DEF Dates
  <2>2. \E n \in importJob.left : \A m \in importJob.left : n <= m
    BY <2>1, <1>1, Least
  <2> QED BY <2>2 DEF Min1
<1>3. PICK d \in Dates : d \notin Weekend /\ d = Min1(importJob.left)
  BY <1>1, <1>2
<1>4. PICK quotes : quotes = QuotesOf(rows, d)
  OBVIOUS
<1> DEFINE wrote == [importJob EXCEPT !.left = importJob.left \ {d},
                                      !.state = IF importJob.left = {d} THEN "done" ELSE importJob.state]
<1>5. /\ WriteDay(d, quotes, "upload", 0) /\ importJob' = wrote
      /\ UNCHANGED <<date, taken, chainLast, pullJob, syncJob, pullStop, jobs>>
  BY <1>3, <1>4 DEF ImportDay
<1>6. /\ wrote.left = importJob.left \ {d} /\ wrote.file = importJob.file /\ DOMAIN wrote = DOMAIN importJob
      /\ wrote.state = IF importJob.left = {d} THEN "done" ELSE "writing"
  BY <1>1
<1> HIDE DEF wrote, rows
<1>7. /\ opt' = [e \in Dates |-> [c \in Contracts |-> opt'[e][c]]]
      /\ \A e \in Dates, c \in Contracts : opt'[e][c].src \in {"none", "recorded", "upload", "onclickmedia"}
      /\ \A c \in Contracts : c \in DOMAIN quotes => opt'[d][c].src = "upload"
  BY <1>5, WriteIs DEF JobsInv
<1>8. CalendarIsSessions' /\ \A e \in Dates, c \in Contracts : opt[e][c] # NoRow => opt'[e][c] # NoRow
  BY <1>3, <1>5, WriteKeeps DEF JobsInv
<1>9. JobTypes'
  BY <1>1, <1>5, <1>6, <1>7 DEF JobsInv, JobTypes
<1>10. ImportSound'
  <2>1. NoRow.src = "none"
    BY DEF NoRow
  <2>2. \A i \in DOMAIN rows : rows[i].d = d => rows[i].c \in DOMAIN quotes
    BY <1>4 DEF QuotesOf
  <2>3. \A i \in DOMAIN rows : rows[i].d = d => opt'[rows[i].d][rows[i].c] # NoRow
    BY <1>1, <1>7, <2>1, <2>2 DEF rows
  <2>4. \A i \in DOMAIN rows : rows[i].d \in wrote.left \/ opt'[rows[i].d][rows[i].c] # NoRow
    BY <1>1, <1>6, <1>8, <2>3 DEF rows
  <2> QED BY <1>1, <1>5, <1>6, <2>4 DEF ImportSound, rows
<1>11. \A n \in 1 .. Len(taken) : Stored(n) => Stored(n)'
  BY <1>5, BetterStored DEF JobsInv
<1>12. /\ TakenInOrder' /\ (\A y \in Syncers : Running(y) => SyncSound(y))'
       /\ (\A n \in 1 .. chainLast : LastOfDay(n) => Stored(n))'
  BY <1>5, <1>11, SyncsStand
<1> QED BY <1>5, <1>8, <1>9, <1>10, <1>12 DEF JobsInv

(* Pulling from the broker's archive.                                        *)
LEMMA StartPullKeeps ==
  ASSUME JobsInv, NEW a \in Dates, NEW b \in Dates, StartPull(a, b)
  PROVE  JobsInv'
<1>1. /\ jobs < MaxJobs /\ pullStop' = pullStop \ {"set"} /\ jobs' = jobs + 1
      /\ pullJob' = [state |-> "running", left |-> PullDays(a, b)]
      /\ UNCHANGED <<date, taken, opt, chainLast, importJob, syncJob>>
  BY DEF StartPull
<1>2. PullDays(a, b) \subseteq Dates /\ PullDays(a, b) \cap Weekend = {}
  BY JobsAssumption DEF PullDays, Dates
<1>3. pullJob' \in [state : {"idle", "running", "done", "stopped", "error"}, left : SUBSET Dates]
      /\ pullJob'.left \cap Weekend = {}
  BY <1>1, <1>2
<1>4. JobTypes'
  BY <1>1, <1>3, JobsAssumption DEF JobsInv, JobTypes
<1>5. \A n : Stored(n)' = Stored(n)
  BY <1>1 DEF Stored
<1>6. /\ TakenInOrder' /\ (\A y \in Syncers : Running(y) => SyncSound(y))'
      /\ (\A n \in 1 .. chainLast : LastOfDay(n) => Stored(n))'
  BY <1>1, <1>5, SyncsStand
<1> QED BY <1>1, <1>3, <1>4, <1>6 DEF JobsInv, CalendarIsSessions, ImportSound

(* A pull that is stopped or ends keeps it,                                  *)
LEMMA PullMoves ==
  ASSUME JobsInv, StopPull \/ PullEnds
  PROVE  JobsInv'
<1>1. /\ pullStop' \subseteq {"asked", "set"} /\ UNCHANGED <<date, taken, opt, chainLast, importJob, syncJob, jobs>>
      /\ pullJob' \in [state : {"idle", "running", "done", "stopped", "error"}, left : SUBSET Dates]
      /\ pullJob'.left = pullJob.left
  BY DEF StopPull, PullEnds, JobsInv, JobTypes
<1>2. JobTypes'
  BY <1>1 DEF JobsInv, JobTypes
<1>3. \A n : Stored(n)' = Stored(n)
  BY <1>1 DEF Stored
<1>4. /\ TakenInOrder' /\ (\A y \in Syncers : Running(y) => SyncSound(y))'
      /\ (\A n \in 1 .. chainLast : LastOfDay(n) => Stored(n))'
  BY <1>1, <1>3, SyncsStand
<1> QED BY <1>1, <1>2, <1>4 DEF JobsInv, CalendarIsSessions, ImportSound

(* and so does a day of one.                                                 *)
LEMMA PullDayKeeps ==
  ASSUME JobsInv, PullDay
  PROVE  JobsInv'
<1>1. /\ pullJob \in [state : {"idle", "running", "done", "stopped", "error"}, left : SUBSET Dates]
      /\ pullJob.left # {} /\ pullJob.left \cap Weekend = {}
      /\ UNCHANGED <<date, taken, chainLast, importJob, syncJob, pullStop, jobs>>
  BY DEF PullDay, JobsInv, JobTypes
<1>2. Min1(pullJob.left) \in pullJob.left
  <2>1. pullJob.left \subseteq Nat
    BY <1>1, JobsAssumption DEF Dates
  <2>2. \E n \in pullJob.left : \A m \in pullJob.left : n <= m
    BY <2>1, <1>1, Least
  <2> QED BY <2>2 DEF Min1
<1>3. PICK d \in Dates : d \notin Weekend /\ d = Min1(pullJob.left)
  BY <1>1, <1>2
<1>4. PICK quotes : opt' = opt \/ WriteDay(d, quotes, "onclickmedia", 0)
  BY <1>3 DEF PullDay
<1>5. pullJob' \in [state : {"idle", "running", "done", "stopped", "error"}, left : SUBSET Dates]
      /\ pullJob'.left \cap Weekend = {}
  BY <1>1, <1>3 DEF PullDay
<1>6. JobTypes' /\ CalendarIsSessions' /\ (\A e \in Dates, c \in Contracts : opt[e][c] # NoRow => opt'[e][c] # NoRow)
      /\ \A n \in 1 .. Len(taken) : Stored(n) => Stored(n)'
  <2>1. CASE opt' = opt
    <3>1. JobTypes'
      BY <1>1, <1>5, <2>1 DEF JobsInv, JobTypes
    <3>2. \A n : Stored(n)' = Stored(n)
      BY <1>1, <2>1 DEF Stored
    <3> QED BY <2>1, <3>1, <3>2 DEF JobsInv, CalendarIsSessions
  <2>2. CASE WriteDay(d, quotes, "onclickmedia", 0)
    <3>1. /\ opt' = [e \in Dates |-> [c \in Contracts |-> opt'[e][c]]]
          /\ \A e \in Dates, c \in Contracts : opt'[e][c].src \in {"none", "recorded", "upload", "onclickmedia"}
      BY <2>2, WriteIs DEF JobsInv
    <3>2. CalendarIsSessions' /\ \A e \in Dates, c \in Contracts : opt[e][c] # NoRow => opt'[e][c] # NoRow
      BY <1>3, <2>2, WriteKeeps DEF JobsInv
    <3>3. \A n \in 1 .. Len(taken) : Stored(n) => Stored(n)'
      BY <1>1, <2>2, BetterStored DEF JobsInv
    <3>4. JobTypes'
      BY <1>1, <1>5, <3>1 DEF JobsInv, JobTypes
    <3> QED BY <3>2, <3>3, <3>4
  <2> QED BY <1>4, <2>1, <2>2
<1>7. ImportSound'
  BY <1>1, <1>6, ImportStands
<1>8. /\ TakenInOrder' /\ (\A y \in Syncers : Running(y) => SyncSound(y))'
      /\ (\A n \in 1 .. chainLast : LastOfDay(n) => Stored(n))'
  BY <1>1, <1>6, SyncsStand
<1> QED BY <1>5, <1>6, <1>7, <1>8 DEF JobsInv

(* A snapshot.                                                               *)
LEMMA RecordKeeps ==
  ASSUME JobsInv, NEW hours \in BOOLEAN, NEW cs \in Chains, Record(hours, cs)
  PROVE  JobsInv'
<1> DEFINE snap == [d |-> date, hours |-> hours, cs |-> cs]
           S == [d : Dates, hours : BOOLEAN, cs : Chains]
           N == Len(taken)
<1>1. /\ N < MaxSnapshots /\ (hours => date \notin Weekend) /\ taken' = Append(taken, snap)
      /\ UNCHANGED <<date, opt, chainLast, importJob, pullJob, syncJob, pullStop, jobs>>
  BY DEF Record
<1>2. snap \in S /\ snap.d = date /\ snap.hours = hours /\ snap.cs = cs
  BY DEF JobsInv, JobTypes
<1>3. taken \in Seq(S)
  BY DEF JobsInv, JobTypes
<1> HIDE DEF snap, S
<1>4. /\ taken' \in Seq(S) /\ N \in Nat /\ Len(taken') = N + 1 /\ taken'[N + 1] = snap
      /\ \A n \in 1 .. N : taken'[n] = taken[n]
  BY <1>1, <1>2, <1>3
<1>5. JobTypes'
  BY <1>1, <1>4, JobsAssumption DEF JobsInv, JobTypes, S
<1>6. /\ \A n \in 1 .. N : taken[n].d <= date /\ (taken[n].hours => taken[n].d \notin Weekend) /\ taken[n].d \in Nat
      /\ \A m, n \in 1 .. N : m < n => taken[m].d <= taken[n].d
      /\ date \in Nat
  <2>1. \A n \in 1 .. N : taken[n] \in S
    BY <1>3
  <2>2. \A n \in 1 .. N : taken[n].d \in Nat
    BY <2>1 DEF S, Dates
  <2> QED BY <2>2 DEF JobsInv, JobTypes, TakenInOrder, InHours, Dates
<1>7. TakenInOrder'
  <2>1. \A n \in 1 .. N + 1 : taken'[n].d <= date /\ (taken'[n].hours => taken'[n].d \notin Weekend)
    BY <1>1, <1>2, <1>4, <1>6
  <2>2. \A m, n \in 1 .. N + 1 : m < n => taken'[m].d <= taken'[n].d
    <3> SUFFICES ASSUME NEW m \in 1 .. N + 1, NEW n \in 1 .. N + 1, m < n PROVE taken'[m].d <= taken'[n].d
      OBVIOUS
    <3>1. m \in 1 .. N
      BY <1>4
    <3>2. CASE n \in 1 .. N
      BY <3>1, <3>2, <1>4, <1>6
    <3>3. CASE n = N + 1
      BY <3>1, <3>3, <1>2, <1>4, <1>6
    <3> QED BY <3>2, <3>3, <1>4
  <2> QED BY <1>1, <1>4, <2>1, <2>2 DEF TakenInOrder, InHours
<1>8. \A n \in 1 .. N : Stored(n)' = Stored(n)
  BY <1>1, <1>4 DEF Stored
<1>9. \A n \in 1 .. N : LastOfDay(n)' => LastOfDay(n)
  <2> SUFFICES ASSUME NEW n \in 1 .. N, LastOfDay(n)' PROVE LastOfDay(n)
    OBVIOUS
  <2>1. \A m \in n + 1 .. N : m \in n + 1 .. Len(taken') /\ m \in 1 .. N
    BY <1>4
  <2> QED BY <1>4, <2>1 DEF LastOfDay, InHours
<1>10. chainLast \in 0 .. N
  BY DEF JobsInv, JobTypes
<1>11. \A n \in 1 .. chainLast : LastOfDay(n)' => Stored(n)'
  BY <1>4, <1>8, <1>9, <1>10 DEF JobsInv
<1>12. ASSUME NEW y \in Syncers, Running(y)' PROVE SyncSound(y)'
  <2>1. SyncSound(y) /\ syncJob[y].left \subseteq 1 .. N
    BY <1>1, <1>12 DEF JobsInv, JobTypes, Running
  <2>2. ASSUME NEW n \in syncJob[y].left, NEW k \in 1 .. n - 1, LastOfDay(k)', k \notin syncJob[y].left PROVE Stored(k)'
    <3>1. k \in 1 .. N
      BY <2>1, <2>2, <1>4
    <3> QED BY <3>1, <2>1, <2>2, <1>8, <1>9 DEF SyncSound
  <2>3. ASSUME NEW n \in syncJob[y].left, NEW k \in n + 1 .. N + 1, taken'[k].hours, taken'[k].d = taken'[n].d
        PROVE  taken'[k].d = date
    <3>1. CASE k = N + 1
      BY <3>1, <1>2, <1>4
    <3>2. CASE k \in n + 1 .. N
      <4>1. k \in 1 .. N /\ n \in 1 .. N
        BY <2>1, <3>2, <1>4
      <4> QED BY <4>1, <3>2, <2>1, <2>3, <1>4 DEF SyncSound, InHours
    <3> QED BY <3>1, <3>2, <2>1, <1>4
  <2>4. \A n \in syncJob[y].left : InHours(n)'
    BY <2>1, <1>4 DEF SyncSound, InHours
  <2> QED BY <1>1, <1>4, <2>2, <2>3, <2>4 DEF SyncSound, InHours
<1>13. \A y \in Syncers : Running(y)' => SyncSound(y)'
  BY <1>12
<1> QED BY <1>1, <1>5, <1>7, <1>11, <1>13 DEF JobsInv, CalendarIsSessions, ImportSound

(* A sync begins with the last snapshot of each day it has not seen.         *)
LEMMA StartSyncKeeps ==
  ASSUME JobsInv, NEW y \in Syncers, StartSync(y)
  PROVE  JobsInv'
<1> DEFINE job == [state |-> "running", left |-> NewSnapshots]
<1>1. /\ jobs < MaxJobs /\ jobs' = jobs + 1 /\ syncJob' = [syncJob EXCEPT ![y] = job]
      /\ UNCHANGED <<date, taken, opt, chainLast, importJob, pullJob, pullStop>>
  BY DEF StartSync
<1>2. chainLast \in 0 .. Len(taken) /\ Len(taken) \in Nat /\ Len(taken) <= MaxSnapshots /\ MaxSnapshots \in Nat
  BY JobsAssumption DEF JobsInv, JobTypes
<1>3. NewSnapshots \subseteq 1 .. Len(taken)
  BY <1>2 DEF NewSnapshots
<1>4. job \in [state : {"idle", "running", "done", "error"}, left : SUBSET (1 .. MaxSnapshots)]
      /\ job.left = NewSnapshots
  BY <1>2, <1>3
<1> HIDE DEF job
<1>5. /\ syncJob' \in [Syncers -> [state : {"idle", "running", "done", "error"}, left : SUBSET (1 .. MaxSnapshots)]]
      /\ \A z \in Syncers : IF z = y THEN syncJob'[z] = job ELSE syncJob'[z] = syncJob[z]
  BY <1>1, <1>4 DEF JobsInv, JobTypes
<1>6. JobTypes'
  BY <1>1, <1>3, <1>4, <1>5, JobsAssumption DEF JobsInv, JobTypes
<1>7. (\A n : Stored(n)' = Stored(n)) /\ (\A n : LastOfDay(n)' = LastOfDay(n)) /\ \A n : InHours(n)' = InHours(n)
  BY <1>1 DEF Stored, LastOfDay, InHours
<1>8. SyncSound(y)'
  <2>1. \A n \in NewSnapshots : InHours(n) /\ n \in chainLast + 1 .. Len(taken)
                                /\ \A m \in chainLast + 1 .. Len(taken) : InHours(m) /\ taken[m].d = taken[n].d => m <= n
    BY DEF NewSnapshots
  <2>2. ASSUME NEW n \in NewSnapshots, NEW k \in 1 .. n - 1, LastOfDay(k), k \notin NewSnapshots PROVE Stored(k)
    <3>1. CASE k <= chainLast
      BY <3>1, <2>1, <2>2, <1>2 DEF JobsInv
    <3>2. CASE ~(k <= chainLast)
      <4>1. k \in chainLast + 1 .. Len(taken) /\ InHours(k)
        BY <3>2, <2>1, <2>2, <1>2 DEF LastOfDay
      <4>2. \A m \in chainLast + 1 .. Len(taken) : InHours(m) /\ taken[m].d = taken[k].d => m <= k
        <5> SUFFICES ASSUME NEW m \in chainLast + 1 .. Len(taken), InHours(m), taken[m].d = taken[k].d, ~(m <= k)
                     PROVE  FALSE
          OBVIOUS
        <5>1. m \in k + 1 .. Len(taken)
          BY <4>1, <1>2
        <5> QED BY <5>1, <2>2 DEF LastOfDay
      <4> QED BY <4>1, <4>2, <2>2 DEF NewSnapshots
    <3> QED BY <3>1, <3>2
  <2>3. ASSUME NEW n \in NewSnapshots, NEW k \in n + 1 .. Len(taken), InHours(k), taken[k].d = taken[n].d PROVE FALSE
    <3>1. k \in chainLast + 1 .. Len(taken) /\ ~(k <= n)
      BY <2>1, <1>2
    <3> QED BY <3>1, <2>1, <2>3
  <2> QED BY <1>1, <1>4, <1>5, <1>7, <2>1, <2>2, <2>3 DEF SyncSound
<1>9. ASSUME NEW z \in Syncers, z # y, Running(z)' PROVE SyncSound(z)'
  BY <1>1, <1>5, <1>7, <1>9 DEF JobsInv, Running, SyncSound
<1>10. \A z \in Syncers : Running(z)' => SyncSound(z)'
  BY <1>8, <1>9
<1>11. \A n \in 1 .. chainLast' : LastOfDay(n)' => Stored(n)'
  BY <1>1, <1>7 DEF JobsInv
<1>12. TakenInOrder'
  BY <1>1, <1>7 DEF JobsInv, TakenInOrder
<1> QED BY <1>1, <1>6, <1>10, <1>11, <1>12 DEF JobsInv, CalendarIsSessions, ImportSound

(* A day of it is written: no snapshot that is the last of its day is hurt   *)
(* by an older one.                                                          *)
LEMMA SyncDayKeeps ==
  ASSUME JobsInv, NEW y \in Syncers, SyncDay(y)
  PROVE  JobsInv'
<1>1. /\ Running(y) /\ syncJob[y].left # {} /\ SyncSound(y) /\ syncJob[y].left \subseteq 1 .. Len(taken)
      /\ UNCHANGED <<date, taken, importJob, pullJob, pullStop, jobs>>
      /\ chainLast \in 0 .. Len(taken) /\ Len(taken) \in Nat
  BY DEF SyncDay, JobsInv, JobTypes, Running
<1>2. Min1(syncJob[y].left) \in syncJob[y].left /\ \A m \in syncJob[y].left : Min1(syncJob[y].left) <= m
  <2>1. syncJob[y].left \subseteq Nat
    BY <1>1
  <2>2. \E n \in syncJob[y].left : \A m \in syncJob[y].left : n <= m
    BY <2>1, <1>1, Least
  <2> QED BY <2>2 DEF Min1
<1>3. PICK n \in 1 .. Len(taken) : n = Min1(syncJob[y].left)
  BY <1>1, <1>2
<1>4. PICK d, quotes : d = taken[n].d /\ quotes = [c \in taken[n].cs |-> <<>>]
  OBVIOUS
<1>5. \A k \in 1 .. Len(taken) : taken[k].d \in Dates /\ taken[k].cs \subseteq Contracts
  <2> DEFINE S == [d : Dates, hours : BOOLEAN, cs : Chains]
  <2>1. taken \in Seq(S)
    BY DEF JobsInv, JobTypes
  <2>2. \A k \in 1 .. Len(taken) : taken[k] \in S
    <3> HIDE DEF S
    <3> QED BY <2>1
  <2> QED BY <2>2, JobsAssumption
<1>6. d \in Dates /\ d \notin Weekend /\ DOMAIN quotes = taken[n].cs /\ n \in syncJob[y].left /\ InHours(n)
  BY <1>1, <1>2, <1>3, <1>4, <1>5 DEF JobsInv, TakenInOrder, SyncSound
<1>7. /\ WriteDay(d, quotes, "recorded", n) /\ chainLast' = n
      /\ syncJob' = [syncJob EXCEPT ![y].left = syncJob[y].left \ {n}]
  BY <1>3, <1>4 DEF SyncDay
<1>8. /\ syncJob' \in [Syncers -> [state : {"idle", "running", "done", "error"}, left : SUBSET (1 .. MaxSnapshots)]]
      /\ \A z \in Syncers : syncJob'[z].state = syncJob[z].state
      /\ \A z \in Syncers : syncJob'[z].left = IF z = y THEN syncJob[z].left \ {n} ELSE syncJob[z].left
  BY <1>7 DEF JobsInv, JobTypes
<1>9. /\ opt' = [e \in Dates |-> [c \in Contracts |-> opt'[e][c]]]
      /\ \A e \in Dates, c \in Contracts : opt'[e][c].src \in {"none", "recorded", "upload", "onclickmedia"}
      /\ \A e \in Dates, c \in Contracts : e # d \/ c \notin DOMAIN quotes => opt'[e][c] = opt[e][c]
      /\ \A c \in Contracts : c \in DOMAIN quotes => opt'[d][c].src = "recorded" /\ opt'[d][c].snap = n
  BY <1>6, <1>7, WriteIs DEF JobsInv
<1>10. CalendarIsSessions' /\ \A e \in Dates, c \in Contracts : opt[e][c] # NoRow => opt'[e][c] # NoRow
  BY <1>6, <1>7, WriteKeeps DEF JobsInv
<1>11. JobTypes'
  <2>1. \A z \in Syncers : syncJob'[z].left \subseteq 1 .. Len(taken')
    BY <1>1, <1>8 DEF JobsInv, JobTypes
  <2> QED BY <1>1, <1>7, <1>8, <1>9, <2>1 DEF JobsInv, JobTypes
<1>12. ImportSound'
  BY <1>1, <1>10, ImportStands
<1>13. (\A k : LastOfDay(k)' = LastOfDay(k)) /\ (\A k : InHours(k)' = InHours(k)) /\ TakenInOrder'
  BY <1>1 DEF LastOfDay, InHours, JobsInv, TakenInOrder
<1>14. Stored(n)'
  BY <1>1, <1>4, <1>5, <1>6, <1>9 DEF Stored
<1>15. \A k \in 1 .. Len(taken) : taken[k].d # d /\ Stored(k) => Stored(k)'
  BY <1>1, <1>5, <1>9 DEF Stored
<1>16. \A k \in 1 .. Len(taken) : LastOfDay(k) /\ taken[k].d = d => n <= k
  <2> SUFFICES ASSUME NEW k \in 1 .. Len(taken), LastOfDay(k), taken[k].d = d, ~(n <= k) PROVE FALSE
    OBVIOUS
  <2>1. n \in k + 1 .. Len(taken)
    BY <1>1
  <2> QED BY <2>1, <1>4, <1>6 DEF LastOfDay
<1>17. \A k \in 1 .. chainLast' : LastOfDay(k)' => Stored(k)'
  <2> SUFFICES ASSUME NEW k \in 1 .. n, LastOfDay(k), k # n PROVE Stored(k)'
    BY <1>7, <1>13, <1>14
  <2>1. k \in 1 .. n - 1 /\ k \in 1 .. Len(taken) /\ ~(n <= k)
    BY <1>1
  <2>2. k \notin syncJob[y].left
    BY <1>2, <1>3, <2>1
  <2>3. Stored(k)
    BY <1>1, <1>6, <2>1, <2>2 DEF SyncSound
  <2> QED BY <1>15, <1>16, <2>1, <2>3
<1>18. ASSUME NEW z \in Syncers, Running(z)' PROVE SyncSound(z)'
  <2>1. Running(z) /\ SyncSound(z) /\ syncJob[z].left \subseteq 1 .. Len(taken) /\ syncJob'[z].left \subseteq syncJob[z].left
    BY <1>8, <1>18 DEF JobsInv, JobTypes, Running
  <2>2. ASSUME NEW m \in syncJob'[z].left, NEW k \in 1 .. m - 1, LastOfDay(k), k \notin syncJob'[z].left PROVE Stored(k)'
    <3>1. m \in 1 .. Len(taken) /\ k \in 1 .. Len(taken) /\ m \in k + 1 .. Len(taken) /\ InHours(m)
      BY <1>1, <2>1 DEF SyncSound
    <3>2. CASE k = n
      BY <3>2, <1>14
    <3>3. CASE k # n
      <4>1. k \notin syncJob[z].left
        BY <3>3, <2>2, <1>8
      <4>2. Stored(k)
        BY <4>1, <2>1, <2>2 DEF SyncSound
      <4>3. ASSUME taken[k].d = d PROVE FALSE
        <5>1. n <= k /\ k \in n + 1 .. Len(taken)
          BY <1>16, <4>3, <3>1, <3>3, <2>2, <1>1
        <5>2. taken[k].d = date
          BY <5>1, <4>3, <1>1, <1>4, <1>6, <2>2 DEF SyncSound, LastOfDay
        <5>3. taken[m].d <= date /\ taken[k].d <= taken[m].d
          <6>1. k < m
            BY <3>1, <1>1
          <6> QED BY <3>1, <6>1 DEF JobsInv, TakenInOrder
        <5>4. taken[m].d = taken[k].d
          BY <5>2, <5>3, <3>1, <1>5 DEF Dates
        <5> QED BY <5>4, <3>1, <2>2 DEF LastOfDay
      <4> QED BY <4>2, <4>3, <1>15, <3>1
    <3> QED BY <3>2, <3>3
  <2>3. \A m \in syncJob'[z].left : InHours(m) /\ \A k \in m + 1 .. Len(taken) :
          InHours(k) /\ taken[k].d = taken[m].d => taken[k].d = date
    BY <2>1 DEF SyncSound
  <2> QED BY <1>1, <1>13, <2>2, <2>3 DEF SyncSound
<1>19. \A z \in Syncers : Running(z)' => SyncSound(z)'
  BY <1>18
<1> QED BY <1>1, <1>10, <1>11, <1>12, <1>13, <1>17, <1>19 DEF JobsInv

(* A sync ends, a day does, or the process.                                  *)
LEMMA JobsRest ==
  ASSUME JobsInv, (\E y \in Syncers : SyncEnds(y)) \/ NextDate \/ Killed \/ UNCHANGED jobsVars
  PROVE  JobsInv'
<1>1. UNCHANGED <<taken, opt, chainLast, jobs>>
  BY DEF SyncEnds, NextDate, Killed, jobsVars
<1>2. (\A n : Stored(n)' = Stored(n)) /\ (\A n : LastOfDay(n)' = LastOfDay(n)) /\ \A n : InHours(n)' = InHours(n)
  BY <1>1 DEF Stored, LastOfDay, InHours
<1>3. date' \in Dates /\ date <= date'
  BY JobsAssumption DEF SyncEnds, NextDate, Killed, jobsVars, JobsInv, JobTypes, Dates
<1>4. \A y \in Syncers : Running(y)' => Running(y) /\ syncJob'[y] = syncJob[y] /\ date' = date
  BY DEF SyncEnds, NextDate, Killed, jobsVars, Running, JobsInv, JobTypes, NoSync
<1>5. \A y \in Syncers : Running(y)' => SyncSound(y)'
  BY <1>1, <1>2, <1>4 DEF JobsInv, SyncSound
<1>6. /\ syncJob' \in [Syncers -> [state : {"idle", "running", "done", "error"}, left : SUBSET (1 .. MaxSnapshots)]]
      /\ \A y \in Syncers : syncJob'[y].left \subseteq 1 .. Len(taken)
  <2> DEFINE T == [Syncers -> [state : {"idle", "running", "done", "error"}, left : SUBSET (1 .. MaxSnapshots)]]
  <2>1. syncJob \in T /\ \A y \in Syncers : syncJob[y].left \subseteq 1 .. Len(taken)
    BY DEF JobsInv, JobTypes
  <2>2. CASE UNCHANGED syncJob
    BY <2>1, <2>2
  <2>3. CASE syncJob' = [y \in Syncers |-> NoSync]
    BY <2>3 DEF NoSync
  <2>4. ASSUME NEW z \in Syncers, SyncEnds(z) PROVE syncJob' \in T /\ \A y \in Syncers : syncJob'[y].left = syncJob[y].left
    BY <2>1, <2>4 DEF SyncEnds
  <2> QED BY <2>1, <2>2, <2>3, <2>4 DEF NextDate, Killed, jobsVars
<1>7. /\ UNCHANGED <<importJob, pullJob, pullStop>> \/ (importJob' = NoImport /\ pullJob' = NoPull /\ pullStop' = {})
  BY DEF SyncEnds, NextDate, Killed, jobsVars
<1>8. /\ NoImport.state = "idle" /\ NoImport.left = {} /\ DOMAIN NoImport = {"state", "left"} /\ NoPull.left = {}
      /\ NoPull \in [state : {"idle", "running", "done", "stopped", "error"}, left : SUBSET Dates]
  BY DEF NoImport, NoPull
<1>9. JobTypes' /\ ImportSound' /\ pullJob'.left \cap Weekend = {}
  <2>1. CASE UNCHANGED <<importJob, pullJob, pullStop>>
    <3>1. JobTypes'
      BY <1>1, <1>3, <1>6, <2>1 DEF JobsInv, JobTypes
    <3>2. ImportSound'
      BY <1>1, <2>1, ImportStands
    <3> QED BY <2>1, <3>1, <3>2 DEF JobsInv
  <2>2. CASE importJob' = NoImport /\ pullJob' = NoPull /\ pullStop' = {}
    <3>1. JobTypes
      BY DEF JobsInv
    <3>2. /\ importJob'.state \in {"idle", "running", "writing", "done", "refused", "error"}
          /\ importJob'.left \subseteq Dates /\ {"state", "left"} \subseteq DOMAIN importJob'
          /\ importJob'.state = "idle"
      BY ONLY <1>8, <2>2
    <3>3. pullJob' \in [state : {"idle", "running", "done", "stopped", "error"}, left : SUBSET Dates] /\ pullJob'.left = {}
      BY ONLY <1>8, <2>2
    <3>4. pullStop' \subseteq {"asked", "set"}
      BY ONLY <2>2
    <3>5. JobTypes'
      BY ONLY <1>1, <1>3, <1>6, <3>1, <3>2, <3>3, <3>4 DEF JobTypes
    <3>6. ImportSound'
      BY ONLY <3>2 DEF ImportSound
    <3> QED BY ONLY <3>3, <3>5, <3>6
  <2> QED BY <1>7, <2>1, <2>2
<1>10. TakenInOrder'
  <2>1. \A n \in 1 .. Len(taken) : taken[n].d \in Nat
    <3> DEFINE S == [d : Dates, hours : BOOLEAN, cs : Chains]
    <3>1. taken \in Seq(S)
      BY DEF JobsInv, JobTypes
    <3>2. \A n \in 1 .. Len(taken) : taken[n] \in S
      <4> HIDE DEF S
      <4> QED BY <3>1
    <3> QED BY <3>2 DEF Dates
  <2>2. \A n \in 1 .. Len(taken) : taken[n].d <= date'
    BY <2>1, <1>3 DEF JobsInv, JobTypes, TakenInOrder, Dates
  <2> QED BY <1>1, <1>2, <2>2 DEF JobsInv, TakenInOrder
<1>11. \A n \in 1 .. chainLast' : LastOfDay(n)' => Stored(n)'
  BY <1>1, <1>2 DEF JobsInv
<1> QED BY <1>1, <1>5, <1>9, <1>10, <1>11 DEF JobsInv, CalendarIsSessions

(* Every step keeps the invariant.                                           *)
LEMMA JobsInvStep ==
  ASSUME JobsInv, [JobsNext]_jobsVars
  PROVE  JobsInv'
BY StartImportKeeps, StartPullKeeps, RecordKeeps, StartSyncKeeps, PullMoves, ReadFileKeeps, ImportDayKeeps,
   ImportFailsKeeps, PullDayKeeps, SyncDayKeeps, JobsRest
DEF JobsNext, Import, Pull, Sync

-----------------------------------------------------------------------------
(* The rounds of the recorder *)

(* What a round holds at each of its steps.                                  *)
RoundShape ==
  /\ round.at \in {"next", "ask", "chain"} => DOMAIN round = {"at", "left", "elapsed"}
  /\ round.at = "mark" => DOMAIN round = {"at", "left", "elapsed", "chain"}
  /\ round.at \in {"quotes", "write"} => DOMAIN round = {"at", "left", "elapsed", "chain", "mark", "wanted", "answered"}
  /\ round.at = "finish" =>
       \/ DOMAIN round = {"at", "left", "elapsed", "status"}
       \/ DOMAIN round = {"at", "left", "elapsed", "status", "rows", "chain", "mark", "answered"}

(* The jobs it has read are those of the table, or their ids have heirs.     *)
ReadsTable ==
  \A job \in round.left :
    /\ job.id \in 1 .. MaxJobId /\ job.want \in Wants
    /\ job.id \in DOMAIN table => table[job.id].want = job.want \/ table[job.id].heir

(* What it has asked for, and what it has landed.                            *)
RoundGoesWell ==
  /\ round.at \in {"next", "ask", "chain", "mark", "quotes", "write", "finish"} /\ RoundShape
  /\ round.elapsed \in 0 .. Never /\ (round.at # "next" => round.left # {})
  /\ round.at \in {"chain", "mark", "quotes", "write"} => JobNow.want = "futures"
  /\ round.at \in {"quotes", "write"} => round.wanted = SelectFutureContracts(round.chain, round.mark)
  /\ round.at = "write" => round.wanted \subseteq round.answered
  /\ round.at = "finish" => round.status \in {"ok", "failed"} /\ (round.status = "ok" => JobNow.want \in landed)
  /\ "rows" \in DOMAIN round =>
       round.rows = SelectFutureContracts(round.chain, round.mark) /\ round.rows \subseteq round.answered

(* What a row of the table of recording jobs is.                             *)
RowTyped(i, row) ==
  /\ DOMAIN row = {"id", "want", "on", "age", "status", "heir"}
  /\ row.id = i /\ row.want \in Wants /\ row.on \in BOOLEAN /\ row.age \in 0 .. Never /\ row.heir \in BOOLEAN
  /\ row.status \in {"never ran", "ok", "failed"} /\ row = [f \in DOMAIN row |-> row[f]]

(* What the table is.                                                        *)
TableTyped ==
  /\ DOMAIN table \subseteq 1 .. MaxJobId /\ table = [i \in DOMAIN table |-> table[i]]
  /\ \A i \in DOMAIN table : RowTyped(i, table[i])

(* The strengthening: what a round holds agrees with the table it was read from. *)
RoundInv ==
  /\ TableTyped /\ landed \subseteq Wants /\ jobEdits \in 0 .. MaxJobEdits /\ cuts \in 0 .. MaxCuts
  /\ StatusIsEarned /\ (round # Rest => ReadsTable /\ RoundGoesWell)

(* A typed row is one of the records of its type,                            *)
LEMMA RowFits ==
  ASSUME NEW i, NEW row, RowTyped(i, row)
  PROVE  row \in [id : {i}, want : Wants, on : BOOLEAN, age : 0 .. Never, heir : BOOLEAN,
                  status : {"never ran", "ok", "failed"}]
BY DEF RowTyped

(* and a new one is typed and never ran.                                     *)
LEMMA RowMade ==
  ASSUME NEW i, NEW want \in Wants, NEW heir \in BOOLEAN
  PROVE  RowTyped(i, NewRow(i, want, heir)) /\ NewRow(i, want, heir).status = "never ran"
         /\ NewRow(i, want, heir).want = want /\ NewRow(i, want, heir).heir = heir
<1>1. Never \in 0 .. Never
  BY RoundsAssumption DEF Never
<1> QED BY <1>1 DEF RowTyped, NewRow

(* A row in which something changes.                                         *)
LEMMA RowChanges ==
  ASSUME NEW i, NEW row, RowTyped(i, row), NEW on \in BOOLEAN, NEW age \in 0 .. Never,
         NEW status \in {"never ran", "ok", "failed"}
  PROVE  /\ RowTyped(i, [row EXCEPT !.on = on]) /\ RowTyped(i, [row EXCEPT !.age = age])
         /\ RowTyped(i, [row EXCEPT !.age = age, !.status = status])
<1>1. /\ DOMAIN row = {"id", "want", "on", "age", "status", "heir"} /\ row = [f \in DOMAIN row |-> row[f]]
      /\ row.id = i /\ row.want \in Wants /\ row.on \in BOOLEAN /\ row.age \in 0 .. Never /\ row.heir \in BOOLEAN
      /\ row.status \in {"never ran", "ok", "failed"}
  BY DEF RowTyped
<1>2. RowTyped(i, [row EXCEPT !.on = on])
  <2> DEFINE r == [row EXCEPT !.on = on]
  <2>1. /\ DOMAIN r = DOMAIN row /\ r.on = on /\ \A f \in DOMAIN row : f # "on" => r[f] = row[f]
        /\ r = [f \in DOMAIN r |-> r[f]]
    BY <1>1
  <2>2. r.id = row.id /\ r.want = row.want /\ r.age = row.age /\ r.status = row.status /\ r.heir = row.heir
    BY <1>1, <2>1
  <2> HIDE DEF r
  <2> QED BY <1>1, <2>1, <2>2 DEF RowTyped
<1>3. RowTyped(i, [row EXCEPT !.age = age])
  <2> DEFINE r == [row EXCEPT !.age = age]
  <2>1. /\ DOMAIN r = DOMAIN row /\ r.age = age /\ \A f \in DOMAIN row : f # "age" => r[f] = row[f]
        /\ r = [f \in DOMAIN r |-> r[f]]
    BY <1>1
  <2>2. r.id = row.id /\ r.want = row.want /\ r.on = row.on /\ r.status = row.status /\ r.heir = row.heir
    BY <1>1, <2>1
  <2> HIDE DEF r
  <2> QED BY <1>1, <2>1, <2>2 DEF RowTyped
<1>4. RowTyped(i, [row EXCEPT !.age = age, !.status = status])
  <2> DEFINE r == [row EXCEPT !.age = age, !.status = status]
  <2>1. /\ DOMAIN r = DOMAIN row /\ r.age = age /\ r.status = status
        /\ \A f \in DOMAIN row : f \notin {"age", "status"} => r[f] = row[f]
        /\ r = [f \in DOMAIN r |-> r[f]]
    BY <1>1
  <2>2. r.id = row.id /\ r.want = row.want /\ r.on = row.on /\ r.heir = row.heir
    BY <1>1, <2>1
  <2> HIDE DEF r
  <2> QED BY <1>1, <2>1, <2>2 DEF RowTyped
<1> QED BY <1>2, <1>3, <1>4

(* A round at rest has nothing in hand.                                      *)
LEMMA RestIs == Rest.at = "rest" /\ DOMAIN Rest = {"at"}
BY DEF Rest

(* Whose turn it is.                                                         *)
LEMMA JobNowIs ==
  ASSUME ReadsTable, round.left # {}
  PROVE  JobNow \in round.left
<1> DEFINE ids == {job.id : job \in round.left}
<1>1. ids \subseteq Nat /\ ids # {}
  BY RoundsAssumption DEF ReadsTable
<1>2. PICK n \in ids : \A m \in ids : n <= m
  <2> HIDE DEF ids
  <2> QED BY <1>1, Least
<1>3. \E job \in round.left : \A other \in round.left : job.id <= other.id
  BY <1>2
<1> QED BY <1>3 DEF JobNow

(* The strengthening says more than the properties,                          *)
LEMMA RoundInvHolds == RoundInv => RoundsTypeOK /\ StatusIsEarned /\ SnapshotIsFeeds
<1> SUFFICES ASSUME RoundInv PROVE RoundsTypeOK /\ SnapshotIsFeeds
  BY DEF RoundInv
<1>1. RoundsTypeOK
  <2>1. \A i \in DOMAIN table : table[i] \in
          [id : {i}, want : Wants, on : BOOLEAN, age : 0 .. Never, heir : BOOLEAN, status : {"never ran", "ok", "failed"}]
    BY RowFits DEF RoundInv, TableTyped
  <2>2. round.at \in {"rest", "next", "ask", "chain", "mark", "quotes", "write", "finish"}
    BY RestIs DEF RoundInv, RoundGoesWell
  <2> QED BY <2>1, <2>2 DEF RoundInv, TableTyped, RoundsTypeOK
<1>2. SnapshotIsFeeds
  <2> SUFFICES ASSUME "rows" \in DOMAIN round PROVE SnapshotIsFeeds
    BY DEF SnapshotIsFeeds
  <2>1. round.rows = SelectFutureContracts(round.chain, round.mark) /\ round.rows \subseteq round.answered
    BY RestIs DEF RoundInv, RoundGoesWell
  <2> DEFINE any == {PriceOf(q) : q \in FuturePrices}
  <2>2. ASSUME NEW mark \in IF round.mark = Unknown THEN any ELSE {round.mark}, NEW c \in round.chain,
               c.dte \in 0 .. FUTURE_CHAIN_NEAR_DTE, c.strike # Unknown,
               100 * Abs(c.strike - mark) <= BandPercent * mark
        PROVE  c \in round.rows
    <3>1. c.dte # Unknown /\ c.dte <= FUTURE_CHAIN_MAX_DTE /\ ~(c.dte > FUTURE_CHAIN_NEAR_DTE)
      BY <2>2, RoundsAssumption DEF Unknown
    <3>2. NearMark(c.strike, round.mark)
      <4>1. CASE round.mark = Unknown
        BY <4>1 DEF NearMark, Unknown
      <4>2. CASE round.mark # Unknown
        <5>1. mark = round.mark
          BY <4>2, <2>2
        <5> QED BY <5>1, <2>2 DEF NearMark
      <4> QED BY <4>1, <4>2
    <3> QED BY <2>1, <2>2, <3>1, <3>2 DEF SelectFutureContracts
  <2> QED BY <2>1, <2>2 DEF SnapshotIsFeeds
<1> QED BY <1>1, <1>2

(* and holds at the start.                                                   *)
LEMMA RoundInvInit == RoundsInit => RoundInv
<1> SUFFICES ASSUME RoundsInit PROVE RoundInv
  OBVIOUS
<1>1. round = Rest /\ landed = {} /\ jobEdits = 0 /\ cuts = 0
  BY DEF RoundsInit
<1>2. CASE table = <<>>
  BY <1>1, <1>2, RoundsAssumption DEF RoundInv, TableTyped, StatusIsEarned
<1>3. CASE table = [i \in DOMAIN FirstJobs |-> NewRow(i, FirstJobs[i], FALSE)]
  <2>1. DOMAIN table = DOMAIN FirstJobs /\ DOMAIN FirstJobs \subseteq 1 .. MaxJobId
        /\ \A i \in DOMAIN FirstJobs : FirstJobs[i] \in Wants
    BY <1>3, RoundsAssumption
  <2>2. \A i \in DOMAIN table : table[i] = NewRow(i, FirstJobs[i], FALSE)
    BY <1>3
  <2>3. \A i \in DOMAIN table : RowTyped(i, table[i]) /\ table[i].status = "never ran"
    <3> SUFFICES ASSUME NEW i \in DOMAIN table PROVE RowTyped(i, table[i]) /\ table[i].status = "never ran"
      OBVIOUS
    <3>1. FirstJobs[i] \in Wants /\ FALSE \in BOOLEAN
      BY <2>1
    <3>2. RowTyped(i, NewRow(i, FirstJobs[i], FALSE)) /\ NewRow(i, FirstJobs[i], FALSE).status = "never ran"
      BY <3>1, RowMade, Zenon
    <3> QED BY <2>2, <3>2
  <2>4. table = [i \in DOMAIN table |-> table[i]]
    BY <1>3
  <2>5. TableTyped /\ StatusIsEarned
    BY <2>1, <2>3, <2>4 DEF TableTyped, StatusIsEarned
  <2> QED BY <1>1, <2>5, RoundsAssumption DEF RoundInv
<1> QED BY <1>2, <1>3 DEF RoundsInit

(* The round moves on over a table that stands.                              *)
LEMMA RoundMoves ==
  ASSUME RoundInv, UNCHANGED <<table, jobEdits, cuts>>, landed \subseteq landed', landed' \subseteq Wants,
         round' # Rest => RoundGoesWell', round' # Rest => ReadsTable'
  PROVE  RoundInv'
<1>1. StatusIsEarned'
  BY DEF RoundInv, StatusIsEarned
<1> QED BY <1>1 DEF RoundInv, TableTyped

(* A round that begins keeps it,                                             *)
LEMMA BeginRoundKeeps ==
  ASSUME RoundInv, BeginRound
  PROVE  RoundInv'
<1> DEFINE r == [at |-> "next", left |-> JobsRead, elapsed |-> 0]
<1>1. round' = r /\ UNCHANGED <<table, landed, jobEdits, cuts>>
  BY DEF BeginRound
<1>2. r.at = "next" /\ r.left = JobsRead /\ r.elapsed = 0 /\ DOMAIN r = {"at", "left", "elapsed"}
  OBVIOUS
<1> HIDE DEF r
<1>3. \A job \in JobsRead : job.id \in DOMAIN table /\ job.want = table[job.id].want
  BY DEF JobsRead
<1>4. ReadsTable'
  <2>1. \A i \in DOMAIN table : i \in 1 .. MaxJobId /\ table[i].want \in Wants
    BY DEF RoundInv, TableTyped, RowTyped
  <2>2. \A job \in r.left : job.id \in 1 .. MaxJobId /\ job.want \in Wants /\ table[job.id].want = job.want
    BY <1>2, <1>3, <2>1
  <2> QED BY <1>1, <2>2 DEF ReadsTable
<1>5. RoundGoesWell'
  BY <1>1, <1>2, RoundsAssumption DEF RoundGoesWell, RoundShape, Never
<1> QED BY <1>1, <1>4, <1>5, RoundMoves DEF RoundInv

(* The steps of a job.                                                       *)
LEMMA EndedKeeps ==
  ASSUME RoundInv, round # Rest, round.left # {}, NEW status \in {"ok", "failed"}, Ended(status),
         UNCHANGED <<table, jobEdits, cuts>>, landed \subseteq landed', landed' \subseteq Wants,
         status = "ok" => JobNow.want \in landed'
  PROVE  RoundInv'
<1> DEFINE r == [at |-> "finish", left |-> round.left, elapsed |-> round.elapsed, status |-> status]
<1>1. round' = r
  BY DEF Ended
<1>2. /\ r.at = "finish" /\ r.left = round.left /\ r.elapsed = round.elapsed /\ r.status = status
      /\ DOMAIN r = {"at", "left", "elapsed", "status"}
  OBVIOUS
<1> HIDE DEF r
<1>3. JobNow' = JobNow
  BY <1>1, <1>2 DEF JobNow
<1>4. RoundGoesWell'
  BY <1>1, <1>2, <1>3 DEF RoundGoesWell, RoundShape, RoundInv
<1>5. ReadsTable'
  BY <1>1, <1>2 DEF ReadsTable, RoundInv
<1> QED BY <1>4, <1>5, RoundMoves

(* one that goes on does,                                                    *)
LEMMA ProceedsKeeps ==
  ASSUME RoundInv, round # Rest, round.left # {}, NEW at, Proceeds(at),
         \/ round.at = "next" /\ (at = "ask" \/ (at = "chain" /\ JobNow.want = "futures"))
         \/ round.at = "quotes" /\ at = "write" /\ round.wanted \subseteq round.answered,
         UNCHANGED <<table, landed, jobEdits, cuts>>
  PROVE  RoundInv'
<1> DEFINE r == [round EXCEPT !.at = at]
<1>1. round' = r /\ RoundGoesWell /\ RoundShape /\ ReadsTable
  BY DEF Proceeds, RoundInv, RoundGoesWell
<1>2. /\ r.at = at /\ r.left = round.left /\ r.elapsed = round.elapsed /\ DOMAIN r = DOMAIN round
      /\ at = "write" => r.wanted = round.wanted /\ r.answered = round.answered /\ r.chain = round.chain /\ r.mark = round.mark
  BY <1>1 DEF RoundShape
<1> HIDE DEF r
<1>3. JobNow' = JobNow
  BY <1>1, <1>2 DEF JobNow
<1>4. RoundShape' /\ "rows" \notin DOMAIN r
  BY <1>1, <1>2 DEF RoundShape
<1>5. RoundGoesWell'
  BY <1>1, <1>2, <1>3, <1>4 DEF RoundGoesWell
<1>6. ReadsTable'
  BY <1>1, <1>2 DEF ReadsTable
<1> QED BY <1>5, <1>6, RoundMoves DEF RoundInv

(* one that takes the next job,                                              *)
LEMMA NextJobKeeps ==
  ASSUME RoundInv, NextJob
  PROVE  RoundInv'
<1>1. round.at = "next" /\ round # Rest /\ RoundGoesWell /\ RoundShape /\ ReadsTable /\ UNCHANGED <<table, landed, jobEdits, cuts>>
      /\ landed \subseteq Wants
  BY RestIs DEF NextJob, RoundInv, RoundGoesWell
<1>2. CASE round' = Rest
  BY <1>1, <1>2, RoundMoves
<1>3. CASE round.left # {} /\ round' = [round EXCEPT !.left = Later]
  <2> DEFINE r == [round EXCEPT !.left = Later]
  <2>1. /\ r.at = "next" /\ r.left = Later /\ r.elapsed = round.elapsed /\ DOMAIN r = {"at", "left", "elapsed"}
    BY <1>1 DEF RoundShape
  <2>2. round' = r
    BY <1>3
  <2> HIDE DEF r
  <2>3. RoundGoesWell'
    BY <1>1, <2>1, <2>2 DEF RoundGoesWell, RoundShape
  <2>4. ReadsTable'
    BY <1>1, <2>1, <2>2 DEF ReadsTable, Later
  <2> QED BY <1>1, <2>3, <2>4, RoundMoves
<1>4. CASE round.left # {} /\ Ended("failed")
  BY <1>1, <1>4, EndedKeeps
<1>5. CASE round.left # {} /\ Proceeds(IF JobNow.want = "futures" THEN "chain" ELSE "ask")
  <2>1. CASE JobNow.want = "futures"
    BY <1>1, <1>5, <2>1, ProceedsKeeps
  <2>2. CASE JobNow.want # "futures"
    BY <1>1, <1>5, <2>2, ProceedsKeeps
  <2> QED BY <2>1, <2>2
<1> QED BY <1>2, <1>3, <1>4, <1>5 DEF NextJob

(* one that collects from Alpaca,                                            *)
LEMMA CollectsKeeps ==
  ASSUME RoundInv, CollectsFromAlpaca
  PROVE  RoundInv'
<1>1. round.at = "ask" /\ round # Rest /\ RoundGoesWell /\ ReadsTable /\ UNCHANGED <<table, jobEdits, cuts>> /\ landed \subseteq Wants
  BY RestIs DEF CollectsFromAlpaca, RoundInv, RoundGoesWell
<1>2. round.left # {} /\ JobNow \in round.left
  BY <1>1, JobNowIs DEF RoundGoesWell
<1>3. JobNow.want \in Wants
  BY <1>1, <1>2 DEF ReadsTable
<1>4. CASE Fails /\ UNCHANGED landed
  BY <1>1, <1>2, <1>4, EndedKeeps DEF Fails
<1>5. CASE Ended("ok") /\ landed' = landed \cup {JobNow.want}
  BY <1>1, <1>2, <1>3, <1>5, EndedKeeps
<1> QED BY <1>4, <1>5 DEF CollectsFromAlpaca

(* asks for a chain,                                                         *)
LEMMA AsksChainKeeps ==
  ASSUME RoundInv, AsksChain
  PROVE  RoundInv'
<1>1. round.at = "chain" /\ round # Rest /\ RoundGoesWell /\ ReadsTable /\ UNCHANGED <<table, landed, jobEdits, cuts>>
      /\ landed \subseteq Wants /\ round.left # {}
  BY RestIs DEF AsksChain, RoundInv, RoundGoesWell
<1>2. CASE Fails
  BY <1>1, <1>2, EndedKeeps DEF Fails
<1>3. ASSUME NEW chain, round' = [at |-> "mark", left |-> round.left, elapsed |-> round.elapsed, chain |-> chain]
      PROVE  RoundInv'
  <2> DEFINE r == [at |-> "mark", left |-> round.left, elapsed |-> round.elapsed, chain |-> chain]
  <2>1. r.at = "mark" /\ r.left = round.left /\ r.elapsed = round.elapsed /\ DOMAIN r = {"at", "left", "elapsed", "chain"}
    OBVIOUS
  <2>2. round' = r
    BY <1>3
  <2> HIDE DEF r
  <2>3. JobNow' = JobNow
    BY <2>1, <2>2 DEF JobNow
  <2>4. RoundGoesWell'
    BY <1>1, <2>1, <2>2, <2>3 DEF RoundGoesWell, RoundShape
  <2>5. ReadsTable'
    BY <1>1, <2>1, <2>2 DEF ReadsTable
  <2> QED BY <1>1, <2>4, <2>5, RoundMoves
<1> QED BY <1>2, <1>3 DEF AsksChain

(* for a mark,                                                               *)
LEMMA AsksMarkKeeps ==
  ASSUME RoundInv, AsksMark
  PROVE  RoundInv'
<1>1. round.at = "mark" /\ round # Rest /\ RoundGoesWell /\ ReadsTable /\ UNCHANGED <<table, landed, jobEdits, cuts>>
      /\ landed \subseteq Wants /\ round.left # {}
  BY RestIs DEF AsksMark, RoundInv, RoundGoesWell
<1>2. CASE Fails
  BY <1>1, <1>2, EndedKeeps DEF Fails
<1>3. ASSUME NEW mark,
             round' = [at |-> "quotes", left |-> round.left, elapsed |-> round.elapsed, chain |-> round.chain,
                       mark |-> mark, wanted |-> SelectFutureContracts(round.chain, mark), answered |-> {}]
      PROVE  RoundInv'
  <2> DEFINE w == SelectFutureContracts(round.chain, mark)
             r == [at |-> "quotes", left |-> round.left, elapsed |-> round.elapsed, chain |-> round.chain,
                   mark |-> mark, wanted |-> w, answered |-> {}]
  <2>0. w = SelectFutureContracts(round.chain, mark)
    OBVIOUS
  <2>2. round' = r
    BY <1>3
  <2> HIDE DEF w
  <2>1. /\ r.at = "quotes" /\ r.left = round.left /\ r.elapsed = round.elapsed /\ r.wanted = w
        /\ r.chain = round.chain /\ r.mark = mark
        /\ DOMAIN r = {"at", "left", "elapsed", "chain", "mark", "wanted", "answered"}
    OBVIOUS
  <2> HIDE DEF r
  <2>3. JobNow' = JobNow
    BY <2>1, <2>2 DEF JobNow
  <2>4. RoundShape' /\ "rows" \notin DOMAIN r
    BY <2>1, <2>2 DEF RoundShape
  <2>6. RoundGoesWell'
    BY <1>1, <2>0, <2>1, <2>2, <2>3, <2>4 DEF RoundGoesWell
  <2>5. ReadsTable'
    BY <1>1, <2>1, <2>2 DEF ReadsTable
  <2> QED BY <1>1, <2>6, <2>5, RoundMoves
<1> QED BY <1>2, <1>3 DEF AsksMark

(* for quotes,                                                               *)
LEMMA AsksQuotesKeeps ==
  ASSUME RoundInv, AsksQuotes
  PROVE  RoundInv'
<1>1. round.at = "quotes" /\ round # Rest /\ RoundGoesWell /\ RoundShape /\ ReadsTable /\ UNCHANGED <<table, landed, jobEdits, cuts>>
      /\ landed \subseteq Wants /\ round.left # {}
  BY RestIs DEF AsksQuotes, RoundInv, RoundGoesWell
<1>2. CASE Fails
  BY <1>1, <1>2, EndedKeeps DEF Fails
<1>3. CASE Unasked = {} /\ Proceeds("write")
  <2>1. round.wanted \subseteq round.answered
    BY <1>3 DEF Unasked
  <2> QED BY <1>1, <1>3, <2>1, ProceedsKeeps
<1>4. CASE round' = [round EXCEPT !.answered = round.answered \cup Batch]
  <2> DEFINE r == [round EXCEPT !.answered = round.answered \cup Batch]
  <2>1. /\ r.at = "quotes" /\ r.left = round.left /\ r.elapsed = round.elapsed /\ r.wanted = round.wanted
        /\ r.chain = round.chain /\ r.mark = round.mark /\ DOMAIN r = DOMAIN round
    BY <1>1 DEF RoundShape
  <2>2. round' = r
    BY <1>4
  <2> HIDE DEF r
  <2>3. JobNow' = JobNow
    BY <2>1, <2>2 DEF JobNow
  <2>4. RoundShape' /\ "rows" \notin DOMAIN r
    BY <1>1, <2>1, <2>2 DEF RoundShape
  <2>6. RoundGoesWell'
    BY <1>1, <2>1, <2>2, <2>3, <2>4 DEF RoundGoesWell
  <2>5. ReadsTable'
    BY <1>1, <2>1, <2>2 DEF ReadsTable
  <2> QED BY <1>1, <2>6, <2>5, RoundMoves
<1> QED BY <1>2, <1>3, <1>4 DEF AsksQuotes

(* writes a snapshot,                                                        *)
LEMMA WritesSnapshotKeeps ==
  ASSUME RoundInv, WritesSnapshot
  PROVE  RoundInv'
<1>1. round.at = "write" /\ round # Rest /\ RoundGoesWell /\ RoundShape /\ ReadsTable /\ UNCHANGED <<table, jobEdits, cuts>>
      /\ landed \subseteq Wants /\ round.left # {} /\ JobNow.want = "futures"
  BY RestIs DEF WritesSnapshot, RoundInv, RoundGoesWell
<1>2. CASE Fails /\ UNCHANGED landed
  BY <1>1, <1>2, EndedKeeps DEF Fails
<1> DEFINE r == [at |-> "finish", left |-> round.left, elapsed |-> round.elapsed, status |-> "ok",
                 rows |-> round.wanted, chain |-> round.chain, mark |-> round.mark, answered |-> round.answered]
<1>3. CASE landed' = landed \cup {"futures"} /\ round' = r
  <2>1. /\ r.at = "finish" /\ r.left = round.left /\ r.elapsed = round.elapsed /\ r.status = "ok" /\ r.rows = round.wanted
        /\ r.chain = round.chain /\ r.mark = round.mark /\ r.answered = round.answered
        /\ DOMAIN r = {"at", "left", "elapsed", "status", "rows", "chain", "mark", "answered"}
    OBVIOUS
  <2>2. round' = r
    BY <1>3
  <2> HIDE DEF r
  <2>3. JobNow' = JobNow
    BY <2>1, <2>2 DEF JobNow
  <2>4. RoundShape'
    BY <1>1, <2>1, <2>2 DEF RoundShape
  <2>6. RoundGoesWell'
    BY <1>1, <1>3, <2>1, <2>2, <2>3, <2>4 DEF RoundGoesWell
  <2>5. ReadsTable'
    BY <1>1, <2>1, <2>2 DEF ReadsTable
  <2>7. JobNow \in round.left
    BY <1>1, JobNowIs
  <2>8. "futures" \in Wants
    BY <1>1, <2>7 DEF ReadsTable
  <2> QED BY <1>1, <1>3, <2>6, <2>5, <2>8, RoundMoves
<1> QED BY <1>2, <1>3 DEF WritesSnapshot

(* The status of a job is written beside it, or beside its heir.             *)
LEMMA FinishesJobKeeps ==
  ASSUME RoundInv, FinishesJob
  PROVE  RoundInv'
<1>1. round.at = "finish" /\ round # Rest /\ RoundGoesWell /\ RoundShape /\ ReadsTable /\ UNCHANGED <<landed, jobEdits, cuts>>
      /\ round.left # {} /\ TableTyped
  BY RestIs DEF FinishesJob, RoundInv, RoundGoesWell
<1>2. JobNow \in round.left
  BY <1>1, JobNowIs
<1>3. PICK now : now = JobNow
  OBVIOUS
<1> DEFINE row(i) == [table[i] EXCEPT !.age = round.elapsed, !.status = round.status]
<1>4. table' = [i \in DOMAIN table |-> IF i = now.id THEN row(i) ELSE table[i]]
  BY <1>3 DEF FinishesJob
<1>5. \A i \in DOMAIN table : RowTyped(i, row(i)) /\ row(i).want = table[i].want /\ row(i).heir = table[i].heir
                              /\ row(i).status = round.status
  <2> SUFFICES ASSUME NEW i \in DOMAIN table
               PROVE  RowTyped(i, row(i)) /\ row(i).want = table[i].want /\ row(i).heir = table[i].heir
                      /\ row(i).status = round.status
    OBVIOUS
  <2>1. RowTyped(i, table[i]) /\ round.elapsed \in 0 .. Never /\ round.status \in {"never ran", "ok", "failed"}
    BY <1>1 DEF TableTyped, RoundGoesWell
  <2>2. RowTyped(i, row(i))
    BY <2>1, TRUE \in BOOLEAN, RowChanges
  <2> QED BY <2>1, <2>2 DEF RowTyped
<1> HIDE DEF row
<1>6. DOMAIN table' = DOMAIN table /\ \A i \in DOMAIN table : table'[i] = IF i = now.id THEN row(i) ELSE table[i]
  BY <1>4
<1>7. TableTyped'
  <2>1. \A i \in DOMAIN table' : RowTyped(i, table'[i])
    BY <1>1, <1>5, <1>6 DEF TableTyped
  <2>2. table' = [i \in DOMAIN table' |-> table'[i]]
    BY <1>4
  <2> QED BY <1>1, <1>6, <2>1, <2>2 DEF TableTyped
<1>8. StatusIsEarned'
  <2> SUFFICES ASSUME NEW i \in DOMAIN table, table'[i].status = "ok", ~table'[i].heir PROVE table'[i].want \in landed
    BY <1>1, <1>6 DEF StatusIsEarned
  <2>1. CASE i = now.id
    <3>1. round.status = "ok" /\ ~table[i].heir /\ table'[i].want = table[i].want
      BY <1>5, <1>6, <2>1
    <3>2. table[i].want = now.want
      BY <1>1, <1>2, <1>3, <2>1, <3>1 DEF ReadsTable
    <3>3. now.want \in landed
      BY <1>1, <1>3, <3>1 DEF RoundGoesWell
    <3> QED BY <3>1, <3>2, <3>3
  <2>2. CASE i # now.id
    BY <1>6, <2>2 DEF RoundInv, StatusIsEarned
  <2> QED BY <2>1, <2>2
<1> DEFINE r == [at |-> "next", left |-> Later, elapsed |-> round.elapsed]
<1>9. round' = r
  BY DEF FinishesJob
<1>10. r.at = "next" /\ r.left = Later /\ r.elapsed = round.elapsed /\ DOMAIN r = {"at", "left", "elapsed"}
  OBVIOUS
<1> HIDE DEF r
<1>11. RoundGoesWell'
  BY <1>1, <1>9, <1>10 DEF RoundGoesWell, RoundShape
<1>12. ReadsTable'
  <2>1. \A i \in DOMAIN table : table'[i].want = table[i].want /\ table'[i].heir = table[i].heir
    BY <1>5, <1>6
  <2>2. Later \subseteq round.left
    BY DEF Later
  <2> QED BY <1>1, <1>6, <1>9, <1>10, <2>1, <2>2 DEF ReadsTable
<1> QED BY <1>1, <1>7, <1>8, <1>11, <1>12 DEF RoundInv

(* or is cut;                                                                *)
LEMMA RoundIsCutKeeps ==
  ASSUME RoundInv, RoundIsCut
  PROVE  RoundInv'
<1>1. round' = Rest /\ cuts' \in 0 .. MaxCuts /\ UNCHANGED <<table, landed, jobEdits>>
  BY RoundsAssumption DEF RoundIsCut, RoundInv
<1> QED BY <1>1 DEF RoundInv, TableTyped, StatusIsEarned

(* The user edits the table under a round.                                   *)
LEMMA EditsKeep ==
  ASSUME RoundInv, NEW t, EditsJobs(t), TableTyped', StatusIsEarned', round # Rest => ReadsTable'
  PROVE  RoundInv'
<1>1. jobEdits' \in 0 .. MaxJobEdits /\ UNCHANGED <<round, landed, cuts>>
  BY RoundsAssumption DEF EditsJobs, RoundInv
<1>2. round # Rest => RoundGoesWell'
  BY <1>1 DEF RoundInv, RoundGoesWell, RoundShape, JobNow
<1> QED BY <1>1, <1>2 DEF RoundInv

(* a job that is made,                                                       *)
LEMMA CreatesJobKeeps ==
  ASSUME RoundInv, NEW want \in Wants, CreatesJob(want)
  PROVE  RoundInv'
<1> DEFINE heir(i) == round # Rest /\ \E job \in round.left : job.id = i
           t == [i \in DOMAIN table \cup {FreshId} |-> IF i \in DOMAIN table THEN table[i] ELSE NewRow(i, want, heir(i))]
<1>1. FreshId <= MaxJobId /\ EditsJobs(t)
  BY DEF CreatesJob
<1>2. table' = t /\ round' = round /\ landed' = landed
  BY <1>1 DEF EditsJobs
<1>3. FreshId \in 1 .. MaxJobId
  <2>1. CASE DOMAIN table = {}
    BY <1>1, <2>1, RoundsAssumption DEF FreshId
  <2>2. CASE DOMAIN table # {}
    <3>1. DOMAIN table \subseteq 1 .. MaxJobId /\ DOMAIN table \subseteq 0 .. MaxJobId /\ MaxJobId \in Nat
      BY RoundsAssumption DEF RoundInv, TableTyped
    <3>2. \E x \in DOMAIN table : \A y \in DOMAIN table : y <= x
      BY <2>2, <3>1, Greatest
    <3>3. \E x \in DOMAIN table : \A y \in DOMAIN table : x >= y
      BY <3>1, <3>2
    <3>4. Max(DOMAIN table) \in DOMAIN table
      BY <3>3 DEF Max
    <3> QED BY <1>1, <2>2, <3>1, <3>4 DEF FreshId
  <2> QED BY <2>1, <2>2
<1>4. \A i : heir(i) \in BOOLEAN
  OBVIOUS
<1>5. \A i : RowTyped(i, NewRow(i, want, heir(i))) /\ NewRow(i, want, heir(i)).status = "never ran"
             /\ NewRow(i, want, heir(i)).heir = heir(i)
  BY <1>4, RowMade
<1>6. heir(FreshId) <=> round # Rest /\ \E job \in round.left : job.id = FreshId
  OBVIOUS
<1> HIDE DEF heir
<1>7. /\ DOMAIN t = DOMAIN table \cup {FreshId} /\ t = [i \in DOMAIN t |-> t[i]]
      /\ \A i \in DOMAIN table : t[i] = table[i]
      /\ FreshId \notin DOMAIN table => t[FreshId] = NewRow(FreshId, want, heir(FreshId))
  OBVIOUS
<1> HIDE DEF t
<1>8. TableTyped'
  <2>1. \A i \in DOMAIN t : RowTyped(i, t[i])
    <3> SUFFICES ASSUME NEW i \in DOMAIN t PROVE RowTyped(i, t[i])
      OBVIOUS
    <3>1. CASE i \in DOMAIN table
      BY <1>7, <3>1 DEF RoundInv, TableTyped
    <3>2. CASE i \notin DOMAIN table
      BY <1>5, <1>7, <3>2
    <3> QED BY <3>1, <3>2
  <2> QED BY <1>2, <1>3, <1>7, <2>1 DEF RoundInv, TableTyped
<1>9. StatusIsEarned'
  BY <1>2, <1>5, <1>7 DEF RoundInv, StatusIsEarned
<1>10. round # Rest => ReadsTable'
  <2> SUFFICES ASSUME round # Rest, NEW job \in round.left, job.id \in DOMAIN t
               PROVE  t[job.id].want = job.want \/ t[job.id].heir
    BY <1>2 DEF RoundInv, ReadsTable
  <2>1. CASE job.id \in DOMAIN table
    BY <1>7, <2>1 DEF RoundInv, ReadsTable
  <2>2. CASE job.id \notin DOMAIN table
    BY <1>5, <1>6, <1>7, <2>2
  <2> QED BY <2>1, <2>2
<1> QED BY <1>1, <1>8, <1>9, <1>10, EditsKeep

(* switched,                                                                 *)
LEMMA SwitchesJobKeeps ==
  ASSUME RoundInv, NEW id \in DOMAIN table, NEW on \in BOOLEAN, SwitchesJob(id, on)
  PROVE  RoundInv'
<1> DEFINE row == [table[id] EXCEPT !.on = on]
           t == [table EXCEPT ![id] = row]
<1>1. EditsJobs(t)
  BY DEF SwitchesJob
<1>2. table' = t /\ round' = round /\ landed' = landed /\ TableTyped
  BY <1>1 DEF EditsJobs, RoundInv
<1>3. RowTyped(id, row) /\ row.want = table[id].want /\ row.heir = table[id].heir /\ row.status = table[id].status
  <2>1. RowTyped(id, table[id]) /\ 0 \in 0 .. Never /\ "ok" \in {"never ran", "ok", "failed"}
    BY <1>2, RoundsAssumption DEF TableTyped, Never
  <2>2. RowTyped(id, row)
    BY <2>1, RowChanges
  <2> QED BY <2>1, <2>2 DEF RowTyped
<1> HIDE DEF row
<1>4. /\ DOMAIN t = DOMAIN table /\ t = [i \in DOMAIN t |-> t[i]]
      /\ \A i \in DOMAIN table : t[i] = IF i = id THEN row ELSE table[i]
  OBVIOUS
<1> HIDE DEF t
<1>5. TableTyped'
  BY <1>2, <1>3, <1>4 DEF TableTyped
<1>6. \A i \in DOMAIN table : t[i].want = table[i].want /\ t[i].heir = table[i].heir /\ t[i].status = table[i].status
  BY <1>3, <1>4
<1>7. StatusIsEarned' /\ (round # Rest => ReadsTable')
  BY <1>2, <1>4, <1>6 DEF RoundInv, StatusIsEarned, ReadsTable
<1> QED BY <1>1, <1>5, <1>7, EditsKeep

(* or deleted under a round does;                                            *)
LEMMA DeletesJobKeeps ==
  ASSUME RoundInv, NEW id \in DOMAIN table, DeletesJob(id)
  PROVE  RoundInv'
<1> DEFINE t == [i \in DOMAIN table \ {id} |-> table[i]]
<1>1. EditsJobs(t)
  BY DEF DeletesJob
<1>2. table' = t /\ round' = round /\ landed' = landed /\ TableTyped
  BY <1>1 DEF EditsJobs, RoundInv
<1>3. DOMAIN t = DOMAIN table \ {id} /\ (\A i \in DOMAIN t : t[i] = table[i]) /\ t = [i \in DOMAIN t |-> t[i]]
  OBVIOUS
<1> HIDE DEF t
<1>4. TableTyped' /\ StatusIsEarned' /\ (round # Rest => ReadsTable')
  BY <1>2, <1>3 DEF RoundInv, TableTyped, StatusIsEarned, ReadsTable
<1> QED BY <1>1, <1>4, EditsKeep

(* and time that passes.                                                     *)
LEMMA TimePassesKeeps ==
  ASSUME RoundInv, TimePasses
  PROVE  RoundInv'
<1> DEFINE row(i) == [table[i] EXCEPT !.age = Older(table[i].age)]
<1>1. table' = [i \in DOMAIN table |-> row(i)] /\ UNCHANGED <<landed, jobEdits, cuts>> /\ TableTyped
  BY DEF TimePasses, RoundInv
<1>2. \A age \in 0 .. Never : Older(age) \in 0 .. Never
  BY RoundsAssumption DEF Older, Never
<1>3. \A i \in DOMAIN table : RowTyped(i, row(i)) /\ row(i).want = table[i].want /\ row(i).heir = table[i].heir
                              /\ row(i).status = table[i].status
  <2> SUFFICES ASSUME NEW i \in DOMAIN table
               PROVE  RowTyped(i, row(i)) /\ row(i).want = table[i].want /\ row(i).heir = table[i].heir
                      /\ row(i).status = table[i].status
    OBVIOUS
  <2>1. RowTyped(i, table[i])
    BY <1>1 DEF TableTyped
  <2>2. Older(table[i].age) \in 0 .. Never /\ "ok" \in {"never ran", "ok", "failed"} /\ TRUE \in BOOLEAN
    BY <1>2, <2>1 DEF RowTyped
  <2>3. RowTyped(i, row(i))
    BY <2>1, <2>2, RowChanges
  <2> QED BY <2>1, <2>3 DEF RowTyped
<1> HIDE DEF row
<1>4. DOMAIN table' = DOMAIN table /\ (\A i \in DOMAIN table : table'[i] = row(i)) /\ table' = [i \in DOMAIN table' |-> table'[i]]
  BY <1>1
<1>5. TableTyped'
  BY <1>1, <1>3, <1>4 DEF TableTyped
<1>6. StatusIsEarned'
  BY <1>1, <1>3, <1>4 DEF RoundInv, StatusIsEarned
<1>7. CASE round = Rest
  <2>1. round' = Rest
    BY <1>7 DEF TimePasses
  <2> QED BY <1>1, <1>5, <1>6, <2>1 DEF RoundInv
<1>8. CASE round # Rest
  <2> DEFINE r == [round EXCEPT !.elapsed = Older(round.elapsed)]
  <2>1. round' = r /\ RoundGoesWell /\ RoundShape /\ ReadsTable
    BY <1>8 DEF TimePasses, RoundInv, RoundGoesWell
  <2>2. /\ DOMAIN r = DOMAIN round /\ r.elapsed \in 0 .. Never
        /\ \A field \in DOMAIN round : field # "elapsed" => r[field] = round[field]
    BY <1>2, <2>1 DEF RoundShape, RoundGoesWell
  <2> HIDE DEF r
  <2>3. r.at = round.at /\ r.left = round.left
    BY <2>1, <2>2 DEF RoundShape, RoundGoesWell
  <2>4. JobNow' = JobNow
    BY <2>1, <2>3 DEF JobNow
  <2>5. RoundShape'
    BY <2>1, <2>2, <2>3 DEF RoundShape
  <2>6. round.at \in {"quotes", "write"} => r.wanted = round.wanted /\ r.answered = round.answered /\ r.chain = round.chain /\ r.mark = round.mark
    BY <2>1, <2>2 DEF RoundShape
  <2>7. round.at = "finish" => r.status = round.status
    BY <2>1, <2>2 DEF RoundShape
  <2>8. "rows" \in DOMAIN r => /\ r.rows = round.rows /\ r.answered = round.answered /\ r.chain = round.chain /\ r.mark = round.mark
                               /\ "rows" \in DOMAIN round
    BY <2>1, <2>2 DEF RoundShape, RoundGoesWell
  <2>9. RoundGoesWell'
    BY <1>1, <2>1, <2>2, <2>3, <2>4, <2>5, <2>6, <2>7, <2>8 DEF RoundGoesWell
  <2>10. ReadsTable'
    BY <1>3, <1>4, <2>1, <2>3 DEF ReadsTable
  <2> QED BY <1>1, <1>5, <1>6, <2>9, <2>10 DEF RoundInv
<1> QED BY <1>7, <1>8

(* Every step keeps the invariant.                                           *)
LEMMA RoundInvStep ==
  ASSUME RoundInv, [RoundsNext]_roundVars
  PROVE  RoundInv'
<1>1. CASE UNCHANGED roundVars
  BY <1>1 DEF roundVars, RoundInv, TableTyped, StatusIsEarned, ReadsTable, RoundGoesWell, RoundShape, JobNow
<1> QED BY <1>1, BeginRoundKeeps, NextJobKeeps, CollectsKeeps, AsksChainKeeps, AsksMarkKeeps, AsksQuotesKeeps,
           WritesSnapshotKeeps, FinishesJobKeeps, RoundIsCutKeeps, CreatesJobKeeps, SwitchesJobKeeps, DeletesJobKeeps,
           TimePassesKeeps
        DEF RoundsNext, RoundGoesOn

-----------------------------------------------------------------------------
(* The tools that load the archive *)

(* A price under a contract that its id named that day, or first.            *)
KeepsItsName(k, id) ==
  /\ k.day \notin Saturdays
  /\ \E pull \in Pulls :
       LET named == {d \in Range(pull.defs) : d.id = id /\ d.option} IN
       \E d \in named :
         /\ d.contract = k.contract /\ \A o \in named : o.on > k.day \/ o.on <= d.on
         /\ d.on <= k.day \/ \A o \in named : d.on <= o.on

(* The bar of a day is one that was traded most.                             *)
IsFront(d, bar) ==
  /\ ~bar.spread /\ d \notin Saturdays
  /\ \E pull \in Pulls : \E n \in DOMAIN pull.bars : bar = pull.bars[n]
       /\ \A m \in DOMAIN pull.bars : pull.bars[m].day = d /\ ~pull.bars[m].spread /\ pull.bars[m].whole
            => pull.bars[m].volume <= bar.volume

(* The files a rebuild can read.                                             *)
Good(n) == VaultFiles[n].fault # "header" /\ VaultFiles[n].sym \in loading.asked
(* The rows that count towards a contract's activity.                        *)
Counts(n) == {n} \X {r \in VaultFiles[n].rows : r.twoSided /\ r.bucket > 0}
(* The ones of the files up to one of them.                                  *)
CountedTo(m) == UNION {Counts(n) : n \in {i \in 1 .. m : Good(i)}}

(* What a rebuild has read so far is in the archive or about to be.          *)
RebuildGoesWell ==
  /\ loading.at \in {"idle", "files", "done"}
  /\ loading.at = "files" =>
       /\ DOMAIN loading = {"at", "asked", "next", "batch", "seen"} /\ loading.next \in 1 .. Len(VaultFiles) + 1
       /\ \A n \in 1 .. loading.next - 1 : Good(n) /\ VaultFiles[n].day >= CutOff =>
            KeysOf(VaultFiles[n], VaultFiles[n].rows) \subseteq DOMAIN archive \cup loading.batch
       /\ \A k \in loading.batch : DOMAIN k = {"sym", "day", "contract"}
       /\ loading.seen = CountedTo(loading.next - 1)

(* The strengthening of what the two tools write.                            *)
LoadsInv ==
  /\ \A k \in DOMAIN archive \cup engineRows : DOMAIN k = {"sym", "day", "contract"}
  /\ pulling.at \in {"idle", "opt", "engine"} /\ loads \in 0 .. MaxLoads
  /\ pulling # NotRunning =>
       DOMAIN pulling = {"at", "pull", "targets", "left"} /\ pulling.pull \in Pulls /\ pulling.at # "idle"
  /\ \A k \in engineRows : k.day \notin Saturdays
  /\ \A k \in DOMAIN archive : archive[k] \notin {"vault", "recorder"} => KeepsItsName(k, archive[k])
  /\ \A d \in DOMAIN continuous : IsFront(d, continuous[d])
  /\ RebuildGoesWell /\ RebuildIsWhole

(* It says more than the properties.                                         *)
LEMMA LoadsInvHolds ==
  LoadsInv => LoadsTypeOK /\ PricesKeepTheirNames /\ SeriesIsTheFront /\ RebuildIsWhole
<1> SUFFICES ASSUME LoadsInv PROVE LoadsTypeOK /\ PricesKeepTheirNames /\ SeriesIsTheFront /\ RebuildIsWhole
  OBVIOUS
<1>1. LoadsTypeOK
  BY DEF LoadsInv, RebuildGoesWell, LoadsTypeOK
<1>2. PricesKeepTheirNames
  BY DEF LoadsInv, PricesKeepTheirNames, KeepsItsName
<1>3. SeriesIsTheFront
  BY DEF LoadsInv, SeriesIsTheFront, IsFront
<1> QED BY <1>1, <1>2, <1>3 DEF LoadsInv

(* Rows of a pull.                                                           *)
LEMMA PullTyped ==
  ASSUME NEW pull \in Pulls
  PROVE  /\ DOMAIN pull.defs = 1 .. Len(pull.defs) /\ Len(pull.defs) \in Nat
         /\ \A n \in DOMAIN pull.defs : pull.defs[n].on \in Nat
         /\ DOMAIN pull.stats = 1 .. Len(pull.stats) /\ Len(pull.stats) \in Nat
         /\ \A n \in DOMAIN pull.stats : pull.stats[n].day \in Nat
         /\ DOMAIN pull.bars = 1 .. Len(pull.bars) /\ Len(pull.bars) \in Nat
         /\ \A n \in DOMAIN pull.bars : pull.bars[n].day \in Nat /\ pull.bars[n].volume \in Nat
<1> DEFINE D == [file : Nat, id : STRING, on : Nat, contract : STRING, option : BOOLEAN]
           S == [id : STRING, day : Nat, settles : BOOLEAN]
           B == [day : Nat, volume : Nat, spread : BOOLEAN, whole : BOOLEAN]
<1>1. pull.defs \in Seq(D) /\ pull.stats \in Seq(S) /\ pull.bars \in Seq(B)
  BY LoadsAssumption
<1>2. (\A x \in D : x.on \in Nat) /\ (\A x \in S : x.day \in Nat) /\ (\A x \in B : x.day \in Nat /\ x.volume \in Nat)
  OBVIOUS
<1> HIDE DEF D, S, B
<1> QED BY <1>1, <1>2

(* An id that names a contract does so from a definition that is the latest  *)
(* up to the day, or else the earliest.                                      *)
LEMMA NameIsKept ==
  ASSUME NEW pull \in Pulls, NEW id, NEW day \in Nat, NEW c \in DefinitionOn(pull, id, day)
  PROVE  LET named == {d \in Range(pull.defs) : d.id = id /\ d.option} IN
         \E d \in named :
           /\ d.contract = c /\ \A o \in named : o.on > day \/ o.on <= d.on
           /\ d.on <= day \/ \A o \in named : d.on <= o.on
<1> DEFINE defs == pull.defs
           of(n) == defs[n].id = id /\ defs[n].option
           past == {n \in Named(pull, id) : defs[n].on <= day}
           named == {d \in Range(defs) : d.id = id /\ d.option}
<1>1. DOMAIN defs = 1 .. Len(defs) /\ Len(defs) \in Nat /\ \A n \in DOMAIN defs : defs[n].on \in Nat
  BY PullTyped
<1>2. Named(pull, id) = {n \in DOMAIN defs : of(n) /\ ~\E m \in 1 .. n - 1 :
                           of(m) /\ defs[m].file = defs[n].file /\ defs[m].on = defs[n].on}
  BY DEF Named
<1>3. \A m, n \in DOMAIN defs : defs[m].on < defs[n].on => Before(pull, m, n)
  BY DEF Before
<1>4. named = {defs[n] : n \in {m \in DOMAIN defs : of(m)}}
  BY DEF Range
<1>5. ASSUME NEW o \in named PROVE \E m \in Named(pull, id) : defs[m].on = o.on
  <2>1. PICK l \in DOMAIN defs : of(l) /\ o = defs[l]
    BY <1>4
  <2> DEFINE same == {m \in DOMAIN defs : of(m) /\ defs[m].file = o.file /\ defs[m].on = o.on}
  <2>2. l \in same
    BY <2>1
  <2>3. PICK m \in same : \A k \in same : m <= k
    <3>1. same \subseteq Nat /\ same # {}
      BY <2>2, <1>1
    <3> HIDE DEF same
    <3> QED BY <3>1, Least
  <2>4. ASSUME NEW k \in 1 .. m - 1, of(k), defs[k].file = defs[m].file, defs[k].on = defs[m].on PROVE FALSE
    <3>1. k \in DOMAIN defs /\ ~(m <= k)
      BY <2>3, <1>1
    <3>2. k \in same
      BY <3>1, <2>3, <2>4
    <3> HIDE DEF same
    <3> QED BY <3>1, <3>2, <2>3
  <2>5. m \in Named(pull, id)
    BY <2>3, <2>4, <1>2
  <2> QED BY <2>3, <2>5
<1>6. PICK n \in Named(pull, id) :
        /\ defs[n].contract = c
        /\ \/ n \in past /\ ~\E m \in past : Before(pull, n, m)
           \/ past = {} /\ ~\E m \in Named(pull, id) : Before(pull, m, n)
  BY DEF DefinitionOn
<1>7. n \in DOMAIN defs /\ of(n) /\ defs[n] \in named
  BY <1>2, <1>4
<1>8. \A m \in Named(pull, id) : m \in DOMAIN defs
  BY <1>2
<1> HIDE DEF named, of
<1>9. \A o \in named : o.on > day \/ o.on <= defs[n].on
  <2> SUFFICES ASSUME NEW o \in named, ~(o.on > day) PROVE o.on <= defs[n].on
    OBVIOUS
  <2>1. PICK m \in Named(pull, id) : defs[m].on = o.on
    BY <1>5
  <2>2. o.on \in Nat
    BY <1>1, <1>8, <2>1
  <2>3. m \in past
    BY <2>1, <2>2
  <2>4. ~Before(pull, n, m)
    BY <1>6, <2>3
  <2> QED BY <1>1, <1>3, <1>7, <1>8, <2>1, <2>2, <2>4
<1>10. defs[n].on <= day \/ \A o \in named : defs[n].on <= o.on
  <2> SUFFICES ASSUME ~(defs[n].on <= day), NEW o \in named PROVE defs[n].on <= o.on
    OBVIOUS
  <2>1. PICK m \in Named(pull, id) : defs[m].on = o.on
    BY <1>5
  <2>2. ~Before(pull, m, n)
    BY <1>6, <2>1
  <2> QED BY <1>1, <1>3, <1>7, <1>8, <2>1, <2>2
<1> QED BY <1>6, <1>7, <1>9, <1>10 DEF named

(* The prices of a day go to contracts their ids name.                       *)
LEMMA ChainNames ==
  ASSUME NEW pull \in Pulls, NEW day, NEW k \in DOMAIN ChainOn(pull, day)
  PROVE  KeepsItsName(k, ChainOn(pull, day)[k]) /\ DOMAIN k = {"sym", "day", "contract"}
<1> DEFINE of(c) == {id \in Settled(pull, day) : c \in DefinitionOn(pull, id, day)}
           cs == UNION {DefinitionOn(pull, id, day) : id \in Settled(pull, day)}
           who(c) == CHOOSE id \in of(c) : \A o \in of(c) : FirstSlot(pull, day, o) <= FirstSlot(pull, day, id)
<1>1. PICK c \in cs : k = [sym |-> pull.sym, day |-> day, contract |-> c]
  BY DEF ChainOn
<1>2. k.contract = c /\ k.day = day /\ DOMAIN k = {"sym", "day", "contract"}
  BY <1>1
<1>3. ChainOn(pull, day)[k] = who(c)
  BY <1>2 DEF ChainOn
<1>4. PICK i \in Settled(pull, day) : i \in of(c)
  BY <1>1
<1>5. DOMAIN pull.stats = 1 .. Len(pull.stats) /\ Len(pull.stats) \in Nat
      /\ \A n \in DOMAIN pull.stats : pull.stats[n].day \in Nat
  BY PullTyped
<1>6. PICK n \in Slots(pull, day) : n \in DOMAIN pull.stats /\ pull.stats[n].day = day /\ Weekday(day)
  BY <1>4 DEF Settled, Slots
<1>7. day \in Nat /\ day \notin Saturdays
  BY <1>5, <1>6 DEF Weekday
<1>8. ASSUME NEW id \in Settled(pull, day) PROVE FirstSlot(pull, day, id) \in 0 .. Len(pull.stats)
  <2> DEFINE mine == {m \in Slots(pull, day) : pull.stats[m].id = id}
  <2>1. mine \subseteq Nat /\ mine # {} /\ mine \subseteq 0 .. Len(pull.stats)
    <3>1. Slots(pull, day) \subseteq DOMAIN pull.stats
      BY DEF Slots
    <3>2. PICK m \in Slots(pull, day) : pull.stats[m].id = id
      BY <1>8 DEF Settled
    <3>3. m \in mine
      BY <3>2
    <3> QED BY <1>5, <3>1, <3>3
  <2>2. PICK m \in mine : \A l \in mine : m <= l
    <3> HIDE DEF mine
    <3> QED BY <2>1, Least
  <2>3. FirstSlot(pull, day, id) \in mine
    BY <2>2 DEF FirstSlot
  <2> QED BY <2>1, <2>3
<1>9. who(c) \in of(c)
  <2> DEFINE slots == {FirstSlot(pull, day, id) : id \in of(c)}
  <2>1. slots \subseteq 0 .. Len(pull.stats) /\ slots # {}
    BY <1>4, <1>8
  <2>2. PICK m \in slots : \A l \in slots : l <= m
    <3> HIDE DEF slots
    <3> QED BY <2>1, <1>5, Greatest
  <2>3. \E id \in of(c) : \A o \in of(c) : FirstSlot(pull, day, o) <= FirstSlot(pull, day, id)
    BY <2>2
  <2> HIDE DEF of
  <2> QED BY <2>3
<1>10. c \in DefinitionOn(pull, who(c), day)
  BY <1>9
<1> HIDE DEF who
<1>11. LET named == {d \in Range(pull.defs) : d.id = who(c) /\ d.option} IN
       \E d \in named :
         /\ d.contract = c /\ \A o \in named : o.on > day \/ o.on <= d.on
         /\ d.on <= day \/ \A o \in named : d.on <= o.on
  BY <1>7, <1>10, NameIsKept
<1> QED BY <1>2, <1>3, <1>7, <1>11 DEF KeepsItsName

(* Of the bars read so far, the best of each day is one of the busiest.      *)
BestOf(best, pull, n) ==
  /\ \A d \in DOMAIN best : \E i \in 1 .. n :
       best[d] = pull.bars[i] /\ pull.bars[i].day = d /\ Outright(best[d]) /\ Weekday(d)
  /\ \A i \in 1 .. n : LET bar == pull.bars[i] IN
       Outright(bar) /\ Weekday(bar.day) /\ bar.whole => bar.day \in DOMAIN best /\ bar.volume <= best[bar.day].volume

(* The busier of the best so far and the next bar is the best with it,       *)
LEMMA BusierIsBest ==
  ASSUME NEW pull \in Pulls, NEW n \in 1 .. Len(pull.bars), NEW best, BestOf(best, pull, n - 1)
  PROVE  BestOf(Busier(best, pull.bars[n]), pull, n)
<1> DEFINE bar == pull.bars[n]
           next == Busier(best, bar)
<1>1. DOMAIN pull.bars = 1 .. Len(pull.bars) /\ Len(pull.bars) \in Nat
      /\ \A i \in DOMAIN pull.bars : pull.bars[i].day \in Nat /\ pull.bars[i].volume \in Nat
  BY PullTyped
<1>2. n \in Nat /\ \A i \in 1 .. n : i \in DOMAIN pull.bars /\ (i # n => i \in 1 .. n - 1)
  BY <1>1
<1>3. CASE Outright(bar) /\ Weekday(bar.day) /\ bar.whole /\ (bar.day \in DOMAIN best => bar.volume > best[bar.day].volume)
  <2>1. next = [d \in DOMAIN best \cup {bar.day} |-> IF d = bar.day THEN bar ELSE best[d]]
    BY <1>3 DEF Busier
  <2>2. DOMAIN next = DOMAIN best \cup {bar.day} /\ next[bar.day] = bar
        /\ \A d \in DOMAIN best : d # bar.day => next[d] = best[d]
    BY <2>1
  <2> HIDE DEF next
  <2>3. ASSUME NEW d \in DOMAIN next
        PROVE  \E i \in 1 .. n : next[d] = pull.bars[i] /\ pull.bars[i].day = d /\ Outright(next[d]) /\ Weekday(d)
    <3>1. CASE d = bar.day
      BY <3>1, <2>2, <1>2, <1>3
    <3>2. CASE d # bar.day
      <4>1. d \in DOMAIN best /\ next[d] = best[d]
        BY <3>2, <2>2, <2>3
      <4>2. PICK i \in 1 .. n - 1 : best[d] = pull.bars[i] /\ pull.bars[i].day = d /\ Outright(best[d]) /\ Weekday(d)
        BY <4>1 DEF BestOf
      <4> QED BY <4>1, <4>2, <1>2
    <3> QED BY <3>1, <3>2
  <2>4. ASSUME NEW i \in 1 .. n, Outright(pull.bars[i]), Weekday(pull.bars[i].day), pull.bars[i].whole
        PROVE  pull.bars[i].day \in DOMAIN next /\ pull.bars[i].volume <= next[pull.bars[i].day].volume
    <3>1. CASE i = n
      BY <3>1, <1>1, <1>2, <2>2
    <3>2. CASE i # n
      <4>1. pull.bars[i].day \in DOMAIN best /\ pull.bars[i].volume <= best[pull.bars[i].day].volume
        BY <1>2, <2>4, <3>2 DEF BestOf
      <4>2. CASE pull.bars[i].day = bar.day
        <5>1. best[bar.day].volume \in Nat
          <6>1. PICK j \in 1 .. n - 1 : best[bar.day] = pull.bars[j]
            BY <4>1, <4>2 DEF BestOf
          <6> QED BY <6>1, <1>1, <1>2
        <5>2. pull.bars[i].volume \in Nat /\ bar.volume \in Nat
          BY <1>1, <1>2
        <5> QED BY <4>1, <4>2, <5>1, <5>2, <1>3, <2>2
      <4>3. CASE pull.bars[i].day # bar.day
        BY <4>1, <4>3, <2>2
      <4> QED BY <4>2, <4>3
    <3> QED BY <3>1, <3>2
  <2>5. BestOf(next, pull, n)
    BY <2>3, <2>4 DEF BestOf
  <2> QED BY <2>5 DEF next
<1>4. CASE ~(Outright(bar) /\ Weekday(bar.day) /\ bar.whole /\ (bar.day \in DOMAIN best => bar.volume > best[bar.day].volume))
  <2>1. next = best
    BY <1>4 DEF Busier
  <2> HIDE DEF next
  <2>2. ASSUME NEW d \in DOMAIN best
        PROVE  \E i \in 1 .. n : best[d] = pull.bars[i] /\ pull.bars[i].day = d /\ Outright(best[d]) /\ Weekday(d)
    <3>1. PICK i \in 1 .. n - 1 : best[d] = pull.bars[i] /\ pull.bars[i].day = d /\ Outright(best[d]) /\ Weekday(d)
      BY <2>2 DEF BestOf
    <3> QED BY <3>1, <1>2
  <2>3. ASSUME NEW i \in 1 .. n, Outright(pull.bars[i]), Weekday(pull.bars[i].day), pull.bars[i].whole
        PROVE  pull.bars[i].day \in DOMAIN best /\ pull.bars[i].volume <= best[pull.bars[i].day].volume
    <3>1. CASE i # n
      BY <1>2, <2>3, <3>1 DEF BestOf
    <3>2. CASE i = n
      <4>1. bar.day \in DOMAIN best /\ ~(bar.volume > best[bar.day].volume)
        BY <1>4, <2>3, <3>2
      <4>2. PICK j \in 1 .. n - 1 : best[bar.day] = pull.bars[j]
        BY <4>1 DEF BestOf
      <4> QED BY <3>2, <4>1, <4>2, <1>1, <1>2
    <3> QED BY <3>1, <3>2
  <2>4. BestOf(best, pull, n)
    BY <2>2, <2>3 DEF BestOf
  <2> QED BY <2>1, <2>4 DEF next
<1> QED BY <1>3, <1>4

(* Reading the bars one by one is well defined: by least counterexample.     *)
LEMMA FrontMonthsRead ==
  ASSUME NEW pull \in Pulls
  PROVE  \E best :
           /\ best = [n \in 0 .. Len(pull.bars) |-> IF n = 0 THEN <<>> ELSE Busier(best[n - 1], pull.bars[n])]
           /\ FrontMonths(pull) = best[Len(pull.bars)]
<1> DEFINE L == Len(pull.bars)
           step(f, n) == IF n = 0 THEN <<>> ELSE Busier(f[n - 1], pull.bars[n])
           reads(f, m) == f = [n \in 0 .. m |-> step(f, n)]
           bad == {m \in 0 .. L : ~\E f : reads(f, m)}
<1>1. L \in Nat
  BY PullTyped
<1>2. bad = {}
  <2> SUFFICES ASSUME bad # {} PROVE FALSE
    OBVIOUS
  <2>1. PICK m \in bad : \A o \in bad : m <= o
    <3>1. bad \subseteq Nat
      BY <1>1
    <3> HIDE DEF bad
    <3> QED BY <3>1, Least
  <2>2. CASE m = 0
    <3> DEFINE f == [n \in 0 .. 0 |-> <<>>]
    <3>1. reads(f, 0)
      OBVIOUS
    <3> QED BY <2>1, <2>2, <3>1
  <2>3. CASE m # 0
    <3>1. m \in 1 .. L /\ m - 1 \in 0 .. L /\ ~(m <= m - 1)
      BY <1>1, <2>1, <2>3
    <3>2. m - 1 \notin bad
      BY <2>1, <3>1
    <3>3. PICK f : reads(f, m - 1)
      BY <3>1, <3>2
    <3> DEFINE g == [n \in 0 .. m |-> IF n = m THEN step(f, m) ELSE f[n]]
    <3>4. \A n \in 0 .. m - 1 : f[n] = step(f, n)
      BY <3>3
    <3> HIDE DEF reads
    <3>5. ASSUME NEW n \in 0 .. m PROVE g[n] = step(g, n)
      <4>1. n # 0 => g[n - 1] = f[n - 1]
        BY <3>1, n - 1 \in 0 .. m \/ n = 0
      <4>2. n # m => n \in 0 .. m - 1
        BY <3>1
      <4> QED BY <3>4, <4>1, <4>2
    <3>6. reads(g, m)
      BY <3>5 DEF reads
    <3> HIDE DEF g
    <3> QED BY <2>1, <3>6
  <2> QED BY <2>2, <2>3
<1>3. \E f : reads(f, L)
  BY <1>1, <1>2
<1> DEFINE best == CHOOSE f : reads(f, L)
<1>4. reads(best, L)
  BY <1>3
<1>5. FrontMonths(pull) = best[L]
  BY DEF FrontMonths
<1> HIDE DEF best
<1> QED BY <1>4, <1>5

(* so the front months are the best of all the bars,                         *)
LEMMA FrontIsBest ==
  ASSUME NEW pull \in Pulls
  PROVE  BestOf(FrontMonths(pull), pull, Len(pull.bars))
<1> DEFINE L == Len(pull.bars)
<1>1. L \in Nat
  BY PullTyped
<1>2. PICK best : /\ best = [n \in 0 .. L |-> IF n = 0 THEN <<>> ELSE Busier(best[n - 1], pull.bars[n])]
                  /\ FrontMonths(pull) = best[L]
  BY FrontMonthsRead
<1>3. best[0] = <<>> /\ \A n \in 1 .. L : best[n] = Busier(best[n - 1], pull.bars[n])
  BY <1>1, <1>2
<1> DEFINE bad == {n \in 0 .. L : ~BestOf(best[n], pull, n)}
<1>4. bad = {}
  <2> SUFFICES ASSUME bad # {} PROVE FALSE
    OBVIOUS
  <2>1. PICK m \in bad : \A o \in bad : m <= o
    <3>1. bad \subseteq Nat
      BY <1>1
    <3> HIDE DEF bad
    <3> QED BY <3>1, Least
  <2>2. CASE m = 0
    BY <2>1, <2>2, <1>3 DEF BestOf
  <2>3. CASE m # 0
    <3>1. m \in 1 .. L /\ m - 1 \in 0 .. L /\ ~(m <= m - 1)
      BY <1>1, <2>1, <2>3
    <3>2. BestOf(best[m - 1], pull, m - 1)
      BY <2>1, <3>1
    <3> QED BY <1>3, <2>1, <3>1, <3>2, BusierIsBest
  <2> QED BY <2>2, <2>3
<1>5. BestOf(best[L], pull, L)
  <2>1. L \in 0 .. L
    BY <1>1
  <2> QED BY <1>4, <2>1
<1> QED BY <1>2, <1>5

(* which is what IsFront asks of them.                                       *)
LEMMA FrontIsFront ==
  ASSUME NEW pull \in Pulls, NEW d \in DOMAIN FrontMonths(pull)
  PROVE  IsFront(d, FrontMonths(pull)[d])
<1> DEFINE front == FrontMonths(pull)
<1>1. BestOf(front, pull, Len(pull.bars)) /\ DOMAIN pull.bars = 1 .. Len(pull.bars)
  BY FrontIsBest, PullTyped
<1> HIDE DEF front
<1>2. PICK n \in DOMAIN pull.bars : front[d] = pull.bars[n] /\ pull.bars[n].day = d /\ Outright(front[d]) /\ Weekday(d)
  BY <1>1 DEF BestOf, front
<1>3. \A m \in DOMAIN pull.bars : pull.bars[m].day = d /\ ~pull.bars[m].spread /\ pull.bars[m].whole
        => pull.bars[m].volume <= front[d].volume
  BY <1>1, <1>2 DEF BestOf, Outright
<1> QED BY <1>2, <1>3 DEF IsFront, Outright, Weekday, front

(* The strengthening holds at the start.                                     *)
LEMMA LoadsInvInit == LoadsInit => LoadsInv
<1> SUFFICES ASSUME LoadsInit PROVE LoadsInv
  OBVIOUS
<1>1. /\ DOMAIN archive = {} /\ engineRows = {} /\ DOMAIN continuous = {}
      /\ pulling = NotRunning /\ loading = NotRunning /\ loads = 0
  BY DEF LoadsInit
<1>2. NotRunning.at = "idle"
  BY DEF NotRunning
<1> QED BY <1>1, <1>2, LoadsAssumption DEF LoadsInv, RebuildGoesWell, RebuildIsWhole

(* The rows of a file.                                                       *)
LEMMA KeysAre ==
  ASSUME NEW file, NEW rows
  PROVE  \A k \in KeysOf(file, rows) : DOMAIN k = {"sym", "day", "contract"} /\ k.day = file.day
BY DEF KeysOf

(* Rows may be added to the archive under a rebuild.                         *)
LEMMA MoreIsWhole ==
  ASSUME LoadsInv, DOMAIN archive \subseteq DOMAIN archive', loading' = loading
  PROVE  RebuildGoesWell' /\ RebuildIsWhole'
<1>1. RebuildGoesWell'
  BY DEF LoadsInv, RebuildGoesWell, Good, CountedTo
<1>2. RebuildIsWhole'
  <2>1. RebuildIsWhole
    BY DEF LoadsInv
  <2> QED BY ONLY RebuildIsWhole, DOMAIN archive \subseteq DOMAIN archive', loading' = loading DEF RebuildIsWhole
<1> QED BY <1>1, <1>2

(* What is written replaces what had its key.                                *)
LEMMA ReplacedIs ==
  ASSUME LoadsInv, NEW rows, Replaced(rows),
         \A k \in DOMAIN rows : DOMAIN k = {"sym", "day", "contract"}
                                /\ (rows[k] \notin {"vault", "recorder"} => KeepsItsName(k, rows[k]))
  PROVE  /\ DOMAIN archive' = DOMAIN archive \cup DOMAIN rows
         /\ \A k \in DOMAIN archive' : DOMAIN k = {"sym", "day", "contract"}
         /\ \A k \in DOMAIN archive' : archive'[k] \notin {"vault", "recorder"} => KeepsItsName(k, archive'[k])
<1>1. /\ DOMAIN archive' = DOMAIN archive \cup DOMAIN rows
      /\ \A k \in DOMAIN archive' : archive'[k] = IF k \in DOMAIN rows THEN rows[k] ELSE archive[k]
  BY DEF Replaced
<1> QED BY <1>1 DEF LoadsInv

(* A run that starts keeps it,                                               *)
LEMMA StartsImportKeeps ==
  ASSUME LoadsInv, NEW pull \in Pulls, NEW bars \in BOOLEAN, NEW targets, StartsImport(pull, bars, targets)
  PROVE  LoadsInv'
<1> DEFINE front == IF bars THEN FrontMonths(pull) ELSE <<>>
           p == [at |-> "opt", pull |-> pull, targets |-> targets, left |-> EmitDays(pull)]
<1>1. /\ loads' \in 0 .. MaxLoads /\ pulling' = p /\ UNCHANGED <<archive, engineRows, loading>>
      /\ continuous' = [d \in DOMAIN continuous \cup DOMAIN front |-> IF d \in DOMAIN front THEN front[d] ELSE continuous[d]]
  BY LoadsAssumption DEF StartsImport, LoadsInv
<1>2. p.at = "opt" /\ p.pull = pull /\ DOMAIN p = {"at", "pull", "targets", "left"}
  OBVIOUS
<1> HIDE DEF p
<1>3. \A d \in DOMAIN front : IsFront(d, front[d])
  BY FrontIsFront
<1> HIDE DEF front
<1>4. \A d \in DOMAIN continuous' : IsFront(d, continuous'[d])
  BY <1>1, <1>3 DEF LoadsInv
<1>5. RebuildGoesWell' /\ RebuildIsWhole'
  BY <1>1, MoreIsWhole
<1> QED BY <1>1, <1>2, <1>4, <1>5 DEF LoadsInv

(* a day it emits to the archive does,                                       *)
LEMMA EmitsDayKeeps ==
  ASSUME LoadsInv, EmitsDay
  PROVE  LoadsInv'
<1> DEFINE p == [pulling EXCEPT !.at = "engine"]
<1>1. /\ pulling.at = "opt" /\ pulling.at \in {"idle", "opt", "engine"} /\ pulling' = p
      /\ UNCHANGED <<engineRows, continuous, loading, loads>>
  BY DEF EmitsDay, LoadsInv
<1>2. pulling # NotRunning /\ DOMAIN pulling = {"at", "pull", "targets", "left"} /\ pulling.pull \in Pulls
  BY <1>1 DEF NotRunning, LoadsInv
<1>3. p.at = "engine" /\ p.pull = pulling.pull /\ DOMAIN p = {"at", "pull", "targets", "left"}
  BY <1>2
<1> HIDE DEF p
<1>4. PICK pull \in Pulls : pull = pulling.pull
  BY <1>2
<1>5. PICK day : day = Head(pulling.left)
  OBVIOUS
<1>6. PICK rows : rows = (IF "opt" \in pulling.targets THEN ChainOn(pull, day) ELSE <<>>)
  OBVIOUS
<1>7. Replaced(rows)
  BY <1>5, <1>4, <1>6 DEF EmitsDay
<1>8. \A k \in DOMAIN rows : DOMAIN k = {"sym", "day", "contract"} /\ KeepsItsName(k, rows[k])
  BY <1>6, ChainNames
<1>9. /\ DOMAIN archive \subseteq DOMAIN archive'
      /\ \A k \in DOMAIN archive' : DOMAIN k = {"sym", "day", "contract"}
      /\ \A k \in DOMAIN archive' : archive'[k] \notin {"vault", "recorder"} => KeepsItsName(k, archive'[k])
  BY <1>7, <1>8, ReplacedIs
<1>10. RebuildGoesWell' /\ RebuildIsWhole'
  BY <1>1, <1>9, MoreIsWhole
<1> QED BY <1>1, <1>2, <1>3, <1>9, <1>10 DEF LoadsInv

(* and one it emits to the engine store.                                     *)
LEMMA EmitsEngineDayKeeps ==
  ASSUME LoadsInv, EmitsEngineDay
  PROVE  LoadsInv'
<1> DEFINE p == [pulling EXCEPT !.at = "opt", !.left = Tail(pulling.left)]
<1>1. /\ pulling.at = "engine" /\ pulling' = p /\ UNCHANGED <<archive, continuous, loading, loads>>
  BY DEF EmitsEngineDay, LoadsInv
<1>2. pulling # NotRunning /\ DOMAIN pulling = {"at", "pull", "targets", "left"} /\ pulling.pull \in Pulls
  BY <1>1 DEF NotRunning, LoadsInv
<1>3. p.at = "opt" /\ p.pull = pulling.pull /\ DOMAIN p = {"at", "pull", "targets", "left"}
  BY <1>2
<1> HIDE DEF p
<1>4. PICK pull \in Pulls : pull = pulling.pull
  BY <1>2
<1>5. PICK day : day = Head(pulling.left)
  OBVIOUS
<1>6. engineRows' \subseteq engineRows \cup DOMAIN ChainOn(pull, day)
  BY <1>5, <1>4 DEF EmitsEngineDay
<1>7. \A k \in DOMAIN ChainOn(pull, day) : DOMAIN k = {"sym", "day", "contract"} /\ k.day \notin Saturdays
  BY ChainNames DEF KeepsItsName
<1>8. RebuildGoesWell' /\ RebuildIsWhole'
  BY <1>1, MoreIsWhole
<1> QED BY <1>1, <1>2, <1>3, <1>6, <1>7, <1>8 DEF LoadsInv

(* A rebuild begins with an empty archive ...                                *)
LEMMA StartsLoadKeeps ==
  ASSUME LoadsInv, StartsLoad
  PROVE  LoadsInv'
<1>1. loads' \in 0 .. MaxLoads /\ archive' = <<>> /\ DOMAIN archive' = {} /\ UNCHANGED <<engineRows, continuous, pulling>>
  BY LoadsAssumption DEF StartsLoad, LoadsInv
<1>2. PICK asked : loading' = [at |-> "files", asked |-> asked, next |-> 1, batch |-> {}, seen |-> {}]
  BY DEF StartsLoad
<1> DEFINE l == [at |-> "files", asked |-> asked, next |-> 1, batch |-> {}, seen |-> {}]
<1>3. /\ l.at = "files" /\ l.next = 1 /\ l.batch = {} /\ l.seen = {} /\ l.asked = asked
      /\ DOMAIN l = {"at", "asked", "next", "batch", "seen"}
  OBVIOUS
<1>4. loading' = l
  BY <1>2
<1> HIDE DEF l
<1>5. Len(VaultFiles) \in Nat
  BY LoadsAssumption
<1>6. RebuildGoesWell'
  <2>1. CountedTo(0)' = {}
    BY DEF CountedTo
  <2>2. 1 .. 1 - 1 = {} /\ 1 \in 1 .. Len(VaultFiles) + 1 /\ 1 - 1 = 0
    BY <1>5
  <2>3. CountedTo(loading.next - 1)' = CountedTo(0)'
    BY <1>3, <1>4, <2>2 DEF CountedTo
  <2> QED BY <1>1, <1>3, <1>4, <2>1, <2>2, <2>3 DEF RebuildGoesWell
<1>7. RebuildIsWhole'
  BY <1>3, <1>4 DEF RebuildIsWhole
<1> QED BY <1>1, <1>6, <1>7 DEF LoadsInv

(* ... reads its files ...                                                   *)
LEMMA LoadsFileKeeps ==
  ASSUME LoadsInv, LoadsFile
  PROVE  LoadsInv'
<1>1. /\ loading.at = "files" /\ DOMAIN loading = {"at", "asked", "next", "batch", "seen"}
      /\ loading.next \in 1 .. Len(VaultFiles) + 1 /\ loading.next <= Len(VaultFiles)
      /\ loading.seen = CountedTo(loading.next - 1)
      /\ UNCHANGED <<continuous, pulling, loads>>
      /\ Len(VaultFiles) \in Nat /\ DOMAIN VaultFiles = 1 .. Len(VaultFiles)
  BY LoadsAssumption DEF LoadsFile, LoadsInv, RebuildGoesWell
<1>2. PICK n \in DOMAIN VaultFiles : n = loading.next
  BY <1>1
<1>3. PICK file : file = VaultFiles[n]
  OBVIOUS
<1>4. PICK read, all : read = KeysOf(file, ReadOf(file)) /\ all = loading.batch \cup {k \in read : k.day >= CutOff}
  OBVIOUS
<1> DEFINE counted == {n} \X {r \in ReadOf(file) : r.twoSided /\ r.bucket > 0}
<1>5. PICK keep \in SUBSET all :
        /\ Replaced(FromVault(all \ keep))
        /\ loading' = [loading EXCEPT !.next = n + 1, !.batch = keep, !.seen = loading.seen \cup counted]
  BY <1>2, <1>3, <1>4 DEF LoadsFile
<1>6. engineRows' = engineRows \cup
        IF file.fault = "none" /\ file.day >= EngineFrom /\ file.sym \in EngineSyms THEN read ELSE {}
  BY <1>2, <1>3, <1>4 DEF LoadsFile
<1> HIDE DEF counted
<1> DEFINE l == [loading EXCEPT !.next = n + 1, !.batch = keep, !.seen = loading.seen \cup counted]
<1>7. /\ l.at = "files" /\ l.next = n + 1 /\ l.batch = keep /\ l.seen = loading.seen \cup counted /\ l.asked = loading.asked
      /\ DOMAIN l = {"at", "asked", "next", "batch", "seen"} /\ loading' = l
  BY <1>1, <1>5
<1> HIDE DEF l
<1>8. \A k \in read : DOMAIN k = {"sym", "day", "contract"} /\ k.day = file.day
  BY <1>4, KeysAre
<1>9. \A k \in all : DOMAIN k = {"sym", "day", "contract"}
  BY <1>1, <1>4, <1>8 DEF LoadsInv, RebuildGoesWell
<1>10. DOMAIN FromVault(all \ keep) = all \ keep /\ \A k \in all \ keep : FromVault(all \ keep)[k] = "vault"
  BY DEF FromVault
<1>11. /\ DOMAIN archive' = DOMAIN archive \cup (all \ keep)
       /\ \A k \in DOMAIN archive' : DOMAIN k = {"sym", "day", "contract"}
       /\ \A k \in DOMAIN archive' : archive'[k] \notin {"vault", "recorder"} => KeepsItsName(k, archive'[k])
  <2>1. PICK rows : rows = FromVault(all \ keep)
    OBVIOUS
  <2>2. Replaced(rows) /\ DOMAIN rows = all \ keep /\ \A k \in DOMAIN rows : rows[k] = "vault"
    BY <1>5, <1>10, <2>1
  <2>3. \A k \in DOMAIN rows : DOMAIN k = {"sym", "day", "contract"}
                               /\ (rows[k] \notin {"vault", "recorder"} => KeepsItsName(k, rows[k]))
    BY <1>9, <2>2
  <2> QED BY <2>2, <2>3, ReplacedIs
<1>12. \A k \in engineRows' : DOMAIN k = {"sym", "day", "contract"} /\ k.day \notin Saturdays
  <2>1. file.fault = "none" => file.day \notin Saturdays
    BY <1>3, LoadsAssumption
  <2> QED BY <1>6, <1>8, <2>1 DEF LoadsInv
<1>13. ReadOf(file) = IF Good(n) THEN file.rows ELSE {}
  BY <1>3 DEF ReadOf, Good
<1>14. \A m : Good(m)' <=> Good(m)
  BY <1>7 DEF Good
<1>15. RebuildGoesWell'
  <2>1. ASSUME NEW m \in 1 .. n, Good(m), VaultFiles[m].day >= CutOff
        PROVE  KeysOf(VaultFiles[m], VaultFiles[m].rows) \subseteq DOMAIN archive' \cup keep
    <3>1. CASE m = n
      <4>1. read = KeysOf(VaultFiles[m], VaultFiles[m].rows)
        BY <1>3, <1>4, <1>13, <2>1, <3>1
      <4>2. read \subseteq all
        BY <1>3, <1>4, <1>8, <2>1, <3>1
      <4> QED BY <1>11, <4>1, <4>2
    <3>2. CASE m # n
      <4>1. m \in 1 .. loading.next - 1
        BY <1>1, <1>2, <3>2
      <4>2. KeysOf(VaultFiles[m], VaultFiles[m].rows) \subseteq DOMAIN archive \cup loading.batch
        BY <1>1, <2>1, <4>1 DEF LoadsInv, RebuildGoesWell
      <4> QED BY <1>4, <1>11, <4>2
    <3> QED BY <3>1, <3>2
  <2>2. l.seen = CountedTo(n)
    <3>1. counted = IF Good(n) THEN Counts(n) ELSE {}
      BY <1>3, <1>13 DEF counted, Counts
    <3>2. CountedTo(n) = CountedTo(n - 1) \cup IF Good(n) THEN Counts(n) ELSE {}
      <4>1. {i \in 1 .. n : Good(i)} = {i \in 1 .. n - 1 : Good(i)} \cup IF Good(n) THEN {n} ELSE {}
        BY <1>1
      <4> QED BY <4>1 DEF CountedTo
    <3> QED BY <1>1, <1>2, <1>7, <3>1, <3>2
  <2>3. CountedTo(n)' = CountedTo(n)
    BY <1>14 DEF CountedTo
  <2>4. n + 1 \in 1 .. Len(VaultFiles) + 1 /\ n + 1 - 1 = n
    BY <1>1
  <2>5. CountedTo(loading.next - 1)' = CountedTo(n)'
    <3>1. (1 .. loading.next - 1)' = 1 .. n
      BY <1>7, <2>4
    <3> QED BY <3>1 DEF CountedTo
  <2>6. \A k \in keep : DOMAIN k = {"sym", "day", "contract"}
    BY <1>5, <1>9
  <2> QED BY <1>7, <1>14, <2>1, <2>2, <2>3, <2>4, <2>5, <2>6 DEF RebuildGoesWell
<1>16. RebuildIsWhole'
  BY <1>7 DEF RebuildIsWhole
<1> QED BY <1>1, <1>11, <1>12, <1>15, <1>16 DEF LoadsInv

(* ... and ends with its last batch and the bands.                           *)
LEMMA EndsLoadKeeps ==
  ASSUME LoadsInv, EndsLoad
  PROVE  LoadsInv'
<1>1. /\ loading.at = "files" /\ loading.next \in 1 .. Len(VaultFiles) + 1 /\ loading.next > Len(VaultFiles)
      /\ loading.seen = CountedTo(loading.next - 1)
      /\ UNCHANGED <<engineRows, continuous, pulling, loads>>
      /\ Len(VaultFiles) \in Nat /\ DOMAIN VaultFiles = 1 .. Len(VaultFiles)
  BY LoadsAssumption DEF EndsLoad, LoadsInv, RebuildGoesWell
<1>2. PICK batch, obs : batch = loading.batch /\ obs = loading.seen
  OBVIOUS
<1>3. loading.next - 1 = Len(VaultFiles)
  BY <1>1
<1>4. obs = CountedTo(Len(VaultFiles))
  BY <1>1, <1>2, <1>3
<1> DEFINE band(o) == [sym |-> VaultFiles[o[1]].sym, bucket |-> o[2].bucket]
           of(b) == {o \in obs : band(o) = b}
           bands == {b \in {band(o) : o \in obs} : Cardinality(of(b)) >= MinBand}
           l == [at |-> "done", asked |-> loading.asked, bands |-> bands]
<1>5. Replaced(FromVault(batch)) /\ loading' = l
  BY <1>2 DEF EndsLoad, LastBatch
<1>6. l.at = "done" /\ l.asked = loading.asked /\ l.bands = bands
  OBVIOUS
<1> HIDE DEF l
<1>7. \A k \in batch : DOMAIN k = {"sym", "day", "contract"}
  BY <1>1, <1>2 DEF LoadsInv, RebuildGoesWell
<1>8. /\ DOMAIN archive' = DOMAIN archive \cup batch
      /\ \A k \in DOMAIN archive' : DOMAIN k = {"sym", "day", "contract"}
      /\ \A k \in DOMAIN archive' : archive'[k] \notin {"vault", "recorder"} => KeepsItsName(k, archive'[k])
  <2>1. PICK rows : rows = FromVault(batch)
    OBVIOUS
  <2>2. Replaced(rows) /\ DOMAIN rows = batch /\ \A k \in DOMAIN rows : rows[k] = "vault"
    BY <1>5, <2>1 DEF FromVault
  <2>3. \A k \in DOMAIN rows : DOMAIN k = {"sym", "day", "contract"}
                               /\ (rows[k] \notin {"vault", "recorder"} => KeepsItsName(k, rows[k]))
    BY <1>7, <2>2
  <2> QED BY <2>2, <2>3, ReplacedIs
<1>9. RebuildGoesWell'
  BY <1>5, <1>6 DEF RebuildGoesWell
<1> DEFINE good == {n \in DOMAIN VaultFiles : VaultFiles[n].fault # "header" /\ VaultFiles[n].sym \in loading'.asked}
           twoSided(b) == {p \in good \X UNION {VaultFiles[n].rows : n \in good} :
                             /\ p[2] \in VaultFiles[p[1]].rows /\ p[2].twoSided
                             /\ VaultFiles[p[1]].sym = b.sym /\ p[2].bucket = b.bucket}
<1>10. \A o : o \in obs <=> \E n \in good : \E r \in VaultFiles[n].rows : o = <<n, r>> /\ r.twoSided /\ r.bucket > 0
  <2>1. good = {i \in 1 .. Len(VaultFiles) : Good(i)}
    BY <1>1, <1>5, <1>6 DEF Good
  <2>2. \A o, n : o \in Counts(n) <=> \E r \in VaultFiles[n].rows : o = <<n, r>> /\ r.twoSided /\ r.bucket > 0
    BY DEF Counts
  <2> HIDE DEF good
  <2>3. \A o : o \in obs <=> \E n \in good : o \in Counts(n)
    BY <1>4, <2>1 DEF CountedTo
  <2> QED BY <2>2, <2>3
<1>11. \A n \in good : VaultFiles[n].day >= CutOff =>
         KeysOf(VaultFiles[n], VaultFiles[n].rows) \subseteq DOMAIN archive \cup batch
  <2>1. \A n \in good : Good(n) /\ n \in 1 .. loading.next - 1
    BY <1>1, <1>3, <1>5, <1>6 DEF Good
  <2> HIDE DEF good
  <2> QED BY <1>1, <1>2, <2>1 DEF LoadsInv, RebuildGoesWell
<1>12. ASSUME NEW n \in good, NEW r \in VaultFiles[n].rows, NEW b, b = [sym |-> VaultFiles[n].sym, bucket |-> r.bucket]
       PROVE  b \in bands <=> r.bucket > 0 /\ Cardinality(twoSided(b)) >= MinBand
  <2>1. b.sym = VaultFiles[n].sym /\ b.bucket = r.bucket
    BY <1>12
  <2>2. \A m, q : [sym |-> VaultFiles[m].sym, bucket |-> q.bucket] = b <=> VaultFiles[m].sym = b.sym /\ q.bucket = b.bucket
    <3> SUFFICES ASSUME NEW m, NEW q
                 PROVE  [sym |-> VaultFiles[m].sym, bucket |-> q.bucket] = b <=> VaultFiles[m].sym = b.sym /\ q.bucket = b.bucket
      OBVIOUS
    <3> QED BY <1>12, <2>1
  <2>3. \A m, q : band(<<m, q>>) = [sym |-> VaultFiles[m].sym, bucket |-> q.bucket]
    OBVIOUS
  <2>4. \A o : o \in of(b) <=> \E m \in good : \E q \in VaultFiles[m].rows :
                  o = <<m, q>> /\ q.twoSided /\ q.bucket > 0 /\ VaultFiles[m].sym = b.sym /\ q.bucket = b.bucket
    <3> HIDE DEF good
    <3> SUFFICES ASSUME NEW o
                 PROVE  o \in obs /\ band(o) = b <=> \E m \in good : \E q \in VaultFiles[m].rows :
                  o = <<m, q>> /\ q.twoSided /\ q.bucket > 0 /\ VaultFiles[m].sym = b.sym /\ q.bucket = b.bucket
      OBVIOUS
    <3>1. ASSUME NEW m \in good, NEW q \in VaultFiles[m].rows, o = <<m, q>>
          PROVE  band(o) = b <=> VaultFiles[m].sym = b.sym /\ q.bucket = b.bucket
      <4>1. band(o) = [sym |-> VaultFiles[m].sym, bucket |-> q.bucket]
        BY <3>1
      <4> HIDE DEF band
      <4> QED BY <2>2, <4>1
    <3> HIDE DEF band
    <3> QED BY <1>10, <3>1
  <2>5. \A o : o \in twoSided(b) <=> \E m \in good : \E q \in VaultFiles[m].rows :
                  o = <<m, q>> /\ q.twoSided /\ VaultFiles[m].sym = b.sym /\ q.bucket = b.bucket
    <3> HIDE DEF good
    <3> QED OBVIOUS
  <2>6. CASE r.bucket > 0
    <3>1. \A o : o \in of(b) <=> o \in twoSided(b)
      <4> HIDE DEF of, twoSided, good
      <4> SUFFICES ASSUME NEW o PROVE o \in of(b) <=> o \in twoSided(b)
        OBVIOUS
      <4>1. \A q : q.bucket = b.bucket => q.bucket > 0
        BY <2>1, <2>6
      <4> QED BY <2>4, <2>5, <4>1
    <3>4. of(b) = twoSided(b)
      <4> HIDE DEF of, twoSided, good
      <4> QED BY <3>1
    <3>2. Cardinality(of(b)) >= MinBand => of(b) # {}
      <4>1. Cardinality({}) = 0
        BY FS_EmptySet
      <4>2. MinBand \in Nat /\ MinBand # 0
        BY LoadsAssumption
      <4>3. ~(0 >= MinBand)
        BY <4>2
      <4> HIDE DEF of
      <4> QED BY <4>1, <4>3
    <3>3. of(b) # {} => b \in {band(o) : o \in obs}
      OBVIOUS
    <3> HIDE DEF of, twoSided, band
    <3> QED BY <2>6, <3>2, <3>3, <3>4
  <2>7. CASE ~(r.bucket > 0)
    <3>1. of(b) = {}
      <4> HIDE DEF of, good
      <4> QED BY <2>1, <2>4, <2>7
    <3>2. b \in bands => of(b) # {}
      OBVIOUS
    <3> QED BY <2>7, <3>1, <3>2
  <2> QED BY <2>6, <2>7
<1>13. RebuildIsWhole'
  <2> HIDE DEF bands
  <2>1. loading'.bands = bands
    BY <1>5, <1>6
  <2> SUFFICES /\ \A n \in good : VaultFiles[n].day >= CutOff =>
                    KeysOf(VaultFiles[n], VaultFiles[n].rows) \subseteq DOMAIN archive'
               /\ \A n \in good : \A r \in VaultFiles[n].rows :
                    LET b == [sym |-> VaultFiles[n].sym, bucket |-> r.bucket] IN
                    b \in loading'.bands <=> r.bucket > 0 /\ Cardinality(twoSided(b)) >= MinBand
    BY DEF RebuildIsWhole
  <2> HIDE DEF good
  <2>2. \A n \in good : VaultFiles[n].day >= CutOff => KeysOf(VaultFiles[n], VaultFiles[n].rows) \subseteq DOMAIN archive'
    BY <1>8, <1>11
  <2>3. ASSUME NEW n \in good, NEW r \in VaultFiles[n].rows
        PROVE  LET b == [sym |-> VaultFiles[n].sym, bucket |-> r.bucket] IN
               b \in loading'.bands <=> r.bucket > 0 /\ Cardinality(twoSided(b)) >= MinBand
    <3>1. PICK b : b = [sym |-> VaultFiles[n].sym, bucket |-> r.bucket]
      OBVIOUS
    <3>2. b \in bands <=> r.bucket > 0 /\ Cardinality(twoSided(b)) >= MinBand
      BY <1>12, <3>1
    <3> HIDE DEF twoSided
    <3> QED BY <2>1, <3>1, <3>2
  <2> HIDE DEF twoSided
  <2> QED BY <2>2, <2>3
<1> QED BY <1>1, <1>8, <1>9, <1>13 DEF LoadsInv

(* The recorder adds a row; a tool ends, or dies.                            *)
LEMMA LoadsRest ==
  ASSUME LoadsInv, RecorderAppends \/ EndsImport \/ ToolDies \/ UNCHANGED loadVars
  PROVE  LoadsInv'
<1>1. CASE RecorderAppends
  <2>1. PICK k \in Snapshots : Replaced([s \in {k} |-> "recorder"])
    BY <1>1 DEF RecorderAppends
  <2>2. DOMAIN k = {"sym", "day", "contract"}
    <3>1. k \in [sym : STRING, day : Nat, contract : STRING]
      BY LoadsAssumption
    <3> QED BY <3>1
  <2>3. PICK rows : rows = [s \in {k} |-> "recorder"]
    OBVIOUS
  <2>4. Replaced(rows) /\ \A s \in DOMAIN rows : DOMAIN s = {"sym", "day", "contract"} /\ rows[s] = "recorder"
    BY <2>1, <2>2, <2>3
  <2>5. /\ DOMAIN archive \subseteq DOMAIN archive'
        /\ \A s \in DOMAIN archive' : DOMAIN s = {"sym", "day", "contract"}
        /\ \A s \in DOMAIN archive' : archive'[s] \notin {"vault", "recorder"} => KeepsItsName(s, archive'[s])
    BY <2>4, ReplacedIs
  <2>6. UNCHANGED <<engineRows, continuous, pulling, loading, loads>>
    BY <1>1 DEF RecorderAppends
  <2>7. RebuildGoesWell' /\ RebuildIsWhole'
    BY <2>5, <2>6, MoreIsWhole
  <2> QED BY <2>5, <2>6, <2>7 DEF LoadsInv
<1>2. CASE EndsImport \/ ToolDies \/ UNCHANGED loadVars
  <2>1. /\ UNCHANGED <<archive, engineRows, continuous, loads>> /\ pulling' \in {pulling, NotRunning}
        /\ loading' \in {loading, NotRunning}
    BY <1>2 DEF EndsImport, ToolDies, loadVars
  <2>2. NotRunning.at = "idle"
    BY DEF NotRunning
  <2>3. RebuildGoesWell' /\ RebuildIsWhole'
    <3>1. CASE loading' = loading
      BY <2>1, <3>1, MoreIsWhole
    <3>2. CASE loading' = NotRunning
      BY <2>2, <3>2 DEF RebuildGoesWell, RebuildIsWhole
    <3> QED BY <2>1, <3>1, <3>2
  <2> QED BY <2>1, <2>2, <2>3 DEF LoadsInv
<1> QED BY <1>1, <1>2

(* Every step keeps the invariant.                                           *)
LEMMA LoadsInvStep ==
  ASSUME LoadsInv, [LoadsNext]_loadVars
  PROVE  LoadsInv'
BY StartsImportKeeps, EmitsDayKeeps, EmitsEngineDayKeeps, StartsLoadKeeps, LoadsFileKeeps, EndsLoadKeeps, LoadsRest
DEF LoadsNext

-----------------------------------------------------------------------------
(* The stores together *)

(* The four stores together.                                                 *)
StoresInv ==
  /\ part \in {"deep", "jobs", "rounds", "archive"}
  /\ DeepInv /\ JobsInv /\ RoundInv /\ LoadsInv

(* They hold at the start.                                                   *)
LEMMA StoresInvInit == StoresInit => StoresInv
BY DeepInvInit, JobsInvInit, RoundInvInit, LoadsInvInit DEF StoresInit, NoDeep, StoresInv

(* The daily bars of a symbol have no hole, and none before them once the    *)
(* head has been walked (depth.fill, depth.Deepener): whichever feeds have   *)
(* answered, wherever an exception or a death cut a fill off.                *)
THEOREM HistoryStaysUnbroken == StoresSpec => []HistoryUnbroken
<1>1. StoresInit => DeepInv
  BY DeepInvInit DEF StoresInit, NoDeep
<1>2. DeepInv /\ [StoresNext]_storesVars => DeepInv'
  BY DeepInvStep DEF StoresNext, storesVars
<1>3. DeepInv => HistoryUnbroken
  BY DeepInvHolds
<1> QED BY <1>1, <1>2, <1>3, PTL DEF StoresSpec

(* A store holds what its jobs say they put there, and no more: whatever     *)
(* pull, sync, import, round or rebuild was under way with whatever other    *)
(* (btdata, datajobs.py, Recorder.run_due_jobs, databento_import.py,         *)
(* loadhist.py).                                                             *)
THEOREM StoresAreTrue == StoresSpec => []StoreIsTrue
<1>1. StoresInv /\ [StoresNext]_storesVars => StoresInv'
  <2> SUFFICES ASSUME StoresInv, [StoresNext]_storesVars PROVE StoresInv'
    OBVIOUS
  <2>1. [DeepNext]_deepVars /\ [JobsNext]_jobsVars /\ [RoundsNext]_roundVars /\ [LoadsNext]_loadVars
    BY DEF StoresNext, storesVars
  <2>2. part' = part
    BY DEF StoresNext, storesVars
  <2> QED BY <2>1, <2>2, DeepInvStep, JobsInvStep, RoundInvStep, LoadsInvStep DEF StoresInv
<1>2. StoresInv => StoreIsTrue
  <2>1. DeepInv => DeepTypeOK
    BY DeepInvHolds
  <2> QED BY <2>1, JobsInvHolds, RoundInvHolds, LoadsInvHolds DEF StoresInv, StoreIsTrue
<1> QED BY StoresInvInit, <1>1, <1>2, PTL DEF StoresSpec

=============================================================================
