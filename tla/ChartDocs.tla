----------------------------- MODULE ChartDocs -----------------------------
(***************************************************************************)
(* The drawings of a chart: the buckets the engine of a tab keeps, one for *)
(* each chart key, with their load and their debounced save (renderer/src/ *)
(* components/ChartDraw.ts, chartStore.ts), and the rows they are kept in  *)
(* (backend/chartobjects.py).  A save of a document without objects        *)
(* deletes the row.                                                        *)
(***************************************************************************)
EXTENDS Naturals, Sequences, FiniteSets, FiniteSetsExt

CONSTANTS
  ChartKeys,
  Drawn,      (* documents an engine can come to hold                       *)
  Orderly,    (* TRUE: requests are served in the order they were sent, and *)
              (* a load is answered or has failed before its chart is       *)
              (* touched, switched away from or closed                      *)
  MaxTouches  (* bounds edits, switches, failures and restarts              *)

ASSUME ChartAssumption == Orderly \in BOOLEAN /\ MaxTouches \in Nat /\ "none" \notin ChartKeys

VARIABLES
  rows,      (* chart_objects: the stored document, or NoDoc                *)
  bucket,    (* sessionStore                                                *)
  load,      (* loadedKeys: "no", "asked", "answered" or "done"             *)
  answer,    (* what the server answered                                    *)
  saved,     (* savedDocs: what was last handed to the store, or NoDoc      *)
  engine,    (* the key of the engine, or none when it is destroyed         *)
  timer,     (* a save is debouncing                                        *)
  puts,      (* the saves in flight, served in the order they were sent     *)
  cleared,   (* keys the user has removed everything from                   *)
  touches

chartVars == <<rows, bucket, load, answer, saved, engine, timer, puts, cleared, touches>>

-----------------------------------------------------------------------------
(* chartobjects.validate.  A document is a record of sets of objects; NaN    *)
(* stands for a number JSON cannot carry.                                    *)
NaN  == 99
none == "none"
EmptyDoc == [drawings |-> {}, measures |-> {}, pins |-> {}, constraints |-> {}, legs |-> {}, preset |-> none]
NoDoc    == [EmptyDoc EXCEPT !.preset = "no row"]

Finite(x) == x # NaN
Time(t)   == Finite(t) /\ t > 0
POINTS_FOR == [trend |-> 2, hline |-> 1, vline |-> 1, circle |-> 2]
LIMITS == [dteTol |-> 60, strikeTol |-> 50, slot |-> 63]

Objects(doc) == doc.drawings \cup doc.measures \cup doc.pins \cup doc.constraints \cup doc.legs
Blank(doc) == Objects(doc) = {}   (* isEmptyBucket                         *)
UniqueIds(doc) ==
  Cardinality({o.id : o \in Objects(doc)}) =
    Cardinality(doc.drawings) + Cardinality(doc.measures) + Cardinality(doc.pins)
      + Cardinality(doc.constraints) + Cardinality(doc.legs)

DrawingOK(d) ==
  /\ d.kind \in DOMAIN POINTS_FOR /\ Len(d.points) = POINTS_FOR[d.kind]
  /\ \A i \in DOMAIN d.points : Time(d.points[i].time) /\ Finite(d.points[i].price)
AnchorOK(a) == (* a line anchor may name a drawing that is gone             *)
  /\ a.kind \in {"candle", "free", "line"} /\ Time(a.time)
  /\ a.kind # "candle" => Finite(a.price)
MeasureOK(m) ==
  /\ AnchorOK(m.a) /\ AnchorOK(m.b)
  /\ m.place.axis \in {none, "time", "price"}
  /\ IF m.place.axis = "time" THEN Time(m.place.at) ELSE Finite(m.place.at)
PinOK(p) == Time(p.time)

(* A constraint must name drawings of its own document.                      *)
ConstraintOK(c, doc) ==
  LET known == {d.id : d \in doc.drawings} IN
  /\ c.kind \in {"fixed", "on", "slope"} /\ c.a \in known
  /\ IF c.kind = "on" THEN c.b \in known \ {c.a} ELSE c.b = none
  /\ IF c.kind = "slope" THEN c.part = "line" /\ Finite(c.value) ELSE c.value = 0

(* A leg need not: its hosts may be gone, and it runs on what it holds.      *)
LegOK(l) ==
  /\ l.side \in {"buy", "sell"} /\ l.right \in {"P", "C"} /\ l.dated
  /\ Finite(l.strike) /\ l.strike > 0
  /\ \A f \in DOMAIN LIMITS : l[f] \in 0 .. LIMITS[f]

Valid(doc) ==
  /\ UniqueIds(doc)
  /\ \A d \in doc.drawings : DrawingOK(d)
  /\ \A m \in doc.measures : MeasureOK(m)
  /\ \A p \in doc.pins : PinOK(p)
  /\ \A c \in doc.constraints : ConstraintOK(c, doc)
  /\ \A l \in doc.legs : LegOK(l)

(* Mutant: the legs are forgotten among the collections.                     *)
IsEmpty_NoLegs(doc) == Objects(doc) \ doc.legs = {}

IsEmpty(doc) == Objects(doc) = {}

(* get and put.  A preset alone is no document worth a row.                  *)
Get(k) == IF rows[k] = NoDoc THEN EmptyDoc ELSE rows[k]
Put(k, doc) == rows' = [rows EXCEPT ![k] = IF IsEmpty(doc) THEN NoDoc ELSE doc]
ListKeys == {k \in ChartKeys : rows[k] # NoDoc}

-----------------------------------------------------------------------------
ChartInit ==
  /\ rows \in [ChartKeys -> {doc \in Drawn : Valid(doc) /\ ~IsEmpty(doc)} \cup {NoDoc}]
  /\ bucket = [k \in ChartKeys |-> EmptyDoc] /\ answer = bucket
  /\ load = [k \in ChartKeys |-> "no"] /\ saved = [k \in ChartKeys |-> NoDoc]
  /\ engine = none /\ timer = FALSE /\ puts = <<>> /\ cleared = {} /\ touches = 0

ChartTypeOK ==
  /\ \A k \in ChartKeys : /\ rows[k] \in Drawn \cup {NoDoc} /\ rows[k] # EmptyDoc
                           /\ {bucket[k], answer[k]} \subseteq Drawn \cup {EmptyDoc}
                           /\ saved[k] \in Drawn \cup {EmptyDoc, NoDoc}
                           /\ load[k] \in {"no", "asked", "answered", "done"}
  /\ engine \in ChartKeys \cup {none} /\ (timer => engine # none)
  /\ ListKeys \subseteq ChartKeys /\ touches \in 0 .. MaxTouches

Touch == touches < MaxTouches /\ touches' = touches + 1
Loading(k) == load[k] \in {"asked", "answered"}
Settled == Orderly => ~ \E k \in ChartKeys : Loading(k)

(* saveNow: believed saved before it is.                                     *)
SaveNow(k) ==
  IF bucket[k] = saved[k] THEN UNCHANGED <<saved, puts>>
  ELSE /\ saved' = [saved EXCEPT ![k] = bucket[k]]
       /\ puts' = Append(puts, [key |-> k, doc |-> bucket[k]])

(* flushSave: what the engine has not saved is saved now.                    *)
FlushSave == IF engine = none THEN UNCHANGED <<saved, puts>> ELSE SaveNow(engine)

(* hydrate asks once for a key, and never again.                             *)
Hydrate(k) == load' = [load EXCEPT ![k] = IF @ = "no" THEN "asked" ELSE @]

(* The constructor, and setKey, which flushes the key it leaves and emits.   *)
Open(k) ==
  /\ Settled /\ engine # k /\ Touch
  /\ FlushSave /\ Hydrate(k)
  /\ engine' = k /\ timer' = (engine # none \/ load[k] = "done")
  /\ UNCHANGED <<rows, bucket, answer, cleared>>

Destroy ==
  /\ Settled /\ engine # none
  /\ FlushSave /\ engine' = none /\ timer' = FALSE
  /\ UNCHANGED <<rows, bucket, load, answer, cleared, touches>>

LoadServed(k) ==
  /\ load[k] = "asked"
  /\ Orderly => \A i \in DOMAIN puts : puts[i].key # k
  /\ load' = [load EXCEPT ![k] = "answered"] /\ answer' = [answer EXCEPT ![k] = Get(k)]
  /\ UNCHANGED <<rows, bucket, saved, engine, timer, puts, cleared, touches>>

(* What the user has drawn meanwhile wins.  Either way the engine commits.   *)
LoadArrives(k) ==
  /\ load[k] = "answered" /\ load' = [load EXCEPT ![k] = "done"]
  /\ IF Blank(bucket[k])
     THEN bucket' = [bucket EXCEPT ![k] = answer[k]] /\ saved' = [saved EXCEPT ![k] = answer[k]]
     ELSE UNCHANGED <<bucket, saved>>
  /\ timer' = (timer \/ engine = k)
  /\ UNCHANGED <<rows, answer, engine, puts, cleared, touches>>

(* The error is swallowed, and the engine commits as well.                   *)
LoadFails(k) ==
  /\ load[k] = "asked" /\ Touch
  /\ load' = [load EXCEPT ![k] = "done"] /\ timer' = (timer \/ engine = k)
  /\ UNCHANGED <<rows, bucket, answer, saved, engine, puts, cleared>>

(* commit: an edit, of which the last object may go; emit alone: a tool or   *)
(* the selection changes.                                                    *)
Commit(doc) ==
  /\ Settled /\ engine # none /\ doc # bucket[engine] /\ Touch
  /\ bucket' = [bucket EXCEPT ![engine] = doc] /\ timer' = TRUE
  /\ cleared' = IF Blank(doc) THEN cleared \cup {engine} ELSE cleared
  /\ UNCHANGED <<rows, load, answer, saved, engine, puts>>

Emit ==
  /\ Settled /\ engine # none /\ ~timer /\ timer' = TRUE
  /\ UNCHANGED <<rows, bucket, load, answer, saved, engine, puts, cleared, touches>>

ScheduledSave ==
  /\ Settled /\ timer /\ timer' = FALSE /\ SaveNow(engine)
  /\ UNCHANGED <<rows, bucket, load, answer, engine, cleared, touches>>

(* A refused or a failed save is forgotten: the next emit tries again.       *)
PutServed ==
  /\ puts # <<>> /\ puts' = Tail(puts)
  /\ IF Valid(Head(puts).doc)
     THEN Put(Head(puts).key, Head(puts).doc) /\ UNCHANGED saved
     ELSE saved' = [saved EXCEPT ![Head(puts).key] = NoDoc] /\ UNCHANGED rows
  /\ UNCHANGED <<bucket, load, answer, engine, timer, cleared, touches>>

PutFails ==
  /\ puts # <<>> /\ puts' = Tail(puts) /\ Touch
  /\ saved' = [saved EXCEPT ![Head(puts).key] = NoDoc]
  /\ UNCHANGED <<rows, bucket, load, answer, engine, timer, cleared>>

(* The tab reloads: what it had not sent is gone.                            *)
Reload ==
  /\ Touch /\ bucket' = [k \in ChartKeys |-> EmptyDoc] /\ answer' = bucket'
  /\ load' = [k \in ChartKeys |-> "no"] /\ saved' = [k \in ChartKeys |-> NoDoc]
  /\ engine' = none /\ timer' = FALSE /\ puts' \in {puts, <<>>} /\ cleared' = cleared
  /\ UNCHANGED rows

ChartNext ==
  \/ \E k \in ChartKeys : Open(k)
  \/ Destroy
  \/ \E k \in ChartKeys : LoadServed(k)
  \/ \E k \in ChartKeys : LoadArrives(k)
  \/ \E k \in ChartKeys : LoadFails(k)
  \/ \E doc \in Drawn : Commit(doc)
  \/ Emit
  \/ ScheduledSave
  \/ PutServed
  \/ PutFails
  \/ Reload

-----------------------------------------------------------------------------
(* Once an engine has nothing left to send for a chart - no debounce, no     *)
(* save in flight - what it believes saved is what is stored, also when the  *)
(* chart was switched or closed within the debounce and when saves failed    *)
(* before: nothing that was drawn waits for an edit that may never come.     *)
SavedIsStored ==
  \A k \in ChartKeys :
    /\ load[k] = "done" /\ ~(timer /\ engine = k)
    /\ \A i \in DOMAIN puts : puts[i].key # k
    /\ saved[k] # NoDoc
    => /\ bucket[k] = saved[k]
       /\ rows[k] = IF Blank(bucket[k]) THEN NoDoc ELSE bucket[k]

(* A stored chart is deleted only because its user removed everything from   *)
(* it ("Clearing a chart removes the row").  Does not hold: an engine that   *)
(* is switched away, closed or emits while its load is out - or after the    *)
(* load has failed - saves the blank bucket it started with.                 *)
OnlyClearingDeletes ==
  [][\A k \in ChartKeys : rows[k] # NoDoc /\ rows'[k] = NoDoc => k \in cleared]_chartVars

ChartSpec == ChartInit /\ [][ChartNext]_chartVars
=============================================================================
