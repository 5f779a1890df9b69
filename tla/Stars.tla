------------------------------- MODULE Stars -------------------------------
(***************************************************************************)
(* Favourites (backend/favorites.py, in app.db) and the recording jobs     *)
(* that follow them (backend/autorecord.py, in market.db) with the routes  *)
(* of backend/app.py that write either.  A star commits the favourite,     *)
(* then reads the setting, then works through PLAN with one commit an      *)
(* entry; saving the settings reads the old value, commits the new one     *)
(* with the list of favourites, then does the same for each of them.       *)
(***************************************************************************)
EXTENDS Naturals, Sequences, FiniteSets, Functions

CONSTANTS
  Stocks, Roots, IconPages, (* equities, futures roots, web favourites           *)
  MaxFavorites, MaxRedirects,
  IconReplies,  (* the chains of answers an icon may be fetched through      *)
  MaxRecJobs,   (* bounds the jobs ever made                                 *)
  AtOnce,       (* bounds the requests in flight                             *)
  MaxEdits      (* bounds the jobs made, patched and deleted by hand         *)

Symbols == Stocks \cup Roots
Kinds   == {"bars", "chain"}

ASSUME StarsAssumption ==
  /\ Stocks \cap Roots = {} /\ Symbols \cap IconPages = {} /\ "settings" \notin Symbols
  /\ {MaxFavorites, MaxRedirects, MaxRecJobs, AtOnce, MaxEdits} \subseteq Nat

VARIABLES
  favs,      (* favs[key]: has the favourite an icon (their order is left    *)
             (* out, and with it the order sync_all takes them in)           *)
  auto,      (* the setting                                                  *)
  known,     (* the symbols the universe can classify                        *)
  tasty,     (* is there a TastyTrade account                                *)
  recJobs,   (* record_jobs: [id, sym, kind, on]                             *)
  made,      (* the last id                                                  *)
  request,   (* request[s]: the star or un-star of s; request["settings"]    *)
  paused,    (* jobs the user has paused and nothing licensed has resumed    *)
  excused,   (* <<sym, kind>> the promise of the setting does not cover      *)
  edits

starsVars == <<favs, auto, known, tasty, recJobs, made, request, paused, excused, edits>>

Idle == [at |-> "idle", was |-> FALSE, todo |-> {}]
MayAsk == Cardinality({r \in DOMAIN request : request[r] # Idle}) < AtOnce
Starred == DOMAIN favs

StarsInit ==
  /\ favs = [key \in {} |-> FALSE] /\ auto \in BOOLEAN /\ known \in {Roots, Symbols} /\ tasty \in BOOLEAN
  /\ recJobs = {} /\ made = 0 /\ paused = {} /\ excused = {} /\ edits = 0
  /\ request = [r \in Symbols \cup {"settings"} |-> Idle]

StarsTypeOK ==
  /\ Starred \subseteq Symbols \cup IconPages /\ Cardinality(Starred) <= MaxFavorites
  /\ recJobs \subseteq [id : 1 .. made, sym : Symbols, kind : Kinds, on : BOOLEAN]
  /\ \A r \in DOMAIN request :
       /\ request[r].at \in {"idle", "starred", "read", "enrol", "stop"}
       /\ request[r].todo \subseteq Symbols \X Kinds
  /\ paused \subseteq 1 .. made /\ excused \subseteq Symbols \X Kinds /\ edits \in 0 .. MaxEdits

-----------------------------------------------------------------------------
(* Can this kind of data of this symbol be recorded (validate_job and        *)
(* recordability: a futures root has a chain through TastyTrade, no bars).   *)
Recordable(s, k) ==
  /\ s \in known
  /\ s \in Roots => k = "chain" /\ tasty

PLAN(s) == {s} \X Kinds
RECORDING(s, k) == {j \in recJobs : j.sym = s /\ j.kind = k}

(* _existing: the row the query finds first.                                 *)
Existing(s, k) == CHOOSE j \in RECORDING(s, k) : \A o \in RECORDING(s, k) : j.id <= o.id

NewJob(s, k) == [id |-> made + 1, sym |-> s, kind |-> k, on |-> TRUE]

(* fetch_icon: every hop is looked at before it is asked; a redirect is      *)
(* followed by hand; a page in place of an image is no icon.                 *)
FetchIcon(hops) ==
  \E n \in DOMAIN hops :
    /\ n <= MaxRedirects + 1 /\ hops[n] = "image"
    /\ \A m \in 1 .. n - 1 : hops[m] = "redirect"

(* favorites.add: a favourite that is there stays, and gains an icon it did  *)
(* not have; a new one needs room.                                           *)
Added(key, icon) ==
  /\ key \in Starred \/ Cardinality(Starred) < MaxFavorites
  /\ favs' = [f \in Starred \cup {key} |->
               IF f \notin Starred THEN icon ELSE IF f = key THEN favs[f] \/ icon ELSE favs[f]]

(* The promise of the setting is about what is starred while it is on.       *)
Excuse(E) == excused' = IF auto THEN excused \cup {e \in E : e[1] \in Starred} ELSE excused

StarPage(p) ==
  /\ \E hops \in IconReplies : Added(p, FetchIcon(hops))
  /\ UNCHANGED <<auto, known, tasty, recJobs, made, request, paused, excused, edits>>

(* Mutant: the setting is read before the favourite is committed.            *)
Star_ReadsFirst(s) ==
  /\ \/ /\ request[s] = Idle /\ MayAsk /\ favs' = favs
        /\ request' = [request EXCEPT ![s].at = "read", ![s].was = auto]
     \/ /\ request[s].at = "read" /\ Added(s, FALSE)
        /\ request' = [request EXCEPT ![s] =
             IF request[s].was THEN [at |-> "enrol", was |-> FALSE, todo |-> PLAN(s)] ELSE Idle]
  /\ UNCHANGED <<auto, known, tasty, recJobs, made, paused, excused, edits>>

Star(s) ==
  /\ request[s] = Idle /\ MayAsk /\ Added(s, FALSE)
  /\ request' = [request EXCEPT ![s].at = "starred"]
  /\ UNCHANGED <<auto, known, tasty, recJobs, made, paused, excused, edits>>

(* The setting is read on a connection of its own, after the commit.         *)
ReadSetting(s) ==
  /\ request[s].at = "starred"
  /\ request' = [request EXCEPT ![s] = IF auto THEN [at |-> "enrol", was |-> FALSE, todo |-> PLAN(s)]
                                       ELSE Idle]
  /\ UNCHANGED <<favs, auto, known, tasty, recJobs, made, paused, excused, edits>>


Unstar(key) ==
  /\ key \in Starred /\ (key \in Symbols => request[key] = Idle /\ MayAsk)
  /\ favs' = Restrict(favs, Starred \ {key})
  /\ request' = IF auto /\ key \in Symbols
                THEN [request EXCEPT ![key] = [at |-> "stop", was |-> FALSE, todo |-> PLAN(key)]]
                ELSE request
  /\ excused' = excused \ PLAN(key)
  /\ UNCHANGED <<auto, known, tasty, recJobs, made, paused, edits>>

-----------------------------------------------------------------------------
(* settings_put.                                                             *)
ReadBefore ==
  /\ request["settings"] = Idle /\ MayAsk
  /\ request' = [request EXCEPT !["settings"] = [Idle EXCEPT !.at = "read", !.was = auto]]
  /\ UNCHANGED <<favs, auto, known, tasty, recJobs, made, paused, excused, edits>>

(* Mutant: a save with the setting on enrols every favourite.                *)
Edge_AnySave(was, v) == v

Edge(was, v) == v /\ ~was

PutSettings(v) ==
  LET r == request["settings"] IN
  /\ r.at = "read" /\ auto' = v
  /\ request' = [request EXCEPT !["settings"] =
       IF Edge(r.was, v) /\ Starred \cap Symbols # {}
       THEN [at |-> "enrol", was |-> r.was, todo |-> (Starred \cap Symbols) \X Kinds] ELSE Idle]
  /\ excused' = IF v THEN excused ELSE {}
  /\ UNCHANGED <<favs, known, tasty, recJobs, made, paused, edits>>

-----------------------------------------------------------------------------
Done(r, e) ==
  LET left == request[r].todo \ {e} IN
  [request EXCEPT ![r] = IF left = {} THEN Idle ELSE [request[r] EXCEPT !.todo = left]]

(* on_favorite_added, one entry of PLAN: a commit each.                      *)
Enrol(r, s, k) ==
  /\ request[r].at = "enrol" /\ <<s, k>> \in request[r].todo
  /\ request' = Done(r, <<s, k>>)
  /\ LET resume == RECORDING(s, k) # {}
         j == IF resume THEN Existing(s, k) ELSE NewJob(s, k) IN
     /\ IF ~Recordable(s, k) THEN UNCHANGED <<recJobs, made, paused>>
        ELSE /\ resume \/ made < MaxRecJobs
             /\ recJobs' = (recJobs \ {j}) \cup {[j EXCEPT !.on = TRUE]}
             /\ made' = IF resume THEN made ELSE made + 1
             /\ paused' = IF r = "settings" /\ request[r].was THEN paused ELSE paused \ {j.id}
     /\ excused' = excused \ {<<s, k>>}
  /\ UNCHANGED <<favs, auto, known, tasty, edits>>

(* on_favorite_removed: the job stops, what it recorded stays.               *)
StopEntry(r, s, k) ==
  /\ request[r].at = "stop" /\ <<s, k>> \in request[r].todo
  /\ request' = Done(r, <<s, k>>)
  /\ recJobs' = IF RECORDING(s, k) = {} THEN recJobs
                ELSE (recJobs \ {Existing(s, k)}) \cup {[Existing(s, k) EXCEPT !.on = FALSE]}
  /\ UNCHANGED <<favs, auto, known, tasty, made, paused, excused, edits>>

-----------------------------------------------------------------------------
(* The Data page: a job by hand, a patch, a delete, and the one click that   *)
(* wires a symbol's chain and bars.                                          *)
CreateJob(s, k) ==
  /\ edits < MaxEdits /\ edits' = edits + 1
  /\ Recordable(s, k) /\ made < MaxRecJobs
  /\ recJobs' = recJobs \cup {NewJob(s, k)} /\ made' = made + 1
  /\ UNCHANGED <<favs, auto, known, tasty, request, paused, excused>>

PatchJob(j, on) ==
  /\ edits < MaxEdits /\ edits' = edits + 1
  /\ recJobs' = (recJobs \ {j}) \cup {[j EXCEPT !.on = on]}
  /\ paused' = IF on THEN paused \ {j.id} ELSE paused \cup {j.id}
  /\ Excuse(IF on THEN {} ELSE {<<j.sym, j.kind>>})
  /\ UNCHANGED <<favs, auto, known, tasty, made, request>>

DeleteJob(j) ==
  /\ edits < MaxEdits /\ edits' = edits + 1
  /\ recJobs' = recJobs \ {j} /\ paused' = paused \ {j.id}
  /\ Excuse({<<j.sym, j.kind>>})
  /\ UNCHANGED <<favs, auto, known, tasty, made, request>>

SetupRecording(s) ==
  LET need == {k \in Kinds : RECORDING(s, k) = {} /\ (s \in Roots => k = "chain" /\ tasty)}
      id(k) == IF k = "bars" /\ "chain" \in need THEN made + 2 ELSE made + 1 IN
  /\ edits < MaxEdits /\ edits' = edits + 1
  /\ need # {} /\ made + Cardinality(need) <= MaxRecJobs
  /\ recJobs' = recJobs \cup {[id |-> id(k), sym |-> s, kind |-> k, on |-> TRUE] : k \in need}
  /\ made' = made + Cardinality(need)
  /\ UNCHANGED <<favs, auto, known, tasty, request, paused, excused>>

-----------------------------------------------------------------------------
(* universe_sync classifies every symbol, an account makes futures chains    *)
(* recordable; neither looks at the favourites.                              *)
SyncUniverse ==
  /\ known # Symbols /\ known' = Symbols
  /\ Excuse((Symbols \ known) \X Kinds)
  /\ UNCHANGED <<favs, auto, tasty, recJobs, made, request, paused, edits>>

AddTasty ==
  /\ ~tasty /\ tasty' = TRUE /\ Excuse(Roots \X Kinds)
  /\ UNCHANGED <<favs, auto, known, recJobs, made, request, paused, edits>>

(* The process dies with its requests; what was committed is there.          *)
BackendDies ==
  /\ \E r \in DOMAIN request : request[r] # Idle
  /\ Excuse((UNION {request[r].todo : r \in DOMAIN request})
            \cup {sk \in Symbols \X Kinds : request[sk[1]].at = "starred"})
  /\ request' = [r \in DOMAIN request |-> Idle]
  /\ UNCHANGED <<favs, auto, known, tasty, recJobs, made, paused, edits>>

StarsNext ==
  \/ \E p \in IconPages : StarPage(p)
  \/ \E s \in Symbols : Star(s)
  \/ \E s \in Symbols : ReadSetting(s)
  \/ \E key \in Symbols \cup IconPages : Unstar(key)
  \/ ReadBefore
  \/ \E v \in BOOLEAN : PutSettings(v)
  \/ \E r \in DOMAIN request, s \in Symbols, k \in Kinds : Enrol(r, s, k)
  \/ \E s \in Symbols, k \in Kinds : StopEntry(s, s, k)
  \/ \E s \in Symbols, k \in Kinds : CreateJob(s, k)
  \/ \E j \in recJobs, on \in BOOLEAN : PatchJob(j, on)
  \/ \E j \in recJobs : DeleteJob(j)
  \/ \E s \in Symbols : SetupRecording(s)
  \/ SyncUniverse
  \/ AddTasty
  \/ BackendDies

-----------------------------------------------------------------------------
(* While the setting is on, a favourite no request is busy with has a job    *)
(* that runs for everything of it that can be recorded, whichever of the     *)
(* star and the switch came first - unless the user paused or deleted the    *)
(* job since, or it became recordable or the backend died in between         *)
(* (favorites_add, settings_put: "a setting the user believes is running     *)
(* when it is not").                                                         *)
StarredIsRecorded ==
  auto /\ request["settings"] = Idle =>
    \A s \in Starred \cap Symbols, k \in Kinds :
      Recordable(s, k) /\ request[s] = Idle /\ <<s, k>> \notin excused =>
        \E j \in RECORDING(s, k) : j.on

(* A job the user paused runs again only because he resumed it, starred its  *)
(* symbol or switched the setting on: saving the settings with it on does    *)
(* not overrule him (settings_put's rising edge).                            *)
PausedStaysPaused == \A j \in recJobs : j.id \in paused => ~j.on
=============================================================================
