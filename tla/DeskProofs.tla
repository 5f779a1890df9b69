---------------------------- MODULE DeskProofs -----------------------------
(***************************************************************************)
(* What is proved of the desk: favourites and their jobs, charts, wheels,  *)
(* settings and the notepad, and the overlay that the gesture wheel and    *)
(* the launcher share.                                                     *)
(***************************************************************************)
EXTENDS MCDesk, Orders

-----------------------------------------------------------------------------
(* Favourites and recording jobs *)

(* What the parts of a request and of a job are.                             *)
StarRequest == [at : {"idle", "starred", "read", "enrol", "stop"}, was : BOOLEAN, todo : SUBSET (Symbols \X Kinds)]
StarJob == [id : 1 .. made, sym : Symbols, kind : Kinds, on : BOOLEAN]

(* What there is of favourites, jobs and requests.                           *)
StarsTypes ==
  /\ IsFiniteSet(Starred) /\ Starred \subseteq Symbols \cup IconPages /\ Cardinality(Starred) <= MaxFavorites
  /\ auto \in BOOLEAN /\ known \subseteq Symbols /\ tasty \in BOOLEAN
  /\ made \in Nat /\ recJobs \subseteq StarJob /\ paused \subseteq 1 .. made
  /\ excused \subseteq Symbols \X Kinds /\ edits \in 0 .. MaxEdits
  /\ request \in [Symbols \cup {"settings"} -> StarRequest]

(* A favourite of which everything is to be recorded has its jobs, or a      *)
(* request that will see to it.                                              *)
Attended(s, k) ==
  auto /\ Recordable(s, k) /\ <<s, k>> \notin excused =>
    \/ \E j \in RECORDING(s, k) : j.on
    \/ request[s].at = "starred"
    \/ \E r \in {s, "settings"} : request[r].at = "enrol" /\ <<s, k>> \in request[r].todo

(* The strengthening: what is starred is recorded or is about to be attended to. *)
StarsInv ==
  /\ StarsTypes
  /\ \A j, o \in recJobs : j.id = o.id => j = o
  /\ \A s \in Starred \cap Symbols, k \in Kinds : Attended(s, k)
  /\ \A s \in Symbols : request[s].at = "stop" => s \notin Starred
  /\ request["settings"].at = "read" => request["settings"].was = auto
  /\ request["settings"].at = "enrol" => ~request["settings"].was
  /\ PausedStaysPaused

(* What is seen of it.                                                       *)
LEMMA StarsInvHolds == StarsInv => StarsTypeOK /\ StarredIsRecorded /\ PausedStaysPaused
<1> SUFFICES ASSUME StarsInv PROVE StarsTypeOK /\ StarredIsRecorded
  BY DEF StarsInv
<1>1. StarsTypeOK
  <2>1. \A r \in DOMAIN request : request[r] \in StarRequest
    BY DEF StarsInv, StarsTypes
  <2> QED BY <2>1 DEF StarsInv, StarsTypes, StarsTypeOK, StarRequest, StarJob
<1>2. ASSUME auto, request["settings"] = Idle, NEW s \in Starred \cap Symbols, NEW k \in Kinds,
             Recordable(s, k), request[s] = Idle, <<s, k>> \notin excused
      PROVE  \E j \in RECORDING(s, k) : j.on
  <2>1. Attended(s, k)
    BY DEF StarsInv
  <2>2. Idle.at = "idle"
    BY DEF Idle
  <2> QED BY <1>2, <2>1, <2>2 DEF Attended
<1> QED BY <1>1, <1>2 DEF StarredIsRecorded

(* It holds at first.                                                        *)
LEMMA StarsInvInit == StarsInit => StarsInv
<1> SUFFICES ASSUME StarsInit PROVE StarsInv
  OBVIOUS
<1>1. Starred = {} /\ IsFiniteSet(Starred) /\ Cardinality(Starred) = 0
  BY FS_EmptySet DEF StarsInit, Starred
<1>2. Idle \in StarRequest /\ Idle.at = "idle"
  BY DEF Idle, StarRequest
<1>3. StarsTypes
  BY <1>1, <1>2, StarsAssumption DEF StarsInit, StarsTypes, Symbols
<1>4. \A r \in Symbols \cup {"settings"} : request[r].at = "idle"
  BY <1>2 DEF StarsInit
<1> QED BY <1>1, <1>3, <1>4 DEF StarsInit, StarsInv, PausedStaysPaused

(* Of the jobs of a symbol one is found first.                               *)
LEMMA ExistingIs ==
  ASSUME StarsTypes, NEW s, NEW k, RECORDING(s, k) # {}
  PROVE  Existing(s, k) \in RECORDING(s, k)
<1> DEFINE R == {j.id : j \in RECORDING(s, k)}
<1>1. R \subseteq Nat /\ R # {}
  BY DEF RECORDING, StarsTypes, StarJob
<1>2. PICK x \in R : \A y \in R : x <= y
  <2> HIDE DEF R
  <2> QED BY <1>1, Least
<1>3. \E j \in RECORDING(s, k) : \A o \in RECORDING(s, k) : j.id <= o.id
  BY <1>2
<1> QED BY <1>3 DEF Existing

(* A favourite more, when there is room.                                     *)
LEMMA AddedIs ==
  ASSUME StarsTypes, NEW key \in Symbols \cup IconPages, NEW icon, Added(key, icon)
  PROVE  /\ Starred' = Starred \cup {key} /\ IsFiniteSet(Starred')
         /\ Starred' \subseteq Symbols \cup IconPages /\ Cardinality(Starred') <= MaxFavorites
<1>1. Starred' = Starred \cup {key}
  BY DEF Added, Starred
<1>2. IsFiniteSet(Starred) /\ Cardinality(Starred) \in Nat /\ Cardinality(Starred) <= MaxFavorites
  BY FS_CardinalityType DEF StarsTypes
<1>3. /\ IsFiniteSet(Starred \cup {key})
      /\ Cardinality(Starred \cup {key}) = IF key \in Starred THEN Cardinality(Starred) ELSE Cardinality(Starred) + 1
  BY <1>2, FS_AddElement
<1>4. key \in Starred \/ Cardinality(Starred) < MaxFavorites
  BY DEF Added
<1> QED BY <1>1, <1>2, <1>3, <1>4, StarsAssumption DEF StarsTypes

(* Starring.                                                                 *)
LEMMA StarPageKeeps ==
  ASSUME StarsInv, NEW p \in IconPages, StarPage(p)
  PROVE  StarsInv'
<1>1. PICK icon : Added(p, icon)
  BY DEF StarPage
<1>2. p \notin Symbols
  BY StarsAssumption
<1>3. StarsTypes'
  BY <1>1, AddedIs DEF StarsInv, StarsTypes, StarPage, StarRequest, StarJob
<1>4. Starred' \cap Symbols = Starred \cap Symbols
  BY <1>1, <1>2, AddedIs DEF StarsInv
<1> QED BY <1>3, <1>4 DEF StarsInv, StarPage, Attended, Recordable, RECORDING, PausedStaysPaused

(* A symbol is starred ...                                                   *)
LEMMA StarKeeps ==
  ASSUME StarsInv, NEW s \in Symbols, Star(s)
  PROVE  StarsInv'
<1>1. Starred' = Starred \cup {s} /\ IsFiniteSet(Starred')
      /\ Starred' \subseteq Symbols \cup IconPages /\ Cardinality(Starred') <= MaxFavorites
  BY AddedIs DEF Star, StarsInv
<1>2. request[s] \in StarRequest /\ s # "settings"
  BY StarsAssumption DEF StarsInv, StarsTypes
<1>3. /\ request' \in [Symbols \cup {"settings"} -> StarRequest] /\ request'[s].at = "starred"
      /\ \A r \in (Symbols \cup {"settings"}) \ {s} : request'[r] = request[r]
  BY <1>2 DEF Star, StarsInv, StarsTypes, StarRequest
<1>4. StarsTypes'
  BY <1>1, <1>3 DEF Star, StarsInv, StarsTypes, StarRequest, StarJob
<1>5. ASSUME NEW t \in Symbols, t \in Starred', NEW k \in Kinds PROVE Attended(t, k)'
  <2>1. CASE t = s
    BY <2>1, <1>3 DEF Attended
  <2>2. CASE t # s
    <3>1. Attended(t, k)
      BY <1>1, <1>5, <2>2 DEF StarsInv
    <3> QED BY <3>1, <2>2, <1>2, <1>3 DEF Star, Attended, Recordable, RECORDING
  <2> QED BY <2>1, <2>2
<1>6. ASSUME NEW t \in Symbols, request'[t].at = "stop" PROVE t \notin Starred'
  BY <1>1, <1>3, <1>6 DEF StarsInv
<1> QED BY <1>2, <1>3, <1>4, <1>5, <1>6 DEF Star, StarsInv, PausedStaysPaused

(* ... and the setting is read.                                              *)
LEMMA ReadSettingKeeps ==
  ASSUME StarsInv, NEW s \in Symbols, ReadSetting(s)
  PROVE  StarsInv'
<1>1. request[s] \in StarRequest /\ s # "settings" /\ request[s].at = "starred"
  BY StarsAssumption DEF StarsInv, StarsTypes, ReadSetting
<1> DEFINE q == IF auto THEN [at |-> "enrol", was |-> FALSE, todo |-> PLAN(s)] ELSE Idle
<1>2. q \in StarRequest /\ (auto => q.at = "enrol" /\ q.todo = {s} \X Kinds) /\ (~auto => q.at = "idle")
  BY DEF StarRequest, PLAN, Idle
<1>3. request' = [request EXCEPT ![s] = q]
  BY DEF ReadSetting
<1> HIDE DEF q
<1>4. /\ request' \in [Symbols \cup {"settings"} -> StarRequest] /\ request'[s] = q
      /\ \A r \in (Symbols \cup {"settings"}) \ {s} : request'[r] = request[r]
  BY <1>2, <1>3 DEF StarsInv, StarsTypes
<1>5. StarsTypes'
  BY <1>4 DEF ReadSetting, StarsInv, StarsTypes, StarRequest, StarJob, Starred
<1>6. ASSUME NEW t \in Starred \cap Symbols, NEW k \in Kinds PROVE Attended(t, k)'
  <2>1. Attended(t, k)
    BY DEF StarsInv
  <2>2. CASE t = s
    BY <2>2, <1>2, <1>4 DEF ReadSetting, Attended
  <2>3. CASE t # s
    BY <2>1, <2>3, <1>1, <1>4 DEF ReadSetting, Attended, Recordable, RECORDING
  <2> QED BY <2>2, <2>3
<1>7. ASSUME NEW t \in Symbols, request'[t].at = "stop" PROVE t \notin Starred
  BY <1>2, <1>4, <1>7 DEF StarsInv
<1> QED BY <1>1, <1>4, <1>5, <1>6, <1>7 DEF ReadSetting, StarsInv, PausedStaysPaused, Starred

(* Un-starring.                                                              *)
LEMMA UnstarKeeps ==
  ASSUME StarsInv, NEW key \in Symbols \cup IconPages, Unstar(key)
  PROVE  StarsInv'
<1>1. Starred' = Starred \ {key}
  BY DEF Unstar, Starred, Restrict
<1>2. IsFiniteSet(Starred') /\ Cardinality(Starred') <= MaxFavorites /\ Starred' \subseteq Symbols \cup IconPages
  <2>1. IsFiniteSet(Starred') /\ Cardinality(Starred') <= Cardinality(Starred)
    BY <1>1, FS_Subset DEF StarsInv, StarsTypes
  <2>2. Cardinality(Starred') \in Int /\ Cardinality(Starred) \in Int
    BY <2>1, FS_CardinalityType DEF StarsInv, StarsTypes
  <2> QED BY <1>1, <2>1, <2>2, StarsAssumption DEF StarsInv, StarsTypes
<1> DEFINE q == [at |-> "stop", was |-> FALSE, todo |-> PLAN(key)]
<1>3. key \in Symbols => q \in StarRequest /\ q.at = "stop"
  BY DEF StarRequest, PLAN
<1>4. request' = IF auto /\ key \in Symbols THEN [request EXCEPT ![key] = q] ELSE request
  BY DEF Unstar
<1> HIDE DEF q
<1>5. /\ request' \in [Symbols \cup {"settings"} -> StarRequest]
      /\ \A r \in (Symbols \cup {"settings"}) \ {key} : request'[r] = request[r]
      /\ key # "settings" \/ request' = request
  BY <1>3, <1>4, StarsAssumption DEF StarsInv, StarsTypes
<1>6. excused' \subseteq excused /\ excused \ {key} \X Kinds \subseteq excused'
  BY DEF Unstar, PLAN
<1>7. StarsTypes'
  BY <1>2, <1>5, <1>6 DEF Unstar, StarsInv, StarsTypes, StarRequest, StarJob
<1>8. ASSUME NEW t \in Starred' \cap Symbols, NEW k \in Kinds PROVE Attended(t, k)'
  <2>1. Attended(t, k) /\ t # key
    BY <1>1 DEF StarsInv
  <2>2. <<t, k>> \in excused => <<t, k>> \in excused'
    BY <2>1 DEF Unstar, PLAN
  <2> QED BY <2>1, <2>2, <1>5 DEF Unstar, Attended, Recordable, RECORDING
<1>9. ASSUME NEW t \in Symbols, request'[t].at = "stop" PROVE t \notin Starred'
  BY <1>1, <1>5, <1>9 DEF StarsInv
<1> QED BY <1>5, <1>7, <1>8, <1>9 DEF Unstar, StarsInv, PausedStaysPaused

(* The setting.                                                              *)
LEMMA ReadBeforeKeeps ==
  ASSUME StarsInv, ReadBefore
  PROVE  StarsInv'
<1> DEFINE q == [Idle EXCEPT !.at = "read", !.was = auto]
<1>1. q \in StarRequest /\ q.at = "read" /\ q.was = auto
  BY DEF Idle, StarRequest, StarsInv, StarsTypes
<1>2. request' = [request EXCEPT !["settings"] = q] /\ request["settings"].at = "idle"
  BY DEF ReadBefore, Idle
<1> HIDE DEF q
<1>3. /\ request' \in [Symbols \cup {"settings"} -> StarRequest] /\ request'["settings"] = q
      /\ \A s \in Symbols : request'[s] = request[s]
  BY <1>1, <1>2, StarsAssumption DEF StarsInv, StarsTypes
<1>4. StarsTypes'
  BY <1>3 DEF ReadBefore, StarsInv, StarsTypes, StarRequest, StarJob, Starred
<1>5. ASSUME NEW t \in Starred \cap Symbols, NEW k \in Kinds PROVE Attended(t, k)'
  <2>1. Attended(t, k)
    BY DEF StarsInv
  <2> QED BY <2>1, <1>2, <1>3, StarsAssumption DEF ReadBefore, Attended, Recordable, RECORDING
<1> QED BY <1>1, <1>3, <1>4, <1>5 DEF ReadBefore, StarsInv, PausedStaysPaused, Starred

(* It is saved, and what is starred is enrolled.                             *)
LEMMA PutSettingsKeeps ==
  ASSUME StarsInv, NEW v \in BOOLEAN, PutSettings(v)
  PROVE  StarsInv'
<1> DEFINE was == request["settings"].was
           q == IF Edge(was, v) /\ Starred \cap Symbols # {}
                THEN [at |-> "enrol", was |-> was, todo |-> (Starred \cap Symbols) \X Kinds] ELSE Idle
<1>1. request["settings"] \in StarRequest /\ request["settings"].at = "read" /\ was = auto
  BY DEF StarsInv, StarsTypes, PutSettings
<1>2. /\ q \in StarRequest /\ (q.at = "idle" \/ (q.at = "enrol" /\ ~q.was))
      /\ v /\ ~auto /\ Starred \cap Symbols # {} => q.at = "enrol" /\ q.todo = (Starred \cap Symbols) \X Kinds
  BY <1>1 DEF Idle, StarRequest, StarsInv, StarsTypes, Edge
<1>3. request' = [request EXCEPT !["settings"] = q]
  BY DEF PutSettings
<1> HIDE DEF q, was
<1>4. /\ request' \in [Symbols \cup {"settings"} -> StarRequest] /\ request'["settings"] = q
      /\ \A s \in Symbols : request'[s] = request[s]
  BY <1>2, <1>3, StarsAssumption DEF StarsInv, StarsTypes
<1>5. StarsTypes'
  BY <1>4 DEF PutSettings, StarsInv, StarsTypes, StarRequest, StarJob, Starred
<1>6. ASSUME NEW t \in Starred \cap Symbols, NEW k \in Kinds PROVE Attended(t, k)'
  <2>1. Attended(t, k)
    BY DEF StarsInv
  <2>2. CASE v /\ ~auto
    BY <2>2, <1>2, <1>4 DEF Attended
  <2>3. CASE v /\ auto
    BY <2>1, <2>3, <1>1, <1>4, StarsAssumption DEF PutSettings, Attended, Recordable, RECORDING
  <2>4. CASE ~v
    BY <2>4 DEF PutSettings, Attended
  <2> QED BY <2>2, <2>3, <2>4 DEF StarsInv, StarsTypes
<1> QED BY <1>2, <1>4, <1>5, <1>6 DEF PutSettings, StarsInv, PausedStaysPaused, Starred

(* One entry of a plan is done.                                              *)
LEMMA DoneIs ==
  ASSUME StarsTypes, NEW r \in Symbols \cup {"settings"}, NEW e \in request[r].todo, request' = Done(r, e)
  PROVE  /\ request' \in [Symbols \cup {"settings"} -> StarRequest]
         /\ \A o \in (Symbols \cup {"settings"}) \ {r} : request'[o] = request[o]
         /\ request'[r].at = "idle" \/ (request'[r].at = request[r].at /\ request'[r].was = request[r].was)
         /\ \A d \in request[r].todo \ {e} : request'[r].at = request[r].at /\ d \in request'[r].todo
<1> DEFINE left == request[r].todo \ {e}
           q == IF left = {} THEN Idle ELSE [request[r] EXCEPT !.todo = left]
<1>1. request[r] \in StarRequest
  BY DEF StarsTypes
<1>2. /\ q \in StarRequest
      /\ q.at = "idle" \/ (q.at = request[r].at /\ q.was = request[r].was)
      /\ \A d \in request[r].todo \ {e} : q.at = request[r].at /\ d \in q.todo
  BY <1>1 DEF StarRequest, Idle
<1>3. request' = [request EXCEPT ![r] = q]
  BY DEF Done
<1> HIDE DEF q
<1> QED BY <1>2, <1>3 DEF StarsTypes

(* An entry is enrolled, unless it cannot be recorded ...                    *)
LEMMA EnrolKeeps ==
  ASSUME StarsInv, NEW r \in DOMAIN request, NEW s \in Symbols, NEW k \in Kinds, Enrol(r, s, k)
  PROVE  StarsInv'
<1>0. r \in Symbols \cup {"settings"} /\ StarsTypes
  BY DEF StarsInv, StarsTypes
<1> DEFINE e == <<s, k>>
           resume == RECORDING(s, k) # {}
           j == IF resume THEN Existing(s, k) ELSE NewJob(s, k)
           on == [j EXCEPT !.on = TRUE]
<1>1. e \in request[r].todo /\ request' = Done(r, e) /\ request[r].at = "enrol"
  BY DEF Enrol
<1>2. /\ request' \in [Symbols \cup {"settings"} -> StarRequest]
      /\ \A o \in (Symbols \cup {"settings"}) \ {r} : request'[o] = request[o]
      /\ request'[r].at = "idle" \/ (request'[r].at = request[r].at /\ request'[r].was = request[r].was)
      /\ \A d \in request[r].todo \ {e} : request'[r].at = request[r].at /\ d \in request'[r].todo
  <2> HIDE DEF e
  <2> QED BY <1>0, <1>1, DoneIs
<1>3. /\ j.sym = s /\ j.kind = k /\ j.id \in 1 .. made + 1 /\ DOMAIN j = {"id", "sym", "kind", "on"}
      /\ resume => j \in recJobs
      /\ ~resume => j.id = made + 1
  <2>1. CASE resume
    <3>1. Existing(s, k) \in RECORDING(s, k)
      BY <2>1, <1>0, ExistingIs
    <3> QED BY <3>1, <2>1, <1>0 DEF RECORDING, StarsTypes, StarJob
  <2>2. CASE ~resume
    BY <2>2, <1>0 DEF NewJob, StarsTypes
  <2> QED BY <2>1, <2>2
<1>4. /\ on.id = j.id /\ on.sym = s /\ on.kind = k /\ on.on = TRUE
      /\ on \in [id : 1 .. made + 1, sym : Symbols, kind : Kinds, on : BOOLEAN]
      /\ resume => on \in StarJob
  <2> HIDE DEF j, resume
  <2>1. resume => j \in StarJob
    BY <1>0, <1>3 DEF StarsTypes
  <2> QED BY <1>3, <1>0, <2>1 DEF StarJob
<1>5. \/ ~Recordable(s, k) /\ UNCHANGED <<recJobs, made, paused>>
      \/ /\ Recordable(s, k) /\ recJobs' = (recJobs \ {j}) \cup {on}
         /\ made' = (IF resume THEN made ELSE made + 1)
         /\ paused' = IF r = "settings" /\ request[r].was THEN paused ELSE paused \ {j.id}
  BY DEF Enrol
<1>6. excused' = excused \ {e} /\ UNCHANGED <<favs, auto, known, tasty, edits>>
  BY DEF Enrol
<1>7. r = "settings" => ~request[r].was
  BY <1>1 DEF StarsInv
<1> HIDE DEF j, on, resume
<1>8. StarsTypes'
  <2>1. made' \in Nat /\ made <= made'
    BY <1>0, <1>5 DEF StarsTypes
  <2>2. recJobs' \subseteq [id : 1 .. made', sym : Symbols, kind : Kinds, on : BOOLEAN]
    <3>1. recJobs \subseteq [id : 1 .. made', sym : Symbols, kind : Kinds, on : BOOLEAN]
      BY <1>0, <2>1 DEF StarsTypes, StarJob
    <3>2. CASE recJobs' = recJobs
      BY <3>1, <3>2
    <3>3. CASE recJobs' = (recJobs \ {j}) \cup {on} /\ made' = (IF resume THEN made ELSE made + 1)
      BY <3>1, <3>3, <1>4 DEF StarJob
    <3> QED BY <3>2, <3>3, <1>5
  <2>3. paused' \subseteq 1 .. made'
    BY <1>0, <1>5, <2>1 DEF StarsTypes
  <2> QED BY <1>0, <1>2, <1>6, <2>1, <2>2, <2>3 DEF StarsTypes, StarJob, Starred
<1>9. (\A i, o \in recJobs : i.id = o.id => i = o)'
  <2>1. \A i, o \in recJobs : i.id = o.id => i = o
    BY DEF StarsInv
  <2>2. \A o \in recJobs : o.id # made + 1
    BY <1>0 DEF StarsTypes, StarJob
  <2>3. ~resume => j \notin recJobs
    BY <1>3, <2>2
  <2> QED BY <2>1, <2>2, <2>3, <1>3, <1>4, <1>5
<1>10. ASSUME NEW t \in Starred \cap Symbols, NEW l \in Kinds PROVE Attended(t, l)'
  <2>1. Attended(t, l) /\ <<t, l>> \in Symbols \X Kinds
    BY DEF StarsInv
  <2>2. CASE <<t, l>> = e
    <3>1. CASE Recordable(s, k)
      <4>1. on \in recJobs' /\ on.sym = t /\ on.kind = l /\ on.on
        BY <3>1, <2>2, <1>4, <1>5
      <4> QED BY <4>1 DEF Attended, RECORDING
    <3>2. CASE ~Recordable(s, k)
      BY <3>2, <2>2, <1>6 DEF Attended, Recordable
    <3> QED BY <3>1, <3>2
  <2>3. CASE <<t, l>> # e
    <3>1. RECORDING(t, l)' = RECORDING(t, l)
      BY <2>3, <1>3, <1>4, <1>5 DEF RECORDING
    <3>2. (<<t, l>> \in excused' <=> <<t, l>> \in excused) /\ (Recordable(t, l)' <=> Recordable(t, l)) /\ auto' = auto
      BY <2>3, <1>6 DEF Recordable
    <3>3. CASE request[t].at = "starred"
      <4>1. t # r
        BY <3>3, <1>1
      <4> QED BY <4>1, <3>3, <1>2 DEF Attended
    <3>4. CASE \E q \in {t, "settings"} : request[q].at = "enrol" /\ <<t, l>> \in request[q].todo
      <4>1. PICK q \in {t, "settings"} : request[q].at = "enrol" /\ <<t, l>> \in request[q].todo
        BY <3>4
      <4>2. request'[q].at = "enrol" /\ <<t, l>> \in request'[q].todo
        BY <4>1, <2>3, <1>2
      <4> QED BY <4>2 DEF Attended
    <3> QED BY <2>1, <3>1, <3>2, <3>3, <3>4 DEF Attended
  <2> QED BY <2>2, <2>3
<1>11. ASSUME NEW t \in Symbols, request'[t].at = "stop" PROVE t \notin Starred
  BY <1>1, <1>2, <1>11 DEF StarsInv
<1>12. PausedStaysPaused'
  <2>1. paused' \subseteq paused /\ (recJobs' # recJobs => paused' = paused \ {j.id})
    BY <1>5, <1>7
  <2> QED BY <2>1, <1>4, <1>5 DEF PausedStaysPaused, StarsInv
<1>13. /\ request'["settings"].at = "read" => request'["settings"].was = auto'
       /\ request'["settings"].at = "enrol" => ~request'["settings"].was
  BY <1>1, <1>2, <1>6 DEF StarsInv
<1> QED BY <1>6, <1>8, <1>9, <1>10, <1>11, <1>12, <1>13 DEF StarsInv, Starred

(* ... or stopped, of a symbol that is not starred any more.                 *)
LEMMA StopEntryKeeps ==
  ASSUME StarsInv, NEW s \in Symbols, NEW k \in Kinds, StopEntry(s, s, k)
  PROVE  StarsInv'
<1>0. StarsTypes /\ s # "settings"
  BY StarsAssumption DEF StarsInv
<1> DEFINE e == <<s, k>>
           j == Existing(s, k)
           off == [j EXCEPT !.on = FALSE]
<1>1. e \in request[s].todo /\ request' = Done(s, e) /\ request[s].at = "stop" /\ s \notin Starred
  BY DEF StopEntry, StarsInv
<1>2. /\ request' \in [Symbols \cup {"settings"} -> StarRequest]
      /\ \A o \in (Symbols \cup {"settings"}) \ {s} : request'[o] = request[o]
      /\ request'[s].at \in {"idle", "stop"}
  <2> HIDE DEF e
  <2> QED BY <1>0, <1>1, DoneIs
<1>3. /\ UNCHANGED <<favs, auto, known, tasty, made, paused, excused, edits>>
      /\ recJobs' = IF RECORDING(s, k) = {} THEN recJobs ELSE (recJobs \ {j}) \cup {off}
  BY DEF StopEntry
<1>4. RECORDING(s, k) # {} => /\ j \in recJobs /\ j.sym = s /\ j.kind = k
                              /\ off \in StarJob /\ off.id = j.id /\ off.sym = s /\ off.on = FALSE
  <2> SUFFICES ASSUME RECORDING(s, k) # {} PROVE j \in recJobs /\ j.sym = s /\ j.kind = k
                                               /\ off \in StarJob /\ off.id = j.id /\ off.sym = s /\ off.on = FALSE
    OBVIOUS
  <2>1. j \in RECORDING(s, k)
    BY <1>0, ExistingIs
  <2> HIDE DEF j
  <2>2. j \in recJobs /\ j.sym = s /\ j.kind = k /\ j \in StarJob
    BY <2>1, <1>0 DEF RECORDING, StarsTypes
  <2> QED BY <2>2 DEF StarJob
<1> HIDE DEF j, off
<1>5. StarsTypes'
  BY <1>0, <1>2, <1>3, <1>4 DEF StarsTypes, StarJob, Starred
<1>6. ASSUME NEW t \in Starred \cap Symbols, NEW l \in Kinds PROVE Attended(t, l)'
  <2>1. Attended(t, l) /\ t # s
    BY <1>1 DEF StarsInv
  <2>2. RECORDING(t, l)' = RECORDING(t, l)
    BY <2>1, <1>3, <1>4 DEF RECORDING
  <2> QED BY <2>1, <2>2, <1>0, <1>2, <1>3 DEF Attended, Recordable
<1>7. ASSUME NEW t \in Symbols, request'[t].at = "stop" PROVE t \notin Starred
  BY <1>1, <1>2, <1>7 DEF StarsInv
<1> QED BY <1>0, <1>2, <1>3, <1>4, <1>5, <1>6, <1>7 DEF StarsInv, PausedStaysPaused, Starred

(* Who still works a favourite while it is recorded or excused all the same. *)
LEMMA AttendedStays ==
  ASSUME NEW s, NEW k, Attended(s, k), UNCHANGED <<auto, known, tasty, request>>,
         <<s, k>> \in excused => <<s, k>> \in excused',
         (\E j \in RECORDING(s, k) : j.on) => (\E j \in RECORDING(s, k)' : j.on) \/ (auto => <<s, k>> \in excused')
  PROVE  Attended(s, k)'
BY DEF Attended, Recordable

(* Jobs by hand.                                                             *)
LEMMA CreateJobKeeps ==
  ASSUME StarsInv, NEW s \in Symbols, NEW k \in Kinds, CreateJob(s, k)
  PROVE  StarsInv'
<1> DEFINE j == NewJob(s, k)
<1>0. StarsTypes
  BY DEF StarsInv
<1>1. /\ j.id = made + 1 /\ j.on = TRUE /\ j.sym = s /\ j.kind = k
      /\ j \in [id : 1 .. made + 1, sym : Symbols, kind : Kinds, on : BOOLEAN]
  BY <1>0 DEF NewJob, StarsTypes
<1>2. /\ UNCHANGED <<favs, auto, known, tasty, request, paused, excused>> /\ edits' \in 0 .. MaxEdits
      /\ recJobs' = recJobs \cup {j} /\ made' = made + 1
  BY <1>0, StarsAssumption DEF CreateJob, StarsTypes
<1> HIDE DEF j
<1>3. StarsTypes'
  BY <1>0, <1>1, <1>2 DEF StarsTypes, StarJob, Starred
<1>4. \A o \in recJobs : o.id # made + 1
  BY <1>0 DEF StarsTypes, StarJob
<1>5. j.id \notin paused
  BY <1>0, <1>1 DEF StarsTypes
<1>6. \A t \in Starred \cap Symbols, l \in Kinds : Attended(t, l)'
  BY <1>2, AttendedStays DEF StarsInv, RECORDING
<1> QED BY <1>1, <1>2, <1>3, <1>4, <1>5, <1>6 DEF StarsInv, PausedStaysPaused, Starred

(* A job is paused or resumed ...                                            *)
LEMMA PatchJobKeeps ==
  ASSUME StarsInv, NEW j \in recJobs, NEW on \in BOOLEAN, PatchJob(j, on)
  PROVE  StarsInv'
<1> DEFINE p == [j EXCEPT !.on = on]
<1>0. StarsTypes
  BY DEF StarsInv
<1>1. j \in StarJob /\ p \in StarJob /\ p.id = j.id /\ p.sym = j.sym /\ p.kind = j.kind /\ p.on = on
  BY <1>0 DEF StarJob, StarsTypes
<1>2. /\ UNCHANGED <<favs, auto, known, tasty, made, request>> /\ edits' \in 0 .. MaxEdits
      /\ recJobs' = (recJobs \ {j}) \cup {p}
      /\ paused' = IF on THEN paused \ {j.id} ELSE paused \cup {j.id}
      /\ excused \subseteq excused' /\ excused' \subseteq excused \cup {<<j.sym, j.kind>>}
      /\ ~on /\ auto /\ j.sym \in Starred => <<j.sym, j.kind>> \in excused'
  BY <1>0, StarsAssumption DEF PatchJob, StarsTypes, Excuse
<1> HIDE DEF p
<1>3. StarsTypes'
  <2>1. j.id \in 1 .. made /\ <<j.sym, j.kind>> \in Symbols \X Kinds
    BY <1>1 DEF StarJob
  <2>2. recJobs' \subseteq StarJob' /\ paused' \subseteq 1 .. made' /\ excused' \subseteq Symbols \X Kinds
    BY <1>0, <1>1, <1>2, <2>1 DEF StarsTypes, StarJob
  <2> QED BY <1>0, <1>2, <2>2 DEF StarsTypes, StarJob, Starred
<1>4. ASSUME NEW t \in Starred \cap Symbols, NEW l \in Kinds PROVE Attended(t, l)'
  <2>1. Attended(t, l)
    BY DEF StarsInv
  <2>2. CASE t = j.sym /\ l = j.kind
    BY <2>1, <2>2, <1>1, <1>2, AttendedStays DEF RECORDING
  <2>3. CASE ~(t = j.sym /\ l = j.kind)
    <3>1. RECORDING(t, l)' = RECORDING(t, l)
      BY <2>3, <1>1, <1>2 DEF RECORDING
    <3> QED BY <2>1, <3>1, <1>2, AttendedStays
  <2> QED BY <2>2, <2>3
<1>5. PausedStaysPaused'
  BY <1>1, <1>2 DEF StarsInv, PausedStaysPaused
<1> QED BY <1>1, <1>2, <1>3, <1>4, <1>5 DEF StarsInv, Starred

(* ... or deleted.                                                           *)
LEMMA DeleteJobKeeps ==
  ASSUME StarsInv, NEW j \in recJobs, DeleteJob(j)
  PROVE  StarsInv'
<1>0. StarsTypes
  BY DEF StarsInv
<1>1. j \in StarJob
  BY <1>0 DEF StarsTypes
<1>2. /\ UNCHANGED <<favs, auto, known, tasty, made, request>> /\ edits' \in 0 .. MaxEdits
      /\ recJobs' = recJobs \ {j} /\ paused' \subseteq paused
      /\ excused \subseteq excused' /\ excused' \subseteq excused \cup {<<j.sym, j.kind>>}
      /\ auto /\ j.sym \in Starred => <<j.sym, j.kind>> \in excused'
  BY <1>0, StarsAssumption DEF DeleteJob, StarsTypes, Excuse
<1>3. StarsTypes'
  BY <1>0, <1>1, <1>2 DEF StarsTypes, StarJob, Starred
<1>4. ASSUME NEW t \in Starred \cap Symbols, NEW l \in Kinds PROVE Attended(t, l)'
  <2>1. Attended(t, l)
    BY DEF StarsInv
  <2>2. CASE t = j.sym /\ l = j.kind
    BY <2>1, <2>2, <1>2, AttendedStays
  <2>3. CASE ~(t = j.sym /\ l = j.kind)
    <3>1. RECORDING(t, l)' = RECORDING(t, l)
      BY <2>3, <1>2 DEF RECORDING
    <3> QED BY <2>1, <3>1, <1>2, AttendedStays
  <2> QED BY <2>2, <2>3
<1> QED BY <1>2, <1>3, <1>4 DEF StarsInv, PausedStaysPaused, Starred

(* One click makes the jobs that are missing.                                *)
LEMMA SetupRecordingKeeps ==
  ASSUME StarsInv, NEW s \in Symbols, SetupRecording(s)
  PROVE  StarsInv'
<1> DEFINE need == {k \in Kinds : RECORDING(s, k) = {} /\ (s \in Roots => k = "chain" /\ tasty)}
           id(k) == IF k = "bars" /\ "chain" \in need THEN made + 2 ELSE made + 1
           job(k) == [id |-> id(k), sym |-> s, kind |-> k, on |-> TRUE]
<1>0. StarsTypes
  BY DEF StarsInv
<1>1. /\ UNCHANGED <<favs, auto, known, tasty, request, paused, excused>> /\ edits' \in 0 .. MaxEdits
      /\ recJobs' = recJobs \cup {job(k) : k \in need}
      /\ made' = made + Cardinality(need) /\ need # {}
  BY <1>0, StarsAssumption DEF SetupRecording, StarsTypes
<1>2. \/ need = {"bars"} /\ Cardinality(need) = 1
      \/ need = {"chain"} /\ Cardinality(need) = 1
      \/ need = {"bars", "chain"} /\ Cardinality(need) = 2
  <2>1. need \subseteq {"bars", "chain"}
    BY DEF Kinds
  <2>2. Cardinality({"bars"}) = 1 /\ Cardinality({"chain"}) = 1
    BY FS_Singleton
  <2>3. Cardinality({"bars", "chain"}) = 2
    <3>1. IsFiniteSet({"chain"}) /\ Cardinality({"chain"}) = 1
      BY FS_Singleton
    <3>2. Cardinality({"chain"} \cup {"bars"}) = 1 + 1
      BY <3>1, FS_AddElement
    <3>3. {"chain"} \cup {"bars"} = {"bars", "chain"}
      OBVIOUS
    <3> QED BY <3>2, <3>3
  <2>4. need = {"bars"} \/ need = {"chain"} \/ need = {"bars", "chain"}
    <3> HIDE DEF need
    <3> QED BY <1>1, <2>1
  <2> QED BY <2>2, <2>3, <2>4
<1>3. made' \in Nat /\ made < made' /\ \A k \in need : id(k) \in made + 1 .. made'
  <2> HIDE DEF need
  <2> QED BY <1>0, <1>1, <1>2 DEF StarsTypes
<1>4. \A k, l \in need : id(k) = id(l) => k = l
  <2> HIDE DEF need
  <2> QED BY <1>0, <1>2 DEF StarsTypes
<1>5. /\ \A k \in need : /\ job(k).id = id(k) /\ job(k).on = TRUE
                         /\ job(k) \in [id : 1 .. made', sym : Symbols, kind : Kinds, on : BOOLEAN]
  BY <1>0, <1>3 DEF StarsTypes
<1> HIDE DEF need, id, job
<1>6. StarsTypes'
  <2>1. recJobs' \subseteq [id : 1 .. made', sym : Symbols, kind : Kinds, on : BOOLEAN]
    BY <1>0, <1>1, <1>3, <1>5 DEF StarsTypes, StarJob
  <2> QED BY <1>0, <1>1, <1>3, <2>1 DEF StarsTypes, StarJob, Starred
<1>7. \A o \in recJobs, k \in need : o.id # id(k)
  BY <1>0, <1>3 DEF StarsTypes, StarJob
<1>8. \A k \in need : id(k) \notin paused
  BY <1>0, <1>3 DEF StarsTypes
<1>9. \A t \in Starred \cap Symbols, l \in Kinds : Attended(t, l)'
  BY <1>1, AttendedStays DEF StarsInv, RECORDING
<1>10. (\A j, o \in recJobs : j.id = o.id => j = o)'
  BY <1>1, <1>4, <1>5, <1>7 DEF StarsInv
<1> QED BY <1>1, <1>5, <1>6, <1>8, <1>9, <1>10 DEF StarsInv, PausedStaysPaused, Starred

(* What else there is.                                                       *)
LEMMA SyncUniverseKeeps ==
  ASSUME StarsInv, SyncUniverse
  PROVE  StarsInv'
<1>1. /\ UNCHANGED <<favs, auto, tasty, recJobs, made, request, paused, edits>> /\ known' = Symbols
      /\ excused \subseteq excused' /\ excused' \subseteq Symbols \X Kinds
      /\ auto => \A t \in Starred \cap (Symbols \ known), k \in Kinds : <<t, k>> \in excused'
  BY DEF SyncUniverse, Excuse, StarsInv, StarsTypes
<1>2. StarsTypes'
  BY <1>1 DEF StarsInv, StarsTypes, StarRequest, StarJob, Starred
<1>3. \A t \in Starred \cap Symbols, k \in Kinds : Attended(t, k)'
  BY <1>1 DEF StarsInv, Attended, Recordable, RECORDING
<1> QED BY <1>1, <1>2, <1>3 DEF StarsInv, PausedStaysPaused, Starred

(* An account makes futures chains recordable.                               *)
LEMMA AddTastyKeeps ==
  ASSUME StarsInv, AddTasty
  PROVE  StarsInv'
<1>1. /\ UNCHANGED <<favs, auto, known, recJobs, made, request, paused, edits>> /\ tasty' = TRUE
      /\ excused \subseteq excused' /\ excused' \subseteq Symbols \X Kinds
      /\ auto => \A t \in Starred \cap Roots, k \in Kinds : <<t, k>> \in excused'
  BY DEF AddTasty, Excuse, StarsInv, StarsTypes, Symbols
<1>2. StarsTypes'
  BY <1>1 DEF StarsInv, StarsTypes, StarRequest, StarJob, Starred
<1>3. \A t \in Starred \cap Symbols, k \in Kinds : Attended(t, k)'
  BY <1>1 DEF StarsInv, Attended, Recordable, RECORDING
<1> QED BY <1>1, <1>2, <1>3 DEF StarsInv, PausedStaysPaused, Starred

(* The requests are lost, and what they were to do is excused.               *)
LEMMA BackendDiesKeeps ==
  ASSUME StarsInv, BackendDies
  PROVE  StarsInv'
<1>0. StarsTypes /\ DOMAIN request = Symbols \cup {"settings"}
  BY DEF StarsInv, StarsTypes
<1>1. Idle \in StarRequest /\ Idle.at = "idle"
  BY DEF Idle, StarRequest
<1>2. /\ UNCHANGED <<favs, auto, known, tasty, recJobs, made, paused, edits>>
      /\ request' \in [Symbols \cup {"settings"} -> StarRequest]
      /\ \A r \in Symbols \cup {"settings"} : request'[r].at = "idle"
  BY <1>0, <1>1 DEF BackendDies
<1> DEFINE todos == UNION {request[r].todo : r \in DOMAIN request}
           fresh == {sk \in Symbols \X Kinds : request[sk[1]].at = "starred"}
           lost == todos \cup fresh
<1>3. excused' = IF auto THEN excused \cup {e \in lost : e[1] \in Starred} ELSE excused
  BY DEF BackendDies, Excuse
<1>4. todos \subseteq Symbols \X Kinds /\ \A r \in Symbols \cup {"settings"} : request[r].todo \subseteq todos
  <2>1. \A r \in DOMAIN request : request[r].todo \subseteq Symbols \X Kinds
    BY <1>0 DEF StarsTypes, StarRequest
  <2>2. ASSUME NEW e \in todos PROVE e \in Symbols \X Kinds
    <3>1. PICK r \in DOMAIN request : e \in request[r].todo
      BY <2>2
    <3> QED BY <3>1, <2>1
  <2>3. \A r \in DOMAIN request : request[r].todo \subseteq todos
    OBVIOUS
  <2> HIDE DEF todos
  <2> QED BY <1>0, <2>2, <2>3
<1>5. /\ fresh \subseteq Symbols \X Kinds
      /\ \A t \in Symbols, k \in Kinds : request[t].at = "starred" => <<t, k>> \in fresh
  OBVIOUS
<1> HIDE DEF todos, fresh
<1>6. StarsTypes'
  BY <1>0, <1>2, <1>3, <1>4, <1>5 DEF StarsTypes, StarRequest, StarJob, Starred
<1>7. ASSUME NEW t \in Starred \cap Symbols, NEW k \in Kinds PROVE Attended(t, k)'
  <2>1. Attended(t, k)
    BY DEF StarsInv
  <2>2. auto /\ <<t, k>> \in lost => <<t, k>> \in excused'
    BY <1>3
  <2> QED BY <2>1, <2>2, <1>2, <1>3, <1>4, <1>5 DEF Attended, Recordable, RECORDING
<1> QED BY <1>2, <1>6, <1>7 DEF StarsInv, PausedStaysPaused, Starred

(* Every step keeps the invariant.                                           *)
LEMMA StarsInvStep ==
  ASSUME StarsInv, [StarsNext]_starsVars
  PROVE  StarsInv'
<1>1. CASE UNCHANGED starsVars
  BY <1>1 DEF starsVars, StarsInv, StarsTypes, StarRequest, StarJob, Starred, Attended, Recordable, RECORDING,
              PausedStaysPaused
<1>2. CASE StarsNext
  BY <1>2, StarPageKeeps, StarKeeps, ReadSettingKeeps, UnstarKeeps, ReadBeforeKeeps, PutSettingsKeeps,
     EnrolKeeps, StopEntryKeeps, CreateJobKeeps, PatchJobKeeps, DeleteJobKeeps, SetupRecordingKeeps,
     SyncUniverseKeeps, AddTastyKeeps, BackendDiesKeeps DEF StarsNext
<1> QED BY <1>1, <1>2

(* A favourite has its jobs and a paused job stays paused, whichever of the  *)
(* star, the switch and the hand on the Data page came first (favorites.py,  *)
(* autorecord.py, app.py).                                                   *)
THEOREM StarsStayKept ==
  StarsInit /\ [][StarsNext]_starsVars => [](StarsTypeOK /\ StarredIsRecorded /\ PausedStaysPaused)
<1>1. StarsInit => StarsInv
  BY StarsInvInit
<1>2. StarsInv /\ [StarsNext]_starsVars => StarsInv'
  BY StarsInvStep
<1>3. StarsInv => StarsTypeOK /\ StarredIsRecorded /\ PausedStaysPaused
  BY StarsInvHolds
<1> QED BY <1>1, <1>2, <1>3, PTL

-----------------------------------------------------------------------------
(* The notepad *)

(* The callers that are about to add an entry.                               *)
Adders == {c \in PadCallers : caller[c].op = "add"}

(* Every add in flight has been counted for.                                 *)
PadInv ==
  /\ IsFiniteSet(pad) /\ Cardinality(pad) + Cardinality(Adders) <= MaxEntries + Cardinality(PadCallers) - 1
  /\ \A e, f \in pad : e.id = f.id => e = f
  /\ \A e \in pad : DOMAIN e = {"id", "kind", "text", "label"} /\ ValidPayload(e.kind, e.text)
  /\ DOMAIN caller = PadCallers
  /\ \A c \in PadCallers : /\ DOMAIN caller[c] = {"op", "entry"}
                           /\ caller[c].op \in {"none", "add", "edit"}
                           /\ DOMAIN caller[c].entry = {"id", "kind", "text", "label"}
                           /\ caller[c].op # "none" => ValidPayload(caller[c].entry.kind, caller[c].entry.text)

(* A set of which every element is mapped to another has as many images.     *)
LEMMA SameSize ==
  ASSUME NEW S, IsFiniteSet(S), NEW f, f = [x \in S |-> f[x]], \A x, y \in S : f[x] = f[y] => x = y
  PROVE  LET T == {f[x] : x \in S} IN IsFiniteSet(T) /\ Cardinality(T) = Cardinality(S)
<1> DEFINE T == {f[x] : x \in S}
<1>1. f \in [S -> T]
  <2>1. \A x \in S : f[x] \in T
    OBVIOUS
  <2> HIDE DEF T
  <2> QED BY <2>1
<1>2. \A t \in T : \E x \in S : f[x] = t
  OBVIOUS
<1> HIDE DEF T
<1>3. f \in Bijection(S, T)
  BY <1>1, <1>2 DEF Bijection, Injection, IsInjective, Surjection
<1>4. ExistsBijection(S, T)
  BY <1>3 DEF ExistsBijection
<1>5. IsFiniteSet(T) /\ Cardinality(T) = Cardinality(S)
  BY <1>4, FS_Bijection
<1> QED BY <1>5 DEF T

(* What is counted.                                                          *)
LEMMA PadCounts ==
  ASSUME PadInv
  PROVE  /\ IsFiniteSet(Adders) /\ Cardinality(pad) \in Nat /\ Cardinality(Adders) \in Nat
         /\ Cardinality(Adders) <= Cardinality(PadCallers)
         /\ Cardinality(PadCallers) \in Nat /\ Cardinality(PadCallers) >= 1
<1>1. Adders \subseteq PadCallers
  BY DEF Adders
<1>2. Cardinality(PadCallers) # 0
  BY UserAssumption, FS_EmptySet
<1>3. IsFiniteSet(Adders) /\ Cardinality(Adders) <= Cardinality(PadCallers)
  BY <1>1, UserAssumption, FS_Subset
<1> QED BY <1>2, <1>3, UserAssumption, FS_CardinalityType DEF PadInv

(* A pad that holds the invariant is what its readers are told.              *)
LEMMA PadInvHolds == PadInv => PadTypeOK
<1> SUFFICES ASSUME PadInv PROVE PadTypeOK
  OBVIOUS
<1> DEFINE told(e) == [id |-> e.id, kind |-> e.kind, label |-> Label(e), destination |-> Destination(e)]
           f == [e \in pad |-> told(e)]
<1>1. Summaries = {f[e] : e \in pad}
  BY DEF Summaries
<1>2. \A d, e \in pad : f[d] = f[e] => d = e
  <2>1. \A e \in pad : f[e] = told(e) /\ told(e).id = e.id
    OBVIOUS
  <2> HIDE DEF f, told
  <2> QED BY <2>1 DEF PadInv
<1>3. Cardinality(Summaries) = Cardinality(pad)
  <2>1. f = [e \in pad |-> f[e]] /\ IsFiniteSet(pad)
    BY DEF PadInv
  <2> HIDE DEF f
  <2> QED BY <1>1, <1>2, <2>1, SameSize
<1> QED BY <1>3, PadCounts, UserAssumption DEF PadTypeOK, PadInv

(* Nobody is counted at first.                                               *)
LEMMA PadInvInit == PadInit => PadInv
<1> SUFFICES ASSUME PadInit PROVE PadInv
  OBVIOUS
<1>1. \A c \in PadCallers : caller[c] = Quiet
  BY DEF PadInit
<1>2. /\ DOMAIN Quiet = {"op", "entry"} /\ Quiet.op = "none"
      /\ DOMAIN Quiet.entry = {"id", "kind", "text", "label"}
  BY DEF Quiet
<1>3. Adders = {}
  BY <1>1, <1>2 DEF Adders
<1>4. Cardinality(PadCallers) \in Nat /\ Cardinality(PadCallers) >= 1
  BY UserAssumption, FS_EmptySet, FS_CardinalityType
<1>5. IsFiniteSet({}) /\ Cardinality({}) = 0
  BY FS_EmptySet
<1> QED BY <1>1, <1>2, <1>3, <1>4, <1>5, UserAssumption DEF PadInit, PadInv

(* Whoever counted inserts at most once.                                     *)
LEMMA PadInvStep ==
  ASSUME PadInv, [PadNext]_padVars
  PROVE  PadInv'
<1>1. CASE UNCHANGED padVars
  BY <1>1 DEF PadInv, padVars, Adders, ValidPayload
<1>2. ASSUME NEW c \in PadCallers, NEW kind \in PadKinds, NEW text \in Texts, CountForAdd(c, kind, text)
      PROVE  PadInv'
  <2> DEFINE q == [op |-> "add", entry |-> [id |-> "none", kind |-> kind, text |-> text, label |-> ""]]
  <2>1. /\ DOMAIN q = {"op", "entry"} /\ q.op = "add" /\ DOMAIN q.entry = {"id", "kind", "text", "label"}
        /\ q.entry.kind = kind /\ q.entry.text = text
    OBVIOUS
  <2>2. caller' = [caller EXCEPT ![c] = q] /\ pad' = pad /\ caller[c].op = "none" /\ ValidPayload(kind, text)
    <3>1. caller[c] = Quiet /\ Quiet.op = "none"
      BY <1>2 DEF CountForAdd, Quiet
    <3> QED BY <1>2, <3>1 DEF CountForAdd
  <2>3. Cardinality(pad) < MaxEntries
    BY <1>2 DEF CountForAdd
  <2> HIDE DEF q
  <2>4. DOMAIN caller' = PadCallers /\ caller'[c] = q /\ \A d \in PadCallers \ {c} : caller'[d] = caller[d]
    BY <2>2 DEF PadInv
  <2>5. Adders' \subseteq PadCallers
    BY DEF Adders
  <2>6. /\ IsFiniteSet(Adders') /\ Cardinality(Adders') <= Cardinality(PadCallers)
        /\ Cardinality(Adders') \in Nat
    BY <2>5, UserAssumption, FS_Subset, FS_CardinalityType
  <2>7. Cardinality(pad) + Cardinality(Adders') <= MaxEntries + Cardinality(PadCallers) - 1
    BY <2>3, <2>6, PadCounts, UserAssumption
  <2> QED BY <2>1, <2>2, <2>4, <2>7 DEF PadInv, ValidPayload
<1>3. ASSUME NEW c \in PadCallers, NEW id \in PadIds, InsertEntry(c, id)
      PROVE  PadInv'
  <2> DEFINE e == [caller[c].entry EXCEPT !.id = id]
  <2>1. /\ DOMAIN e = {"id", "kind", "text", "label"} /\ e.id = id /\ ValidPayload(e.kind, e.text)
        /\ \A f \in pad : f.id # id
    BY <1>3 DEF PadInv, InsertEntry
  <2>2. pad' = pad \cup {e} /\ caller' = [caller EXCEPT ![c] = Quiet] /\ caller[c].op = "add"
    BY <1>3 DEF InsertEntry
  <2> HIDE DEF e
  <2>3. DOMAIN caller' = PadCallers /\ caller'[c] = Quiet /\ \A d \in PadCallers \ {c} : caller'[d] = caller[d]
    BY <2>2 DEF PadInv
  <2>4. DOMAIN Quiet = {"op", "entry"} /\ Quiet.op = "none" /\ DOMAIN Quiet.entry = {"id", "kind", "text", "label"}
    BY DEF Quiet
  <2>5. Adders' = Adders \ {c} /\ c \in Adders
    BY <2>2, <2>3, <2>4 DEF Adders
  <2>6. Cardinality(Adders') = Cardinality(Adders) - 1
    BY <2>5, PadCounts, FS_RemoveElement
  <2>7. IsFiniteSet(pad') /\ Cardinality(pad') = Cardinality(pad) + 1
    <3>1. e \notin pad
      BY <2>1
    <3> QED BY <2>2, <3>1, FS_AddElement DEF PadInv
  <2>8. Cardinality(pad') + Cardinality(Adders') <= MaxEntries + Cardinality(PadCallers) - 1
    BY <2>6, <2>7, PadCounts, UserAssumption DEF PadInv
  <2>9. (\A f, g \in pad : f.id = g.id => f = g)'
    BY <2>1, <2>2 DEF PadInv
  <2>10. (\A f \in pad : DOMAIN f = {"id", "kind", "text", "label"} /\ ValidPayload(f.kind, f.text))'
    BY <2>1, <2>2 DEF PadInv, ValidPayload
  <2> QED BY <2>3, <2>4, <2>7, <2>8, <2>9, <2>10 DEF PadInv, ValidPayload
<1>4. ASSUME NEW c \in PadCallers, NEW e \in pad, NEW text \in Texts, NEW label \in {"", "mine"},
             ReadForEdit(c, e, text, label)
      PROVE  PadInv'
  <2> DEFINE x == [e EXCEPT !.text = text, !.label = label]
             q == [op |-> "edit", entry |-> x]
  <2>1. DOMAIN x = {"id", "kind", "text", "label"} /\ x.kind = e.kind /\ x.text = text
    BY DEF PadInv
  <2>2. DOMAIN q = {"op", "entry"} /\ q.op = "edit" /\ q.entry = x
    OBVIOUS
  <2>3. caller' = [caller EXCEPT ![c] = q] /\ pad' = pad /\ caller[c].op = "none" /\ ValidPayload(e.kind, text)
    <3>1. caller[c] = Quiet /\ Quiet.op = "none"
      BY <1>4 DEF ReadForEdit, Quiet
    <3> QED BY <1>4, <3>1 DEF ReadForEdit
  <2> HIDE DEF q, x
  <2>4. DOMAIN caller' = PadCallers /\ caller'[c] = q /\ \A d \in PadCallers \ {c} : caller'[d] = caller[d]
    BY <2>3 DEF PadInv
  <2>5. Adders' = Adders
    BY <2>2, <2>3, <2>4 DEF Adders
  <2> QED BY <2>1, <2>2, <2>3, <2>4, <2>5 DEF PadInv, ValidPayload
<1>5. ASSUME NEW c \in PadCallers, UpdateEntry(c)
      PROVE  PadInv'
  <2> DEFINE x == caller[c].entry
             f == [e \in pad |-> IF e.id = x.id THEN x ELSE e]
  <2>1. /\ pad' = {f[e] : e \in pad} /\ f = [e \in pad |-> f[e]]
        /\ caller' = [caller EXCEPT ![c] = Quiet] /\ caller[c].op = "edit"
    BY <1>5 DEF UpdateEntry
  <2>2. \A e \in pad : f[e].id = e.id /\ f[e] \in {x, e}
    OBVIOUS
  <2>3. DOMAIN x = {"id", "kind", "text", "label"} /\ ValidPayload(x.kind, x.text)
    BY <2>1 DEF PadInv
  <2> HIDE DEF f, x
  <2>4. \A d, e \in pad : f[d] = f[e] => d = e
    BY <2>2 DEF PadInv
  <2>5. IsFiniteSet(pad') /\ Cardinality(pad') = Cardinality(pad)
    <3>1. IsFiniteSet(pad)
      BY DEF PadInv
    <3> QED BY <2>1, <2>4, <3>1, SameSize
  <2>6. DOMAIN caller' = PadCallers /\ caller'[c] = Quiet /\ \A d \in PadCallers \ {c} : caller'[d] = caller[d]
    BY <2>1 DEF PadInv
  <2>7. DOMAIN Quiet = {"op", "entry"} /\ Quiet.op = "none" /\ DOMAIN Quiet.entry = {"id", "kind", "text", "label"}
    BY DEF Quiet
  <2>8. Adders' = Adders
    BY <2>1, <2>6, <2>7 DEF Adders
  <2>9. (\A d, e \in pad : d.id = e.id => d = e)'
    BY <2>1, <2>2 DEF PadInv
  <2>10. (\A e \in pad : DOMAIN e = {"id", "kind", "text", "label"} /\ ValidPayload(e.kind, e.text))'
    BY <2>1, <2>2, <2>3 DEF PadInv, ValidPayload
  <2> QED BY <2>5, <2>6, <2>7, <2>8, <2>9, <2>10 DEF PadInv, ValidPayload
<1>6. ASSUME NEW e \in pad, RemoveEntry(e)
      PROVE  PadInv'
  <2>1. pad' = pad \ {e} /\ caller' = caller /\ Adders' = Adders
    BY <1>6 DEF RemoveEntry, Adders
  <2>2. IsFiniteSet(pad') /\ Cardinality(pad') = Cardinality(pad) - 1
    BY <2>1, FS_RemoveElement DEF PadInv
  <2>3. Cardinality(pad') + Cardinality(Adders') <= MaxEntries + Cardinality(PadCallers) - 1
    BY <2>1, <2>2, PadCounts, UserAssumption DEF PadInv
  <2> QED BY <2>1, <2>2, <2>3 DEF PadInv, ValidPayload
<1> QED BY <1>1, <1>2, <1>3, <1>4, <1>5, <1>6 DEF PadNext

-----------------------------------------------------------------------------
(* Settings and wheels *)

(* A stored setting is what it was coerced to.                               *)
PrefsInv ==
  /\ DOMAIN prefs = {"number", "choice"}
  /\ prefs["number"] \in {NoPref, Corrupt} \/ \E n \in Int : prefs["number"] = <<n>>

(* There is none at first.                                                   *)
LEMMA PrefsInvInit == PrefsInit => PrefsInv
BY DEF PrefsInit, PrefsInv, SPEC

(* What is written is coerced.                                               *)
LEMMA PrefsInvStep ==
  ASSUME PrefsInv, PrefsNext \/ UNCHANGED prefs
  PROVE  PrefsInv'
<1>1. CASE UNCHANGED prefs
  BY <1>1 DEF PrefsInv
<1>2. ASSUME NEW n \in Floor0 .. Ceiling0 + 1, PutPref("number", <<n>>) PROVE PrefsInv'
  <2>1. n \in Int /\ Clamp(n) \in Int
    BY UserAssumption DEF Clamp
  <2>2. Coerce("number", <<n>>) = <<Clamp(n)>>
    BY DEF Coerce
  <2>3. prefs' = [prefs EXCEPT !["number"] = <<Clamp(n)>>]
    BY <1>2, <2>2 DEF PutPref
  <2> QED BY <2>1, <2>3 DEF PrefsInv
<1>3. ASSUME NEW v, PutPref("choice", v) PROVE PrefsInv'
  BY <1>3 DEF PutPref, PrefsInv
<1> QED BY <1>1, <1>2, <1>3 DEF PrefsNext

(* What is read is within bounds.                                            *)
LEMMA PrefsInvHolds == PrefsInv => PrefsTypeOK
<1> SUFFICES ASSUME PrefsInv PROVE PrefsTypeOK
  OBVIOUS
<1>1. DOMAIN SPEC = {"number", "choice"} /\ SPEC["number"] = <<Floor0>> /\ SPEC["choice"] = <<"off">>
  BY DEF SPEC
<1>2. GetAll.number = <<Floor0>> \/ \E n \in Int : GetAll.number = <<Clamp(n)>>
  <2>1. GetAll["number"] = IF prefs["number"] \in {NoPref, Corrupt} THEN <<Floor0>> ELSE Coerce("number", prefs["number"])
    BY <1>1 DEF GetAll
  <2>2. \A n : Coerce("number", <<n>>) = <<Clamp(n)>>
    BY DEF Coerce
  <2> QED BY <2>1, <2>2 DEF PrefsInv
<1>3. \A n \in Int : Clamp(n) \in Floor0 .. Ceiling0
  BY UserAssumption DEF Clamp
<1>4. GetAll.choice[1] \in OneOf
  <2>1. GetAll["choice"] = IF prefs["choice"] \in {NoPref, Corrupt} THEN <<"off">> ELSE Coerce("choice", prefs["choice"])
    BY <1>1 DEF GetAll
  <2>2. Coerce("choice", prefs["choice"]) = IF prefs["choice"][1] \in OneOf THEN prefs["choice"] ELSE <<"off">>
    BY DEF Coerce
  <2> QED BY <2>1, <2>2 DEF OneOf
<1> QED BY <1>2, <1>3, <1>4, UserAssumption DEF PrefsTypeOK

(* Documents, and the saves of the panel: what one writes, and whether it    *)
(* still knows the lock.                                                     *)
AllWheels == Custom \cup {"main"}
WheelDoc ==
  [version : {"none", "6", "7"}, wheels : SUBSET AllWheels, links : SUBSET AllWheels,
   bound : AllWheels \cup {"gone", NoWheel}, locked : AllWheels \cup {NoWheel}]
PanelSave ==
  [at : {"get", "put", "echo", "refused", "over"}, doc : WheelDoc, dropped : SUBSET AllWheels,
   carry : AllWheels \cup {NoWheel}, fresh : BOOLEAN]

Knows(save, lock) ==
  /\ save.at = "get" => ~save.fresh
  /\ save.fresh /\ save.at = "put" => save.carry = Carry(save, lock)

(* The strengthening: what is on the way to the database keeps the lock as well. *)
WheelsInv ==
  /\ {wheelRow, panel, hub} \subseteq WheelDoc
  /\ wheelRow.version = "7" => ValidWheels(wheelRow)
  /\ hub = NoWheels \/ ValidWheels(hub)
  /\ saves \in Seq(PanelSave) /\ Len(saves) <= MaxSaves /\ locksMade \in 0 .. MaxLocks
  /\ \A i \in DOMAIN saves : Knows(saves[i], GetWheels.locked)

(* What is served to a reader.                                               *)
LEMMA GetWheelsIs ==
  /\ DefaultDoc \in WheelDoc /\ ValidWheels(DefaultDoc) /\ NoWheels \in WheelDoc
  /\ wheelRow \in WheelDoc => GetWheels \in WheelDoc
  /\ ValidWheels(GetWheels)
BY DEF DefaultDoc, WheelDoc, AllWheels, ValidWheels, GetWheels, NoWheels

(* A document that gets another lock is otherwise the same.                  *)
LEMMA LockIs ==
  ASSUME NEW doc \in WheelDoc, NEW l \in AllWheels \cup {NoWheel}
  PROVE  LET new == [doc EXCEPT !.locked = l]
         IN new \in WheelDoc /\ new.locked = l /\ new.wheels = doc.wheels
            /\ new.links = doc.links /\ new.bound = doc.bound
BY DEF WheelDoc

(* What may be stored at first: nothing, an old document, or a good one.     *)
LEMMA WheelsInvInit == WheelsInit => WheelsInv
<1> SUFFICES ASSUME WheelsInit PROVE WheelsInv
  OBVIOUS
<1> DEFINE old == [DefaultDoc EXCEPT !.version = "6", !.bound = "gone"]
<1>1. old \in WheelDoc /\ old.version = "6" /\ NoWheels.version = "none"
  BY DEF DefaultDoc, WheelDoc, AllWheels, NoWheels
<1>2. wheelRow \in {NoWheels, old, DefaultDoc}
  BY DEF WheelsInit
<1> HIDE DEF old
<1>3. wheelRow \in WheelDoc /\ (wheelRow.version = "7" => ValidWheels(wheelRow))
  BY <1>1, <1>2, GetWheelsIs
<1>4. saves = <<>> /\ panel \in WheelDoc /\ hub = NoWheels /\ locksMade = 0
  BY <1>3, GetWheelsIs DEF WheelsInit
<1>5. saves \in Seq(PanelSave) /\ Len(saves) = 0 /\ DOMAIN saves = {}
  BY <1>4
<1> QED BY <1>3, <1>4, <1>5, GetWheelsIs, UserAssumption DEF WheelsInv

(* Steps of the panel ...                                                    *)
LEMMA PanelEditsKeeps ==
  ASSUME WheelsInv, NEW doc \in WheelDocs, PanelEdits(doc)
  PROVE  WheelsInv'
<1> DEFINE l == IF panel.locked \in doc.wheels THEN panel.locked ELSE NoWheel
           next == [doc EXCEPT !.locked = l]
           save == [at |-> "get", doc |-> next, dropped |-> panel.wheels \ doc.wheels,
                    carry |-> next.locked, fresh |-> FALSE]
<1>1. doc \in WheelDoc
  BY DEF WheelDocs, WheelDoc, AllWheels
<1>2. l \in AllWheels \cup {NoWheel}
  BY <1>1 DEF WheelDoc
<1>3. next \in WheelDoc /\ next.locked = l
  <2> HIDE DEF l
  <2> QED BY <1>1, <1>2, LockIs
<1>4. panel.wheels \subseteq AllWheels
  BY DEF WheelsInv, WheelDoc
<1>5. save \in PanelSave /\ ~save.fresh /\ save.at = "get"
  <2> HIDE DEF next, l
  <2> QED BY <1>2, <1>3, <1>4 DEF PanelSave
<1>6. /\ panel' = next /\ saves' = Append(saves, save) /\ Len(saves) < MaxSaves
      /\ UNCHANGED <<wheelRow, hub, locksMade>>
  BY DEF PanelEdits
<1> HIDE DEF next, l, save
<1>7. /\ saves' \in Seq(PanelSave) /\ Len(saves') = Len(saves) + 1 /\ Len(saves) \in Nat
      /\ \A i \in DOMAIN saves' : saves'[i] = save \/ (i \in DOMAIN saves /\ saves'[i] = saves[i])
  BY <1>5, <1>6 DEF WheelsInv
<1>8. GetWheels' = GetWheels
  BY <1>6 DEF GetWheels
<1>9. ASSUME NEW i \in DOMAIN saves' PROVE Knows(saves'[i], GetWheels'.locked)
  BY <1>5, <1>7, <1>8 DEF WheelsInv, Knows
<1> QED BY <1>3, <1>6, <1>7, <1>9, UserAssumption DEF WheelsInv

(* A save that gets on, alone.                                               *)
LEMMA SaveMoves ==
  ASSUME WheelsInv, NEW i \in DOMAIN saves, NEW save \in PanelSave, saves' = [saves EXCEPT ![i] = save]
  PROVE  /\ saves' \in Seq(PanelSave) /\ Len(saves') = Len(saves) /\ DOMAIN saves' = DOMAIN saves
         /\ saves'[i] = save /\ \A k \in DOMAIN saves \ {i} : saves'[k] = saves[k]
BY DEF WheelsInv

(* The lock is read.                                                         *)
LEMMA ReadLockKeeps ==
  ASSUME WheelsInv, NEW i \in DOMAIN saves, ReadLock(i)
  PROVE  WheelsInv'
<1> DEFINE c == Carry(saves[i], GetWheels.locked)
           save == IF saves' = [saves EXCEPT ![i].at = "put"] THEN [saves[i] EXCEPT !.at = "put"]
                   ELSE [saves[i] EXCEPT !.at = "put", !.fresh = TRUE, !.carry = c]
<1>1. saves[i] \in PanelSave /\ saves[i].at = "get" /\ ~saves[i].fresh
  BY DEF WheelsInv, ReadLock, Knows
<1>2. GetWheels \in WheelDoc /\ c \in AllWheels \cup {NoWheel}
  BY GetWheelsIs DEF WheelsInv, WheelDoc, Carry
<1>3. save \in PanelSave /\ save.at = "put" /\ save.dropped = saves[i].dropped /\ (save.fresh => save.carry = c)
  <2> HIDE DEF c
  <2> QED BY <1>1, <1>2 DEF PanelSave
<1>4. saves' = [saves EXCEPT ![i] = save] /\ UNCHANGED <<wheelRow, panel, hub, locksMade>>
  BY DEF ReadLock
<1>5. Knows(save, GetWheels.locked)
  BY <1>3 DEF Knows, Carry
<1> HIDE DEF save, c
<1>6. GetWheels' = GetWheels
  BY <1>4 DEF GetWheels
<1>7. ASSUME NEW k \in DOMAIN saves' PROVE Knows(saves'[k], GetWheels'.locked)
  BY <1>3, <1>4, <1>5, <1>6, SaveMoves DEF WheelsInv
<1> QED BY <1>3, <1>4, <1>7, SaveMoves DEF WheelsInv

(* When somebody writes, nobody knows the lock any more.                     *)
LEMMA StaleIs ==
  ASSUME WheelsInv
  PROVE  /\ Stale \in Seq(PanelSave) /\ Len(Stale) = Len(saves) /\ DOMAIN Stale = DOMAIN saves
         /\ \A i \in DOMAIN saves : /\ Stale[i] \in PanelSave /\ Stale[i].at = saves[i].at /\ ~Stale[i].fresh
<1> DEFINE f(i) == [saves[i] EXCEPT !.fresh = FALSE]
<1>1. ASSUME NEW i \in DOMAIN saves
      PROVE  f(i) \in PanelSave /\ f(i).at = saves[i].at /\ ~f(i).fresh
  <2>1. saves[i] \in PanelSave
    BY DEF WheelsInv
  <2> QED BY <2>1 DEF PanelSave
<1>2. DOMAIN saves = 1 .. Len(saves) /\ Len(saves) \in Nat
  BY DEF WheelsInv
<1>3. Stale = [i \in 1 .. Len(saves) |-> f(i)]
  BY <1>2 DEF Stale
<1> HIDE DEF f
<1> QED BY <1>1, <1>2, <1>3

(* A document is written, or refused.                                        *)
LEMMA PanelPutKeeps ==
  ASSUME WheelsInv, NEW i \in DOMAIN saves, PanelPut(i)
  PROVE  WheelsInv'
<1> DEFINE doc == [saves[i].doc EXCEPT !.locked = saves[i].carry]
<1>1. saves[i] \in PanelSave
  BY DEF WheelsInv
<1>2. doc \in WheelDoc
  <2>1. saves[i].doc \in WheelDoc /\ saves[i].carry \in AllWheels \cup {NoWheel}
    BY <1>1 DEF PanelSave
  <2> QED BY <2>1, LockIs
<1>3. CASE ValidWheels(doc)
  <2> DEFINE save == [Stale[i] EXCEPT !.at = "echo", !.doc = doc]
  <2>1. wheelRow' = doc /\ UNCHANGED <<panel, hub, locksMade>>
    BY <1>3 DEF PanelPut
  <2>2. saves' = [Stale EXCEPT ![i] = save]
    BY <1>3 DEF PanelPut
  <2>3. save \in PanelSave /\ ~save.fresh
    <3> HIDE DEF doc
    <3> QED BY StaleIs, <1>2 DEF PanelSave
  <2> HIDE DEF save, doc
  <2>4. /\ saves' \in Seq(PanelSave) /\ Len(saves') = Len(saves)
        /\ \A k \in DOMAIN saves' : ~saves'[k].fresh
    BY <2>2, <2>3, StaleIs
  <2> QED BY <1>2, <1>3, <2>1, <2>4 DEF WheelsInv, Knows
<1>4. CASE ~ValidWheels(doc)
  <2> DEFINE save == [saves[i] EXCEPT !.at = "refused"]
  <2>1. saves' = [saves EXCEPT ![i] = save] /\ UNCHANGED <<wheelRow, panel, hub, locksMade>>
    BY <1>4 DEF PanelPut
  <2>2. save \in PanelSave /\ save.at = "refused"
    BY <1>1 DEF PanelSave
  <2> HIDE DEF save
  <2>3. GetWheels' = GetWheels
    BY <2>1 DEF GetWheels
  <2>4. ASSUME NEW k \in DOMAIN saves' PROVE Knows(saves'[k], GetWheels'.locked)
    BY <2>1, <2>2, <2>3, SaveMoves DEF WheelsInv, Knows
  <2> QED BY <2>1, <2>2, <2>4, SaveMoves DEF WheelsInv
<1> QED BY <1>3, <1>4

(* The panel is answered.                                                    *)
LEMMA AnsweredKeeps ==
  ASSUME WheelsInv, NEW i \in DOMAIN saves, Answered(i)
  PROVE  WheelsInv'
<1> DEFINE save == [saves[i] EXCEPT !.at = "over"]
<1>1. saves[i] \in PanelSave
  BY DEF WheelsInv
<1>2. save \in PanelSave /\ save.at = "over" /\ saves[i].doc \in WheelDoc
  BY <1>1 DEF PanelSave
<1>3. saves' = [saves EXCEPT ![i] = save] /\ UNCHANGED <<wheelRow, hub, locksMade>>
  BY DEF Answered
<1>4. panel' \in WheelDoc
  BY <1>2, GetWheelsIs DEF Answered, WheelsInv
<1> HIDE DEF save
<1>5. GetWheels' = GetWheels
  BY <1>3 DEF GetWheels
<1>6. ASSUME NEW k \in DOMAIN saves' PROVE Knows(saves'[k], GetWheels'.locked)
  BY <1>2, <1>3, <1>5, SaveMoves DEF WheelsInv, Knows
<1> QED BY <1>2, <1>3, <1>4, <1>6, SaveMoves DEF WheelsInv

(* ... and of an open wheel.                                                 *)
LEMMA HubKeeps ==
  ASSUME WheelsInv, Spawn \/ Dismiss
  PROVE  WheelsInv'
<1>1. UNCHANGED <<wheelRow, panel, saves, locksMade>> /\ GetWheels' = GetWheels
  BY DEF Spawn, Dismiss, GetWheels
<1>2. hub' \in WheelDoc /\ (hub' = NoWheels \/ ValidWheels(hub'))
  BY GetWheelsIs DEF Spawn, Dismiss, WheelsInv
<1> QED BY <1>1, <1>2 DEF WheelsInv, ValidWheels

(* The lock is toggled.                                                      *)
LEMMA ToggleLockKeeps ==
  ASSUME WheelsInv, NEW w \in Custom \cup {"main"}, ToggleLock(w)
  PROVE  WheelsInv'
<1> DEFINE l == IF hub.locked = w THEN NoWheel ELSE w
<1>1. hub' = [hub EXCEPT !.locked = l]
  BY DEF ToggleLock
<1>2. /\ wheelRow' = hub' /\ UNCHANGED panel /\ saves' = Stale /\ locksMade' = locksMade + 1
      /\ locksMade < MaxLocks /\ hub # NoWheels /\ w \in hub.wheels
  BY DEF ToggleLock
<1>3. l \in {w, NoWheel} /\ l \in AllWheels \cup {NoWheel}
  BY DEF AllWheels
<1> HIDE DEF l
<1>4. /\ hub' \in WheelDoc /\ hub'.locked = l /\ hub'.wheels = hub.wheels
      /\ hub'.links = hub.links /\ hub'.bound = hub.bound
  BY <1>1, <1>3, LockIs DEF WheelsInv
<1>5. ValidWheels(hub')
  BY <1>2, <1>3, <1>4 DEF WheelsInv, ValidWheels
<1>6. \A k \in DOMAIN saves' : ~saves'[k].fresh
  BY <1>2, StaleIs
<1> QED BY <1>2, <1>4, <1>5, <1>6, StaleIs, UserAssumption DEF WheelsInv, Knows

(* Every step keeps the invariant.                                           *)
LEMMA WheelsInvStep ==
  ASSUME WheelsInv, [WheelsNext]_wheelVars
  PROVE  WheelsInv'
<1>1. CASE UNCHANGED wheelVars
  BY <1>1 DEF wheelVars, WheelsInv, GetWheels, ValidWheels, Knows, Carry
<1>2. CASE WheelsNext
  BY <1>2, PanelEditsKeeps, ReadLockKeeps, PanelPutKeeps, AnsweredKeeps, HubKeeps, ToggleLockKeeps DEF WheelsNext
<1> QED BY <1>1, <1>2

(* What is seen of it.                                                       *)
LEMMA WheelsInvHolds == WheelsInv => WheelsTypeOK
<1> SUFFICES ASSUME WheelsInv PROVE WheelsTypeOK
  OBVIOUS
<1>1. ASSUME NEW i \in DOMAIN saves PROVE saves[i].at \in {"get", "put", "echo", "refused", "over"}
  <2>1. saves[i] \in PanelSave
    BY DEF WheelsInv
  <2> QED BY <2>1 DEF PanelSave
<1> QED BY <1>1, GetWheelsIs DEF WheelsInv, WheelsTypeOK

(* The lock of a save that knows it is the lock that is stored.              *)
LEMMA PanelKeepsIt ==
  ASSUME WheelsInv, [WheelsNext]_wheelVars, NEW i \in DOMAIN saves,
         saves[i].at = "put", saves'[i].at = "echo", saves[i].fresh
  PROVE  \/ wheelRow'.locked = GetWheels.locked
         \/ wheelRow'.locked = NoWheel /\ GetWheels.locked \in saves[i].dropped
<1>1. PanelPut(i)
  <2>1. ASSUME NEW doc \in WheelDocs, PanelEdits(doc) PROVE FALSE
    <3>1. PICK save : saves' = Append(saves, save)
      BY <2>1 DEF PanelEdits
    <3>2. saves'[i] = saves[i]
      BY <3>1 DEF WheelsInv
    <3> QED BY <3>2
  <2>2. ASSUME NEW k \in DOMAIN saves, ReadLock(k) \/ Answered(k) PROVE FALSE
    <3>1. k # i
      BY <2>2 DEF ReadLock, Answered
    <3>2. saves'[i] = saves[i]
      BY <2>2, <3>1 DEF ReadLock, Answered, WheelsInv
    <3> QED BY <3>2
  <2>3. ASSUME NEW k \in DOMAIN saves, k # i, PanelPut(k) PROVE FALSE
    <3>1. saves'[i] = saves[i] \/ saves'[i] = Stale[i]
      BY <2>3, StaleIs DEF PanelPut, WheelsInv
    <3> QED BY <3>1, StaleIs
  <2>4. ASSUME Spawn \/ Dismiss \/ UNCHANGED wheelVars PROVE FALSE
    BY <2>4 DEF Spawn, Dismiss, wheelVars
  <2>5. ASSUME NEW w, ToggleLock(w) PROVE FALSE
    BY <2>5, StaleIs DEF ToggleLock
  <2> QED BY <2>1, <2>2, <2>3, <2>4, <2>5 DEF WheelsNext
<1> DEFINE doc == [saves[i].doc EXCEPT !.locked = saves[i].carry]
<1>2. saves[i] \in PanelSave
  BY DEF WheelsInv
<1>3. saves[i].doc \in WheelDoc /\ saves[i].carry \in AllWheels \cup {NoWheel}
  BY <1>2 DEF PanelSave
<1>4. doc.locked = saves[i].carry
  BY <1>3, LockIs
<1>5. wheelRow' = doc
  <2>1. CASE ~ValidWheels(doc)
    <3>1. saves' = [saves EXCEPT ![i].at = "refused"]
      BY <1>1, <2>1 DEF PanelPut
    <3>2. saves'[i].at = "refused"
      BY <3>1, <1>2 DEF WheelsInv, PanelSave
    <3> QED BY <3>2
  <2>2. CASE ValidWheels(doc)
    BY <1>1, <2>2 DEF PanelPut
  <2> QED BY <2>1, <2>2
<1>6. saves[i].carry = Carry(saves[i], GetWheels.locked)
  BY DEF WheelsInv, Knows
<1> HIDE DEF doc
<1> QED BY <1>4, <1>5, <1>6 DEF Carry

-----------------------------------------------------------------------------
(* Charts *)

(* A save on its way, and what the page and the database hold.               *)
ChartPut == [key : ChartKeys, doc : Drawn \cup {EmptyDoc}]

ChartTypes ==
  /\ rows \in [ChartKeys -> Drawn \cup {NoDoc}]
  /\ bucket \in [ChartKeys -> Drawn \cup {EmptyDoc}] /\ answer \in [ChartKeys -> Drawn \cup {EmptyDoc}]
  /\ saved \in [ChartKeys -> Drawn \cup {EmptyDoc, NoDoc}]
  /\ load \in [ChartKeys -> {"no", "asked", "answered", "done"}]
  /\ engine \in ChartKeys \cup {none} /\ timer \in BOOLEAN /\ (timer => engine # none)
  /\ puts \in Seq(ChartPut) /\ touches \in 0 .. MaxTouches
  /\ \A k \in ChartKeys : rows[k] # NoDoc => ~Blank(rows[k])

(* What is kept of a document.                                               *)
Kept(doc) == IF Blank(doc) THEN NoDoc ELSE doc

(* The saves of a chart that are on their way, and the last of them.         *)
Sends(q, k) == \E i \in DOMAIN q : q[i].key = k
SendsLast(q, k, i) == i \in DOMAIN q /\ q[i].key = k /\ \A j \in DOMAIN q : j > i => q[j].key # k

(* Of a chart of which s was handed to the store: s is the last that is on   *)
(* its way, or what is stored.                                               *)
Sent(q, s, stored, k) ==
  s # NoDoc => /\ \A i \in DOMAIN q : SendsLast(q, k, i) => q[i].doc = s
               /\ ~Sends(q, k) => stored = Kept(s)

(* What is saved, on its way or waiting is what the page shows.              *)
ChartSync ==
  \A k \in ChartKeys :
    /\ Sent(puts, saved[k], rows[k], k)
    /\ ~(timer /\ engine = k) /\ saved[k] # NoDoc => bucket[k] = saved[k]
    /\ load[k] = "answered" => ~Sends(puts, k) /\ answer[k] = Get(k)
    /\ load[k] # "done" => saved[k] = NoDoc
    /\ engine = k => load[k] # "no"

(* The two documents that are none.                                          *)
LEMMA BlankIs == Blank(EmptyDoc) /\ EmptyDoc # NoDoc /\ none \notin ChartKeys
BY ChartAssumption DEF Blank, Objects, EmptyDoc, NoDoc, none

(* What is seen of the types.                                                *)
LEMMA ChartTypesHold == ChartTypes => ChartTypeOK
<1> SUFFICES ASSUME ChartTypes PROVE ChartTypeOK
  OBVIOUS
<1>1. \A k \in ChartKeys : rows[k] # EmptyDoc
  BY BlankIs DEF ChartTypes
<1>2. ListKeys \subseteq ChartKeys
  BY DEF ListKeys
<1> QED BY <1>1, <1>2 DEF ChartTypes, ChartTypeOK

(* Nothing was handed over at first.                                         *)
LEMMA ChartInitIs == ChartInit => ChartTypes /\ ChartSync
<1> SUFFICES ASSUME ChartInit PROVE ChartTypes /\ ChartSync
  OBVIOUS
<1>1. rows \in [ChartKeys -> {doc \in Drawn : Valid(doc) /\ ~IsEmpty(doc)} \cup {NoDoc}]
  BY DEF ChartInit
<1>2. rows \in [ChartKeys -> Drawn \cup {NoDoc}] /\ \A k \in ChartKeys : rows[k] # NoDoc => ~Blank(rows[k])
  BY <1>1 DEF IsEmpty, Blank
<1>3. puts = <<>> /\ puts \in Seq(ChartPut)
  BY DEF ChartInit
<1>4. ChartTypes
  <2>1. /\ bucket = [k \in ChartKeys |-> EmptyDoc] /\ answer = bucket /\ saved = [k \in ChartKeys |-> NoDoc]
        /\ load = [k \in ChartKeys |-> "no"] /\ engine = none /\ timer = FALSE /\ touches = 0
    BY DEF ChartInit
  <2>2. bucket \in [ChartKeys -> Drawn \cup {EmptyDoc}] /\ saved \in [ChartKeys -> Drawn \cup {EmptyDoc, NoDoc}]
    BY <2>1
  <2>3. touches \in 0 .. MaxTouches /\ load \in [ChartKeys -> {"no", "asked", "answered", "done"}]
    BY <2>1, ChartAssumption
  <2> QED BY <1>2, <1>3, <2>1, <2>2, <2>3 DEF ChartTypes
<1>5. ChartSync
  BY BlankIs DEF ChartInit, ChartSync, Sent
<1> QED BY <1>4, <1>5

(* A save is handed over, ...                                                *)
LEMMA SendsMore ==
  ASSUME NEW q \in Seq(ChartPut), NEW k \in ChartKeys, NEW doc \in Drawn \cup {EmptyDoc},
         NEW s, NEW stored, NEW l \in ChartKeys, Sent(q, s, stored, l)
  PROVE  LET p == [key |-> k, doc |-> doc]
             t == IF l = k THEN doc ELSE s
         IN  /\ Append(q, p) \in Seq(ChartPut) /\ Sent(Append(q, p), t, stored, l)
             /\ Sends(Append(q, p), l) => Sends(q, l) \/ l = k
<1> DEFINE p == [key |-> k, doc |-> doc]
           r == Append(q, p)
<1>1. p \in ChartPut /\ p.key = k /\ p.doc = doc
  BY DEF ChartPut
<1> HIDE DEF p
<1>2. /\ r \in Seq(ChartPut) /\ Len(q) \in Nat /\ DOMAIN q = 1 .. Len(q) /\ DOMAIN r = 1 .. Len(q) + 1
      /\ r[Len(q) + 1] = p /\ \A i \in DOMAIN q : r[i] = q[i]
  BY <1>1
<1> HIDE DEF r
<1>3. CASE l = k
  <2>1. Sends(r, k)
    BY <1>1, <1>2 DEF Sends
  <2>2. \A i \in DOMAIN r : SendsLast(r, k, i) => i = Len(q) + 1
    BY <1>1, <1>2 DEF SendsLast
  <2> QED BY <1>1, <1>2, <1>3, <2>1, <2>2 DEF Sent, r, p
<1>4. CASE l # k
  <2>1. Sends(r, l) <=> Sends(q, l)
    BY <1>1, <1>2, <1>4 DEF Sends
  <2>2. \A i \in DOMAIN r : SendsLast(r, l, i) => i \in DOMAIN q /\ SendsLast(q, l, i)
    BY <1>1, <1>2, <1>4 DEF SendsLast
  <2> QED BY <1>2, <1>4, <2>1, <2>2 DEF Sent, r, p
<1> QED BY <1>3, <1>4

(* ... and is served.                                                        *)
LEMMA SendsLess ==
  ASSUME NEW q \in Seq(ChartPut), q # <<>>
  PROVE  /\ Tail(q) \in Seq(ChartPut) /\ Head(q) \in ChartPut
         /\ \A l : Sends(Tail(q), l) => Sends(q, l)
         /\ \A l, s, stored : l # Head(q).key /\ Sent(q, s, stored, l) => Sent(Tail(q), s, stored, l)
         /\ \A s, stored : Sent(q, s, stored, Head(q).key) => Sent(Tail(q), s, Kept(Head(q).doc), Head(q).key)
<1> DEFINE r == Tail(q)
<1>1. /\ r \in Seq(ChartPut) /\ Len(q) \in Nat \ {0} /\ DOMAIN q = 1 .. Len(q) /\ DOMAIN r = 1 .. Len(q) - 1
      /\ Head(q) = q[1] /\ q[1] \in ChartPut /\ \A i \in DOMAIN r : r[i] = q[i + 1] /\ i + 1 \in DOMAIN q
  OBVIOUS
<1> HIDE DEF r
<1>2. \A l : Sends(r, l) => Sends(q, l)
  BY <1>1 DEF Sends
<1>3. \A l : l # q[1].key /\ Sends(q, l) => Sends(r, l)
  <2> SUFFICES ASSUME NEW l, l # q[1].key, NEW i \in DOMAIN q, q[i].key = l PROVE Sends(r, l)
    BY DEF Sends
  <2>1. i # 1 /\ i - 1 \in DOMAIN r /\ r[i - 1] = q[i]
    BY <1>1
  <2> QED BY <2>1 DEF Sends
<1>4. ASSUME NEW l, NEW i \in DOMAIN r, SendsLast(r, l, i) PROVE SendsLast(q, l, i + 1)
  <2>1. i + 1 \in DOMAIN q /\ q[i + 1].key = l
    BY <1>1, <1>4 DEF SendsLast
  <2>2. ASSUME NEW j \in DOMAIN q, j > i + 1 PROVE q[j].key # l
    <3>1. j - 1 \in DOMAIN r /\ j - 1 > i /\ r[j - 1] = q[j]
      BY <1>1, <2>2
    <3> QED BY <3>1, <1>4 DEF SendsLast
  <2> QED BY <2>1, <2>2 DEF SendsLast
<1>5. ASSUME NEW l, ~Sends(r, l), l = q[1].key PROVE SendsLast(q, l, 1)
  <2>1. ASSUME NEW j \in DOMAIN q, j > 1 PROVE q[j].key # l
    <3>1. j - 1 \in DOMAIN r /\ r[j - 1] = q[j]
      BY <1>1, <2>1
    <3> QED BY <3>1, <1>5 DEF Sends
  <2> QED BY <2>1, <1>1, <1>5 DEF SendsLast
<1>6. ASSUME NEW l, NEW s, NEW stored, l # q[1].key, Sent(q, s, stored, l) PROVE Sent(r, s, stored, l)
  BY <1>1, <1>3, <1>4, <1>6 DEF Sent
<1>7. ASSUME NEW s, NEW stored, Sent(q, s, stored, q[1].key) PROVE Sent(r, s, Kept(q[1].doc), q[1].key)
  BY <1>1, <1>4, <1>5, <1>7 DEF Sent
<1> QED BY <1>1, <1>2, <1>6, <1>7 DEF r

(* saveNow hands over what is not believed saved.                            *)
LEMMA SaveNowIs ==
  ASSUME ChartTypes, NEW k \in ChartKeys, SaveNow(k)
  PROVE  /\ saved' \in [ChartKeys -> Drawn \cup {EmptyDoc, NoDoc}] /\ puts' \in Seq(ChartPut)
         /\ saved'[k] = bucket[k] /\ \A l \in ChartKeys \ {k} : saved'[l] = saved[l]
         /\ \A l \in ChartKeys \ {k} : Sends(puts', l) => Sends(puts, l)
         /\ \A l \in ChartKeys : Sent(puts, saved[l], rows[l], l) => Sent(puts', saved'[l], rows[l], l)
<1>1. CASE bucket[k] = saved[k]
  <2>1. saved' = saved /\ puts' = puts
    BY <1>1 DEF SaveNow
  <2> QED BY <1>1, <2>1 DEF ChartTypes
<1>2. CASE bucket[k] # saved[k]
  <2>1. /\ saved' = [saved EXCEPT ![k] = bucket[k]]
        /\ puts' = Append(puts, [key |-> k, doc |-> bucket[k]])
    BY <1>2 DEF SaveNow
  <2>2. puts \in Seq(ChartPut) /\ bucket[k] \in Drawn \cup {EmptyDoc}
    BY DEF ChartTypes
  <2>3. \A l \in ChartKeys : saved'[l] = IF l = k THEN bucket[k] ELSE saved[l]
    BY <2>1 DEF ChartTypes
  <2>4. ASSUME NEW l \in ChartKeys, Sent(puts, saved[l], rows[l], l)
        PROVE  Sent(puts', saved'[l], rows[l], l)
    BY <2>1, <2>2, <2>3, <2>4, SendsMore
  <2>5. Sent(puts, NoDoc, rows[k], k)
    BY DEF Sent
  <2>6. puts' \in Seq(ChartPut)
    BY <2>1, <2>2, <2>5, SendsMore
  <2>7. ASSUME NEW l \in ChartKeys \ {k}, Sends(puts', l) PROVE Sends(puts, l)
    <3>1. Sent(puts, NoDoc, rows[l], l)
      BY DEF Sent
    <3> QED BY <2>1, <2>2, <2>7, <3>1, SendsMore
  <2> QED BY <2>1, <2>2, <2>3, <2>4, <2>6, <2>7 DEF ChartTypes
<1> QED BY <1>1, <1>2

(* While a load is out nobody hands anything over.                           *)
LEMMA SettledIs ==
  ASSUME ChartTypes, ChartSync, Orderly, Settled
  PROVE  /\ \A k \in ChartKeys : load[k] \in {"no", "done"}
         /\ engine # none => load[engine] = "done"
BY DEF ChartTypes, ChartSync, Settled, Loading

(* Opening and leaving a chart.                                              *)
LEMMA OpenKeepsTypes ==
  ASSUME ChartTypes, NEW k \in ChartKeys, Open(k)
  PROVE  ChartTypes'
<1>1. saved' \in [ChartKeys -> Drawn \cup {EmptyDoc, NoDoc}] /\ puts' \in Seq(ChartPut)
  BY SaveNowIs DEF Open, FlushSave, ChartTypes
<1>2. load' \in [ChartKeys -> {"no", "asked", "answered", "done"}]
  BY DEF Open, Hydrate, ChartTypes
<1> QED BY <1>1, <1>2, BlankIs, ChartAssumption DEF Open, Touch, ChartTypes

(* The chart that is left is handed over first.                              *)
LEMMA OpenKeepsSync ==
  ASSUME ChartTypes, ChartSync, Orderly, NEW k \in ChartKeys, Open(k)
  PROVE  ChartSync'
<1>1. (\A l \in ChartKeys : load[l] \in {"no", "done"}) /\ (engine # none => load[engine] = "done")
  BY SettledIs DEF Open
<1>2. /\ engine # k /\ engine' = k /\ UNCHANGED <<rows, bucket, answer>>
      /\ \A l \in ChartKeys : load'[l] = IF l = k /\ load[l] = "no" THEN "asked" ELSE load[l]
  BY DEF Open, Hydrate, ChartTypes
<1>3. CASE engine = none
  <2>1. saved' = saved /\ puts' = puts
    BY <1>3 DEF Open, FlushSave
  <2> QED BY <1>1, <1>2, <1>3, <2>1 DEF ChartSync, Get, ChartTypes
<1>4. CASE engine # none
  <2>1. engine \in ChartKeys /\ SaveNow(engine)
    BY <1>4 DEF Open, FlushSave, ChartTypes
  <2>2. /\ saved'[engine] = bucket[engine] /\ \A l \in ChartKeys \ {engine} : saved'[l] = saved[l]
        /\ \A l \in ChartKeys : Sent(puts', saved'[l], rows[l], l)
    BY <2>1, SaveNowIs DEF ChartSync
  <2>3. ASSUME NEW l \in ChartKeys
        PROVE  /\ saved'[l] # NoDoc => bucket[l] = saved'[l]
               /\ load'[l] # "done" => saved'[l] = NoDoc
               /\ load'[l] # "answered" /\ (l = k => load'[l] # "no")
    <3>1. CASE l = engine
      BY <3>1, <1>1, <1>2, <1>4, <2>2
    <3>2. CASE l # engine
      BY <3>2, <1>1, <1>2, <2>2 DEF ChartSync
    <3> QED BY <3>1, <3>2
  <2>4. \A l \in ChartKeys : Sent(puts', saved'[l], rows'[l], l)
    BY <1>2, <2>2
  <2> QED BY <1>2, <2>3, <2>4 DEF ChartSync
<1> QED BY <1>3, <1>4

(* The engine goes ...                                                       *)
LEMMA DestroyKeepsTypes ==
  ASSUME ChartTypes, Destroy
  PROVE  ChartTypes'
<1>1. saved' \in [ChartKeys -> Drawn \cup {EmptyDoc, NoDoc}] /\ puts' \in Seq(ChartPut)
  BY SaveNowIs DEF Destroy, FlushSave, ChartTypes
<1> QED BY <1>1 DEF Destroy, ChartTypes

(* ... and hands over what it has.                                           *)
LEMMA DestroyKeepsSync ==
  ASSUME ChartTypes, ChartSync, Orderly, Destroy
  PROVE  ChartSync'
<1>1. /\ \A l \in ChartKeys : load[l] \in {"no", "done"}
      /\ engine \in ChartKeys /\ load[engine] = "done" /\ SaveNow(engine)
  BY SettledIs DEF Destroy, FlushSave, ChartTypes
<1>2. engine' = none /\ ~timer' /\ UNCHANGED <<rows, bucket, answer, load>>
  BY DEF Destroy
<1>3. /\ saved'[engine] = bucket[engine] /\ \A l \in ChartKeys \ {engine} : saved'[l] = saved[l]
      /\ \A l \in ChartKeys : Sent(puts', saved'[l], rows[l], l)
  BY <1>1, SaveNowIs DEF ChartSync
<1>4. ASSUME NEW l \in ChartKeys
      PROVE  /\ saved'[l] # NoDoc => bucket[l] = saved'[l]
             /\ load[l] # "done" => saved'[l] = NoDoc
  BY <1>1, <1>3, <1>4 DEF ChartSync
<1> QED BY <1>1, <1>2, <1>3, <1>4, BlankIs DEF ChartSync

(* Loads.                                                                    *)
LEMMA LoadServedKeepsTypes ==
  ASSUME ChartTypes, NEW k \in ChartKeys, LoadServed(k)
  PROVE  ChartTypes'
<1>1. Get(k) \in Drawn \cup {EmptyDoc}
  BY DEF Get, ChartTypes
<1> QED BY <1>1 DEF LoadServed, ChartTypes

(* A load is served when nothing of the chart is on its way.                 *)
LEMMA LoadServedKeepsSync ==
  ASSUME ChartTypes, ChartSync, Orderly, NEW k \in ChartKeys, LoadServed(k)
  PROVE  ChartSync'
<1>1. /\ load[k] = "asked" /\ ~Sends(puts, k)
      /\ load' = [load EXCEPT ![k] = "answered"] /\ answer' = [answer EXCEPT ![k] = Get(k)]
      /\ UNCHANGED <<rows, bucket, saved, engine, timer, puts>>
  BY DEF LoadServed, Sends
<1>2. /\ load'[k] = "answered" /\ answer'[k] = Get(k)
      /\ \A l \in ChartKeys \ {k} : load'[l] = load[l] /\ answer'[l] = answer[l]
  BY <1>1 DEF ChartTypes
<1>3. \A l \in ChartKeys : Get(l)' = Get(l)
  BY <1>1 DEF Get
<1> QED BY <1>1, <1>2, <1>3 DEF ChartSync

(* A load arrives ...                                                        *)
LEMMA LoadArrivesKeepsTypes ==
  ASSUME ChartTypes, NEW k \in ChartKeys, LoadArrives(k)
  PROVE  ChartTypes'
<1>1. timer' \in BOOLEAN /\ (timer' => engine # none)
  BY BlankIs DEF LoadArrives, ChartTypes
<1> QED BY <1>1 DEF LoadArrives, ChartTypes

(* ... at a chart of which nothing was handed over.                          *)
LEMMA LoadArrivesKeepsSync ==
  ASSUME ChartTypes, ChartSync, Orderly, NEW k \in ChartKeys, LoadArrives(k)
  PROVE  ChartSync'
<1>1. /\ load[k] = "answered" /\ load' = [load EXCEPT ![k] = "done"] /\ timer' = (timer \/ engine = k)
      /\ UNCHANGED <<rows, answer, engine, puts>>
  BY DEF LoadArrives
<1>2. saved[k] = NoDoc /\ ~Sends(puts, k) /\ answer[k] = Get(k)
  BY <1>1 DEF ChartSync
<1>3. load'[k] = "done" /\ \A l \in ChartKeys \ {k} : load'[l] = load[l]
  BY <1>1 DEF ChartTypes
<1>4. \A l \in ChartKeys : Get(l)' = Get(l)
  BY <1>1 DEF Get
<1>5. CASE Blank(bucket[k])
  <2>1. /\ bucket'[k] = answer[k] /\ saved'[k] = answer[k]
        /\ \A l \in ChartKeys \ {k} : bucket'[l] = bucket[l] /\ saved'[l] = saved[l]
    BY <1>5 DEF LoadArrives, ChartTypes
  <2>2. rows[k] = Kept(Get(k))
    BY BlankIs DEF Kept, Get, ChartTypes
  <2>3. Sent(puts, answer[k], rows[k], k)
    BY <1>2, <2>2 DEF Sent, Sends, SendsLast
  <2> QED BY <1>1, <1>3, <1>4, <2>1, <2>3 DEF ChartSync
<1>6. CASE ~Blank(bucket[k])
  <2>1. bucket' = bucket /\ saved' = saved
    BY <1>6 DEF LoadArrives
  <2> QED BY <1>1, <1>2, <1>3, <1>4, <2>1 DEF ChartSync
<1> QED BY <1>5, <1>6

(* A load fails ...                                                          *)
LEMMA LoadFailsKeepsTypes ==
  ASSUME ChartTypes, NEW k \in ChartKeys, LoadFails(k)
  PROVE  ChartTypes'
<1>1. timer' \in BOOLEAN /\ (timer' => engine # none)
  BY BlankIs DEF LoadFails, ChartTypes
<1> QED BY <1>1, ChartAssumption DEF LoadFails, Touch, ChartTypes

(* ... and nothing is believed saved.                                        *)
LEMMA LoadFailsKeepsSync ==
  ASSUME ChartTypes, ChartSync, Orderly, NEW k \in ChartKeys, LoadFails(k)
  PROVE  ChartSync'
<1>1. /\ load[k] = "asked" /\ load' = [load EXCEPT ![k] = "done"] /\ timer' = (timer \/ engine = k)
      /\ UNCHANGED <<rows, bucket, answer, saved, engine, puts>>
  BY DEF LoadFails
<1>2. load'[k] = "done" /\ \A l \in ChartKeys \ {k} : load'[l] = load[l]
  BY <1>1 DEF ChartTypes
<1>3. \A l \in ChartKeys : Get(l)' = Get(l)
  BY <1>1 DEF Get
<1> QED BY <1>1, <1>2, <1>3 DEF ChartSync

(* Edits and the debounced save.                                             *)
LEMMA CommitKeepsTypes ==
  ASSUME ChartTypes, NEW doc \in Drawn, Commit(doc)
  PROVE  ChartTypes'
BY ChartAssumption DEF Commit, Touch, ChartTypes

(* An edit is debounced.                                                     *)
LEMMA CommitKeepsSync ==
  ASSUME ChartTypes, ChartSync, NEW doc \in Drawn, Commit(doc)
  PROVE  ChartSync'
<1>1. /\ engine \in ChartKeys /\ bucket' = [bucket EXCEPT ![engine] = doc] /\ timer' = TRUE
      /\ UNCHANGED <<rows, load, answer, saved, engine, puts>>
  BY DEF Commit, ChartTypes
<1>2. \A l \in ChartKeys \ {engine} : bucket'[l] = bucket[l]
  BY <1>1 DEF ChartTypes
<1>3. \A l \in ChartKeys : Get(l)' = Get(l)
  BY <1>1 DEF Get
<1> QED BY <1>1, <1>2, <1>3 DEF ChartSync

(* So is a change of the tool.                                               *)
LEMMA EmitKeeps ==
  ASSUME ChartTypes, Emit
  PROVE  ChartTypes' /\ (ChartSync => ChartSync')
BY DEF Emit, ChartTypes, ChartSync, Get

(* The debounce ends ...                                                     *)
LEMMA ScheduledSaveKeepsTypes ==
  ASSUME ChartTypes, ScheduledSave
  PROVE  ChartTypes'
<1>1. saved' \in [ChartKeys -> Drawn \cup {EmptyDoc, NoDoc}] /\ puts' \in Seq(ChartPut)
  BY SaveNowIs DEF ScheduledSave, ChartTypes
<1> QED BY <1>1 DEF ScheduledSave, ChartTypes

(* ... and the chart is handed over.                                         *)
LEMMA ScheduledSaveKeepsSync ==
  ASSUME ChartTypes, ChartSync, Orderly, ScheduledSave
  PROVE  ChartSync'
<1>1. /\ \A l \in ChartKeys : load[l] \in {"no", "done"}
      /\ engine \in ChartKeys /\ load[engine] = "done" /\ SaveNow(engine)
  BY SettledIs DEF ScheduledSave, ChartTypes
<1>2. ~timer' /\ UNCHANGED <<rows, bucket, answer, load, engine>>
  BY DEF ScheduledSave
<1>3. /\ saved'[engine] = bucket[engine] /\ \A l \in ChartKeys \ {engine} : saved'[l] = saved[l]
      /\ \A l \in ChartKeys : Sent(puts', saved'[l], rows[l], l)
  BY <1>1, SaveNowIs DEF ChartSync
<1>4. ASSUME NEW l \in ChartKeys
      PROVE  /\ saved'[l] # NoDoc => bucket[l] = saved'[l]
             /\ load[l] # "done" => saved'[l] = NoDoc
  BY <1>1, <1>3, <1>4 DEF ChartSync
<1> QED BY <1>1, <1>2, <1>3, <1>4 DEF ChartSync

(* The store.                                                                *)
LEMMA PutServedKeepsTypes ==
  ASSUME ChartTypes, PutServed
  PROVE  ChartTypes'
<1> DEFINE h == Head(puts)
<1>1. puts' \in Seq(ChartPut) /\ h \in ChartPut
  BY SendsLess DEF PutServed, ChartTypes
<1>2. h.key \in ChartKeys /\ h.doc \in Drawn \cup {EmptyDoc}
  BY <1>1 DEF ChartPut
<1>3. CASE Valid(h.doc)
  <2>1. rows' = [rows EXCEPT ![h.key] = Kept(h.doc)] /\ saved' = saved
    BY <1>3 DEF PutServed, Put, Kept, Blank, IsEmpty
  <2>2. Kept(h.doc) \in Drawn \cup {NoDoc} /\ (Kept(h.doc) # NoDoc => ~Blank(Kept(h.doc)))
    BY <1>2, BlankIs DEF Kept
  <2> HIDE DEF h
  <2> QED BY <1>1, <1>2, <2>1, <2>2 DEF PutServed, ChartTypes
<1>4. CASE ~Valid(h.doc)
  <2>1. saved' = [saved EXCEPT ![h.key] = NoDoc] /\ rows' = rows
    BY <1>4 DEF PutServed
  <2> HIDE DEF h
  <2> QED BY <1>1, <1>2, <2>1 DEF PutServed, ChartTypes
<1> QED BY <1>3, <1>4

(* A save is stored, or refused and forgotten.                               *)
LEMMA PutServedKeepsSync ==
  ASSUME ChartTypes, ChartSync, PutServed
  PROVE  ChartSync'
<1> DEFINE h == Head(puts)
<1>1. puts # <<>> /\ puts' = Tail(puts) /\ UNCHANGED <<bucket, load, answer, engine, timer>>
  BY DEF PutServed
<1>2. /\ h \in ChartPut
      /\ \A l : Sends(puts', l) => Sends(puts, l)
      /\ \A l, s, stored : l # h.key /\ Sent(puts, s, stored, l) => Sent(puts', s, stored, l)
      /\ \A s, stored : Sent(puts, s, stored, h.key) => Sent(puts', s, Kept(h.doc), h.key)
  BY <1>1, SendsLess DEF ChartTypes
<1>3. h.key \in ChartKeys /\ Sends(puts, h.key)
  BY <1>1, <1>2 DEF ChartPut, Sends, ChartTypes
<1>4. CASE Valid(h.doc)
  <2>1. rows' = [rows EXCEPT ![h.key] = Kept(h.doc)] /\ saved' = saved
    BY <1>4 DEF PutServed, Put, Kept, Blank, IsEmpty
  <2> HIDE DEF h
  <2>2. rows'[h.key] = Kept(h.doc) /\ \A l \in ChartKeys \ {h.key} : rows'[l] = rows[l]
    BY <1>3, <2>1 DEF ChartTypes
  <2>3. \A l \in ChartKeys \ {h.key} : Get(l)' = Get(l)
    BY <2>2 DEF Get
  <2>4. ASSUME NEW l \in ChartKeys PROVE Sent(puts', saved[l], rows'[l], l)
    BY <1>2, <2>2 DEF ChartSync
  <2> QED BY <1>1, <1>2, <1>3, <2>1, <2>3, <2>4 DEF ChartSync
<1>5. CASE ~Valid(h.doc)
  <2>1. saved' = [saved EXCEPT ![h.key] = NoDoc] /\ rows' = rows
    BY <1>5 DEF PutServed
  <2> HIDE DEF h
  <2>2. saved'[h.key] = NoDoc /\ \A l \in ChartKeys \ {h.key} : saved'[l] = saved[l]
    BY <1>3, <2>1 DEF ChartTypes
  <2>3. \A l \in ChartKeys : Get(l)' = Get(l)
    BY <2>1 DEF Get
  <2>4. ASSUME NEW l \in ChartKeys PROVE Sent(puts', saved'[l], rows[l], l)
    <3>1. CASE l = h.key
      BY <3>1, <2>2 DEF Sent
    <3>2. CASE l # h.key
      BY <3>2, <1>2, <2>2 DEF ChartSync
    <3> QED BY <3>1, <3>2
  <2> QED BY <1>1, <1>2, <2>1, <2>2, <2>3, <2>4 DEF ChartSync
<1> QED BY <1>4, <1>5

(* A save fails and is forgotten.                                            *)
LEMMA PutFailsKeeps ==
  ASSUME ChartTypes, PutFails
  PROVE  ChartTypes' /\ (ChartSync => ChartSync')
<1> DEFINE h == Head(puts)
<1>1. /\ puts # <<>> /\ puts' = Tail(puts) /\ UNCHANGED <<rows, bucket, load, answer, engine, timer>>
      /\ saved' = [saved EXCEPT ![h.key] = NoDoc] /\ touches' \in 0 .. MaxTouches
  BY ChartAssumption DEF PutFails, Touch, ChartTypes
<1>2. /\ h \in ChartPut /\ puts' \in Seq(ChartPut)
      /\ \A l : Sends(puts', l) => Sends(puts, l)
      /\ \A l, s, stored : l # h.key /\ Sent(puts, s, stored, l) => Sent(puts', s, stored, l)
  BY <1>1, SendsLess DEF ChartTypes
<1>3. h.key \in ChartKeys
  BY <1>2 DEF ChartPut
<1> HIDE DEF h
<1>4. ChartTypes'
  BY <1>1, <1>2, <1>3 DEF ChartTypes
<1>5. saved'[h.key] = NoDoc /\ \A l \in ChartKeys \ {h.key} : saved'[l] = saved[l]
  BY <1>1, <1>3 DEF ChartTypes
<1>6. \A l \in ChartKeys : Get(l)' = Get(l)
  BY <1>1 DEF Get
<1>7. ASSUME ChartSync PROVE ChartSync'
  <2>1. ASSUME NEW l \in ChartKeys PROVE Sent(puts', saved'[l], rows[l], l)
    <3>1. CASE l = h.key
      BY <3>1, <1>5 DEF Sent
    <3>2. CASE l # h.key
      BY <3>2, <1>2, <1>5, <1>7 DEF ChartSync
    <3> QED BY <3>1, <3>2
  <2> QED BY <1>1, <1>2, <1>5, <1>6, <1>7, <2>1 DEF ChartSync
<1> QED BY <1>4, <1>7

(* The tab reloads.                                                          *)
LEMMA ReloadKeeps ==
  ASSUME ChartTypes, Reload
  PROVE  ChartTypes' /\ ChartSync'
<1>1. /\ bucket' = [k \in ChartKeys |-> EmptyDoc] /\ answer' = bucket'
      /\ load' = [k \in ChartKeys |-> "no"] /\ saved' = [k \in ChartKeys |-> NoDoc]
      /\ engine' = none /\ timer' = FALSE /\ rows' = rows
  BY DEF Reload
<1>2. touches' \in 0 .. MaxTouches
  BY ChartAssumption DEF Reload, Touch, ChartTypes
<1>3. puts' \in Seq(ChartPut)
  <2>1. puts' = puts \/ puts' = <<>>
    BY DEF Reload
  <2>2. puts \in Seq(ChartPut) /\ <<>> \in Seq(ChartPut)
    BY DEF ChartTypes
  <2> QED BY <2>1, <2>2
<1> QED BY <1>1, <1>2, <1>3, BlankIs DEF ChartTypes, ChartSync, Sent

(* Every step keeps both.                                                    *)
LEMMA ChartStep ==
  ASSUME ChartTypes, [ChartNext]_chartVars
  PROVE  ChartTypes' /\ (Orderly /\ ChartSync => ChartSync')
<1>1. CASE UNCHANGED chartVars
  BY <1>1 DEF chartVars, ChartTypes, ChartSync, Get
<1>2. CASE ChartNext
  BY <1>2, OpenKeepsTypes, OpenKeepsSync, DestroyKeepsTypes, DestroyKeepsSync, LoadServedKeepsTypes,
     LoadServedKeepsSync, LoadArrivesKeepsTypes, LoadArrivesKeepsSync, LoadFailsKeepsTypes,
     LoadFailsKeepsSync, CommitKeepsTypes, CommitKeepsSync, EmitKeeps, ScheduledSaveKeepsTypes,
     ScheduledSaveKeepsSync, PutServedKeepsTypes, PutServedKeepsSync, PutFailsKeeps, ReloadKeeps
  DEF ChartNext
<1> QED BY <1>1, <1>2

(* What is seen of it.                                                       *)
LEMMA SyncIsStored == ChartTypes /\ ChartSync => SavedIsStored
BY DEF ChartSync, SavedIsStored, Sent, Sends, Kept

(* What a chart believes saved is stored, whatever was edited, switched,     *)
(* closed, reloaded or failed in between (ChartDraw.ts, chartobjects.py), as *)
(* long as loads and saves are answered in the order they were sent.         *)
THEOREM ChartsAreStored ==
  ASSUME Orderly = TRUE
  PROVE  ChartSpec => []SavedIsStored
<1>1. ChartInit => ChartTypes /\ ChartSync
  BY ChartInitIs
<1>2. ChartTypes /\ ChartSync /\ [ChartNext]_chartVars => (ChartTypes /\ ChartSync)'
  BY ChartStep
<1>3. ChartTypes /\ ChartSync => SavedIsStored
  BY SyncIsStored
<1> QED BY <1>1, <1>2, <1>3, PTL DEF ChartSpec

(* A save of the panel carries the lock as it is stored (GesturesPanel.tsx,  *)
(* wheels.py), for any number of wheels and saves.                           *)
THEOREM LocksAreKept == WheelsInit /\ [][WheelsNext]_wheelVars => PanelKeepsTheLock
<1>1. WheelsInit => WheelsInv
  BY WheelsInvInit
<1>2. WheelsInv /\ [WheelsNext]_wheelVars => WheelsInv'
  BY WheelsInvStep
<1> DEFINE Keeps == \A i \in DOMAIN saves :
       saves[i].at = "put" /\ saves'[i].at = "echo" /\ saves[i].fresh
         => \/ wheelRow'.locked = GetWheels.locked
            \/ wheelRow'.locked = NoWheel /\ GetWheels.locked \in saves[i].dropped
<1>3. WheelsInv /\ [WheelsNext]_wheelVars => [Keeps]_wheelVars
  BY PanelKeepsIt
<1>4. PanelKeepsTheLock <=> [][Keeps]_wheelVars
  BY PTL DEF PanelKeepsTheLock
<1> HIDE DEF Keeps
<1> QED BY <1>1, <1>2, <1>3, <1>4, PTL

-----------------------------------------------------------------------------
(* All of it: each part keeps its own.                                       *)
DeskInv == StarsInv /\ ChartTypes /\ WheelsInv /\ PrefsInv /\ PadInv

(* A step of one part leaves the others alone.                               *)
LEMMA DeskInvStep ==
  ASSUME DeskInv, [DeskNext]_deskVars
  PROVE  DeskInv'
<1>1. /\ [StarsNext]_starsVars /\ [ChartNext]_chartVars /\ [WheelsNext]_wheelVars
      /\ (PrefsNext \/ UNCHANGED prefs) /\ [PadNext]_padVars
  BY DEF DeskNext, deskVars, savedVars
<1> QED BY <1>1, StarsInvStep, ChartStep, WheelsInvStep, PrefsInvStep, PadInvStep DEF DeskInv

(* What the user keeps has its shape, and what is starred is recorded while  *)
(* what is paused rests (favorites.py, autorecord.py, chartobjects.py,       *)
(* wheels.py, settings.py, notepad.py), whatever of it there is.             *)
THEOREM DeskStaysKept == DeskSpec => []StarsAreKept
<1>1. DeskInit => DeskInv
  BY StarsInvInit, ChartInitIs, WheelsInvInit, PrefsInvInit, PadInvInit DEF DeskInit, DeskInv
<1>2. DeskInv /\ [DeskNext]_deskVars => DeskInv'
  BY DeskInvStep
<1>3. DeskInv => StarsAreKept
  BY StarsInvHolds, ChartTypesHold, WheelsInvHolds, PrefsInvHolds, PadInvHolds DEF DeskInv, StarsAreKept
<1> QED BY <1>1, <1>2, <1>3, PTL DEF DeskSpec

-----------------------------------------------------------------------------
(* The overlay *)

(* Whatever came between, one call for the wheels is looked at, and a page   *)
(* that listens shows nothing when nothing is up.                            *)
Always ==
  /\ WheelTypeOK
  /\ \A c, d \in Waiting("doc") : c = d
  /\ loaded = "yes" /\ session = None /\ launcher = None => face = None

(* The overlay is with the wheel, with the launcher, or with a spawn ...     *)
Claimed ==
  /\ session # None => launcher = None /\ Waiting("pad") = {} /\ overlay = session.win
  /\ launcher # None => Waiting("pad") = {} /\ overlay = launcher
  /\ \A c \in Waiting("pad") : session = None /\ launcher = None /\ overlay = c.win /\ Waiting("doc") = {}
  /\ Waiting("doc") # {} => session = None
  /\ overlay # None => attached = overlay /\ (session # None \/ launcher # None \/ Waiting("pad") # {})
  /\ locked => overlay = None /\ Waiting("doc") = {} /\ Waiting("pages") = {}

(* ... for the last press, which is still down or was released meanwhile.    *)
Pressed ==
  /\ \A c \in Waiting("doc") : c.win = pressed /\ (release \/ held = c.win \/ c.win \notin windows)
  /\ \A c \in Waiting("pad") : c.win = pressed /\ (release \/ held = c.win)
  /\ session # None => session.win = pressed /\ (session.mode # "click" => held = session.win)

(* The page shows what acts.                                                 *)
Facing ==
  loaded = "yes" => face = IF launcher # None THEN Tiles ELSE IF session # None THEN Shown(session) ELSE None

(* These three hold while no lock has crossed a wait,                        *)
Calm == Claimed /\ Pressed /\ Facing

(* the others always.                                                        *)
WheelInv == Always /\ (crossed \/ Calm)

(* What the parts of a call and of a session are.                            *)
LEMMA CallIs ==
  ASSUME NEW c \in Call
  PROVE  /\ c.kind \in {"doc", "pages", "pad", "lock", "picker"}
         /\ c.kind \in {"doc", "pages", "pad"} => c.win \in Wins
         /\ c.kind \in {"pad", "lock", "picker"} => c.id \in Ids
BY DEF Call

(* The calls that are made.                                                  *)
LEMMA CallsMade ==
  /\ \A w \in Wins : [kind |-> "doc", win |-> w] \in Call /\ [kind |-> "pages", win |-> w] \in Call
  /\ \A w \in Wins, i \in Ids : [kind |-> "pad", win |-> w, id |-> i] \in Call
  /\ \A i \in Ids : [kind |-> "lock", id |-> i] \in Call /\ [kind |-> "picker", id |-> i] \in Call
BY DEF Call

(* and those of a session.                                                   *)
LEMMA SessionIs ==
  ASSUME NEW s \in Session
  PROVE  /\ s # None /\ s.id \in Ids /\ s.win \in Wins /\ s.mode \in Modes /\ s.page \in Pages
         /\ Shown(s) \in Face /\ Shown(s) \notin {None, Tiles}
<1>1. s.id \in Ids /\ s.win \in Wins /\ s.mode \in Modes /\ s.page \in Pages
  BY DEF Session
<1>2. Shown(s) \in Face
  BY <1>1 DEF Shown, Face
<1>3. Shown(s) # Tiles
  BY DEF Shown, Tiles
<1> QED BY <1>1, <1>2, <1>3, WheelAssumption

(* A wheel that is held now is otherwise the wheel it was.                   *)
LEMMA SessionHeld ==
  ASSUME NEW s \in Session
  PROVE  LET t == [s EXCEPT !.mode = "hold"]
         IN t \in Session /\ t.id = s.id /\ t.win = s.win /\ t.mode = "hold" /\ t.page = s.page
BY DEF Session, Modes

(* What push and its kin make of the page.                                   *)
LEMMA Pushes ==
  ASSUME Always, NEW f \in Face \cup {None, Tiles}, Push(f)
  PROVE  face' \in Face \cup {None, Tiles} /\ (loaded = "yes" => face' = f)
BY DEF Push, Always, WheelTypeOK

(* What a change of the wheel makes of the page.                             *)
LEMMA Updates ==
  ASSUME Always, NEW f \in Face, Update(f)
  PROVE  /\ face' \in Face \cup {None, Tiles} 
         /\ loaded = "yes" => face' = IF face \in {None, Tiles} THEN face ELSE f
BY DEF Update, Push, Always, WheelTypeOK

(* What taking the overlay down makes of it ...                              *)
LEMMA Detaches ==
  ASSUME Always, NEW ws \in SUBSET Wins, Detach(ws)
  PROVE  /\ overlay' \in windows \cup {None} /\ attached' \in Wins \cup {None}
         /\ face' \in Face \cup {None, Tiles} /\ (loaded = "yes" => face' = IF ws = {} THEN face ELSE None)
BY DEF Detach, Push, Always, WheelTypeOK

(* ... in the windows it is taken from ...                                   *)
LEMMA Places ==
  ASSUME Always
  PROVE  SessionWin \subseteq Wins /\ LauncherWin \subseteq Wins
BY SessionIs DEF SessionWin, LauncherWin, Always, WheelTypeOK

(* ... and what putting it up makes of it.                                   *)
LEMMA Attaches ==
  ASSUME Always, NEW w \in Wins, Attach(w)
  PROVE  overlay' \in windows \cup {None} /\ attached' \in Wins \cup {None}
BY DEF Attach, Always, WheelTypeOK

(* Each step keeps what always holds.                                        *)
LEMMA DownAlways ==
  ASSUME Always, NEW w \in Wins, Down(w), crossed' \in BOOLEAN
  PROVE  Always'
<1>1. CASE UNCHANGED <<placeVars, session, launcher, release, calls, pressed>>
  BY <1>1 DEF Always, WheelTypeOK, Down, placeVars, Outside, Waiting
<1>2. CASE /\ Despawn /\ release' = FALSE /\ pressed' = w
           /\ calls' = (calls \ Superseded("doc")) \cup {[kind |-> "doc", win |-> w]}
  <2>1. [kind |-> "doc", win |-> w] \in Call
    BY CallsMade
  <2>2. WheelTypeOK'
    BY <1>2, <2>1, Places, Detaches DEF Always, WheelTypeOK, Down, Outside, Despawn
  <2>3. (\A c, d \in Waiting("doc") : c = d)'
    BY <1>2 DEF Waiting, Superseded
  <2>4. (loaded = "yes" /\ session = None /\ launcher = None => face = None)'
    BY <1>2, Places, Detaches DEF Always, Down, Despawn, SessionWin
  <2> QED BY <2>2, <2>3, <2>4 DEF Always
<1> QED BY <1>1, <1>2 DEF Down

(* The pointer moves.                                                        *)
LEMMA MoveAlways ==
  ASSUME Always, Move, crossed' \in BOOLEAN
  PROVE  Always'
<1>1. session \in Session /\ session' \in Session
  BY SessionHeld DEF Move, Always, WheelTypeOK
<1>2. Shown(session') \in Face /\ session' # None
  BY <1>1, SessionIs
<1>3. face' \in Face \cup {None, Tiles}
  BY <1>2, Updates DEF Move
<1> QED BY <1>1, <1>2, <1>3 DEF Move, Always, WheelTypeOK, Outside, userVars, Waiting

(* A session that turns a page, or goes.                                     *)
LEMMA SwitchIs ==
  ASSUME Always, session # None, NEW p \in Pages, NEW m \in Modes, Switch(p, m)
  PROVE  /\ session' \in Session /\ session'.id = session.id /\ session'.win = session.win
         /\ session'.mode = m /\ session' # None
         /\ overlay' = overlay /\ attached' = attached /\ launcher' = launcher
         /\ face' \in Face \cup {None, Tiles}
         /\ loaded = "yes" => face' = IF face \in {None, Tiles} THEN face ELSE Shown(session')
<1>1. session \in Session
  BY DEF Always, WheelTypeOK
<1>2. /\ session' \in Session /\ session'.id = session.id /\ session'.win = session.win /\ session'.mode = m
  <2> DEFINE t == [session EXCEPT !.page = p, !.mode = m]
  <2>1. t \in Session /\ t.id = session.id /\ t.win = session.win /\ t.mode = m
    BY <1>1 DEF Session
  <2>2. session' = t
    BY DEF Switch
  <2> QED BY <2>1, <2>2
<1>3. Shown(session') \in Face /\ session' # None
  BY <1>2, SessionIs
<1> QED BY <1>2, <1>3, Updates DEF Switch

(* The wheel goes ...                                                        *)
LEMMA DespawnIs ==
  ASSUME Always, Despawn
  PROVE  /\ session' = None /\ launcher' = launcher
         /\ overlay' \in windows \cup {None} /\ attached' \in Wins \cup {None}
         /\ overlay' = IF session # None /\ overlay = session.win THEN None ELSE overlay
         /\ attached' = IF session = None THEN attached ELSE None
         /\ face' \in Face \cup {None, Tiles}
         /\ loaded = "yes" => face' = IF session = None THEN face ELSE None
<1>1. SessionWin \in SUBSET Wins /\ SessionWin = IF session = None THEN {} ELSE {session.win}
  BY Places DEF SessionWin
<1>2. Detach(SessionWin) /\ session' = None /\ launcher' = launcher
  BY DEF Despawn
<1> QED BY <1>1, <1>2, Detaches DEF Detach

(* ... the launcher goes ...                                                 *)
LEMMA CloseLauncherIs ==
  ASSUME Always, CloseLauncher
  PROVE  /\ launcher' = None /\ session' = session
         /\ overlay' \in windows \cup {None} /\ attached' \in Wins \cup {None}
         /\ overlay' = IF launcher # None /\ overlay = launcher THEN None ELSE overlay
         /\ attached' = IF launcher = None THEN attached ELSE None
         /\ face' \in Face \cup {None, Tiles}
         /\ loaded = "yes" => face' = IF launcher = None THEN face ELSE None
<1>1. LauncherWin \in SUBSET Wins /\ LauncherWin = IF launcher = None THEN {} ELSE {launcher}
  BY Places DEF LauncherWin
<1>2. Detach(LauncherWin) /\ session' = session /\ launcher' = None
  BY DEF CloseLauncher
<1> QED BY <1>1, <1>2, Detaches DEF Detach

(* ... or both do.                                                           *)
LEMMA CloseBothIs ==
  ASSUME Always, CloseBoth
  PROVE  /\ launcher' = None /\ session' = None
         /\ overlay' \in windows \cup {None} /\ attached' \in Wins \cup {None}
         /\ overlay' = IF \/ session # None /\ overlay = session.win
                          \/ launcher # None /\ overlay = launcher THEN None ELSE overlay
         /\ face' \in Face \cup {None, Tiles}
         /\ loaded = "yes" => face' = IF session = None /\ launcher = None THEN face ELSE None
<1> DEFINE ws == SessionWin \cup LauncherWin
<1>1. ws \in SUBSET Wins /\ (ws = {} <=> session = None /\ launcher = None)
  BY Places DEF LauncherWin, SessionWin
<1>2. \A w \in Wins : w \in ws <=> (session # None /\ w = session.win) \/ (launcher # None /\ w = launcher)
  BY <1>1 DEF LauncherWin, SessionWin
<1>3. Detach(ws) /\ session' = None /\ launcher' = None
  BY DEF CloseBoth
<1> HIDE DEF ws
<1>4. /\ overlay' \in windows \cup {None} /\ attached' \in Wins \cup {None}
      /\ face' \in Face \cup {None, Tiles} /\ (loaded = "yes" => face' = IF ws = {} THEN face ELSE None)
  BY <1>1, <1>3, Detaches
<1>5. overlay' = IF overlay \in ws THEN None ELSE overlay
  BY <1>3 DEF Detach
<1>6. CASE overlay = None
  BY <1>1, <1>3, <1>4, <1>5, <1>6
<1>7. CASE overlay \in Wins
  BY <1>1, <1>2, <1>3, <1>4, <1>5, <1>7
<1> QED BY <1>6, <1>7 DEF Always, WheelTypeOK

(* The button is released.                                                   *)
LEMMA UpAlways ==
  ASSUME Always, Up, crossed' \in BOOLEAN
  PROVE  Always'
<1>1. CASE UNCHANGED <<placeVars, session, launcher>> /\ release' \in BOOLEAN
  BY <1>1 DEF Always, WheelTypeOK, Up, placeVars, Outside, Waiting
<1>2. ASSUME session # None, UNCHANGED release, NEW p \in Pages, Switch(p, "click") PROVE Always'
  BY <1>2, SwitchIs DEF Always, WheelTypeOK, Up, Outside, Waiting, Modes
<1>3. CASE UNCHANGED release /\ Despawn
  <2>1. WheelTypeOK'
    BY <1>3, DespawnIs DEF Always, WheelTypeOK, Up, Outside
  <2> QED BY <1>3, <2>1, DespawnIs DEF Always, Up, Waiting
<1>4. CASE locked \/ session = None \/ session.win # held \/ session.mode = "click"
  BY <1>1, <1>4 DEF Up, Always, WheelTypeOK
<1>5. CASE ~(locked \/ session = None \/ session.win # held \/ session.mode = "click")
  <2>1. session \in Session /\ session # None
    BY <1>5 DEF Always, WheelTypeOK
  <2> QED BY <1>2, <1>3, <1>5, <2>1, SessionIs DEF Up, Pages
<1> QED BY <1>4, <1>5

(* The wheels document arrives.                                              *)
LEMMA DocAnswersAlways ==
  ASSUME Always, NEW c \in calls, DocAnswers(c), crossed' \in BOOLEAN
  PROVE  Always'
<1>1. c \in Call /\ c.kind = "doc" /\ c.win \in Wins
  BY CallIs DEF DocAnswers, Waiting, Always, WheelTypeOK
<1>2. overlay' \in windows \cup {None} /\ attached' \in Wins \cup {None}
  BY <1>1, Attaches DEF DocAnswers
<1>3. /\ face' \in Face \cup {None, Tiles}
      /\ loaded = "yes" => face' = IF SessionWin \cup LauncherWin = {} THEN face ELSE None
  BY Pushes DEF DocAnswers, Always, WheelTypeOK
<1>4. calls' \subseteq Call
  BY <1>1, CallsMade DEF DocAnswers, Always, WheelTypeOK
<1>5. WheelTypeOK'
  BY <1>2, <1>3, <1>4 DEF DocAnswers, Always, WheelTypeOK, Outside, Ensure, userVars
<1>6. (\A x, y \in Waiting("doc") : x = y)'
  BY DEF DocAnswers, Waiting, Always
<1>7. (loaded = "yes" /\ session = None /\ launcher = None => face = None)'
  <2>1. loaded' = "yes" => loaded = "yes"
    BY DEF DocAnswers, Ensure
  <2>2. SessionWin \cup LauncherWin = {} => session = None /\ launcher = None
    BY DEF SessionWin, LauncherWin
  <2> QED BY <1>3, <2>1, <2>2 DEF Always
<1> QED BY <1>5, <1>6, <1>7 DEF Always

(* The pages arrive, for the launcher.                                       *)
LEMMA PagesAnswerAlways ==
  ASSUME Always, NEW c \in calls, PagesAnswer(c), crossed' \in BOOLEAN
  PROVE  Always'
<1>1. c \in Call /\ c.kind = "pages" /\ c.win \in Wins
  BY CallIs DEF PagesAnswer, Waiting, Always, WheelTypeOK
<1>2. overlay' \in windows \cup {None} /\ attached' \in Wins \cup {None}
  BY <1>1, Attaches DEF PagesAnswer
<1>3. /\ face' \in Face \cup {None, Tiles}
      /\ loaded = "yes" => face' = IF c.win \in windows THEN Tiles
                                   ELSE IF SessionWin \cup LauncherWin = {} THEN face ELSE None
  BY Pushes DEF PagesAnswer, Always, WheelTypeOK
<1>4. calls' \subseteq Call /\ launcher' \in Wins \cup {None}
  BY <1>1 DEF PagesAnswer, Always, WheelTypeOK
<1>5. WheelTypeOK'
  BY <1>2, <1>3, <1>4 DEF PagesAnswer, Always, WheelTypeOK, Outside, Ensure, userVars
<1>6. (\A x, y \in Waiting("doc") : x = y)'
  BY DEF PagesAnswer, Waiting, Always
<1>7. (loaded = "yes" /\ session = None /\ launcher = None => face = None)'
  <2>1. loaded' = "yes" => loaded = "yes"
    BY DEF PagesAnswer, Ensure
  <2>2. SessionWin \cup LauncherWin = {} => session = None /\ launcher = None
    BY DEF SessionWin, LauncherWin
  <2>3. c.win # None
    BY <1>1, WheelAssumption
  <2> QED BY <1>3, <2>1, <2>2, <2>3 DEF Always, PagesAnswer
<1> QED BY <1>5, <1>6, <1>7 DEF Always

(* The pad arrives, for a spawn.                                             *)
LEMMA PadAnswersAlways ==
  ASSUME Always, NEW c \in calls, PadAnswers(c), crossed' \in BOOLEAN
  PROVE  Always'
<1>1. c \in Call /\ c.kind = "pad" /\ c.win \in Wins /\ c.id \in Ids
  BY CallIs DEF PadAnswers, Waiting, Always, WheelTypeOK
<1>2. session' \in Session
  BY <1>1 DEF PadAnswers, Session, Modes, Pages
<1>3. session' # None /\ face' \in Face \cup {None, Tiles}
  BY <1>2, SessionIs, Pushes DEF PadAnswers
<1>4. leaked' \subseteq Wins /\ calls' \subseteq calls
  BY DEF PadAnswers, Always, WheelTypeOK
<1> QED BY <1>2, <1>3, <1>4 DEF PadAnswers, Always, WheelTypeOK, Outside, userVars, Waiting

(* The shortcut is pressed.                                                  *)
LEMMA LauncherToggleAlways ==
  ASSUME Always, NEW w \in Wins, LauncherToggle(w), crossed' \in BOOLEAN
  PROVE  Always'
<1>1. CASE CloseLauncher /\ UNCHANGED calls
  BY <1>1, CloseLauncherIs DEF LauncherToggle, Always, WheelTypeOK, Outside, userVars, Waiting
<1>2. CASE Despawn /\ UNCHANGED calls
  BY <1>2, DespawnIs DEF LauncherToggle, Always, WheelTypeOK, Outside, userVars, Waiting
<1>3. CASE /\ calls' = (calls \ Superseded("pages")) \cup {[kind |-> "pages", win |-> w]}
           /\ UNCHANGED <<placeVars, session, launcher>>
  <2>1. calls' \subseteq Call
    BY <1>3, CallsMade DEF Always, WheelTypeOK
  <2> QED BY <1>3, <2>1 DEF LauncherToggle, Always, WheelTypeOK, Outside, userVars, placeVars, Waiting
<1> QED BY <1>1, <1>2, <1>3 DEF LauncherToggle

(* The overlay page says something.                                          *)
LEMMA OverlayAlways ==
  ASSUME Always, Ready \/ Pick \/ Act \/ LockWheel \/ Close, crossed' \in BOOLEAN
  PROVE  Always'
<1>1. ASSUME Ready PROVE Always'
  <2>1. session # None => session \in Session
    BY DEF Always, WheelTypeOK
  <2>2. face' = IF launcher # None THEN Tiles ELSE IF session # None THEN Shown(session) ELSE None
    BY <1>1 DEF Ready
  <2>3. face' \in Face \cup {None, Tiles}
    BY <2>1, <2>2, SessionIs
  <2> QED BY <1>1, <2>2, <2>3 DEF Ready, Always, WheelTypeOK, Outside, userVars, Waiting
<1>2. ASSUME Pick PROVE Always'
  BY <1>2, CloseLauncherIs DEF Pick, Always, WheelTypeOK, Outside, userVars, Waiting
<1>3. ASSUME Act PROVE Always'
  <2>1. session \in Session /\ session # None
    BY <1>3 DEF Act, Always, WheelTypeOK
  <2>2. CASE Despawn /\ UNCHANGED calls
    BY <1>3, <2>2, DespawnIs DEF Act, Always, WheelTypeOK, Outside, userVars, Waiting
  <2>3. ASSUME NEW p \in {"first", "other"}, Switch(p, "click"), UNCHANGED calls PROVE Always'
    <3>1. p \in Pages /\ "click" \in Modes
      BY DEF Pages, Modes
    <3> QED BY <1>3, <2>1, <2>3, <3>1, SwitchIs DEF Act, Always, WheelTypeOK, Outside, userVars, Waiting
  <2>4. CASE /\ calls' = calls \cup {[kind |-> "picker", id |-> session.id]}
             /\ UNCHANGED <<placeVars, session, launcher>>
    <3>1. calls' \subseteq Call
      BY <2>1, <2>4, CallsMade, SessionIs DEF Always, WheelTypeOK
    <3> QED BY <1>3, <2>4, <3>1 DEF Act, Always, WheelTypeOK, Outside, userVars, placeVars, Waiting
  <2> QED BY <1>3, <2>2, <2>3, <2>4 DEF Act
<1>4. ASSUME LockWheel PROVE Always'
  <2>1. session \in Session /\ session # None
    BY <1>4 DEF LockWheel, Always, WheelTypeOK
  <2>2. calls' \subseteq Call
    BY <1>4, <2>1, CallsMade, SessionIs DEF LockWheel, Always, WheelTypeOK
  <2> QED BY <1>4, <2>2 DEF LockWheel, Always, WheelTypeOK, Outside, userVars, placeVars, Waiting
<1>5. ASSUME Close PROVE Always'
  BY <1>5, CloseBothIs DEF Close, Always, WheelTypeOK, Outside, userVars, Waiting
<1> QED BY <1>1, <1>2, <1>3, <1>4, <1>5

(* The calls are answered.                                                   *)
LEMMA AnswersAlways ==
  ASSUME Always, NEW c \in calls, NoAnswer(c) \/ PickerAnswers(c) \/ LockAnswers(c), crossed' \in BOOLEAN
  PROVE  Always'
<1>0. c \in Call /\ calls' = calls \ {c}
  BY DEF NoAnswer, PickerAnswers, LockAnswers, Always, WheelTypeOK
<1>1. CASE UNCHANGED <<placeVars, session, launcher>>
  BY <1>0, <1>1 DEF NoAnswer, PickerAnswers, LockAnswers, Always, WheelTypeOK, Outside, userVars, placeVars, Waiting
<1>2. CASE PickerAnswers(c) /\ session # None /\ Switch("picker", session.mode)
  <2>1. session \in Session /\ session.mode \in Modes /\ "picker" \in Pages
    BY <1>2, SessionIs DEF Always, WheelTypeOK, Pages
  <2> QED BY <1>0, <1>2, <2>1, SwitchIs DEF PickerAnswers, Always, WheelTypeOK, Outside, userVars, Waiting
<1>u. ASSUME LockAnswers(c), face' \in Face \cup {None, Tiles}, face = None => face' = None \/ loaded # "yes"
      PROVE  Always'
  <2>1. UNCHANGED <<windows, locked, overlay, attached, session, launcher, release, leaked, loaded, held, pressed>>
    BY <1>u DEF LockAnswers, Outside, userVars
  <2>2. calls' \subseteq calls /\ Waiting("doc")' \subseteq Waiting("doc")
    BY <1>0 DEF Waiting
  <2>3. WheelTypeOK'
    BY <1>u, <2>1, <2>2 DEF Always, WheelTypeOK
  <2>4. \A d, e \in Waiting("doc")' : d = e
    BY <2>2 DEF Always
  <2> QED BY <1>u, <2>1, <2>3, <2>4 DEF Always
<1>3. ASSUME LockAnswers(c), NEW f \in Face, Update(f) PROVE Always'
  <2>1. face' \in Face \cup {None, Tiles} /\ (loaded = "yes" => face' = IF face \in {None, Tiles} THEN face ELSE f)
    BY <1>3, Updates
  <2> QED BY <1>3, <1>u, <2>1
<1>4. ASSUME LockAnswers(c), ~ UNCHANGED face PROVE \E f \in Face \cup {None, Tiles} : Update(f) /\ (f \in Face \/ face \in {None, Tiles})
  <2>1. CASE session # None /\ session.id = c.id
    BY <1>4, <2>1, SessionIs DEF LockAnswers, Always, WheelTypeOK
  <2>2. ASSUME NEW p \in Pages, Update([face EXCEPT !.id = c.id, !.page = p])
        PROVE  \E f \in Face \cup {None, Tiles} : Update(f) /\ (f \in Face \/ face \in {None, Tiles})
    <3>1. CASE face \in {None, Tiles}
      BY <2>2, <3>1 DEF Update
    <3>2. CASE face \in Face
      <4>1. c.id \in Ids
        BY <1>0, <1>4, CallIs DEF LockAnswers, Waiting
      <4>2. [face EXCEPT !.id = c.id, !.page = p] \in Face
        BY <3>2, <4>1 DEF Face
      <4> QED BY <2>2, <4>2
    <3> QED BY <3>1, <3>2 DEF Always, WheelTypeOK
  <2> QED BY <1>4, <2>1, <2>2 DEF LockAnswers
<1>5. ASSUME LockAnswers(c), face \in {None, Tiles} PROVE face' = face
  BY <1>4, <1>5 DEF Update, Push
<1>6. CASE LockAnswers(c)
  <2>1. CASE face \in {None, Tiles}
    BY <1>5, <1>6, <1>u, <2>1
  <2>2. CASE face \notin {None, Tiles} /\ ~ UNCHANGED face
    BY <1>3, <1>4, <1>6, <2>2
  <2>3. CASE UNCHANGED face
    BY <1>6, <1>u, <2>3 DEF Always, WheelTypeOK
  <2> QED BY <2>1, <2>2, <2>3
<1> QED BY <1>1, <1>2, <1>6 DEF NoAnswer, PickerAnswers

(* Windows open, close and crash.                                            *)
LEMMA WindowsAlways ==
  ASSUME Always, NEW w \in Wins, Blur(w) \/ WindowGone(w) \/ WindowOpens(w), crossed' \in BOOLEAN
  PROVE  Always'
<1>1. ASSUME Blur(w) PROVE Always'
  <2> DEFINE wheel == session # None /\ w \in SessionWin \cup leaked
             tiles == launcher = w
             gone  == (IF wheel THEN SessionWin ELSE {}) \cup (IF tiles THEN {w} ELSE {})
  <2>1. /\ gone # {} /\ session' = (IF wheel THEN None ELSE session) /\ launcher' = (IF tiles THEN None ELSE launcher)
        /\ Detach(gone)
    BY <1>1 DEF Blur
  <2>2. gone \in SUBSET Wins
    BY Places
  <2> HIDE DEF gone
  <2>3. /\ overlay' \in windows \cup {None} /\ attached' \in Wins \cup {None}
        /\ face' \in Face \cup {None, Tiles} /\ (loaded = "yes" => face' = None)
    BY <2>1, <2>2, Detaches
  <2> QED BY <1>1, <2>1, <2>3 DEF Blur, Always, WheelTypeOK, Outside, userVars, Waiting
<1>2. ASSUME WindowGone(w) PROVE Always'
  <2> DEFINE gone == {w} \cap (SessionWin \cup LauncherWin)
  <2>1. Push(IF gone = {} THEN face ELSE None)
    BY <1>2 DEF WindowGone
  <2>2. face' \in Face \cup {None, Tiles} /\ (loaded = "yes" => face' = IF gone = {} THEN face ELSE None)
    BY <2>1, Pushes DEF Always, WheelTypeOK
  <2>3. gone = {} => (w \notin SessionWin /\ (launcher # w))
    BY WheelAssumption DEF LauncherWin
  <2>4. WheelTypeOK'
    BY <1>2, <2>2 DEF WindowGone, Always, WheelTypeOK
  <2> QED BY <1>2, <2>2, <2>3, <2>4 DEF WindowGone, Always, Waiting
<1>3. ASSUME WindowOpens(w) PROVE Always'
  BY <1>3 DEF WindowOpens, Always, WheelTypeOK, userVars, placeVars, Waiting
<1> QED BY <1>1, <1>2, <1>3

(* The shell locks.                                                          *)
LEMMA LocksAlways ==
  ASSUME Always, Lock \/ Unlock, crossed' \in BOOLEAN
  PROVE  Always'
<1>1. ASSUME Lock PROVE Always'
  BY <1>1, CloseBothIs DEF Lock, Always, WheelTypeOK, userVars, Waiting
<1>2. ASSUME Unlock PROVE Always'
  BY <1>2 DEF Unlock, Always, WheelTypeOK, userVars, placeVars, Waiting
<1> QED BY <1>1, <1>2

(* Any of these.                                                             *)
LEMMA StepAlways ==
  ASSUME Always, Step, crossed' \in BOOLEAN
  PROVE  Always'
BY DownAlways, MoveAlways, UpAlways, DocAnswersAlways, PadAnswersAlways, PagesAnswerAlways, LauncherToggleAlways,
   OverlayAlways, AnswersAlways, WindowsAlways, LocksAlways DEF Step

(* What has not crossed.                                                     *)
LEMMA Uncrossed ==
  ASSUME ~Crossing
  PROVE  /\ \A c \in Waiting("pad") : c \in calls' =>
              /\ overlay' = overlay /\ launcher' = launcher /\ session' = session /\ locked' = locked
              /\ \A d \in calls' : d.kind \in {"doc", "pad"} => d \in calls
         /\ locked' # locked => Waiting("doc") = {} /\ Waiting("pages") = {}
         /\ \A c \in Waiting("lock") : c \notin calls' => session # None /\ session.id = c.id
BY DEF Crossing

(* Each step of an uncrossed wheel keeps it quiet.                           *)
LEMMA DownCalm ==
  ASSUME Always, Calm, NEW w \in Wins, Down(w), ~Crossing
  PROVE  Calm'
<1>1. w # None /\ held = None /\ held' = w /\ windows' = windows /\ locked' = locked /\ loaded' = loaded
  BY WheelAssumption DEF Down, Outside
<1>2. \A c \in calls : c.kind \in {"doc", "pages", "pad"} => c.win # None
  BY CallIs, WheelAssumption DEF Always, WheelTypeOK
<1>3. CASE /\ locked \/ (session # None /\ session.mode = "click" /\ session.win = w)
           /\ UNCHANGED <<placeVars, session, launcher, release, calls, pressed>>
  <2>1. locked => session = None
    BY SessionIs, WheelAssumption DEF Calm, Claimed, Always, WheelTypeOK
  <2>2. Claimed' /\ Facing'
    BY <1>1, <1>3 DEF Calm, Claimed, Facing, placeVars, Waiting
  <2>3. Pressed'
    BY <1>1, <1>2, <1>3, <2>1 DEF Calm, Pressed, placeVars, Waiting
  <2> QED BY <2>2, <2>3 DEF Calm
<1>4. CASE /\ ~(locked \/ (session # None /\ session.mode = "click" /\ session.win = w))
           /\ Despawn /\ release' = FALSE /\ pressed' = w
           /\ calls' = (calls \ Superseded("doc")) \cup {[kind |-> "doc", win |-> w]}
  <2> DEFINE new == [kind |-> "doc", win |-> w]
  <2>1. Waiting("pad") = {}
    <3>1. ASSUME NEW c \in Waiting("pad") PROVE FALSE
      <4>1. c \in calls'
        BY <1>4 DEF Waiting, Superseded
      <4>2. new \in calls' /\ new \notin calls
        BY <1>4 DEF Calm, Claimed, Waiting
      <4> QED BY <4>1, <4>2, Uncrossed
    <3> QED BY <3>1
  <2>2. /\ session' = None /\ launcher' = launcher
        /\ overlay' = IF session # None /\ overlay = session.win THEN None ELSE overlay
        /\ attached' = IF session = None THEN attached ELSE None
        /\ loaded = "yes" => face' = IF session = None THEN face ELSE None
    BY <1>4, DespawnIs
  <2>3. Claimed'
    BY <1>1, <1>4, <2>1, <2>2 DEF Calm, Claimed, Waiting, Superseded
  <2>4. Pressed'
    BY <1>1, <1>4, <2>1, <2>2 DEF Pressed, Waiting, Superseded
  <2>5. Facing'
    BY <1>1, <2>2 DEF Calm, Claimed, Facing
  <2> QED BY <2>3, <2>4, <2>5 DEF Calm
<1> QED BY <1>3, <1>4 DEF Down

(* The pointer moves.                                                        *)
LEMMA MoveCalm ==
  ASSUME Always, Calm, Move
  PROVE  Calm'
<1>1. /\ session \in Session /\ session # None /\ session.mode = "pending" /\ held = session.win
      /\ session' = [session EXCEPT !.mode = "hold"] /\ Update(Shown(session'))
      /\ UNCHANGED <<windows, locked, overlay, attached, launcher, release, calls, loaded, held, pressed>>
  BY DEF Move, Always, WheelTypeOK, Outside, userVars
<1>2. session' \in Session /\ session'.win = session.win
  BY <1>1, SessionHeld
<1>3. /\ Shown(session) \notin {None, Tiles} /\ session' # None
      /\ loaded = "yes" => face' = IF face \in {None, Tiles} THEN face ELSE Shown(session')
  BY <1>1, <1>2, SessionIs, Updates
<1>4. Claimed'
  BY <1>1, <1>2, <1>3 DEF Calm, Claimed, Waiting
<1>5. Pressed'
  BY <1>1, <1>2, <1>3 DEF Calm, Pressed, Waiting
<1>6. Facing'
  BY <1>1, <1>3 DEF Calm, Claimed, Facing
<1> QED BY <1>4, <1>5, <1>6 DEF Calm

(* The wheel turns a page.                                                   *)
LEMMA SwitchCalm ==
  ASSUME Always, Calm, session # None, NEW p \in Pages, NEW m \in Modes, Switch(p, m),
         m = "click" \/ (m = session.mode /\ held' = held),
         UNCHANGED <<windows, locked, loaded, release, pressed>>, calls' \subseteq calls
  PROVE  Calm'
<1>1. /\ session' \in Session /\ session'.win = session.win /\ session'.mode = m /\ session' # None
      /\ overlay' = overlay /\ attached' = attached /\ launcher' = launcher
      /\ loaded = "yes" => face' = IF face \in {None, Tiles} THEN face ELSE Shown(session')
  BY SwitchIs
<1>2. Shown(session) \notin {None, Tiles}
  BY SessionIs DEF Always, WheelTypeOK
<1>3. Waiting("pad") = {} /\ Waiting("doc") = {} /\ launcher = None /\ ~locked
  BY SessionIs, WheelAssumption DEF Calm, Claimed, Always, WheelTypeOK
<1>4. Waiting("pad")' = {} /\ Waiting("doc")' = {}
  BY <1>3 DEF Waiting
<1>5. Claimed'
  BY <1>1, <1>3, <1>4 DEF Calm, Claimed
<1>6. Pressed'
  BY <1>1, <1>4 DEF Calm, Pressed
<1>7. Facing'
  BY <1>1, <1>2, <1>3 DEF Calm, Facing
<1> QED BY <1>5, <1>6, <1>7 DEF Calm

(* The wheel goes, and neither calls nor buttons count any more.             *)
LEMMA DespawnCalm ==
  ASSUME Always, Calm, session # None, Despawn, UNCHANGED <<locked, loaded>>, calls' \subseteq calls
  PROVE  Calm'
<1>1. /\ session' = None /\ launcher' = launcher
      /\ overlay' = IF session # None /\ overlay = session.win THEN None ELSE overlay
      /\ loaded = "yes" => face' = IF session = None THEN face ELSE None
  BY DespawnIs
<1>2. Waiting("pad") = {} /\ Waiting("doc") = {} /\ launcher = None /\ ~locked
  BY SessionIs, WheelAssumption DEF Calm, Claimed, Always, WheelTypeOK
<1>3. Waiting("pad")' = {} /\ Waiting("doc")' = {}
  BY <1>2 DEF Waiting
<1>4. Claimed'
  BY <1>1, <1>2, <1>3 DEF Calm, Claimed
<1>5. Pressed' /\ Facing'
  BY <1>1, <1>2, <1>3 DEF Pressed, Facing
<1> QED BY <1>4, <1>5 DEF Calm

(* The button is released.                                                   *)
LEMMA UpCalm ==
  ASSUME Always, Calm, Up
  PROVE  Calm'
<1>1. /\ held # None /\ held' = None
      /\ UNCHANGED <<windows, locked, calls, loaded, pressed>>
  BY DEF Up, Outside
<1>2. CASE /\ locked \/ session = None \/ session.win # held \/ session.mode = "click"
           /\ release' = (release \/ (~locked /\ session = None))
           /\ UNCHANGED <<placeVars, session, launcher>>
  <2>1. Claimed' /\ Facing'
    BY <1>1, <1>2 DEF Calm, Claimed, Facing, placeVars, Waiting
  <2>2. locked => session = None /\ Waiting("pad") = {} /\ Waiting("doc") = {}
    BY SessionIs, CallIs, WheelAssumption DEF Calm, Claimed, Always, WheelTypeOK, Waiting
  <2>3. Waiting("doc") \cup Waiting("pad") # {} => release' = TRUE
    BY <1>2, <2>2 DEF Calm, Claimed, Always, WheelTypeOK
  <2>4. Waiting("doc")' = Waiting("doc") /\ Waiting("pad")' = Waiting("pad")
    BY <1>1 DEF Waiting
  <2>5. Pressed'
    BY <1>1, <1>2, <2>2, <2>3, <2>4 DEF Calm, Pressed, placeVars
  <2> QED BY <2>1, <2>5 DEF Calm
<1>3. CASE ~(locked \/ session = None \/ session.win # held \/ session.mode = "click") /\ UNCHANGED release
  <2>1. session # None /\ "click" \in Modes /\ session.page \in Pages /\ {"first", "other"} \subseteq Pages
    BY <1>3, SessionIs DEF Always, WheelTypeOK, Modes, Pages
  <2>2. ASSUME NEW p \in Pages, Switch(p, "click") PROVE Calm'
    BY <1>1, <1>3, <2>1, <2>2, SwitchCalm
  <2>3. CASE Despawn
    BY <1>1, <1>3, <2>1, <2>3, DespawnCalm
  <2> QED BY <1>3, <2>1, <2>2, <2>3 DEF Up
<1> QED BY <1>2, <1>3 DEF Up

(* The wheels document arrives.                                              *)
LEMMA DocAnswersCalm ==
  ASSUME Always, Calm, NEW c \in calls, DocAnswers(c), ~Crossing
  PROVE  Calm'
<1>1. c \in Call /\ c.kind = "doc" /\ c.win \in Wins /\ c.win # None /\ c \in Waiting("doc")
  BY CallIs, WheelAssumption DEF DocAnswers, Waiting, Always, WheelTypeOK
<1>2. /\ session = None /\ ~locked /\ Waiting("pad") = {}
      /\ c.win = pressed /\ (release \/ held = c.win \/ c.win \notin windows)
      /\ overlay # None => launcher # None /\ overlay = launcher
  BY <1>1 DEF Calm, Claimed, Pressed
<1>3. /\ session' = None /\ launcher' = None /\ Attach(c.win)
      /\ loaded' = "yes" => loaded = "yes"
      /\ UNCHANGED <<windows, locked, release, held, pressed>>
  BY DEF DocAnswers, Outside, Ensure, userVars
<1>4. loaded = "yes" => face' = None
  <2>1. face \in Face \cup {None, Tiles}
    BY DEF Always, WheelTypeOK
  <2>2. loaded = "yes" => face' = IF SessionWin \cup LauncherWin = {} THEN face ELSE None
    BY <2>1, Pushes DEF DocAnswers
  <2>3. SessionWin \cup LauncherWin = {} => launcher = None
    BY DEF LauncherWin
  <2> QED BY <1>2, <2>2, <2>3 DEF Always
<1>5. Waiting("doc")' = {}
  BY <1>1 DEF DocAnswers, Waiting, Always
<1>6. CASE c.win \notin windows
  <2>1. calls' = calls \ {c}
    BY <1>6 DEF DocAnswers
  <2>2. Waiting("pad")' = {}
    BY <1>2, <2>1 DEF Waiting
  <2>3. overlay' = None
    <3>1. overlay' = IF overlay \in SessionWin \cup LauncherWin THEN None ELSE overlay
      BY <1>3, <1>6 DEF Attach
    <3>2. overlay # None => overlay \in LauncherWin
      BY <1>2 DEF LauncherWin
    <3> QED BY <3>1, <3>2
  <2>4. Claimed'
    BY <1>2, <1>3, <1>5, <2>2, <2>3 DEF Claimed
  <2>5. Pressed'
    BY <1>3, <1>5, <2>2 DEF Pressed
  <2>6. Facing'
    BY <1>3, <1>4 DEF Facing
  <2> QED BY <2>4, <2>5, <2>6 DEF Calm
<1>7. CASE c.win \in windows
  <2>1. PICK i \in Ids : calls' = (calls \ {c}) \cup {[kind |-> "pad", win |-> c.win, id |-> i]}
    BY <1>7 DEF DocAnswers
  <2>2. Waiting("pad")' = {[kind |-> "pad", win |-> c.win, id |-> i]}
    BY <1>2, <2>1 DEF Waiting
  <2>3. overlay' = c.win /\ attached' = c.win
    BY <1>3, <1>7 DEF Attach
  <2> DEFINE ask == [kind |-> "pad", win |-> c.win, id |-> i]
  <2>4. ask.win = c.win /\ Waiting("pad")' = {ask}
    BY <2>2
  <2> HIDE DEF ask
  <2>5. Claimed'
    BY <1>2, <1>3, <1>5, <2>4, <2>3 DEF Claimed
  <2>6. Pressed'
    BY <1>2, <1>3, <1>5, <1>7, <2>4 DEF Pressed
  <2>7. Facing'
    BY <1>3, <1>4 DEF Facing
  <2> QED BY <2>5, <2>6, <2>7 DEF Calm
<1> QED BY <1>6, <1>7

(* The pad arrives, for a spawn.                                             *)
LEMMA PadAnswersCalm ==
  ASSUME Always, Calm, NEW c \in calls, PadAnswers(c), ~Crossing
  PROVE  Calm'
<1>1. c \in Call /\ c.kind = "pad" /\ c.win \in Wins /\ c.id \in Ids /\ c.win # None /\ c \in Waiting("pad")
  BY CallIs, WheelAssumption DEF PadAnswers, Waiting, Always, WheelTypeOK
<1>2. /\ session = None /\ launcher = None /\ overlay = c.win /\ Waiting("doc") = {} /\ ~locked
      /\ attached = overlay /\ c.win = pressed /\ (release \/ held = c.win)
  BY <1>1 DEF Calm, Claimed, Pressed
<1>3. /\ session' = [id |-> c.id, win |-> c.win, page |-> "first", mode |-> IF release THEN "click" ELSE "pending"]
      /\ calls' = calls \ {c}
      /\ UNCHANGED <<windows, locked, overlay, attached, launcher, loaded, held, pressed>>
  BY DEF PadAnswers, Outside, userVars
<1>4. session' \in Session /\ session'.win = c.win /\ session'.mode = IF release THEN "click" ELSE "pending"
  BY <1>1, <1>3 DEF Session, Modes, Pages
<1>5. session' # None /\ Shown(session') \in Face
  BY <1>4, SessionIs
<1>6. loaded = "yes" => face' = Shown(session')
  BY <1>5, Pushes DEF PadAnswers
<1>7. Waiting("pad")' = {} /\ Waiting("doc")' = {}
  <2>1. ASSUME NEW d \in Waiting("pad"), d \in calls' PROVE FALSE
    BY <1>2, <1>5, <2>1, Uncrossed
  <2> QED BY <1>2, <1>3, <2>1 DEF Waiting
<1>8. Claimed'
  BY <1>2, <1>3, <1>4, <1>5, <1>7 DEF Claimed
<1>9. Pressed'
  BY <1>2, <1>3, <1>4, <1>7 DEF Pressed
<1>10. Facing'
  BY <1>2, <1>3, <1>5, <1>6 DEF Facing
<1> QED BY <1>8, <1>9, <1>10 DEF Calm

(* The pages arrive, for the launcher.                                       *)
LEMMA PagesAnswerCalm ==
  ASSUME Always, Calm, NEW c \in calls, PagesAnswer(c), ~Crossing
  PROVE  Calm'
<1>1. c \in Call /\ c.kind = "pages" /\ c.win \in Wins /\ c.win # None /\ c \in Waiting("pages") /\ ~locked
  BY CallIs, WheelAssumption DEF PagesAnswer, Waiting, Always, WheelTypeOK, Calm, Claimed
<1>2. /\ session' = None /\ launcher' = (IF c.win \in windows THEN c.win ELSE None) /\ Attach(c.win)
      /\ loaded' = "yes" => loaded = "yes"
      /\ calls' = calls \ {c}
      /\ UNCHANGED <<windows, locked, release, held, pressed>>
  BY DEF PagesAnswer, Outside, Ensure, userVars
<1>3. Waiting("pad")' = Waiting("pad") /\ Waiting("doc")' = Waiting("doc")
  BY <1>1, <1>2 DEF Waiting
<1>4. loaded = "yes" => face' = IF c.win \in windows THEN Tiles ELSE None
  <2>1. face \in Face \cup {None, Tiles}
    BY DEF Always, WheelTypeOK
  <2>2. loaded = "yes" => face' = IF c.win \in windows THEN Tiles
                                  ELSE IF SessionWin \cup LauncherWin = {} THEN face ELSE None
    BY <2>1, Pushes DEF PagesAnswer
  <2>3. SessionWin \cup LauncherWin = {} => launcher = None /\ session = None
    BY DEF LauncherWin, SessionWin
  <2> QED BY <2>2, <2>3 DEF Always
<1>5. CASE c.win \notin windows
  <2>1. overlay' = IF overlay \in SessionWin \cup LauncherWin THEN None ELSE overlay
    BY <1>2, <1>5 DEF Attach
  <2>2. Waiting("pad") = {} => overlay' = None
    BY <2>1 DEF Calm, Claimed, SessionWin, LauncherWin
  <2>3. Waiting("pad") # {} => /\ session = None /\ launcher = None /\ overlay' = overlay
                               /\ attached' = attached /\ overlay # None
    <3>1. \A d \in Waiting("pad") : d.win # None
      BY CallIs, WheelAssumption DEF Always, WheelTypeOK, Waiting
    <3>2. Waiting("pad") # {} => session = None /\ launcher = None /\ overlay # None
      BY <3>1 DEF Calm, Claimed
    <3>3. session = None /\ launcher = None => SessionWin \cup LauncherWin = {}
      BY DEF SessionWin, LauncherWin
    <3> QED BY <1>2, <1>5, <2>1, <3>2, <3>3 DEF Attach
  <2>4. Claimed'
    BY <1>1, <1>2, <1>3, <1>5, <2>2, <2>3 DEF Calm, Claimed
  <2>5. Pressed'
    BY <1>2, <1>3 DEF Calm, Pressed
  <2>6. Facing'
    BY <1>2, <1>4, <1>5 DEF Facing
  <2> QED BY <2>4, <2>5, <2>6 DEF Calm
<1>6. CASE c.win \in windows
  <2>1. overlay' = c.win /\ attached' = c.win /\ launcher' = c.win
    BY <1>2, <1>6 DEF Attach
  <2>2. Waiting("pad") = {}
    <3>1. ASSUME NEW d \in Waiting("pad") PROVE FALSE
      <4>1. d \in calls'
        BY <1>3 DEF Waiting
      <4>2. launcher' = launcher /\ launcher = None
        BY <3>1, <4>1, Uncrossed DEF Calm, Claimed
      <4> QED BY <1>1, <2>1, <4>2
    <3> QED BY <3>1
  <2>3. Claimed'
    BY <1>1, <1>2, <1>3, <2>1, <2>2 DEF Calm, Claimed
  <2>4. Pressed'
    BY <1>2, <1>3 DEF Calm, Pressed
  <2>5. Facing'
    BY <1>1, <1>2, <1>4, <1>6, <2>1 DEF Facing
  <2> QED BY <2>3, <2>4, <2>5 DEF Calm
<1> QED BY <1>5, <1>6

(* The launcher goes.                                                        *)
LEMMA CloseLauncherCalm ==
  ASSUME Always, Calm, launcher # None, CloseLauncher,
         UNCHANGED <<windows, locked, loaded, release, held, pressed, calls>>
  PROVE  Calm'
<1>1. /\ launcher' = None /\ session' = session /\ session = None /\ Waiting("pad") = {}
      /\ overlay' = None /\ (loaded = "yes" => face' = None)
  BY CloseLauncherIs DEF Calm, Claimed
<1>2. Waiting("pad")' = Waiting("pad") /\ Waiting("doc")' = Waiting("doc") /\ Waiting("pages")' = Waiting("pages")
  BY DEF Waiting
<1>3. Claimed'
  BY <1>1, <1>2 DEF Calm, Claimed
<1>4. Pressed' /\ Facing'
  BY <1>1, <1>2 DEF Calm, Pressed, Facing
<1> QED BY <1>3, <1>4 DEF Calm

(* The shortcut is pressed.                                                  *)
LEMMA LauncherToggleCalm ==
  ASSUME Always, Calm, NEW w \in Wins, LauncherToggle(w)
  PROVE  Calm'
<1>1. w # None /\ ~locked /\ UNCHANGED <<windows, locked, release, loaded, held, pressed>>
  BY WheelAssumption DEF LauncherToggle, Outside, userVars
<1>2. CASE launcher = w /\ CloseLauncher /\ UNCHANGED calls
  BY <1>1, <1>2, CloseLauncherCalm
<1>3. CASE w \in SessionWin /\ Despawn /\ UNCHANGED calls
  BY <1>1, <1>3, DespawnCalm DEF SessionWin
<1>4. CASE /\ calls' = (calls \ Superseded("pages")) \cup {[kind |-> "pages", win |-> w]}
           /\ UNCHANGED <<placeVars, session, launcher>>
  <2>1. Waiting("pad")' = Waiting("pad") /\ Waiting("doc")' = Waiting("doc")
    BY <1>4 DEF Waiting, Superseded
  <2>2. Claimed' /\ Facing' /\ Pressed'
    BY <1>1, <1>4, <2>1 DEF Calm, Claimed, Pressed, Facing, placeVars
  <2> QED BY <2>2 DEF Calm
<1> QED BY <1>2, <1>3, <1>4 DEF LauncherToggle

(* The overlay page says something.                                          *)
LEMMA OverlayCalm ==
  ASSUME Always, Calm, Ready \/ Pick \/ Act \/ LockWheel
  PROVE  Calm'
<1>1. ASSUME Ready PROVE Calm'
  <2>1. /\ face' = IF launcher # None THEN Tiles ELSE IF session # None THEN Shown(session) ELSE None
        /\ UNCHANGED <<windows, locked, overlay, attached, session, launcher, release, calls, held, pressed>>
    BY <1>1 DEF Ready, Outside, userVars
  <2>2. Claimed' /\ Pressed'
    BY <2>1 DEF Calm, Claimed, Pressed, Waiting
  <2>3. Facing'
    BY <2>1 DEF Facing, Shown
  <2> QED BY <2>2, <2>3 DEF Calm
<1>2. ASSUME Pick PROVE Calm'
  BY <1>2, CloseLauncherCalm DEF Pick, Outside, userVars
<1>3. ASSUME NEW i, calls' = calls \cup {[kind |-> "picker", id |-> i]} \/ calls' = calls \cup {[kind |-> "lock", id |-> i]},
             UNCHANGED <<windows, locked, placeVars, session, launcher, release, loaded, held, pressed>>
      PROVE  Calm'
  <2>1. Waiting("pad")' = Waiting("pad") /\ Waiting("doc")' = Waiting("doc") /\ Waiting("pages")' = Waiting("pages")
    BY <1>3 DEF Waiting
  <2>2. Claimed' /\ Facing' /\ Pressed'
    BY <1>3, <2>1 DEF Calm, Claimed, Pressed, Facing, placeVars
  <2> QED BY <2>2 DEF Calm
<1>4. ASSUME Act PROVE Calm'
  <2>1. /\ session # None /\ "click" \in Modes /\ {"first", "other"} \subseteq Pages
        /\ UNCHANGED <<windows, locked, release, loaded, held, pressed>>
    BY <1>4 DEF Act, Modes, Pages, Outside, userVars
  <2>2. ASSUME NEW p \in Pages, Switch(p, "click"), UNCHANGED calls PROVE Calm'
    BY <2>1, <2>2, SwitchCalm
  <2>3. CASE Despawn /\ UNCHANGED calls
    BY <2>1, <2>3, DespawnCalm
  <2>4. CASE calls' = calls \cup {[kind |-> "picker", id |-> session.id]} /\ UNCHANGED <<placeVars, session, launcher>>
    BY <1>3, <2>1, <2>4
  <2> QED BY <1>4, <2>1, <2>2, <2>3, <2>4 DEF Act
<1>5. ASSUME LockWheel PROVE Calm'
  BY <1>3, <1>5 DEF LockWheel, Outside, userVars
<1> QED BY <1>1, <1>2, <1>4, <1>5

(* Nothing is up and nothing is on its way to the overlay.                   *)
LEMMA NothingIsCalm ==
  ASSUME Always, session = None, launcher = None, overlay = None, Waiting("pad") = {}, Waiting("doc") = {},
         locked => Waiting("pages") = {}
  PROVE  Calm
BY DEF Calm, Claimed, Pressed, Facing, Always

(* The wheel and the launcher go together.                                   *)
LEMMA CloseBothCalm ==
  ASSUME Always, Always', Calm, Waiting("pad") = {}, CloseBoth, UNCHANGED <<windows, release, held, pressed, calls, loaded>>,
         locked' => Waiting("doc") = {} /\ Waiting("pages") = {}
  PROVE  Calm'
<1>1. session' = None /\ launcher' = None /\ (loaded = "yes" => face' = IF session = None /\ launcher = None THEN face ELSE None)
  BY CloseBothIs
<1>2. overlay' = None
  BY CloseBothIs DEF Calm, Claimed
<1>3. Waiting("pad")' = Waiting("pad") /\ Waiting("doc")' = Waiting("doc") /\ Waiting("pages")' = Waiting("pages")
  BY DEF Waiting
<1>4. Claimed' /\ Pressed'
  BY <1>1, <1>2, <1>3 DEF Calm, Claimed, Pressed
<1>5. Facing'
  BY <1>1 DEF Always, Facing
<1> QED BY <1>4, <1>5 DEF Calm

(* The shell locks.                                                          *)
LEMMA LocksCalm ==
  ASSUME Always, Always', Calm, Lock \/ Unlock \/ Close, ~Crossing
  PROVE  Calm'
<1>1. ASSUME Lock PROVE Calm'
  <2>1. calls' = calls /\ locked' # locked
    BY <1>1 DEF Lock
  <2>2. Waiting("pad") = {}
    <3>1. ASSUME NEW c \in Waiting("pad") PROVE FALSE
      BY <2>1, Uncrossed DEF Waiting
    <3> QED BY <3>1
  <2>3. Waiting("doc") = {} /\ Waiting("pages") = {}
    BY <2>1, Uncrossed
  <2> QED BY <1>1, <2>2, <2>3, CloseBothCalm DEF Lock, userVars
<1>2. ASSUME Unlock PROVE Calm'
  <2>1. UNCHANGED <<windows, overlay, attached, face, session, launcher, release, calls, loaded, held, pressed>> /\ ~locked'
    BY <1>2 DEF Unlock, placeVars, userVars
  <2>2. Claimed' /\ Pressed' /\ Facing'
    BY <2>1 DEF Calm, Claimed, Pressed, Facing, Waiting
  <2> QED BY <2>2 DEF Calm
<1>3. ASSUME Close PROVE Calm'
  <2>1. CloseBoth /\ UNCHANGED <<windows, locked, release, held, pressed, calls, loaded>>
    BY <1>3 DEF Close, Outside, userVars
  <2>2. CASE Waiting("pad") = {}
    BY <2>1, <2>2, CloseBothCalm DEF Calm, Claimed
  <2>3. CASE Waiting("pad") # {}
    <3>1. session = None /\ launcher = None /\ overlay # None
      <4>1. \A c \in Waiting("pad") : c.win # None
        BY CallIs, WheelAssumption DEF Always, WheelTypeOK, Waiting
      <4> QED BY <2>3, <4>1 DEF Calm, Claimed
    <3>2. SessionWin \cup LauncherWin = {}
      BY <3>1 DEF SessionWin, LauncherWin
    <3>3. /\ session' = session /\ launcher' = launcher /\ overlay' = overlay /\ attached' = attached /\ face' = face
      BY <2>1, <3>1, <3>2 DEF CloseBoth, Detach, Push
    <3>4. Claimed' /\ Pressed' /\ Facing'
      BY <2>1, <3>3 DEF Calm, Claimed, Pressed, Facing, Waiting
    <3> QED BY <3>4 DEF Calm
  <2> QED BY <2>2, <2>3
<1> QED BY <1>1, <1>2, <1>3

(* The calls are answered.                                                   *)
LEMMA AnswersCalm ==
  ASSUME Always, Calm, NEW c \in calls, NoAnswer(c) \/ PickerAnswers(c) \/ LockAnswers(c), ~Crossing
  PROVE  Calm'
<1>1. calls' = calls \ {c} /\ UNCHANGED <<windows, locked, release, loaded, held, pressed>>
  BY DEF NoAnswer, PickerAnswers, LockAnswers, Outside, userVars
<1>2. /\ Waiting("pad")' \subseteq Waiting("pad") /\ Waiting("doc")' \subseteq Waiting("doc")
      /\ Waiting("pages")' \subseteq Waiting("pages") /\ Waiting("pad")' = Waiting("pad")
  BY <1>1 DEF Waiting, NoAnswer, PickerAnswers, LockAnswers
<1>3. CASE UNCHANGED <<overlay, attached, session, launcher, face>>
  <2>1. Claimed' /\ Pressed' /\ Facing'
    BY <1>1, <1>2, <1>3 DEF Calm, Claimed, Pressed, Facing
  <2> QED BY <2>1 DEF Calm
<1>4. CASE PickerAnswers(c) /\ session # None /\ Switch("picker", session.mode)
  <2>1. session.mode \in Modes /\ "picker" \in Pages
    BY <1>4, SessionIs DEF Always, WheelTypeOK, Pages
  <2> QED BY <1>1, <1>4, <2>1, SwitchCalm
<1>5. CASE LockAnswers(c)
  <2>1. c \in Waiting("lock") /\ c \notin calls' /\ UNCHANGED <<overlay, attached, session, launcher>>
    BY <1>1, <1>5 DEF LockAnswers
  <2>2. session # None /\ session.id = c.id
    BY <2>1, Uncrossed
  <2>3. UNCHANGED face \/ Update(Shown(session))
    BY <1>5, <2>2 DEF LockAnswers
  <2>4. Shown(session) \in Face /\ Shown(session) \notin {None, Tiles}
    BY <2>2, SessionIs DEF Always, WheelTypeOK
  <2>5. loaded = "yes" => face' = face
    <3>1. loaded = "yes" => face = Shown(session)
      BY <2>2 DEF Calm, Claimed, Facing
    <3>2. Update(Shown(session)) => (loaded = "yes" => face' = IF face \in {None, Tiles} THEN face ELSE Shown(session))
      BY <2>4, Updates
    <3> QED BY <2>3, <3>1, <3>2
  <2>6. Claimed' /\ Pressed' /\ Facing'
    BY <1>1, <1>2, <2>1, <2>5 DEF Calm, Claimed, Pressed, Facing
  <2> QED BY <2>6 DEF Calm
<1> QED BY <1>3, <1>4, <1>5 DEF NoAnswer, PickerAnswers, placeVars

(* Windows open, close and crash.                                            *)
LEMMA WindowsCalm ==
  ASSUME Always, Always', Calm, NEW w \in Wins, Blur(w) \/ WindowGone(w) \/ WindowOpens(w), ~Crossing
  PROVE  Calm'
<1>0. w # None /\ (session # None => session.win # None) /\ (\A c \in calls : c.kind \in {"doc", "pages", "pad"} => c.win # None)
  BY CallIs, SessionIs, WheelAssumption DEF Always, WheelTypeOK
<1>1. ASSUME Blur(w) PROVE Calm'
  <2> DEFINE wheel == session # None /\ w \in SessionWin \cup leaked
             tiles == launcher = w
             gone  == (IF wheel THEN SessionWin ELSE {}) \cup (IF tiles THEN {w} ELSE {})
  <2>1. /\ gone # {} /\ session' = (IF wheel THEN None ELSE session) /\ launcher' = (IF tiles THEN None ELSE launcher)
        /\ Detach(gone) /\ UNCHANGED <<windows, locked, release, held, pressed, calls, loaded>>
    BY <1>1 DEF Blur, Outside, userVars
  <2>2. gone \in SUBSET Wins
    BY Places
  <2>3. wheel \/ tiles
    BY <2>1
  <2>4. session' = None /\ launcher' = None /\ Waiting("pad") = {} /\ ~locked
    BY <1>0, <2>1, <2>3 DEF Calm, Claimed
  <2>5. overlay \in gone
    BY <1>0, <2>3 DEF Calm, Claimed, SessionWin
  <2>6. overlay' = None
    BY <2>1, <2>5 DEF Detach
  <2> HIDE DEF gone, wheel
  <2>7. loaded = "yes" => face' = None
    BY <2>1, <2>2, Detaches
  <2>8. Waiting("pad")' = Waiting("pad") /\ Waiting("doc")' = Waiting("doc") /\ Waiting("pages")' = Waiting("pages")
    BY <2>1 DEF Waiting
  <2>9. Claimed' /\ Pressed' /\ Facing'
    BY <2>1, <2>4, <2>6, <2>7, <2>8 DEF Calm, Claimed, Pressed, Facing
  <2> QED BY <2>9 DEF Calm
<1>2. ASSUME WindowGone(w) PROVE Calm'
  <2> DEFINE gone == {w} \cap (SessionWin \cup LauncherWin)
  <2>1. /\ windows' = windows \ {w} /\ session' = (IF w \in SessionWin THEN None ELSE session)
        /\ launcher' = (IF launcher = w THEN None ELSE launcher) /\ overlay' = (IF overlay = w THEN None ELSE overlay)
        /\ attached' = (IF gone = {} THEN attached ELSE None) /\ Push(IF gone = {} THEN face ELSE None)
        /\ held' = (IF held = w THEN None ELSE held)
        /\ UNCHANGED <<locked, release, calls, loaded, pressed>>
    BY <1>2 DEF WindowGone
  <2>2. loaded = "yes" => face' = IF gone = {} THEN face ELSE None
    BY <2>1, Pushes DEF Always, WheelTypeOK
  <2>3. Waiting("pad")' = Waiting("pad") /\ Waiting("doc")' = Waiting("doc") /\ Waiting("pages")' = Waiting("pages")
    BY <2>1 DEF Waiting
  <2>4. gone # {} <=> (session # None /\ session.win = w) \/ launcher = w
    BY <1>0 DEF SessionWin, LauncherWin
  <2>5. w \in SessionWin <=> session # None /\ session.win = w
    BY DEF SessionWin
  <2>6. \A c \in Waiting("pad") : c.win # w
    <3>1. ASSUME NEW c \in Waiting("pad"), c.win = w PROVE FALSE
      <4>1. c \in calls' /\ overlay = w
        BY <2>1, <3>1 DEF Waiting, Calm, Claimed
      <4>2. overlay' = overlay
        BY <4>1, Uncrossed
      <4> QED BY <1>0, <2>1, <4>1, <4>2
    <3> QED BY <3>1
  <2> HIDE DEF gone
  <2>7. Claimed'
    BY <1>0, <2>1, <2>3, <2>4, <2>5, <2>6 DEF Calm, Claimed
  <2>8. Pressed'
    BY <1>0, <2>1, <2>3, <2>4, <2>5, <2>6 DEF Calm, Pressed
  <2>9. Facing'
    BY <1>0, <2>1, <2>2, <2>4, <2>5 DEF Calm, Claimed, Facing
  <2> QED BY <2>7, <2>8, <2>9 DEF Calm
<1>3. ASSUME WindowOpens(w) PROVE Calm'
  <2>1. /\ windows' = windows \cup {w} /\ \A c \in Waiting("doc") : c.win # w
        /\ UNCHANGED <<locked, overlay, attached, face, session, launcher, release, calls, loaded, held, pressed>>
    BY <1>3 DEF WindowOpens, placeVars, userVars
  <2>2. Claimed' /\ Facing'
    BY <2>1 DEF Calm, Claimed, Facing, Waiting
  <2>3. Pressed'
    BY <2>1 DEF Calm, Pressed, Waiting
  <2> QED BY <2>2, <2>3 DEF Calm
<1> QED BY <1>1, <1>2, <1>3

(* Any of these.                                                             *)
LEMMA StepCalm ==
  ASSUME Always, Always', Calm, Step, ~Crossing
  PROVE  Calm'
BY DownCalm, MoveCalm, UpCalm, DocAnswersCalm, PadAnswersCalm, PagesAnswerCalm, LauncherToggleCalm,
   OverlayCalm, LocksCalm, AnswersCalm, WindowsCalm DEF Step

(* A step keeps the invariant: when nothing is under way it holds anew.      *)
LEMMA WheelInvStep ==
  ASSUME WheelInv, [WheelNext]_overlayVars
  PROVE  WheelInv'
<1>1. CASE UNCHANGED overlayVars
  BY <1>1 DEF WheelInv, Always, WheelTypeOK, Calm, Claimed, Pressed, Facing, Waiting, overlayVars, placeVars, userVars
<1>2. CASE Step /\ Watch
  <2>1. crossed' \in BOOLEAN /\ (crossed' = FALSE => Free' \/ (crossed = FALSE /\ ~Crossing))
    BY <1>2 DEF Watch, WheelInv, Always, WheelTypeOK
  <2>2. Always'
    BY <1>2, <2>1, StepAlways DEF WheelInv
  <2>3. CASE Free'
    <3>1. session' = None /\ launcher' = None /\ overlay' = None /\ calls' = {}
      BY <2>3 DEF Free
    <3>2. Claimed' /\ Pressed'
      BY <3>1 DEF Claimed, Pressed, Waiting
    <3>3. Facing'
      BY <2>2, <3>1 DEF Always, Facing
    <3> QED BY <2>2, <3>2, <3>3 DEF WheelInv, Calm
  <2>4. CASE crossed = FALSE /\ ~Crossing
    BY <1>2, <2>2, <2>4, StepCalm DEF WheelInv
  <2> QED BY <2>1, <2>2, <2>3, <2>4 DEF WheelInv
<1> QED BY <1>1, <1>2 DEF WheelNext

(* It holds at first.                                                        *)
LEMMA WheelInitInv == WheelInit => WheelInv
<1> SUFFICES ASSUME WheelInit PROVE WheelInv
  OBVIOUS
<1>1. calls = {} /\ session = None /\ launcher = None /\ overlay = None /\ face = None /\ loaded = "no"
  BY DEF WheelInit
<1>2. \A k : Waiting(k) = {}
  BY <1>1 DEF Waiting
<1>3. WheelTypeOK
  BY WheelAssumption DEF WheelInit, WheelTypeOK
<1>4. Always
  BY <1>1, <1>2, <1>3 DEF Always
<1>5. Claimed /\ Pressed /\ Facing
  BY <1>1, <1>2, WheelAssumption DEF WheelInit, Claimed, Pressed, Facing
<1> QED BY <1>4, <1>5 DEF WheelInv, Calm

(* Where the overlay is claimed, one of the three has it.                    *)
LEMMA WheelInvClaims == WheelInv => OverlayIsClaimed
<1> SUFFICES ASSUME WheelInv PROVE OverlayIsClaimed
  OBVIOUS
<1>1. WheelTypeOK
  BY DEF WheelInv, Always
<1>2. CASE crossed
  BY <1>1, <1>2 DEF OverlayIsClaimed, OneOccupant, NothingOverSignIn
<1>3. CASE ~crossed
  <2>1. Claimed
    BY <1>3 DEF WheelInv, Calm
  <2>2. /\ session # None => session.win # None
        /\ \A c \in Waiting("pad") : c.win # None
    BY CallIs, SessionIs, WheelAssumption DEF WheelInv, Always, WheelTypeOK, Waiting
  <2>3. CASE session # None
    <3>1. launcher = None /\ Waiting("pad") = {} /\ overlay = session.win
      BY <2>1, <2>3 DEF Claimed
    <3>2. Occupants = {<<"wheel", overlay>>}
      BY <2>3, <3>1 DEF Occupants, SessionWin, LauncherWin
    <3> QED BY <1>1, <2>1, <2>2, <2>3, <3>1, <3>2 DEF OverlayIsClaimed, OneOccupant, NothingOverSignIn, Claimed
  <2>4. CASE launcher # None
    <3>1. session = None /\ Waiting("pad") = {} /\ overlay = launcher
      BY <2>1, <2>4 DEF Claimed
    <3>2. Occupants = {<<"launcher", overlay>>}
      BY <2>4, <3>1 DEF Occupants, SessionWin, LauncherWin
    <3> QED BY <1>1, <2>1, <2>4, <3>1, <3>2 DEF OverlayIsClaimed, OneOccupant, NothingOverSignIn, Claimed
  <2>5. CASE session = None /\ launcher = None /\ Waiting("pad") # {}
    <3>1. overlay # None /\ \A c \in Waiting("pad") : c.win = overlay
      BY <2>1, <2>2, <2>5 DEF Claimed
    <3>2. Occupants = {<<"spawn", overlay>>}
      BY <2>5, <3>1 DEF Occupants, SessionWin, LauncherWin
    <3> QED BY <1>1, <2>1, <3>1, <3>2 DEF OverlayIsClaimed, OneOccupant, NothingOverSignIn, Claimed
  <2>6. CASE session = None /\ launcher = None /\ Waiting("pad") = {}
    <3>1. Occupants = {} /\ overlay = None
      BY <2>1, <2>6 DEF Occupants, SessionWin, LauncherWin, Claimed
    <3> QED BY <1>1, <3>1 DEF OverlayIsClaimed, OneOccupant, NothingOverSignIn
  <2> QED BY <2>3, <2>4, <2>5, <2>6
<1> QED BY <1>2, <1>3

(* The overlay view is where the wheel, the launcher or a spawn that is on   *)
(* its way wants it, only one of them has it, and nothing is over a locked   *)
(* window (wheel.ts), unless two gestures crossed: however many windows and  *)
(* wheels there are.                                                         *)
THEOREM OverlayStaysClaimed == WheelSpec => []OverlayIsClaimed
<1>1. WheelInit => WheelInv
  BY WheelInitInv
<1>2. WheelInv /\ [WheelNext]_overlayVars => WheelInv'
  BY WheelInvStep
<1>3. WheelInv => OverlayIsClaimed
  BY WheelInvClaims
<1> QED BY <1>1, <1>2, <1>3, PTL DEF WheelSpec

(* The wheel that is up is the last press's, which still holds it unless it   *)
(* was clicked open, and the page shows what a release will do (wheel.ts),   *)
(* unless two gestures crossed.                                              *)
THEOREM GesturesAreAnswered == WheelSpec => []GestureIsAnswered
<1>1. WheelInit => WheelInv
  BY WheelInitInv
<1>2. WheelInv /\ [WheelNext]_overlayVars => WheelInv'
  BY WheelInvStep
<1>3. WheelInv => GestureIsAnswered
  BY DEF WheelInv, Calm, Pressed, Facing, GestureIsAnswered, AnswersTheGesture, FaceIsWhatActs
<1> QED BY <1>1, <1>2, <1>3, PTL DEF WheelSpec
=============================================================================
