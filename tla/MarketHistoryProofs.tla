------------------------ MODULE MarketHistoryProofs ------------------------
(***************************************************************************)
(* Proofs about MarketHistory, for any calendar, any window, chunk, page   *)
(* and retention, and any number of crashes: a claim never outruns the     *)
(* data, what coverage says of a day is so, and no stale plan takes back   *)
(* an answer.                                                              *)
(*                                                                         *)
(* All rest on what is under way between two transactions: the claims     *)
(* run_one is about to mark are backed by rows already, and the days that  *)
(* are planned or claimed are open, each in one place only.  That what     *)
(* coverage says is so rests on one thing more: a planned chunk is short   *)
(* enough for one page, so an answer leaves out no day the provider has.   *)
(*                                                                         *)
(* And about the keyless feeds, for any callers, workers and breaker: how  *)
(* much piles up behind a pool with each cooldown.                         *)
(***************************************************************************)
EXTENDS MarketHistory, KeylessFeeds, Orders, SequenceTheorems

(* Rows are on disk, or were until retention took them.                     *)
Backed(d) == rows[d] # "none" \/ (feed = "bars" /\ d + RetainDays < today)

(* What is about to be marked "have" is stored.                             *)
ClaimsBacked == \A d \in DOMAIN claims : claims[d] = "have" => Backed(d)

(* A day that is planned or claimed is open, and no day is planned twice.   *)
PlannedIsOpen ==
  /\ \A c \in queue : \A d \in c : d \notin DOMAIN claims /\ cover[d].state \notin Settled
  /\ \A d \in DOMAIN claims : cover[d].state \notin Settled
  /\ \A b, c \in queue : b = c \/ b \cap c = {}

(* The strengthening of HaveIsStored.                                        *)
HistoryInv == HistoryTypeOK /\ HaveIsStored /\ ClaimsBacked /\ PlannedIsOpen

(* A row of the table of days.                                               *)
CoverRow == [state : Claim \cup {"none"}, attempts : 0 .. MaxAttempts]

----------------------------------------------------------------------------
(* The operators *)

(* Nothing is claimed where nothing was answered.                            *)
LEMMA NoClaims == DOMAIN <<>> = {}
OBVIOUS

(* The row mark writes is a row; settling it resets the attempts.           *)
LEMMA MarkRowFacts ==
  ASSUME NEW cv \in [Days -> CoverRow], NEW d \in Days, NEW s \in Claim
  PROVE  /\ MarkRow(cv, d, s) \in CoverRow
         /\ MarkRow(cv, d, s).attempts = 0 <=> MarkRow(cv, d, s).state \in Settled
         /\ MarkRow(cv, d, s).state # "none"
         /\ MarkRow(cv, d, s).state = "have" <=> s = "have"
BY HistoryAssumption DEF MarkRow, CoverRow, Claim, Settled

(* A plan is made of open days in the provider's window, in chunks that     *)
(* have no day in common.                                                   *)
LEMMA PlanFacts ==
  ASSUME NEW cv, NEW resting
  PROVE  /\ \A c \in Plan(cv, resting) : c \subseteq Gaps(cv, resting)
         /\ \A b, c \in Plan(cv, resting) : b = c \/ b \cap c = {}
<1> DEFINE missing == Gaps(cv, resting)
           first == FirstDay(missing)
<1>1. Plan(cv, resting) \subseteq {{e \in missing : first[e] = first[d]} : d \in missing}
  BY DEF Plan, Chunks
<1> HIDE DEF first, missing
<1>2. \A c \in Plan(cv, resting) : c \subseteq missing
  BY <1>1
<1>3. ASSUME NEW b \in Plan(cv, resting), NEW c \in Plan(cv, resting) PROVE b = c \/ b \cap c = {}
  <2>1. PICK d \in missing : b = {e \in missing : first[e] = first[d]}
    BY <1>1
  <2>2. PICK g \in missing : c = {e \in missing : first[e] = first[g]}
    BY <1>1
  <2>3. CASE first[d] = first[g]
    BY <2>1, <2>2, <2>3
  <2>4. CASE first[d] # first[g]
    BY <2>1, <2>2, <2>4
  <2> QED BY <2>3, <2>4
<1> QED BY <1>2, <1>3 DEF missing

(* The gaps are the days that are open and not too recent.                   *)
LEMMA GapsFacts ==
  ASSUME NEW cv, NEW resting
  PROVE  \A d \in Gaps(cv, resting) : d \in Days /\ cv[d].state \notin Settled
BY DEF Gaps, Window

(* Storing takes nothing away.                                              *)
LEMMA StoreFacts ==
  ASSUME rows \in [Days -> {"none", "some", "all"}], NEW whole, NEW part, Store(whole, part)
  PROVE  /\ rows' \in [Days -> {"none", "some", "all"}]
         /\ \A d \in Days : rows[d] # "none" \/ d \in whole \cup part => rows'[d] # "none"
BY DEF Store

(* What an answer says is said of its own days; "have" of those it returned.*)
LEMMA ClaimsFacts ==
  ASSUME NEW c, NEW got
  PROVE  /\ DOMAIN Claims(c, got) = c
         /\ \A d \in c : Claims(c, got)[d] \in Claim
         /\ \A d \in c : Claims(c, got)[d] = "have" => d \in got
BY DEF Claims, Claim, Settled

----------------------------------------------------------------------------
(* Types *)

(* Reconciling keeps the table's types.                                     *)
LEMMA ReconciledFacts ==
  ASSUME HistoryTypeOK, NEW ds, ds \subseteq Days
  PROVE  /\ Reconciled(ds) \in [Days -> CoverRow]
         /\ \A d \in Days : Reconciled(ds)[d].attempts = 0
                              <=> Reconciled(ds)[d].state \in Settled \cup {"none"}
         /\ \A d \in ds : Reconciled(ds)[d].state = "have"
         /\ \A d \in Days \ ds : Reconciled(ds)[d] = cover[d]
<1>1. cover \in [Days -> CoverRow]
  BY DEF HistoryTypeOK, CoverRow
<1>2. "have" \in Claim
  BY DEF Claim, Settled
<1>3. \A d \in ds : Reconciled(ds)[d] = MarkRow(cover, d, "have")
  BY DEF Reconciled
<1>4. \A d \in Days \ ds : Reconciled(ds)[d] = cover[d]
  BY DEF Reconciled
<1>5. DOMAIN Reconciled(ds) = Days /\ Reconciled(ds) = [d \in Days |-> Reconciled(ds)[d]]
  BY DEF Reconciled
<1>6. \A d \in Days : Reconciled(ds)[d] \in CoverRow
  BY <1>1, <1>2, <1>3, <1>4, MarkRowFacts
<1>7. Reconciled(ds) \in [Days -> CoverRow]
  BY <1>5, <1>6
<1>8. \A d \in ds : Reconciled(ds)[d].attempts = 0 /\ Reconciled(ds)[d].state = "have"
  BY <1>1, <1>2, <1>3, MarkRowFacts DEF Settled
<1> QED BY <1>4, <1>7, <1>8 DEF HistoryTypeOK, Settled

(* Every step keeps the types,                                               *)
LEMMA TypeStep ==
  ASSUME HistoryTypeOK, [HistoryNext]_historyVars
  PROVE  HistoryTypeOK'
<1> USE HistoryAssumption
<1>t. /\ cover \in [Days -> CoverRow] /\ OnDisk \subseteq Days
      /\ Days \subseteq Nat
  BY DEF HistoryTypeOK, CoverRow, OnDisk, Stored, Days
<1>1. CASE StartCycle
  <2>1. cover' = Reconciled(OnDisk) /\ rest' = rest \ OnDisk
    BY <1>1 DEF StartCycle
  <2>2. \A c \in queue' : c \subseteq Days
    BY <1>1, PlanFacts, GapsFacts DEF StartCycle
  <2>3. \A d \in rest' : d \in Days \ OnDisk /\ cover'[d].attempts = MaxAttempts
    <3>1. \A d \in Days \ OnDisk : cover'[d] = cover[d]
      <4>1. \A d \in Days \ OnDisk : Reconciled(OnDisk)[d] = cover[d]
        BY <1>t, ReconciledFacts
      <4> QED BY <2>1, <4>1
    <3> QED BY <2>1, <3>1 DEF HistoryTypeOK
  <2>4. /\ cover' \in [Days -> CoverRow]
        /\ \A d \in Days : cover'[d].attempts = 0 <=> cover'[d].state \in Settled \cup {"none"}
    BY <2>1, <1>t, ReconciledFacts
  <2> QED BY <1>1, <2>2, <2>3, <2>4 DEF StartCycle, HistoryTypeOK, CoverRow
<1>2. ASSUME NEW c \in queue, FetchFails(c) PROVE HistoryTypeOK'
  <2>1. c \subseteq Days
    BY DEF HistoryTypeOK
  <2>2. DOMAIN claims' = c /\ \A d \in c : claims'[d] \in Claim
    BY <1>2 DEF FetchFails, Claim
  <2> QED BY <1>2, <2>1, <2>2 DEF FetchFails, HistoryTypeOK, dbVars
<1>3. ASSUME NEW c \in queue, FetchAnswers(c) PROVE HistoryTypeOK'
  <2>1. c \subseteq Days
    BY DEF HistoryTypeOK
  <2>2. DOMAIN claims' = c /\ \A d \in c : claims'[d] \in Claim
    BY <1>3, ClaimsFacts DEF FetchAnswers
  <2>3. rows' \in [Days -> {"none", "some", "all"}]
    BY <1>3, StoreFacts DEF FetchAnswers, HistoryTypeOK
  <2> QED BY <1>3, <2>1, <2>2, <2>3 DEF FetchAnswers, HistoryTypeOK
<1>4. CASE MarkDay
  <2>1. PICK d \in DOMAIN claims :
          LET row == MarkRow(cover, d, claims[d])
          IN  /\ cover' = [cover EXCEPT ![d] = row]
              /\ rest' = IF row.attempts = MaxAttempts THEN rest \cup {d} ELSE rest \ {d}
              /\ claims' = [e \in DOMAIN claims \ {d} |-> claims[e]]
    BY <1>4 DEF MarkDay
  <2> DEFINE row == MarkRow(cover, d, claims[d])
  <2>2. d \in Days /\ claims[d] \in Claim
    BY DEF HistoryTypeOK
  <2>3. /\ row \in CoverRow
        /\ row.attempts = 0 <=> row.state \in Settled
        /\ row.state # "none"
    BY <1>t, <2>2, MarkRowFacts
  <2> HIDE DEF row
  <2>4. /\ cover' = [cover EXCEPT ![d] = row]
        /\ rest' = IF row.attempts = MaxAttempts THEN rest \cup {d} ELSE rest \ {d}
    BY <2>1 DEF row
  <2>5. cover' \in [Days -> CoverRow]
    BY <1>t, <2>2, <2>3, <2>4
  <2>6. \A e \in Days : cover'[e] = IF e = d THEN row ELSE cover[e]
    BY <1>t, <2>2, <2>4
  <2>7. \A e \in Days : cover'[e].attempts = 0 <=> cover'[e].state \in Settled \cup {"none"}
    BY <2>3, <2>6 DEF HistoryTypeOK
  <2>8. \A e \in rest' : e \in Days /\ cover'[e].attempts = MaxAttempts
    BY <2>2, <2>4, <2>6 DEF HistoryTypeOK
  <2>9. DOMAIN claims' \subseteq Days /\ \A e \in DOMAIN claims' : claims'[e] \in Claim
    BY <2>1 DEF HistoryTypeOK
  <2> QED BY <1>4, <2>5, <2>7, <2>8, <2>9 DEF MarkDay, HistoryTypeOK, CoverRow
<1>5. CASE CollectBars
  <2>1. rows' \in [Days -> {"none", "some", "all"}]
    BY <1>5, StoreFacts DEF CollectBars, HistoryTypeOK
  <2> QED BY <1>5, <2>1 DEF CollectBars, HistoryTypeOK, cycleVars
<1>6. CASE CollectChain
  <2>1. rows' \in [Days -> {"none", "some", "all"}]
    BY <1>6, StoreFacts DEF CollectChain, HistoryTypeOK
  <2> QED BY <1>6, <2>1 DEF CollectChain, HistoryTypeOK, cycleVars
<1>7. CASE Prune
  BY <1>7 DEF Prune, HistoryTypeOK, cycleVars
<1>8. ASSUME NEW d \in Days, CooldownEnds(d) PROVE HistoryTypeOK'
  BY <1>8 DEF CooldownEnds, HistoryTypeOK, cycleVars
<1>9. CASE Midnight
  <2>1. today' \in Days
    BY <1>9 DEF Midnight, HistoryTypeOK, Days
  <2> QED BY <1>9, <2>1 DEF Midnight, HistoryTypeOK, cycleVars, dbVars
<1>10. CASE Interrupted
  <2>1. queue' = {} /\ claims' = <<>> /\ crashes' \in 0 .. MaxCrashes
    BY <1>10 DEF Interrupted, HistoryTypeOK
  <2>2. CASE UNCHANGED <<cover, rest>>
    BY <1>10, <2>1, <2>2, NoClaims DEF Interrupted, HistoryTypeOK
  <2>3. ASSUME NEW ds \in SUBSET OnDisk, cover' = Reconciled(ds), rest' = rest \ ds
        PROVE  HistoryTypeOK'
    <3>1. ds \subseteq Days
      BY <1>t
    <3>2. \A d \in rest' : d \in Days \ ds /\ cover'[d].attempts = MaxAttempts
      BY <2>3, <3>1, ReconciledFacts DEF HistoryTypeOK
    <3>3. /\ cover' \in [Days -> CoverRow]
          /\ \A d \in Days : cover'[d].attempts = 0 <=> cover'[d].state \in Settled \cup {"none"}
      BY <2>3, <3>1, ReconciledFacts
    <3> QED BY <1>10, <2>1, <3>2, <3>3, NoClaims DEF Interrupted, HistoryTypeOK, CoverRow
  <2> QED BY <1>10, <2>2, <2>3 DEF Interrupted
<1>11. CASE UNCHANGED historyVars
  BY <1>11 DEF historyVars, dbVars, cycleVars, HistoryTypeOK
<1>12. ASSUME NEW c \in queue, FetchBreaks(c) PROVE HistoryTypeOK'
  BY <1>12 DEF FetchBreaks, HistoryTypeOK, dbVars
<1> QED BY <1>1, <1>2, <1>3, <1>4, <1>5, <1>6, <1>7, <1>8, <1>9, <1>10, <1>11, <1>12
        DEF HistoryNext, FetchStep

(* which hold at the start.                                                  *)
LEMMA TypeInit == HistoryInit => HistoryTypeOK
BY HistoryAssumption, NoClaims DEF HistoryInit, HistoryTypeOK, Settled, Claim, Days

(* The type invariant holds for any calendar and any bounds.                *)
THEOREM HistoryTypeCorrect == HistorySpec => []HistoryTypeOK
<1>1. HistoryTypeOK /\ [HistoryNext]_historyVars => HistoryTypeOK'
  BY TypeStep
<1> QED BY <1>1, TypeInit, PTL DEF HistorySpec

----------------------------------------------------------------------------
(* Claims and rows *)

(* A claim is marked only with its rows on disk, and rows go only with      *)
(* retention: whatever a crash cuts off.                                    *)
LEMMA BackedStep ==
  ASSUME HistoryInv, [HistoryNext]_historyVars
  PROVE  HaveIsStored' /\ ClaimsBacked'
<1>t. /\ cover \in [Days -> CoverRow] /\ OnDisk \subseteq Stored(rows)
      /\ Days \subseteq Nat /\ today \in Nat /\ RetainDays \in Nat
  BY HistoryAssumption DEF HistoryInv, HistoryTypeOK, CoverRow, OnDisk, Stored, Days
<1> USE DEF HistoryInv
<1>1. \A d \in Days : cover[d].state = "have" => Backed(d)
  BY DEF HaveIsStored, Backed
<1>2. (\A d \in Days : cover'[d].state = "have" => Backed(d)') => HaveIsStored'
  BY DEF HaveIsStored, Backed
<1>3. ASSUME NEW ds \in SUBSET OnDisk, cover' = Reconciled(ds), UNCHANGED <<feed, today, rows>>
      PROVE  HaveIsStored'
  <2>1. ds \subseteq Days /\ \A d \in ds : Backed(d)
    BY <1>t DEF Stored, Backed
  <2>2. \A d \in Days \ ds : cover'[d] = cover[d]
    BY <1>3, <2>1, ReconciledFacts
  <2>3. \A d \in Days : cover'[d].state = "have" => Backed(d)
    BY <1>1, <2>1, <2>2
  <2> QED BY <1>2, <1>3, <2>3 DEF Backed
<1>4. CASE StartCycle
  BY <1>3, <1>4 DEF StartCycle, ClaimsBacked, Backed
<1>5. ASSUME NEW c \in queue, FetchFails(c) PROVE HaveIsStored' /\ ClaimsBacked'
  BY <1>5 DEF FetchFails, dbVars, HaveIsStored, ClaimsBacked
<1>6. ASSUME NEW c \in queue, FetchAnswers(c) PROVE HaveIsStored' /\ ClaimsBacked'
  <2>1. c \subseteq Days
    BY DEF HistoryTypeOK
  <2>2. \A d \in Days : rows[d] # "none" \/ d \in Whole(c) \cup Part(c) => rows'[d] # "none"
    BY <1>6, StoreFacts DEF FetchAnswers, HistoryTypeOK
  <2>3. HaveIsStored'
    BY <1>6, <1>1, <1>2, <2>2 DEF FetchAnswers, Backed
  <2>4. \A d \in DOMAIN claims' : d \in c /\ (claims'[d] = "have" => d \in Whole(c) \cup Part(c))
    BY <1>6, ClaimsFacts DEF FetchAnswers
  <2> QED BY <2>1, <2>2, <2>3, <2>4 DEF ClaimsBacked, Backed
<1>7. CASE MarkDay
  <2>1. PICK d \in DOMAIN claims :
          /\ cover' = [cover EXCEPT ![d] = MarkRow(cover, d, claims[d])]
          /\ claims' = [e \in DOMAIN claims \ {d} |-> claims[e]]
    BY <1>7 DEF MarkDay
  <2>2. d \in Days /\ claims[d] \in Claim
    BY DEF HistoryTypeOK
  <2>3. cover'[d].state = "have" => Backed(d)
    BY <1>t, <2>1, <2>2, MarkRowFacts DEF ClaimsBacked
  <2>4. \A e \in Days \ {d} : cover'[e] = cover[e]
    BY <1>t, <2>1, <2>2
  <2>5. \A e \in Days : cover'[e].state = "have" => Backed(e)
    BY <1>1, <2>3, <2>4
  <2>6. HaveIsStored'
    BY <1>2, <1>7, <2>5 DEF MarkDay, Backed
  <2>7. ClaimsBacked'
    BY <1>7, <2>1 DEF MarkDay, ClaimsBacked, Backed
  <2> QED BY <2>6, <2>7
<1>8. CASE CollectBars \/ CollectChain
  <2>1. \A d \in Days : rows[d] # "none" => rows'[d] # "none"
    BY <1>8, StoreFacts DEF CollectBars, CollectChain, HistoryTypeOK
  <2>2. UNCHANGED <<feed, today, cover, claims>> /\ DOMAIN claims \subseteq Days
    BY <1>8 DEF CollectBars, CollectChain, cycleVars, HistoryTypeOK
  <2> QED BY <1>1, <1>2, <2>1, <2>2 DEF ClaimsBacked, Backed
<1>9. CASE Prune
  <2>1. \A d \in Days : rows'[d] = IF d + RetainDays < today THEN "none" ELSE rows[d]
    BY <1>9 DEF Prune
  <2>2. UNCHANGED <<feed, today, cover, claims>> /\ DOMAIN claims \subseteq Days /\ feed = "bars"
    BY <1>9 DEF Prune, cycleVars, HistoryTypeOK
  <2> QED BY <1>1, <1>2, <2>1, <2>2 DEF ClaimsBacked, Backed
<1>10. ASSUME NEW d \in Days, CooldownEnds(d) PROVE HaveIsStored' /\ ClaimsBacked'
  BY <1>10 DEF CooldownEnds, cycleVars, HaveIsStored, ClaimsBacked, Backed
<1>11. CASE Midnight
  <2>1. UNCHANGED <<feed, rows, cover, claims>> /\ today' = today + 1 /\ DOMAIN claims \subseteq Days
    BY <1>11 DEF Midnight, dbVars, cycleVars, HistoryTypeOK
  <2>2. \A d \in Days : Backed(d) => Backed(d)'
    BY <1>t, <2>1 DEF Backed
  <2> QED BY <1>1, <1>2, <2>1, <2>2 DEF ClaimsBacked
<1>12. CASE Interrupted
  <2>1. claims' = <<>> /\ UNCHANGED <<feed, today, rows>>
    BY <1>12 DEF Interrupted
  <2>2. ClaimsBacked'
    BY <2>1, NoClaims DEF ClaimsBacked
  <2>3. HaveIsStored'
    BY <1>3, <1>12, <2>1 DEF Interrupted, HaveIsStored
  <2> QED BY <2>2, <2>3
<1>13. CASE UNCHANGED historyVars
  BY <1>13 DEF historyVars, dbVars, cycleVars, HaveIsStored, ClaimsBacked, Backed
<1>14. ASSUME NEW c \in queue, FetchBreaks(c) PROVE HaveIsStored' /\ ClaimsBacked'
  BY <1>14 DEF FetchBreaks, dbVars, HaveIsStored, ClaimsBacked, Backed
<1> QED BY <1>4, <1>5, <1>6, <1>7, <1>8, <1>9, <1>10, <1>11, <1>12, <1>13, <1>14
        DEF HistoryNext, FetchStep

(* What is planned stays open until it is asked, and what is asked until it *)
(* is marked.                                                               *)
LEMMA OpenStep ==
  ASSUME HistoryInv, [HistoryNext]_historyVars
  PROVE  PlannedIsOpen'
<1> USE DEF HistoryInv
<1>1. CASE StartCycle
  <2>1. queue' = Plan(cover', rest') /\ claims' = <<>>
    BY <1>1 DEF StartCycle, Idle
  <2>2. \A c \in queue' : \A d \in c : cover'[d].state \notin Settled
    BY <2>1, PlanFacts, GapsFacts
  <2>3. \A b, c \in queue' : b = c \/ b \cap c = {}
    BY <2>1, PlanFacts
  <2> QED BY <2>1, <2>2, <2>3, NoClaims DEF PlannedIsOpen
<1>2. ASSUME NEW c \in queue, FetchFails(c) \/ FetchAnswers(c) PROVE PlannedIsOpen'
  <2>1. queue' = queue \ {c} /\ cover' = cover
    BY <1>2 DEF FetchFails, FetchAnswers, dbVars
  <2>2. DOMAIN claims' = c
    BY <1>2, ClaimsFacts DEF FetchFails, FetchAnswers
  <2>3. \A b \in queue' : b \cap c = {}
    BY <2>1 DEF PlannedIsOpen
  <2> QED BY <2>1, <2>2, <2>3 DEF PlannedIsOpen
<1>3. CASE MarkDay
  <2>1. PICK d \in DOMAIN claims :
          /\ cover' = [cover EXCEPT ![d] = MarkRow(cover, d, claims[d])]
          /\ claims' = [e \in DOMAIN claims \ {d} |-> claims[e]]
    BY <1>3 DEF MarkDay
  <2>2. queue' = queue /\ DOMAIN claims' = DOMAIN claims \ {d}
    BY <1>3, <2>1 DEF MarkDay
  <2>3. DOMAIN claims \subseteq Days /\ (\A c \in queue : c \subseteq Days) /\ DOMAIN cover = Days
    BY DEF HistoryTypeOK
  <2>4. \A e \in Days \ {d} : cover'[e] = cover[e]
    BY <2>1, <2>3
  <2>5. \A c \in queue : d \notin c
    BY DEF PlannedIsOpen
  <2> QED BY <2>2, <2>3, <2>4, <2>5 DEF PlannedIsOpen
<1>4. CASE Interrupted
  BY <1>4, NoClaims DEF Interrupted, PlannedIsOpen
<1>5. CASE UNCHANGED <<cover, cycleVars>>
  BY <1>5 DEF cycleVars, PlannedIsOpen
<1>6. (CollectBars \/ CollectChain \/ Prune \/ Midnight \/ UNCHANGED historyVars
        \/ \E d \in Days : CooldownEnds(d)) => UNCHANGED <<cover, cycleVars>>
  BY DEF CollectBars, CollectChain, Prune, Midnight, CooldownEnds, historyVars, dbVars
<1>7. ASSUME NEW c \in queue, FetchBreaks(c) PROVE PlannedIsOpen'
  BY <1>7 DEF FetchBreaks, dbVars, PlannedIsOpen
<1> QED BY <1>1, <1>2, <1>3, <1>4, <1>5, <1>6, <1>7 DEF HistoryNext, FetchStep

(* The strengthening is inductive.                                           *)
LEMMA HistoryInvariant == HistorySpec => []HistoryInv
<1>1. HistoryInit => HistoryInv
  BY TypeInit, NoClaims
     DEF HistoryInit, HistoryInv, HaveIsStored, ClaimsBacked, PlannedIsOpen
<1>2. HistoryInv /\ [HistoryNext]_historyVars => HistoryInv'
  BY TypeStep, BackedStep, OpenStep DEF HistoryInv
<1> QED BY <1>1, <1>2, PTL DEF HistorySpec

(* recorder.py 575: "have" never outruns the data, wherever a cycle is cut  *)
(* off between fetching, storing and marking.                               *)
THEOREM ClaimsAreStored == HistorySpec => []HaveIsStored
<1>1. HistoryInv => HaveIsStored
  BY DEF HistoryInv
<1> QED BY <1>1, HistoryInvariant, PTL

(* coverage.py: no stale plan, retry or crash takes back an answer.         *)
THEOREM AnswersAreKept == HistorySpec => SettledStays
<1> DEFINE Kept ==
      \A d \in Days :
        /\ cover[d].state = "have" => cover'[d].state = "have"
        /\ cover[d].state = "absent" => cover'[d].state \in Settled
<1>1. HistoryInv /\ [HistoryNext]_historyVars => [Kept]_historyVars
  <2> SUFFICES ASSUME HistoryInv, HistoryNext PROVE Kept
    OBVIOUS
  <2>1. OnDisk \subseteq Days /\ HistoryTypeOK
    BY DEF OnDisk, Stored, HistoryInv
  <2>2. ASSUME NEW ds \in SUBSET OnDisk, cover' = Reconciled(ds) PROVE Kept
    <3>1. /\ \A d \in ds : cover'[d].state = "have"
          /\ \A d \in Days \ ds : cover'[d] = cover[d]
      BY <2>1, <2>2, ReconciledFacts
    <3> QED BY <3>1 DEF Settled
  <2>3. CASE StartCycle
    BY <2>2, <2>3 DEF StartCycle
  <2>4. CASE MarkDay
    <3>1. PICK d \in DOMAIN claims : cover' = [cover EXCEPT ![d] = MarkRow(cover, d, claims[d])]
      BY <2>4 DEF MarkDay
    <3>2. cover[d].state \notin Settled
      BY DEF HistoryInv, PlannedIsOpen
    <3>3. \A e \in Days \ {d} : cover'[e] = cover[e]
      BY <2>1, <3>1 DEF HistoryTypeOK
    <3> QED BY <3>2, <3>3 DEF Settled
  <2>5. CASE UNCHANGED cover
    BY <2>5 DEF Settled
  <2>6. CASE Interrupted
    BY <2>2, <2>5, <2>6 DEF Interrupted
  <2>7. FetchStep \/ CollectBars \/ CollectChain \/ Prune \/ Midnight
          \/ (\E d \in Days : CooldownEnds(d)) => UNCHANGED cover
    BY DEF FetchStep, FetchFails, FetchAnswers, FetchBreaks, CollectBars, CollectChain, Prune,
           Midnight, CooldownEnds, dbVars
  <2> QED BY <2>3, <2>4, <2>5, <2>6, <2>7 DEF HistoryNext
<1> QED BY <1>1, HistoryInvariant, PTL DEF HistorySpec, SettledStays

----------------------------------------------------------------------------
(* Chunks *)

(* The ends of a set of days.                                               *)
LEMMA EndsOf ==
  ASSUME NEW S, S \subseteq Days, S # {}
  PROVE  /\ Newest(S) \in S /\ \A e \in S : e <= Newest(S)
         /\ Oldest(S) \in S /\ \A e \in S : Oldest(S) <= e
<1>1. LastDay \in Nat /\ S \subseteq Nat /\ S \subseteq 0 .. LastDay
  BY HistoryAssumption DEF Days
<1>2. \E d \in S : \A e \in S : e <= d
  BY <1>1, Greatest
<1>3. \E d \in S : \A e \in S : d <= e
  BY <1>1, Least
<1> QED BY <1>2, <1>3 DEF Newest, Oldest

(* The day the run of d begins with, when f says it of the days before.     *)
Begins(f, missing, d) ==
  LET older == {e \in missing : e < d}
  IN  IF feed = "chain" \/ older = {} THEN d
      ELSE LET p == Newest(older)
           IN  IF d >= f[p] + ChunkDays \/ d > p + GapDays THEN d ELSE f[p]

(* The function the planner computes over the missing days.                  *)
Begun(f, missing, upto) == f = [d \in upto |-> Begins(f, missing, d)]

(* plan goes from one missing day to the next: were there a first day it    *)
(* could not place, the days before it would place it.                      *)
LEMMA FirstDayRead ==
  ASSUME NEW missing, missing \subseteq Days
  PROVE  Begun(FirstDay(missing), missing, missing)
<1> DEFINE upto(m) == {d \in missing : d <= m}
           bad == {m \in 0 .. LastDay : ~\E f : Begun(f, missing, upto(m))}
<1>1. LastDay \in Nat /\ Days \subseteq Nat
  BY HistoryAssumption DEF Days
<1>0. \A d \in missing : d \in Nat /\ 1 <= d /\ d <= LastDay
  BY <1>1 DEF Days
<1>2. bad = {}
  <2> SUFFICES ASSUME bad # {} PROVE FALSE
    OBVIOUS
  <2>1. PICK m \in bad : \A o \in bad : m <= o
    <3>1. bad \subseteq Nat
      BY <1>1
    <3> HIDE DEF bad
    <3> QED BY <3>1, Least
  <2>2. CASE m = 0
    <3>1. upto(0) = {}
      <4>1. \A d \in missing : ~(d <= 0)
        BY <1>0
      <4> QED BY <4>1
    <3>2. Begun([d \in {} |-> 0], missing, {})
      BY DEF Begun
    <3> QED BY <2>1, <2>2, <3>1, <3>2
  <2>3. CASE m # 0
    <3>1. m \in 0 .. LastDay /\ m - 1 \in 0 .. LastDay /\ ~(m <= m - 1)
      BY <1>1, <2>1, <2>3
    <3>2. m - 1 \notin bad
      BY <2>1, <3>1
    <3>3. PICK f : Begun(f, missing, upto(m - 1))
      BY <3>1, <3>2
    <3>4. CASE m \notin missing
      <4>1. upto(m) = upto(m - 1)
        <5>1. \A d \in missing : d <= m <=> d <= m - 1
          BY <1>0, <3>1, <3>4
        <5> QED BY <5>1
      <4> QED BY <2>1, <3>3, <4>1
    <3>5. CASE m \in missing
      <4> DEFINE g == [d \in upto(m) |-> IF d = m THEN Begins(f, missing, m) ELSE f[d]]
      <4>1. \A d \in upto(m) : d # m => d \in upto(m - 1)
        BY <1>1, <3>1
      <4>2. \A d \in upto(m - 1) : f[d] = Begins(f, missing, d)
        BY <3>3 DEF Begun
      <4>3. ASSUME NEW d \in upto(m) PROVE Begins(g, missing, d) = Begins(f, missing, d)
        <5> DEFINE older == {e \in missing : e < d}
        <5>1. CASE feed = "chain" \/ older = {}
          BY <5>1 DEF Begins
        <5>2. CASE ~(feed = "chain" \/ older = {})
          <6>1. older \subseteq Days /\ older # {}
            BY <5>2
          <6>2. PICK p \in older : p = Newest(older)
            <7> HIDE DEF older
            <7> QED BY <6>1, EndsOf
          <6>3. p \in upto(m) /\ p # m
            BY <1>1, <3>1, <6>2
          <6>4. g[p] = f[p]
            BY <6>3
          <6> HIDE DEF g
          <6> QED BY <5>2, <6>2, <6>4 DEF Begins
        <5> QED BY <5>1, <5>2
      <4>4. ASSUME NEW d \in upto(m) PROVE g[d] = Begins(g, missing, d)
        <5>1. g[d] = Begins(f, missing, d)
          BY <4>1, <4>2
        <5> HIDE DEF g
        <5> QED BY <4>3, <5>1
      <4>5. g = [d \in upto(m) |-> g[d]]
        OBVIOUS
      <4> HIDE DEF g
      <4>6. Begun(g, missing, upto(m))
        BY <4>4, <4>5 DEF Begun
      <4> QED BY <2>1, <4>6
    <3> QED BY <3>4, <3>5
  <2> QED BY <2>2, <2>3
<1>3. upto(LastDay) = missing
  BY <1>0
<1>4. \E f : Begun(f, missing, missing)
  <2>1. LastDay \in 0 .. LastDay
    BY <1>1
  <2> QED BY <1>2, <1>3, <2>1
<1>5. FirstDay(missing) = CHOOSE f : Begun(f, missing, missing)
  BY DEF FirstDay, Begun, Begins
<1> QED BY <1>4, <1>5

(* A chunk spans less than CHUNK_DAYS.                                      *)
Short(c) == c # {} /\ c \subseteq Days /\ Newest(c) < Oldest(c) + ChunkDays

(* The run a missing day belongs to began less than CHUNK_DAYS before it.   *)
LEMMA RunsAreShort ==
  ASSUME NEW missing, missing \subseteq Days, NEW d \in missing
  PROVE  LET first == FirstDay(missing) IN first[d] \in Nat /\ first[d] <= d /\ d < first[d] + ChunkDays
<1> DEFINE first == FirstDay(missing)
           good(e) == first[e] \in Nat /\ first[e] <= e /\ e < first[e] + ChunkDays
           bad == {e \in missing : ~good(e)}
<1>1. \A e \in missing : first[e] = Begins(first, missing, e)
  BY FirstDayRead DEF Begun
<1>2. missing \subseteq Nat /\ ChunkDays \in Nat /\ ChunkDays > 0
  BY HistoryAssumption DEF Days
<1> HIDE DEF first
<1>3. bad = {}
  <2> SUFFICES ASSUME bad # {} PROVE FALSE
    OBVIOUS
  <2>1. PICK m \in bad : \A o \in bad : m <= o
    <3>1. bad \subseteq Nat
      BY <1>2
    <3> HIDE DEF bad
    <3> QED BY <3>1, Least
  <2> DEFINE older == {e \in missing : e < m}
  <2>2. m \in Nat /\ m \in missing
    BY <1>2, <2>1
  <2>3. CASE first[m] = m
    <3>1. good(m)
      BY <1>2, <2>2, <2>3
    <3> QED BY <2>1, <3>1
  <2>4. CASE first[m] # m
    <3>1. older # {} /\ first[m] = first[Newest(older)] /\ ~(m >= first[Newest(older)] + ChunkDays)
      BY <1>1, <2>2, <2>4 DEF Begins
    <3>2. PICK p \in older : p = Newest(older)
      <4>1. older \subseteq Days
        OBVIOUS
      <4> HIDE DEF older
      <4> QED BY <3>1, <4>1, EndsOf
    <3>3. good(p) /\ p \in Nat /\ p < m
      <4>1. p \in missing /\ p < m /\ p \in Nat
        BY <1>2, <3>2
      <4>2. ~(m <= p)
        BY <2>2, <4>1
      <4> QED BY <2>1, <4>1, <4>2
    <3>4. good(m)
      BY <1>2, <2>2, <3>1, <3>2, <3>3
    <3> QED BY <2>1, <3>4
  <2> QED BY <2>3, <2>4
<1> QED BY <1>3 DEF first

(* plan hands out short chunks only.                                        *)
LEMMA PlanIsShort ==
  ASSUME NEW cv, NEW resting, NEW c \in Plan(cv, resting)
  PROVE  Short(c)
<1> DEFINE missing == Gaps(cv, resting)
           first == FirstDay(missing)
<1>1. PICK d \in missing : c = {e \in missing : first[e] = first[d]}
  BY DEF Plan, Chunks
<1>2. missing \subseteq Days
  BY GapsFacts
<1>3. \A e \in missing : first[e] \in Nat /\ first[e] <= e /\ e < first[e] + ChunkDays
  <2> HIDE DEF missing
  <2> QED BY <1>2, RunsAreShort
<1> HIDE DEF first, missing
<1>4. c # {} /\ c \subseteq Days
  BY <1>1, <1>2
<1>5. PICK k \in Nat : k = first[d]
  BY <1>3
<1>6. \A e \in c : k <= e /\ e < k + ChunkDays /\ e \in Nat
  BY <1>1, <1>2, <1>3, <1>5 DEF Days
<1>7. Newest(c) \in c /\ Oldest(c) \in c
  BY <1>4, EndsOf
<1>8. Newest(c) < Oldest(c) + ChunkDays
  <2>1. ChunkDays \in Nat
    BY HistoryAssumption
  <2> QED BY <1>5, <1>6, <1>7, <2>1
<1> QED BY <1>4, <1>8 DEF Short

----------------------------------------------------------------------------
(* Answers *)

(* A page holds the days of a chunk, so every day of it that the provider   *)
(* has comes back whole.                                                    *)
LEMMA AnswerIs ==
  ASSUME carried \subseteq Days, ChunkDays <= BackPage, NEW c, Short(c)
  PROVE  /\ Whole(c) \cup Part(c) \subseteq carried
         /\ \A d \in c : d \in carried => d \in Whole(c)
         /\ \A e \in Whole(c) \cup Part(c), d \in c : e < d + ChunkDays
<1>1. Days \subseteq Nat /\ ChunkDays \in Nat /\ BackPage \in Nat /\ c \subseteq Days
  BY HistoryAssumption DEF Days, Short
<1>2. PICK a \in c, z \in c : a = Oldest(c) /\ z = Newest(c) /\ \A e \in c : a <= e /\ e <= z
  BY EndsOf DEF Short
<1>3. a \in Nat /\ z \in Nat /\ z < a + ChunkDays
  BY <1>1, <1>2 DEF Short
<1>4. Asked(c) = {d \in carried : a <= d /\ d <= z}
  BY <1>2 DEF Asked
<1>5. Whole(c) \subseteq Asked(c) /\ Part(c) \subseteq Asked(c)
  BY DEF Whole, Part
<1>6. ASSUME NEW d \in c, d \in carried PROVE d \in Whole(c)
  <2>1. d \in Asked(c) /\ d \in Nat
    BY <1>1, <1>2, <1>4, <1>6
  <2> DEFINE S == {e \in Asked(c) : e <= d}
  <2>2. S \subseteq a .. z
    <3>1. carried \subseteq Nat
      BY <1>1
    <3>2. \A e \in Asked(c) : e \in Nat /\ a <= e /\ e <= z
      BY <1>4, <3>1
    <3>3. \A e \in Asked(c) : e \in a .. z
      BY <3>2, <1>3
    <3> QED BY <3>3
  <2>3. IsFiniteSet(a .. z) /\ (Cardinality(a .. z) = IF a > z THEN 0 ELSE z - a + 1)
    BY <1>3, FS_Interval
  <2> HIDE DEF S
  <2>4. Cardinality(S) <= Cardinality(a .. z) /\ Cardinality(S) \in Nat
    BY <2>2, <2>3, FS_Subset, FS_CardinalityType
  <2>5. Cardinality(S) <= BackPage
    BY <1>1, <1>3, <2>3, <2>4
  <2>6. Nth(Asked(c), d) = Cardinality(S)
    BY DEF Nth, S
  <2> QED BY <2>1, <2>5, <2>6 DEF Whole
<1>7. ASSUME NEW e \in Asked(c), NEW d \in c PROVE e \in carried /\ e < d + ChunkDays
  <2>1. e \in Nat /\ e <= z /\ d \in Nat /\ a <= d /\ e \in carried
    BY <1>1, <1>2, <1>4
  <2> QED BY <1>1, <1>3, <2>1
<1> QED BY <1>5, <1>6, <1>7

(* Nothing is there to get, and the provider's history has begun.           *)
Empty(d) == d \notin carried /\ (feed = "bars" => \E e \in carried : e < d + ChunkDays)

(* No day is called absent that has bars.                                    *)
AbsentIsEmpty ==
  /\ \A d \in Days : cover[d].state = "absent" => Empty(d)
  /\ \A d \in DOMAIN claims : claims[d] = "absent" => Empty(d)

(* Bars that are stored, or claimed, are the provider's.                    *)
BarsAreCarried ==
  feed = "bars" =>
    /\ \A d \in Days : rows[d] # "none" \/ cover[d].state = "have" => d \in carried
    /\ \A d \in DOMAIN claims : claims[d] = "have" => d \in carried

(* The strengthening of CoverageIsTrue.                                      *)
AnswersInv == (\A c \in queue : Short(c)) /\ AbsentIsEmpty /\ BarsAreCarried

(* What an answer says of its days is so.                                   *)
LEMMA ClaimsAreTrue ==
  ASSUME HistoryTypeOK, BarsAreCarried, ChunkDays <= BackPage, NEW c, Short(c), NEW d \in c
  PROVE  LET got == Whole(c) \cup Part(c) IN
         /\ Claims(c, got)[d] = "absent" => Empty(d)
         /\ Claims(c, got)[d] = "have" => d \in carried
<1> DEFINE got == Whole(c) \cup Part(c)
<1>1. /\ carried \subseteq Days /\ c \subseteq Days /\ Days \subseteq Nat /\ ChunkDays \in Nat
      /\ ChunkDays > 0
  BY HistoryAssumption DEF HistoryTypeOK, Short, Days
<1>2. /\ got \subseteq carried /\ (d \in carried => d \in got)
      /\ \A e \in got : e < d + ChunkDays
  BY <1>1, AnswerIs
<1> HIDE DEF got
<1>3. Claims(c, got)[d] = "have" => d \in got
  BY ClaimsFacts
<1>4. ASSUME Claims(c, got)[d] = "absent" PROVE Empty(d)
  <2>1. ~(feed = "bars" /\ got = {} /\ ~HasOlder(cover, Oldest(c))) /\ d \notin got
    BY <1>4 DEF Claims
  <2>2. feed = "bars" => \E e \in carried : e < d + ChunkDays
    <3>1. CASE got # {}
      BY <1>2, <3>1
    <3>2. CASE feed = "bars" /\ HasOlder(cover, Oldest(c))
      <4>1. PICK e \in Days : e < Oldest(c) /\ cover[e].state = "have"
        BY <3>2 DEF HasOlder
      <4>2. e \in carried
        BY <3>2, <4>1 DEF BarsAreCarried
      <4>3. PICK a \in c : a = Oldest(c) /\ a <= d
        BY EndsOf DEF Short
      <4>4. e < d + ChunkDays
        BY <1>1, <4>1, <4>3
      <4> QED BY <4>2, <4>4
    <3> QED BY <2>1, <3>1, <3>2
  <2> QED BY <1>2, <2>1, <2>2 DEF Empty
<1> QED BY <1>2, <1>3, <1>4 DEF got

(* A row is only marked "absent" if it was claimed so.                      *)
LEMMA MarkedAbsent ==
  ASSUME NEW cv, NEW d, NEW s, MarkRow(cv, d, s).state = "absent"
  PROVE  s = "absent"
BY DEF MarkRow, Settled

(* Each step keeps the three: only FetchAnswers and MarkDay touch a claim.   *)
LEMMA AnswersStep ==
  ASSUME HistoryTypeOK, AnswersInv, ChunkDays <= BackPage, [HistoryNext]_historyVars
  PROVE  AnswersInv'
<1>t. /\ cover \in [Days -> CoverRow] /\ OnDisk \subseteq Stored(rows) /\ OnDisk \subseteq Days
      /\ DOMAIN claims \subseteq Days /\ \A d \in DOMAIN claims : claims[d] \in Claim
  BY DEF HistoryTypeOK, CoverRow, OnDisk, Stored
<1>f. UNCHANGED <<feed, carried>>
  BY DEF HistoryNext, FetchStep, StartCycle, FetchFails, FetchAnswers, FetchBreaks, MarkDay, CollectBars,
         CollectChain, Prune, CooldownEnds, Midnight, Interrupted, historyVars
<1>e. \A d : Empty(d)' = Empty(d)
  BY <1>f DEF Empty
<1>r. ASSUME NEW ds \in SUBSET OnDisk, cover' = Reconciled(ds), claims' = <<>>, rows' = rows
      PROVE  AbsentIsEmpty' /\ BarsAreCarried'
  <2>1. ds \subseteq Days /\ ds \subseteq Stored(rows)
    BY <1>t
  <2>2. (\A d \in ds : cover'[d].state = "have") /\ (\A d \in Days \ ds : cover'[d] = cover[d])
    BY <1>r, <2>1, ReconciledFacts
  <2>3. AbsentIsEmpty'
    BY <1>e, <1>r, <2>1, <2>2, NoClaims DEF AnswersInv, AbsentIsEmpty
  <2>4. BarsAreCarried'
    BY <1>f, <1>r, <2>1, <2>2, NoClaims DEF AnswersInv, BarsAreCarried, Stored
  <2> QED BY <2>3, <2>4
<1>s. ASSUME NEW whole, NEW part, Store(whole, part), feed = "bars" => whole \cup part \subseteq carried,
             UNCHANGED <<cover, cycleVars>>
      PROVE  AnswersInv'
  <2>1. \A d \in Days : rows'[d] # "none" => rows[d] # "none" \/ d \in whole \cup part
    BY <1>s DEF Store
  <2> QED BY <1>e, <1>f, <1>s, <2>1 DEF AnswersInv, AbsentIsEmpty, BarsAreCarried, cycleVars
<1>1. CASE StartCycle
  <2>1. \A c \in queue' : Short(c)
    BY <1>1, PlanIsShort DEF StartCycle
  <2>2. AbsentIsEmpty' /\ BarsAreCarried'
    BY <1>1, <1>r DEF StartCycle, Idle
  <2>3. \A c : Short(c)' = Short(c)
    BY DEF Short
  <2> QED BY <2>1, <2>2, <2>3 DEF AnswersInv
<1>2. ASSUME NEW c \in queue, FetchFails(c) PROVE AnswersInv'
  <2>1. UNCHANGED <<cover, rows>> /\ queue' \subseteq queue
    BY <1>2 DEF FetchFails, dbVars
  <2>2. \A d \in DOMAIN claims' : claims'[d] \notin {"have", "absent"}
    BY <1>2 DEF FetchFails
  <2>3. (\A b \in queue : Short(b)) /\ \A b : Short(b)' = Short(b)
    BY DEF Short, AnswersInv
  <2> QED BY <1>e, <1>f, <2>1, <2>2, <2>3 DEF AnswersInv, AbsentIsEmpty, BarsAreCarried
<1>3. ASSUME NEW c \in queue, FetchAnswers(c) PROVE AnswersInv'
  <2> DEFINE got == Whole(c) \cup Part(c)
  <2>1. cover' = cover /\ queue' \subseteq queue /\ Store(Whole(c), Part(c)) /\ claims' = Claims(c, got)
    BY <1>3 DEF FetchAnswers
  <2>2. (\A b \in queue : Short(b)) /\ \A b : Short(b)' = Short(b)
    BY DEF Short, AnswersInv
  <2>3. DOMAIN claims' = c
    BY <2>1, ClaimsFacts
  <2>4. \A d \in c : (claims'[d] = "absent" => Empty(d)) /\ (claims'[d] = "have" => d \in carried)
    BY <2>1, <2>2, ClaimsAreTrue DEF AnswersInv
  <2>5. Whole(c) \cup Part(c) \subseteq carried
    BY <2>2, AnswerIs DEF HistoryTypeOK
  <2>6. \A d \in Days : rows'[d] # "none" => rows[d] # "none" \/ d \in Whole(c) \cup Part(c)
    BY <2>1 DEF Store
  <2>7. AbsentIsEmpty'
    BY <1>e, <2>1, <2>3, <2>4 DEF AnswersInv, AbsentIsEmpty
  <2>8. BarsAreCarried'
    BY <1>f, <2>1, <2>3, <2>4, <2>5, <2>6 DEF AnswersInv, BarsAreCarried
  <2> QED BY <2>1, <2>2, <2>7, <2>8 DEF AnswersInv
<1>4. CASE MarkDay
  <2>1. PICK d \in DOMAIN claims :
          /\ cover' = [cover EXCEPT ![d] = MarkRow(cover, d, claims[d])]
          /\ claims' = [e \in DOMAIN claims \ {d} |-> claims[e]]
    BY <1>4 DEF MarkDay
  <2>2. UNCHANGED <<rows, queue>> /\ DOMAIN claims' = DOMAIN claims \ {d} /\ \A e \in DOMAIN claims' : claims'[e] = claims[e]
    BY <1>4, <2>1 DEF MarkDay
  <2>3. \A e \in Days : cover'[e] = IF e = d THEN MarkRow(cover, d, claims[d]) ELSE cover[e]
    BY <1>t, <2>1
  <2>4. /\ cover'[d].state = "absent" => claims[d] = "absent"
        /\ cover'[d].state = "have" => claims[d] = "have"
    BY <1>t, <2>3, MarkRowFacts, MarkedAbsent
  <2>5. AbsentIsEmpty'
    BY <1>e, <2>2, <2>3, <2>4 DEF AnswersInv, AbsentIsEmpty
  <2>6. BarsAreCarried'
    BY <1>f, <2>2, <2>3, <2>4 DEF AnswersInv, BarsAreCarried
  <2>7. \A b : Short(b)' = Short(b)
    BY DEF Short
  <2> QED BY <2>2, <2>5, <2>6, <2>7 DEF AnswersInv
<1>5. CASE CollectBars
  <2>1. PICK whole, part : Store(whole, part) /\ whole \cup part \subseteq carried
    <3> DEFINE since == IF Stored(rows) = {} THEN 1 ELSE Newest(Stored(rows))
               new   == {d \in carried : since <= d /\ d <= today}
               page  == {d \in new : d + LivePage > today}
               cut   == {d \in new : d + LivePage = today}
    <3>1. PICK open \in SUBSET (page \cap {today}) : Store(page \ open, cut \cup open)
      BY <1>5 DEF CollectBars
    <3>2. (page \ open) \cup (cut \cup open) \subseteq carried
      OBVIOUS
    <3> QED BY <3>1, <3>2
  <2> QED BY <1>5, <1>s, <2>1 DEF CollectBars
<1>6. CASE CollectChain
  BY <1>6, <1>s DEF CollectChain
<1>7. CASE Prune
  <2>1. \A d \in Days : rows'[d] # "none" => rows[d] # "none"
    BY <1>7 DEF Prune
  <2>2. UNCHANGED <<cover, queue, claims>>
    BY <1>7 DEF Prune, cycleVars
  <2> QED BY <1>e, <1>f, <2>1, <2>2 DEF AnswersInv, AbsentIsEmpty, BarsAreCarried
<1>8. CASE UNCHANGED <<rows, cover, queue, claims>>
  BY <1>e, <1>f, <1>8 DEF AnswersInv, AbsentIsEmpty, BarsAreCarried
<1>9. CASE Interrupted
  <2>1. queue' = {} /\ claims' = <<>> /\ rows' = rows
    BY <1>9 DEF Interrupted
  <2>2. CASE cover' = cover
    BY <1>e, <1>f, <2>1, <2>2, NoClaims DEF AnswersInv, AbsentIsEmpty, BarsAreCarried
  <2>3. CASE \E ds \in SUBSET OnDisk : cover' = Reconciled(ds)
    BY <1>r, <2>1, <2>3 DEF AnswersInv
  <2> QED BY <1>9, <2>2, <2>3 DEF Interrupted
<1>10. (Midnight \/ UNCHANGED historyVars \/ \E d \in Days : CooldownEnds(d)) => UNCHANGED <<rows, cover, queue, claims>>
  BY DEF Midnight, CooldownEnds, historyVars, dbVars, cycleVars
<1>11. ASSUME NEW c \in queue, FetchBreaks(c) PROVE AnswersInv'
  <2>1. UNCHANGED <<cover, rows, claims>> /\ queue' = {}
    BY <1>11 DEF FetchBreaks, dbVars
  <2> QED BY <1>e, <1>f, <2>1 DEF AnswersInv, AbsentIsEmpty, BarsAreCarried
<1> QED BY <1>1, <1>2, <1>3, <1>4, <1>5, <1>6, <1>7, <1>8, <1>9, <1>10, <1>11 DEF HistoryNext, FetchStep

(* coverage.py, backfill.py: what coverage says of a day is so.  A page of  *)
(* stock_bars_range holds a chunk: a chunk spans CHUNK_DAYS.                *)
THEOREM CoverageStaysTrue ==
  ASSUME ChunkDays <= BackPage
  PROVE  HistorySpec => []CoverageIsTrue
<1>1. HistoryInit => AnswersInv
  BY NoClaims DEF HistoryInit, AnswersInv, AbsentIsEmpty, BarsAreCarried
<1>2. HistoryInv /\ AnswersInv /\ [HistoryNext]_historyVars => AnswersInv'
  BY AnswersStep DEF HistoryInv
<1>3. HistoryInv /\ AnswersInv => CoverageIsTrue
  BY DEF HistoryInv, AnswersInv, AbsentIsEmpty, Empty, CoverageIsTrue, NeverAbsentOverData, HorizonStaysOpen
<1> QED BY <1>1, <1>2, <1>3, HistoryInvariant, PTL DEF HistorySpec
-----------------------------------------------------------------------------
(* The keyless feeds: the work, the deadlines, who was let through, and the  *)
(* breaker with its rounds as s, d, a, f, o, r.                              *)

(* What the pool has to do, and how long each caller still waits.            *)
Task == [of : Callers, wanted : BOOLEAN, runs : BOOLEAN]
Deadlines == [Callers -> -1 .. CALL_TIMEOUT]

(* What is behind the pool, that of it nobody waits for, and what runs; and  *)
(* whose calls are out, submitted or about to be.                            *)
QueueOf(s) == {i \in DOMAIN s : ~s[i].runs}
GivenUpOf(s) == {i \in DOMAIN s : ~s[i].runs /\ ~s[i].wanted}
BusyOf(s) == {i \in DOMAIN s : s[i].runs}
OutOf(d, a) == {c \in Callers : c \in a \/ d[c] # Free}

(* Work starts in the order it came; who waits, waits for one thing; and     *)
(* behind what is waited for there is of every caller at most one thing that *)
(* was given up, just now, and one that was asked for after that.            *)
CallsSound(s, d) ==
  /\ \A i \in DOMAIN s : s[i].wanted => d[s[i].of] >= 0
  /\ \A i, j \in DOMAIN s : i < j =>
       /\ s[j].runs => s[i].runs
       /\ s[i].wanted /\ s[j].wanted => s[i].of # s[j].of /\ d[s[i].of] <= d[s[j].of]
       /\ s[i].wanted /\ ~s[j].wanted => s[i].of # s[j].of /\ d[s[i].of] = 0
       /\ s[i].wanted /\ ~s[j].wanted =>
            \A k \in DOMAIN s : i < k /\ k # j /\ s[k].of = s[j].of => s[k].wanted /\ d[s[j].of] = CALL_TIMEOUT

(* What a call, a deadline and a second make of the work and the deadlines,  *)
(* and a failure of the breaker.                                             *)
AskedOf(s, c) == Append(s, [of |-> c, wanted |-> TRUE, runs |-> FALSE])
Abandoned(s, c) == [i \in DOMAIN s |-> IF s[i].of = c THEN [s[i] EXCEPT !.wanted = FALSE] ELSE s[i]]
LateNearer(d) == [c \in Callers |-> Less(d[c])]
Opened(f, o) == IF f >= BREAKER_THRESHOLD THEN BREAKER_COOLDOWN ELSE o

(* The failures that fit into so many rounds.                                *)
Room(r) == BREAKER_THRESHOLD + r * Cardinality(Callers)

(* Only a failure gives work up.  The failures keep to the rounds there were *)
(* while the breaker is closed; while it is open, those that are still to    *)
(* come are counted with them, and they fill this round at most.             *)
PileSound(s, d, a, f, o, r) ==
  /\ GivenUpOf(s) = {} \/ Cardinality(GivenUpOf(s)) < Cardinality(Callers) + f
  /\ o = 0 => f < Room(r)
  /\ o > 0 => f + Cardinality(OutOf(d, a)) < Room(r + 1)

(* The calls and the pile they make.                                         *)
FeedInv ==
  /\ work \in Seq(Task) /\ deadline \in Deadlines /\ asking \subseteq Callers
  /\ failures \in Nat /\ openFor \in 0 .. BREAKER_COOLDOWN /\ rounds \in Nat
  /\ \A c \in asking : deadline[c] = Free
  /\ CallsSound(work, deadline) /\ PileSound(work, deadline, asking, failures, openFor, rounds)

(* The first numbers are as many as the last of them,                        *)
LEMMA FirstNumbers ==
  ASSUME NEW n \in Nat
  PROVE  IsFiniteSet(1 .. n) /\ Cardinality(1 .. n) = n
<1>1. IsFiniteSet(1 .. n) /\ Cardinality(1 .. n) = IF 1 > n THEN 0 ELSE n - 1 + 1
  BY FS_Interval
<1> QED BY <1>1

(* and the constants are numbers.                                            *)
LEMMA Numbers ==
  /\ CALL_TIMEOUT \in Nat /\ CALL_TIMEOUT > 0 /\ BREAKER_THRESHOLD \in Nat /\ BREAKER_THRESHOLD > 0
  /\ BREAKER_COOLDOWN \in Nat /\ BREAKER_COOLDOWN > 0 /\ Cardinality(Callers) \in Nat /\ Cardinality(Callers) > 0
<1>1. CALL_TIMEOUT \in Nat \ {0} /\ BREAKER_THRESHOLD \in Nat \ {0} /\ BREAKER_COOLDOWN \in Nat \ {0}
  BY FeedAssumption
<1>2. Cardinality(Callers) \in Nat /\ Cardinality(Callers) # 0
  BY FeedAssumption, FS_CardinalityType, FS_EmptySet
<1> QED BY ONLY <1>1, <1>2

(* A round has room for a failure of every caller.                           *)
LEMMA Rooms ==
  ASSUME NEW r \in Nat
  PROVE  /\ Room(r) \in Nat /\ Room(r) >= BREAKER_THRESHOLD /\ Room(0) = BREAKER_THRESHOLD
         /\ Room(r + 1) = Room(r) + Cardinality(Callers)
<1>1. PICK n \in Nat, h \in Nat : n = Cardinality(Callers) /\ h = BREAKER_THRESHOLD
  BY Numbers
<1>2. r * n \in Nat /\ (r + 1) * n = r * n + n /\ 0 * n = 0
  BY ONLY n \in Nat, r \in Nat, SMTT(30)
<1> QED BY ONLY <1>1, <1>2 DEF Room

(* A function that keeps things apart goes into at least as many.            *)
LEMMA Fits ==
  ASSUME NEW S, NEW T, IsFiniteSet(T), NEW f \in [S -> T], \A x, y \in S : f[x] = f[y] => x = y
  PROVE  IsFiniteSet(S) /\ Cardinality(S) <= Cardinality(T)
<1>1. f \in Injection(S, T)
  BY DEF Injection, IsInjective
<1> QED BY <1>1, FS_Injection

(* The parts of the work are finite, and are all of it; whose calls are out, *)
(* are callers.                                                              *)
LEMMA PartsAre ==
  ASSUME NEW s \in Seq(Task)
  PROVE  /\ IsFiniteSet(QueueOf(s)) /\ IsFiniteSet(GivenUpOf(s)) /\ IsFiniteSet(BusyOf(s))
         /\ Cardinality(QueueOf(s)) \in Nat /\ Cardinality(GivenUpOf(s)) \in Nat /\ Cardinality(BusyOf(s)) \in Nat
         /\ Len(s) = Cardinality(QueueOf(s)) + Cardinality(BusyOf(s))
<1> DEFINE D == 1 .. Len(s)
<1>1. IsFiniteSet(D) /\ DOMAIN s = D /\ Cardinality(D) = Len(s) /\ Len(s) \in Nat
  <2>1. Len(s) \in Nat /\ DOMAIN s = 1 .. Len(s)
    OBVIOUS
  <2> QED BY <2>1, FirstNumbers
<1>2. QueueOf(s) \in SUBSET D /\ BusyOf(s) \in SUBSET D /\ GivenUpOf(s) \in SUBSET D
  BY <1>1 DEF QueueOf, BusyOf, GivenUpOf
<1>3. IsFiniteSet(QueueOf(s)) /\ IsFiniteSet(BusyOf(s)) /\ IsFiniteSet(GivenUpOf(s))
  BY <1>1, <1>2, FS_Subset
<1>4. QueueOf(s) \cup BusyOf(s) = D /\ QueueOf(s) \cap BusyOf(s) = {}
  BY <1>1 DEF QueueOf, BusyOf
<1>5. Cardinality(D) = Cardinality(QueueOf(s)) + Cardinality(BusyOf(s)) - Cardinality({})
  <2>1. Cardinality(QueueOf(s) \cup BusyOf(s))
          = Cardinality(QueueOf(s)) + Cardinality(BusyOf(s)) - Cardinality(QueueOf(s) \cap BusyOf(s))
    BY ONLY <1>3, FS_Union
  <2> QED BY ONLY <1>4, <2>1
<1>6. Cardinality(QueueOf(s)) \in Nat /\ Cardinality(GivenUpOf(s)) \in Nat /\ Cardinality(BusyOf(s)) \in Nat
  BY <1>3, FS_CardinalityType
<1>7. Cardinality({}) = 0
  BY FS_EmptySet
<1> QED BY ONLY <1>1, <1>3, <1>5, <1>6, <1>7

LEMMA OutAre ==
  ASSUME NEW d, NEW a
  PROVE  /\ IsFiniteSet(OutOf(d, a)) /\ Cardinality(OutOf(d, a)) \in Nat
         /\ Cardinality(OutOf(d, a)) <= Cardinality(Callers)
<1>1. OutOf(d, a) \in SUBSET Callers /\ IsFiniteSet(Callers)
  BY FeedAssumption DEF OutOf
<1>2. IsFiniteSet(OutOf(d, a)) /\ Cardinality(OutOf(d, a)) <= Cardinality(Callers)
  BY ONLY <1>1, FS_Subset
<1> QED BY ONLY <1>2, FS_CardinalityType

(* A call that comes back is out no more.                                    *)
LEMMA OutLess ==
  ASSUME NEW d \in Deadlines, NEW a, NEW c \in Callers, d[c] # Free, c \notin a,
         NEW e, e = [d EXCEPT ![c] = Free]
  PROVE  /\ Cardinality(OutOf(d, a)) = Cardinality(OutOf(e, a)) + 1
<1>1. \A x \in Callers : e[x] = IF x = c THEN Free ELSE d[x]
  BY DEF Deadlines
<1>2. OutOf(e, a) = OutOf(d, a) \ {c} /\ c \in OutOf(d, a)
  BY <1>1 DEF OutOf
<1>3. IsFiniteSet(OutOf(d, a)) /\ Cardinality(OutOf(d, a)) \in Nat
  BY OutAre
<1>4. Cardinality(OutOf(d, a) \ {c}) = Cardinality(OutOf(d, a)) - 1
  BY <1>2, <1>3, FS_RemoveElement
<1> QED BY ONLY <1>2, <1>3, <1>4

(* Of what is queued whoever's call is out waits for one thing at most.      *)
LEMMA QueueIsBounded ==
  ASSUME NEW s \in Seq(Task), NEW d \in Deadlines, CallsSound(s, d), NEW a
  PROVE  Cardinality(QueueOf(s)) <= Cardinality(GivenUpOf(s)) + Cardinality(OutOf(d, a))
<1> DEFINE W == {i \in DOMAIN s : ~s[i].runs /\ s[i].wanted}
           f == [i \in W |-> s[i].of]
           O == OutOf(d, a)
<1>1. \A i \in DOMAIN s : s[i].of \in Callers /\ (s[i].wanted => d[s[i].of] # Free)
  <2>1. \A i \in DOMAIN s : s[i] \in Task
    OBVIOUS
  <2> QED BY <2>1 DEF Task, CallsSound, Free
<1>2. f \in [W -> O]
  BY <1>1 DEF OutOf
<1>3. \A i, j \in W : f[i] = f[j] => i = j
  <2> SUFFICES ASSUME NEW i \in W, NEW j \in W, f[i] = f[j], i # j PROVE FALSE
    OBVIOUS
  <2>1. i < j \/ j < i
    OBVIOUS
  <2>2. s[i].wanted /\ s[j].wanted /\ s[i].of = s[j].of
    OBVIOUS
  <2> QED BY <2>1, <2>2 DEF CallsSound
<1>4. IsFiniteSet(O) /\ Cardinality(O) \in Nat
  BY OutAre
<1>5. IsFiniteSet(W) /\ Cardinality(W) <= Cardinality(O)
  <2> HIDE DEF f, W, O
  <2> QED BY <1>2, <1>3, <1>4, Fits
<1>6. QueueOf(s) = GivenUpOf(s) \cup W /\ GivenUpOf(s) \cap W = {}
  BY DEF QueueOf, GivenUpOf
<1>7. IsFiniteSet(GivenUpOf(s)) /\ Cardinality(GivenUpOf(s)) \in Nat
  BY PartsAre
<1>8. Cardinality(QueueOf(s)) = Cardinality(GivenUpOf(s)) + Cardinality(W) - Cardinality({})
  <2> HIDE DEF W
  <2> QED BY <1>5, <1>6, <1>7, FS_Union
<1>9. Cardinality({}) = 0 /\ Cardinality(W) \in Nat
  BY <1>5, FS_EmptySet, FS_CardinalityType
<1> QED BY ONLY <1>4, <1>5, <1>7, <1>8, <1>9

(* What comes after work has ended, and where each of it stood before.       *)
Remains(t, s, i, old) ==
  /\ t \in Seq(Task) /\ old \in [DOMAIN t -> (DOMAIN s) \ {i}]
  /\ \A k \in DOMAIN t : t[k] = s[old[k]]
  /\ \A j, k \in DOMAIN t : j < k => old[j] < old[k]

(* All but the work that ended comes after it, in its order.                 *)
LEMMA RemainsSo ==
  ASSUME NEW s \in Seq(Task), NEW i \in DOMAIN s
  PROVE  \E old : Remains(RemoveAt(s, i), s, i, old)
<1> DEFINE L == Len(s)
           t == RemoveAt(s, i)
           a == SubSeq(s, 1, i - 1)
           b == SubSeq(s, i + 1, L)
           old == [k \in 1 .. L - 1 |-> IF k < i THEN k ELSE k + 1]
<1>1. L \in Nat /\ DOMAIN s = 1 .. L /\ i \in 1 .. L
  OBVIOUS
<1>2. a \in Seq(Task) /\ Len(a) = i - 1 /\ \A j \in 1 .. i - 1 : a[j] = s[j]
  BY <1>1
<1>3. b \in Seq(Task) /\ Len(b) = L - i /\ \A j \in 1 .. L - i : b[j] = s[i + j]
  BY <1>1
<1>4. t = a \o b
  BY DEF RemoveAt
<1> HIDE DEF a, b, t
<1>5. t \in Seq(Task) /\ DOMAIN t = 1 .. L - 1
  <2>0. ASSUME NEW x \in Seq(Task), NEW y \in Seq(Task) PROVE x \o y \in Seq(Task) /\ Len(x \o y) = Len(x) + Len(y)
    OBVIOUS
  <2>1. t \in Seq(Task) /\ Len(t) = Len(a) + Len(b)
    BY ONLY <1>2, <1>3, <1>4, <2>0
  <2>2. (i - 1) + (L - i) = L - 1
    BY ONLY <1>1
  <2>3. DOMAIN t = 1 .. Len(t)
    BY ONLY <2>1
  <2> QED BY ONLY <1>2, <1>3, <2>1, <2>2, <2>3
<1>6. \A j \in 1 .. L - 1 : t[j] = s[old[j]]
  <2> SUFFICES ASSUME NEW j \in 1 .. L - 1 PROVE t[j] = s[old[j]]
    OBVIOUS
  <2>1. CASE j < i
    <3>1. t[j] = a[j] /\ j \in 1 .. i - 1
      BY <1>1, <1>2, <1>3, <1>4, <2>1
    <3> QED BY <1>2, <2>1, <3>1
  <2>2. CASE ~(j < i)
    <3>1. t[j] = b[j - (i - 1)] /\ j - (i - 1) \in 1 .. L - i
      BY <1>1, <1>2, <1>3, <1>4, <2>2
    <3>2. b[j - (i - 1)] = s[i + (j - (i - 1))] /\ i + (j - (i - 1)) = j + 1
      BY <1>1, <1>3, <3>1
    <3> QED BY <2>2, <3>1, <3>2
  <2> QED BY <2>1, <2>2
<1>7. old \in [1 .. L - 1 -> (1 .. L) \ {i}] /\ \A j, k \in 1 .. L - 1 : j < k => old[j] < old[k]
  BY <1>1
<1> HIDE DEF old
<1>8. Remains(t, s, i, old)
  BY <1>1, <1>5, <1>6, <1>7 DEF Remains
<1> QED BY <1>8 DEF t

(* What was given up in it is less or as much as before.                     *)
LEMMA RemainsLess ==
  ASSUME NEW s \in Seq(Task), NEW i \in DOMAIN s, NEW t, NEW old, Remains(t, s, i, old)
  PROVE  Cardinality(GivenUpOf(t)) <= Cardinality(GivenUpOf(s)) /\ (GivenUpOf(s) = {} => GivenUpOf(t) = {})
<1>1. /\ t \in Seq(Task) /\ old \in [DOMAIN t -> (DOMAIN s) \ {i}] /\ \A k \in DOMAIN t : t[k] = s[old[k]]
      /\ \A j, k \in DOMAIN t : old[j] = old[k] => j = k
  <2>1. /\ t \in Seq(Task) /\ old \in [DOMAIN t -> (DOMAIN s) \ {i}] /\ \A k \in DOMAIN t : t[k] = s[old[k]]
        /\ \A j, k \in DOMAIN t : j < k => old[j] < old[k]
    BY DEF Remains
  <2>2. DOMAIN t \subseteq Int /\ DOMAIN s \subseteq Int
    BY <2>1
  <2>3. ASSUME NEW j \in DOMAIN t, NEW k \in DOMAIN t, old[j] = old[k], j # k PROVE FALSE
    <3>1. j \in Int /\ k \in Int /\ old[j] \in Int
      BY <2>1, <2>2
    <3>2. j < k \/ k < j
      BY <2>3, <3>1
    <3>3. old[j] < old[k] \/ old[k] < old[j]
      BY <2>1, <3>2
    <3> QED BY <2>3, <3>1, <3>3
  <2> QED BY <2>1, <2>3
<1> DEFINE f == [k \in GivenUpOf(t) |-> old[k]]
<1>2. f \in [GivenUpOf(t) -> GivenUpOf(s)] /\ \A x, y \in GivenUpOf(t) : f[x] = f[y] => x = y
  BY <1>1 DEF GivenUpOf
<1>3. GivenUpOf(s) = {} => GivenUpOf(t) = {}
  BY <1>2
<1>4. IsFiniteSet(GivenUpOf(s))
  BY PartsAre
<1> HIDE DEF f
<1> QED BY <1>2, <1>3, <1>4, Fits

(* A call is submitted: nothing of this caller was waited for.               *)
LEMMA CallKeepsCalls ==
  ASSUME NEW s \in Seq(Task), NEW d \in Deadlines, CallsSound(s, d), NEW c \in Callers, d[c] = Free,
         NEW t, t = AskedOf(s, c),
         NEW e, e = [d EXCEPT ![c] = CALL_TIMEOUT]
  PROVE  t \in Seq(Task) /\ e \in Deadlines /\ CallsSound(t, e)
<1> USE DEF AskedOf
<1>1. PICK n \in Nat : n = Len(s) /\ DOMAIN s = 1 .. n
  OBVIOUS
<1>2. \A k \in 1 .. n : s[k] \in Task
  BY <1>1
<1>3. [of |-> c, wanted |-> TRUE, runs |-> FALSE] \in Task /\ e \in Deadlines
  BY Numbers DEF Task, Free, Deadlines
<1>4. /\ t \in Seq(Task) /\ DOMAIN t = 1 .. n + 1 /\ \A k \in 1 .. n : t[k] = s[k]
      /\ t[n + 1] = [of |-> c, wanted |-> TRUE, runs |-> FALSE]
  BY <1>1, <1>3
<1>5. \A k \in 1 .. n : s[k].of \in Callers /\ (s[k].wanted => s[k].of # c /\ d[s[k].of] >= 0)
  <2> SUFFICES ASSUME NEW k \in 1 .. n PROVE s[k].of \in Callers /\ (s[k].wanted => s[k].of # c /\ d[s[k].of] >= 0)
    OBVIOUS
  <2>1. s[k].of \in Callers
    BY <1>2 DEF Task
  <2>2. s[k].wanted => d[s[k].of] >= 0
    BY <1>1 DEF CallsSound
  <2>3. d[c] = -1
    BY DEF Free
  <2>4. s[k].wanted => s[k].of # c
    BY ONLY <2>2, <2>3
  <2> QED BY <2>1, <2>2, <2>4
<1>6. \A x \in Callers : d[x] \in -1 .. CALL_TIMEOUT /\ e[x] = IF x = c THEN CALL_TIMEOUT ELSE d[x]
  BY DEF Deadlines
<1>7. \A i \in DOMAIN t : t[i].wanted => e[t[i].of] >= 0
  BY <1>1, <1>4, <1>5, <1>6, Numbers
<1>8. ASSUME NEW i \in DOMAIN t, NEW j \in DOMAIN t, i < j
      PROVE  /\ t[j].runs => t[i].runs
             /\ t[i].wanted /\ t[j].wanted => t[i].of # t[j].of /\ e[t[i].of] <= e[t[j].of]
             /\ t[i].wanted /\ ~t[j].wanted => t[i].of # t[j].of /\ e[t[i].of] = 0
             /\ t[i].wanted /\ ~t[j].wanted =>
                  \A k \in DOMAIN t : i < k /\ k # j /\ t[k].of = t[j].of => t[k].wanted /\ e[t[j].of] = CALL_TIMEOUT
  <2>1. i \in 1 .. n /\ t[i] = s[i]
    BY <1>4, <1>8
  <2>2. CASE j \in 1 .. n
    <3>1. t[j] = s[j]
      BY <1>4, <2>2
    <3>2. /\ t[j].runs => t[i].runs
          /\ t[i].wanted /\ t[j].wanted => t[i].of # t[j].of /\ e[t[i].of] <= e[t[j].of]
          /\ t[i].wanted /\ ~t[j].wanted => t[i].of # t[j].of /\ e[t[i].of] = 0
      BY <1>1, <1>5, <1>6, <1>8, <2>1, <2>2, <3>1 DEF CallsSound
    <3>3. ASSUME t[i].wanted, ~t[j].wanted, NEW k \in DOMAIN t, i < k, k # j, t[k].of = t[j].of
          PROVE  t[k].wanted /\ e[t[j].of] = CALL_TIMEOUT
      <4>1. CASE k \in 1 .. n
        <5>1. s[k].wanted /\ d[s[j].of] = CALL_TIMEOUT
          BY <1>1, <1>4, <1>8, <2>1, <2>2, <3>1, <3>3, <4>1 DEF CallsSound
        <5> QED BY <1>4, <1>5, <1>6, <2>2, <3>1, <4>1, <5>1
      <4>2. CASE k = n + 1
        BY <1>4, <1>6, <3>3, <4>2
      <4> QED BY <1>1, <1>4, <4>1, <4>2
    <3> QED BY <3>2, <3>3
  <2>3. CASE j = n + 1
    <3>1. t[j] = [of |-> c, wanted |-> TRUE, runs |-> FALSE]
      BY <1>4, <2>3
    <3>2. t[i].wanted => t[i].of \in Callers /\ t[i].of # c
      BY <1>5, <2>1
    <3>3. t[i].wanted => e[t[i].of] <= CALL_TIMEOUT /\ e[c] = CALL_TIMEOUT
      BY <1>6, <3>2, Numbers
    <3> QED BY <3>1, <3>2, <3>3
  <2> QED BY <1>1, <1>4, <2>2, <2>3
<1> QED BY ONLY <1>3, <1>4, <1>7, <1>8 DEF CallsSound

(* Work starts, the first that waits.                                        *)
LEMMA StartKeepsCalls ==
  ASSUME NEW s \in Seq(Task), NEW d \in Deadlines, CallsSound(s, d), NEW i \in DOMAIN s, ~s[i].runs,
         \A k \in 1 .. i - 1 : s[k].runs,
         NEW t, t = [s EXCEPT ![i].runs = TRUE]
  PROVE  t \in Seq(Task) /\ CallsSound(t, d)
<1>1. \A k \in DOMAIN s : s[k] \in Task
  OBVIOUS
<1>2. PICK x \in Task : x = [s[i] EXCEPT !.runs = TRUE]
  BY <1>1 DEF Task
<1>3. /\ t \in Seq(Task) /\ DOMAIN t = DOMAIN s
      /\ \A k \in DOMAIN s : t[k] = IF k = i THEN [s[k] EXCEPT !.runs = TRUE] ELSE s[k]
  <2>1. t = [s EXCEPT ![i] = x]
    BY <1>2
  <2>2. t \in Seq(Task) /\ DOMAIN t = DOMAIN s /\ \A k \in DOMAIN s : t[k] = IF k = i THEN x ELSE s[k]
    BY ONLY <2>1, s \in Seq(Task), i \in DOMAIN s, x \in Task
  <2> QED BY <1>2, <2>2
<1>4. \A k \in DOMAIN s : /\ t[k].of = s[k].of /\ t[k].wanted = s[k].wanted
                          /\ t[k].runs <=> k = i \/ s[k].runs
  BY <1>1, <1>3 DEF Task
<1>5. \A k, j \in DOMAIN s : k < j /\ t[j].runs => t[k].runs
  <2> SUFFICES ASSUME NEW k \in DOMAIN s, NEW j \in DOMAIN s, k < j, t[j].runs PROVE t[k].runs
    OBVIOUS
  <2>1. CASE k = i
    BY <1>4, <2>1
  <2>2. CASE k # i /\ j = i
    <3>1. k \in 1 .. i - 1
      BY <2>2
    <3> QED BY <1>4, <2>2, <3>1
  <2>3. CASE k # i /\ j # i
    BY <1>4, <2>3 DEF CallsSound
  <2> QED BY <2>1, <2>2, <2>3
<1> QED BY <1>3, <1>4, <1>5 DEF CallsSound

(* Work ends; who waited for it waits no more.                               *)
LEMMA EndKeepsCalls ==
  ASSUME NEW s \in Seq(Task), NEW d \in Deadlines, CallsSound(s, d), NEW i \in DOMAIN s,
         NEW t, NEW old, Remains(t, s, i, old),
         NEW e, e = IF s[i].wanted THEN [d EXCEPT ![s[i].of] = Free] ELSE d
  PROVE  e \in Deadlines /\ CallsSound(t, e)
<1>1. \A k \in DOMAIN s : s[k] \in Task
  OBVIOUS
<1>2. /\ \A k \in DOMAIN t : old[k] \in DOMAIN s /\ old[k] # i /\ t[k] = s[old[k]]
      /\ \A j, k \in DOMAIN t : j < k => old[j] < old[k]
      /\ DOMAIN t \subseteq Int
  <2>1. t \in Seq(Task)
    BY DEF Remains
  <2> QED BY <2>1 DEF Remains
<1>3. e \in Deadlines
  BY <1>1, Numbers DEF Task, Deadlines, Free
<1>4. \A k \in DOMAIN s : k # i /\ s[k].wanted => e[s[k].of] = d[s[k].of]
  <2> SUFFICES ASSUME NEW k \in DOMAIN s, k # i, s[k].wanted, s[i].wanted PROVE s[k].of # s[i].of
    BY <1>1 DEF Task, Deadlines
  <2>1. k < i \/ i < k
    OBVIOUS
  <2> QED BY <2>1 DEF CallsSound
<1>5. \A k \in DOMAIN t : t[k].wanted => e[t[k].of] >= 0
  BY <1>2, <1>4 DEF CallsSound
<1>6. ASSUME NEW a \in DOMAIN t, NEW b \in DOMAIN t, a < b
      PROVE  /\ t[b].runs => t[a].runs
             /\ t[a].wanted /\ t[b].wanted => t[a].of # t[b].of /\ e[t[a].of] <= e[t[b].of]
             /\ t[a].wanted /\ ~t[b].wanted => t[a].of # t[b].of /\ e[t[a].of] = 0
             /\ t[a].wanted /\ ~t[b].wanted =>
                  \A k \in DOMAIN t : a < k /\ k # b /\ t[k].of = t[b].of => t[k].wanted /\ e[t[b].of] = CALL_TIMEOUT
  <2>1. PICK x \in DOMAIN s : x = old[a] /\ x # i /\ t[a] = s[x]
    BY <1>2
  <2>2. PICK y \in DOMAIN s : y = old[b] /\ y # i /\ t[b] = s[y]
    BY <1>2
  <2>3. x < y
    BY <1>2, <1>6, <2>1, <2>2
  <2>4. /\ t[b].runs => t[a].runs
        /\ t[a].wanted /\ t[b].wanted => t[a].of # t[b].of /\ e[t[a].of] <= e[t[b].of]
        /\ t[a].wanted /\ ~t[b].wanted => t[a].of # t[b].of /\ e[t[a].of] = 0
    BY <1>4, <2>1, <2>2, <2>3 DEF CallsSound
  <2>5. ASSUME t[a].wanted, ~t[b].wanted, NEW k \in DOMAIN t, a < k, k # b, t[k].of = t[b].of
        PROVE  t[k].wanted /\ e[t[b].of] = CALL_TIMEOUT
    <3>1. PICK z \in DOMAIN s : z = old[k] /\ z # i /\ t[k] = s[z]
      BY <1>2
    <3>2. x < z /\ z # y
      <4>1. x < z
        BY <1>2, <2>1, <2>5, <3>1
      <4>2. k < b \/ b < k
        BY <1>2, <2>5
      <4>3. z < y \/ y < z
        BY <1>2, <2>2, <3>1, <4>2
      <4> QED BY <4>1, <4>3
    <3>3. s[z].wanted /\ d[s[y].of] = CALL_TIMEOUT
      BY <2>1, <2>2, <2>3, <2>5, <3>1, <3>2 DEF CallsSound
    <3> QED BY <1>4, <2>2, <2>5, <3>1, <3>3
  <2> QED BY <2>4, <2>5
<1> QED BY ONLY <1>3, <1>5, <1>6 DEF CallsSound

(* A caller gives up: its work stays, and nobody waits for it.               *)
LEMMA GivingUpKeepsCalls ==
  ASSUME NEW s \in Seq(Task), NEW d \in Deadlines, CallsSound(s, d), NEW c \in Callers, d[c] = 0,
         NEW t, t = Abandoned(s, c),
         NEW e, e = [d EXCEPT ![c] = Free]
  PROVE  t \in Seq(Task) /\ e \in Deadlines /\ CallsSound(t, e)
<1> USE DEF Abandoned
<1>1. \A k \in DOMAIN s : s[k] \in Task
  OBVIOUS
<1>2. \A x \in Task : [x EXCEPT !.wanted = FALSE] \in Task
  BY DEF Task
<1>3. t \in Seq(Task) /\ DOMAIN t = DOMAIN s
  <2>1. t \in [1 .. Len(s) -> Task]
    BY <1>1, <1>2
  <2> QED BY <2>1
<1>4. \A k \in DOMAIN s : /\ t[k].of = s[k].of /\ t[k].runs = s[k].runs
                          /\ t[k].wanted <=> s[k].wanted /\ s[k].of # c
  BY <1>1 DEF Task
<1>5. e \in Deadlines /\ \A x \in Callers : x # c => e[x] = d[x]
  BY Numbers DEF Deadlines, Free
<1>6. \A k \in DOMAIN s : s[k].of \in Callers /\ (t[k].wanted => s[k].wanted /\ e[s[k].of] = d[s[k].of])
  BY <1>1, <1>4, <1>5 DEF Task
<1>7. ASSUME NEW i \in DOMAIN s, NEW j \in DOMAIN s, i < j, t[i].wanted, ~t[j].wanted
      PROVE  /\ t[i].of # t[j].of /\ e[t[i].of] = 0
             /\ \A k \in DOMAIN s : i < k /\ k # j /\ t[k].of = t[j].of => t[k].wanted /\ e[t[j].of] = CALL_TIMEOUT
  <2>1. CASE s[j].wanted
    <3>1. s[j].of = c /\ s[i].wanted /\ s[i].of # c
      BY <1>4, <1>7, <2>1
    <3>2. d[s[i].of] <= 0 /\ d[s[i].of] >= 0
      BY <1>7, <2>1, <3>1 DEF CallsSound
    <3>3. d[s[i].of] = 0
      BY <1>6, <3>2 DEF Deadlines
    <3>4. ASSUME NEW k \in DOMAIN s, i < k, k # j, t[k].of = t[j].of PROVE FALSE
      <4>1. s[k].of = c
        BY <1>4, <3>1, <3>4
      <4>2. CASE s[k].wanted
        <5>1. j < k \/ k < j
          BY <3>4
        <5> QED BY <2>1, <3>1, <4>1, <4>2, <5>1 DEF CallsSound
      <4>3. CASE ~s[k].wanted
        <5>1. d[s[k].of] = CALL_TIMEOUT
          BY <1>7, <2>1, <3>1, <3>4, <4>1, <4>3 DEF CallsSound
        <5>2. CALL_TIMEOUT > 0
          BY Numbers
        <5> QED BY <4>1, <5>1, <5>2
      <4> QED BY <4>2, <4>3
    <3> QED BY <1>4, <1>6, <1>7, <3>1, <3>3, <3>4
  <2>2. CASE ~s[j].wanted
    <3>1. s[i].wanted /\ s[i].of # c /\ s[i].of # s[j].of /\ d[s[i].of] = 0
      BY <1>4, <1>7, <2>2 DEF CallsSound
    <3>2. ASSUME NEW k \in DOMAIN s, i < k, k # j, t[k].of = t[j].of
          PROVE  t[k].wanted /\ e[t[j].of] = CALL_TIMEOUT
      <4>1. s[k].wanted /\ d[s[j].of] = CALL_TIMEOUT /\ s[k].of = s[j].of
        BY <1>4, <1>7, <2>2, <3>1, <3>2 DEF CallsSound
      <4>2. s[j].of # c
        <5>1. CALL_TIMEOUT > 0
          BY Numbers
        <5> QED BY <4>1, <5>1
      <4> QED BY <1>4, <1>5, <1>6, <4>1, <4>2
    <3> QED BY <1>4, <1>6, <1>7, <3>1, <3>2
  <2> QED BY <2>1, <2>2
<1>8. \A i, j \in DOMAIN s : i < j =>
        /\ t[j].runs => t[i].runs
        /\ t[i].wanted /\ t[j].wanted => t[i].of # t[j].of /\ e[t[i].of] <= e[t[j].of]
  BY <1>4, <1>6 DEF CallsSound
<1>9. \A i \in DOMAIN s : t[i].wanted => e[t[i].of] >= 0
  BY <1>4, <1>6 DEF CallsSound
<1> QED BY ONLY <1>3, <1>5, <1>7, <1>8, <1>9 DEF CallsSound

(* A second passes, which it does not while a deadline is due: nothing then  *)
(* that somebody waits for is before what nobody waits for.                  *)
LEMMA SecondKeepsCalls ==
  ASSUME NEW s \in Seq(Task), NEW d \in Deadlines, CallsSound(s, d), \A c \in Callers : d[c] # 0,
         NEW e, e = LateNearer(d)
  PROVE  e \in Deadlines /\ CallsSound(s, e) /\ \A c \in Callers : e[c] = Free <=> d[c] = Free
<1>1. \A c \in Callers : /\ d[c] \in -1 .. CALL_TIMEOUT /\ d[c] # 0
                         /\ e[c] = IF d[c] > 0 THEN d[c] - 1 ELSE d[c]
  BY DEF LateNearer, Less, Deadlines
<1>2. e \in Deadlines
  <2>1. \A c \in Callers : e[c] \in -1 .. CALL_TIMEOUT
    BY <1>1, Numbers
  <2> QED BY <2>1 DEF LateNearer, Deadlines
<1>3. \A c \in Callers : e[c] = Free <=> d[c] = Free
  BY <1>1, Numbers DEF Free
<1>4. \A k \in DOMAIN s : s[k].of \in Callers
  <2>1. \A k \in DOMAIN s : s[k] \in Task
    OBVIOUS
  <2> QED BY <2>1 DEF Task
<1>5. \A k \in DOMAIN s : s[k].wanted => d[s[k].of] > 0 /\ d[s[k].of] \in Int /\ e[s[k].of] = d[s[k].of] - 1
  <2> SUFFICES ASSUME NEW k \in DOMAIN s, s[k].wanted
               PROVE  d[s[k].of] > 0 /\ d[s[k].of] \in Int /\ e[s[k].of] = d[s[k].of] - 1
    OBVIOUS
  <2>1. PICK c \in Callers : c = s[k].of
    BY <1>4
  <2>2. d[c] >= 0
    BY <2>1 DEF CallsSound
  <2>3. d[c] \in Int /\ d[c] > 0
    BY <1>1, <2>2, Numbers
  <2> QED BY <1>1, <2>1, <2>3
<1>6. \A i, j \in DOMAIN s : ~(i < j /\ s[i].wanted /\ ~s[j].wanted)
  BY <1>5 DEF CallsSound
<1>7. \A i \in DOMAIN s : s[i].wanted => e[s[i].of] >= 0
  <2> SUFFICES ASSUME NEW i \in DOMAIN s, s[i].wanted PROVE e[s[i].of] >= 0
    OBVIOUS
  <2>1. PICK x \in Int : x = d[s[i].of] /\ x > 0 /\ e[s[i].of] = x - 1
    BY <1>5
  <2> QED BY ONLY <2>1
<1>8. \A i, j \in DOMAIN s : i < j =>
        /\ s[j].runs => s[i].runs
        /\ s[i].wanted /\ s[j].wanted => s[i].of # s[j].of /\ e[s[i].of] <= e[s[j].of]
  <2> SUFFICES ASSUME NEW i \in DOMAIN s, NEW j \in DOMAIN s, i < j
               PROVE  /\ s[j].runs => s[i].runs
                      /\ s[i].wanted /\ s[j].wanted => s[i].of # s[j].of /\ e[s[i].of] <= e[s[j].of]
    OBVIOUS
  <2>1. /\ s[j].runs => s[i].runs
        /\ s[i].wanted /\ s[j].wanted => s[i].of # s[j].of /\ d[s[i].of] <= d[s[j].of]
    BY DEF CallsSound
  <2>2. ASSUME s[i].wanted, s[j].wanted PROVE e[s[i].of] <= e[s[j].of]
    <3>1. PICK x \in Int : x = d[s[i].of] /\ e[s[i].of] = x - 1
      BY <1>5, <2>2
    <3>2. PICK y \in Int : y = d[s[j].of] /\ e[s[j].of] = y - 1
      BY <1>5, <2>2
    <3>3. x <= y
      BY <2>1, <2>2, <3>1, <3>2
    <3> QED BY ONLY <3>1, <3>2, <3>3
  <2> QED BY <2>1, <2>2
<1>9. CallsSound(s, e)
  BY ONLY <1>6, <1>7, <1>8 DEF CallsSound
<1> QED BY ONLY <1>2, <1>3, <1>9

(* Where less is given up, the pile stays sound.                             *)
LEMMA LessIsSound ==
  ASSUME NEW s \in Seq(Task), NEW t \in Seq(Task), NEW d, NEW a, NEW f \in Nat, NEW o, NEW r,
         PileSound(s, d, a, f, o, r),
         Cardinality(GivenUpOf(t)) <= Cardinality(GivenUpOf(s)), GivenUpOf(s) = {} => GivenUpOf(t) = {}
  PROVE  PileSound(t, d, a, f, o, r)
<1>1. PICK g \in Nat, h \in Nat, n \in Nat :
        g = Cardinality(GivenUpOf(s)) /\ h = Cardinality(GivenUpOf(t)) /\ n = Cardinality(Callers)
  BY PartsAre, Numbers
<1>2. GivenUpOf(t) = {} \/ h < n + f
  <2>1. GivenUpOf(s) = {} \/ g < n + f
    BY <1>1 DEF PileSound
  <2>2. h <= g
    BY <1>1
  <2> QED BY ONLY <2>1, <2>2, GivenUpOf(s) = {} => GivenUpOf(t) = {}, f \in Nat, g \in Nat, h \in Nat, n \in Nat
<1> QED BY <1>1, <1>2 DEF PileSound

(* A failure: a call that was out comes back, and one more is given up at    *)
(* most.                                                                     *)
LEMMA FailureIsSound ==
  ASSUME NEW s \in Seq(Task), NEW t \in Seq(Task), NEW d, NEW e, NEW a, NEW f \in Nat, NEW o \in 0 .. BREAKER_COOLDOWN,
         NEW r \in Nat, PileSound(s, d, a, f, o, r),
         Cardinality(GivenUpOf(t)) <= Cardinality(GivenUpOf(s)) + 1,
         Cardinality(OutOf(d, a)) = Cardinality(OutOf(e, a)) + 1,
         NEW f2, f2 = f + 1, NEW o2, o2 = Opened(f2, o)
  PROVE  f2 \in Nat /\ o2 \in 0 .. BREAKER_COOLDOWN /\ PileSound(t, e, a, f2, o2, r)
<1>1. PICK g \in Nat, h \in Nat, n \in Nat, u \in Nat, v \in Nat :
        /\ g = Cardinality(GivenUpOf(s)) /\ h = Cardinality(GivenUpOf(t)) /\ n = Cardinality(Callers)
        /\ u = Cardinality(OutOf(d, a)) /\ v = Cardinality(OutOf(e, a))
  BY PartsAre, OutAre, Numbers
<1>2. PICK m \in Nat, l \in Nat, k \in Nat : /\ m = Room(r) /\ l = Room(r + 1) /\ k = BREAKER_COOLDOWN
                                          /\ l = m + n /\ m >= BREAKER_THRESHOLD /\ k > 0
  <2>1. /\ Room(r) \in Nat /\ Room(r) >= BREAKER_THRESHOLD /\ Room(r + 1) = Room(r) + n
    BY <1>1, Rooms
  <2>2. Room(r + 1) \in Nat
    BY ONLY <2>1, n \in Nat
  <2> QED BY ONLY <2>1, <2>2, Numbers
<1>3. n > 0 /\ u <= n /\ u = v + 1 /\ h <= g + 1
  BY <1>1, OutAre, Numbers
<1>4. h < n + f2
  <2>1. g = 0 \/ g < n + f
    <3>1. GivenUpOf(s) = {} => g = 0
      BY <1>1, FS_EmptySet
    <3> QED BY <1>1, <3>1 DEF PileSound
  <2> QED BY ONLY <1>3, <2>1, f2 = f + 1, f \in Nat, g \in Nat, h \in Nat, n \in Nat
<1>5. (o = 0 => f < m) /\ (o > 0 => f + u < l)
  BY <1>1, <1>2 DEF PileSound
<1>6. (o2 = k /\ f2 >= BREAKER_THRESHOLD) \/ (o2 = o /\ f2 < BREAKER_THRESHOLD)
  BY <1>2, Numbers DEF Opened
<1>7. o \in 0 .. k
  BY <1>2
<1>8. f2 \in Nat /\ o2 \in 0 .. k /\ (o2 = 0 => f2 < m) /\ (o2 > 0 => f2 + v < l)
  <2>1. PICK b \in Nat : b = BREAKER_THRESHOLD
    BY Numbers
  <2>2. f2 + v < l
    <3>1. CASE o = 0
      BY ONLY <1>2, <1>3, <1>5, <3>1, f2 = f + 1, f \in Nat, n \in Nat, u \in Nat, v \in Nat, m \in Nat, l \in Nat
    <3>2. CASE o > 0
      BY ONLY <1>3, <1>5, <3>2, f2 = f + 1, f \in Nat, u \in Nat, v \in Nat, l \in Nat
    <3> QED BY ONLY <1>7, <3>1, <3>2, k \in Nat
  <2>3. f2 \in Nat /\ o2 \in 0 .. k /\ (o2 = 0 => f2 < m)
    BY ONLY <1>2, <1>6, <1>7, <2>1, f2 = f + 1, f \in Nat, k \in Nat, m \in Nat, b \in Nat
  <2> QED BY <2>2, <2>3
<1> QED BY <1>1, <1>2, <1>4, <1>8 DEF PileSound

(* Behind work that runs and is waited for, of every other caller one thing  *)
(* at most was given up.                                                     *)
LEMMA FewAreGivenUp ==
  ASSUME NEW s \in Seq(Task), NEW d \in Deadlines, CallsSound(s, d), NEW i \in BusyOf(s), s[i].wanted
  PROVE  Cardinality(GivenUpOf(s)) < Cardinality(Callers)
<1> DEFINE g == [k \in GivenUpOf(s) |-> s[k].of]
           O == Callers \ {s[i].of}
<1>1. \A k \in DOMAIN s : s[k] \in Task /\ s[k].of \in Callers
  <2>1. \A k \in DOMAIN s : s[k] \in Task
    OBVIOUS
  <2> QED BY <2>1 DEF Task
<1>2. i \in DOMAIN s /\ s[i].runs
  BY DEF BusyOf
<1>3. \A k \in GivenUpOf(s) : k \in DOMAIN s /\ i < k /\ ~s[k].runs /\ ~s[k].wanted
  <2> SUFFICES ASSUME NEW k \in GivenUpOf(s) PROVE k \in DOMAIN s /\ i < k /\ ~s[k].runs /\ ~s[k].wanted
    OBVIOUS
  <2>1. k \in DOMAIN s /\ ~s[k].runs /\ ~s[k].wanted
    BY DEF GivenUpOf
  <2>2. k < i \/ k = i \/ i < k
    BY <1>2, <2>1
  <2> QED BY <1>2, <2>1, <2>2 DEF CallsSound
<1>4. g \in [GivenUpOf(s) -> O]
  <2> SUFFICES ASSUME NEW k \in GivenUpOf(s) PROVE s[k].of \in O
    OBVIOUS
  <2>1. s[i].of # s[k].of
    BY <1>2, <1>3 DEF CallsSound
  <2> QED BY <1>1, <1>3, <2>1
<1>5. \A x, y \in GivenUpOf(s) : g[x] = g[y] => x = y
  <2> SUFFICES ASSUME NEW x \in GivenUpOf(s), NEW y \in GivenUpOf(s), s[x].of = s[y].of, x # y PROVE FALSE
    OBVIOUS
  <2>1. s[y].wanted
    BY <1>2, <1>3 DEF CallsSound
  <2> QED BY <1>3, <2>1
<1>6. IsFiniteSet(O) /\ Cardinality(O) = Cardinality(Callers) - 1
  <2>1. s[i].of \in Callers
    BY <1>1, <1>2
  <2> QED BY <2>1, FeedAssumption, FS_RemoveElement
<1>7. Cardinality(GivenUpOf(s)) <= Cardinality(O)
  <2> HIDE DEF g, O
  <2> QED BY <1>4, <1>5, <1>6, Fits
<1>8. Cardinality(GivenUpOf(s)) \in Nat /\ Cardinality(Callers) \in Nat
  BY PartsAre, Numbers
<1> QED BY ONLY <1>6, <1>7, <1>8

(* A caller gives up what it waited for, one thing at most.                  *)
LEMMA GivenUpByOne ==
  ASSUME NEW s \in Seq(Task), NEW d, CallsSound(s, d), NEW c, NEW t \in Seq(Task), t = Abandoned(s, c)
  PROVE  Cardinality(GivenUpOf(t)) <= Cardinality(GivenUpOf(s)) + 1
<1>1. \A k \in DOMAIN s : s[k] \in Task
  OBVIOUS
<1>2. DOMAIN t = DOMAIN s
  BY DEF Abandoned
<1>3. \A k \in DOMAIN s : /\ t[k].runs = s[k].runs
                          /\ t[k].wanted <=> s[k].wanted /\ s[k].of # c
  BY <1>1 DEF Task, Abandoned
<1>4. IsFiniteSet(GivenUpOf(s)) /\ Cardinality(GivenUpOf(s)) \in Nat
  BY PartsAre
<1> DEFINE N == {k \in DOMAIN s : s[k].of = c /\ s[k].wanted}
<1>5. \A x, y \in N : x = y
  <2> SUFFICES ASSUME NEW x \in N, NEW y \in N, x # y PROVE FALSE
    OBVIOUS
  <2>1. x < y \/ y < x
    OBVIOUS
  <2> QED BY <2>1 DEF CallsSound
<1>6. GivenUpOf(t) \subseteq GivenUpOf(s) \cup N
  BY <1>2, <1>3 DEF GivenUpOf
<1> HIDE DEF N
<1>7. CASE N = {}
  <2>1. GivenUpOf(t) \in SUBSET GivenUpOf(s)
    BY <1>6, <1>7
  <2>2. Cardinality(GivenUpOf(t)) <= Cardinality(GivenUpOf(s)) /\ IsFiniteSet(GivenUpOf(t))
    BY <1>4, <2>1, FS_Subset
  <2>3. Cardinality(GivenUpOf(t)) \in Nat
    BY <2>2, FS_CardinalityType
  <2> QED BY ONLY <1>4, <2>2, <2>3
<1>8. CASE N # {}
  <2>1. PICK n : n \in N
    BY <1>8
  <2>2. GivenUpOf(t) \in SUBSET (GivenUpOf(s) \cup {n})
    BY <1>5, <1>6, <2>1
  <2>3. /\ IsFiniteSet(GivenUpOf(s) \cup {n})
        /\ Cardinality(GivenUpOf(s) \cup {n})
             = IF n \in GivenUpOf(s) THEN Cardinality(GivenUpOf(s)) ELSE Cardinality(GivenUpOf(s)) + 1
    BY <1>4, FS_AddElement
  <2>4. Cardinality(GivenUpOf(t)) <= Cardinality(GivenUpOf(s) \cup {n}) /\ IsFiniteSet(GivenUpOf(t))
    BY <2>2, <2>3, FS_Subset
  <2>5. Cardinality(GivenUpOf(t)) \in Nat
    BY <2>4, FS_CardinalityType
  <2> QED BY ONLY <1>4, <2>3, <2>4, <2>5
<1> QED BY <1>7, <1>8

(* A second passes: nobody's call comes back by that.  A cooldown that runs  *)
(* out begins a round, and the failures are within it.                       *)
LEMMA SecondKeepsPile ==
  ASSUME NEW s \in Seq(Task), NEW d, NEW e, NEW a, \A c \in Callers : e[c] = Free <=> d[c] = Free,
         NEW f \in Nat, NEW o \in 0 .. BREAKER_COOLDOWN, NEW r \in Nat, PileSound(s, d, a, f, o, r),
         NEW r2, r2 = IF o = 1 THEN r + 1 ELSE r
  PROVE  PileSound(s, e, a, f, Less(o), r2)
<1>1. OutOf(e, a) = OutOf(d, a)
  BY DEF OutOf
<1>2. PICK u \in Nat : u = Cardinality(OutOf(d, a))
  BY OutAre
<1>3. PICK l \in Nat : l = Room(r + 1)
  BY Rooms
<1>4. o \in Nat
  BY Numbers
<1>5. CASE o = 0
  BY <1>1, <1>5 DEF Less, PileSound
<1>6. CASE o = 1
  <2>1. f + u < l
    BY <1>2, <1>3, <1>6 DEF PileSound
  <2>2. f < l
    BY ONLY <2>1, f \in Nat, u \in Nat, l \in Nat
  <2>3. Less(o) = 0 /\ r2 = r + 1
    BY <1>6 DEF Less
  <2> QED BY <1>3, <2>2, <2>3 DEF PileSound
<1>7. CASE o > 1
  <2>1. Less(o) = o - 1 /\ r2 = r /\ o - 1 > 0
    BY <1>4, <1>7 DEF Less
  <2>2. f + Cardinality(OutOf(e, a)) < Room(r + 1)
    BY <1>1, <1>4, <1>7 DEF PileSound
  <2>3. GivenUpOf(s) = {} \/ Cardinality(GivenUpOf(s)) < Cardinality(Callers) + f
    BY DEF PileSound
  <2> QED BY ONLY <1>4, <2>1, <2>2, <2>3 DEF PileSound
<1> QED BY ONLY <1>4, <1>5, <1>6, <1>7

(* The invariant holds, step by step: a caller is let through;               *)
LEMMA FeedLetThroughStep ==
  ASSUME FeedInv, NEW c \in Callers, LetThrough(c)
  PROVE  FeedInv'
<1>1. openFor = 0 /\ deadline[c] = Free /\ asking' = asking \cup {c}
  BY DEF LetThrough, Available, Waiting
<1>2. UNCHANGED <<failures, openFor, deadline, work, rounds>>
  BY DEF LetThrough
<1>3. PileSound(work, deadline, asking, failures, openFor, rounds)'
  BY <1>1, <1>2 DEF FeedInv, PileSound
<1> QED BY <1>1, <1>2, <1>3 DEF FeedInv

(* it submits: nothing of what is there is touched, and its call stays out;  *)
LEMMA FeedSubmitStep ==
  ASSUME FeedInv, NEW c \in Callers, Submits(c)
  PROVE  FeedInv'
<1>1. PICK s, d, a, f, o, r : s = work /\ d = deadline /\ a = asking /\ f = failures /\ o = openFor /\ r = rounds
  OBVIOUS
<1>2. /\ s \in Seq(Task) /\ d \in Deadlines /\ a \subseteq Callers /\ CallsSound(s, d) /\ PileSound(s, d, a, f, o, r)
      /\ c \in a /\ d[c] = Free /\ \A x \in a : d[x] = Free
  BY <1>1 DEF FeedInv, Submits
<1>3. PICK t, e : t = AskedOf(s, c) /\ e = [d EXCEPT ![c] = CALL_TIMEOUT]
  OBVIOUS
<1>4. t \in Seq(Task) /\ e \in Deadlines /\ CallsSound(t, e)
  BY ONLY <1>2, <1>3, c \in Callers, CallKeepsCalls
<1>5. work' = t /\ deadline' = e /\ asking' = a \ {c} /\ failures' = f /\ openFor' = o /\ rounds' = r
  BY <1>1, <1>3 DEF Submits, AskedOf
<1>6. \A x \in Callers : e[x] = IF x = c THEN CALL_TIMEOUT ELSE d[x]
  BY <1>2, <1>3 DEF Deadlines
<1>7. OutOf(e, a \ {c}) = OutOf(d, a)
  <2>1. CALL_TIMEOUT # Free
    BY Numbers DEF Free
  <2> QED BY <1>2, <1>6, <2>1 DEF OutOf
<1>8. GivenUpOf(t) = GivenUpOf(s)
  <2>1. PICK n \in Nat : n = Len(s) /\ DOMAIN s = 1 .. n
    BY <1>2
  <2>2. /\ DOMAIN t = 1 .. n + 1 /\ \A k \in 1 .. n : t[k] = s[k]
        /\ t[n + 1] = [of |-> c, wanted |-> TRUE, runs |-> FALSE]
    BY <1>2, <1>3, <2>1 DEF AskedOf
  <2>3. \A k \in 1 .. n + 1 : k \in 1 .. n \/ k = n + 1
    OBVIOUS
  <2>4. 1 .. n \subseteq 1 .. n + 1
    OBVIOUS
  <2> QED BY <2>1, <2>2, <2>3, <2>4 DEF GivenUpOf
<1>9. PileSound(t, e, a \ {c}, f, o, r)
  BY <1>2, <1>7, <1>8 DEF PileSound
<1>10. \A x \in a \ {c} : e[x] = Free
  BY <1>2, <1>6
<1>11. PileSound(work, deadline, asking, failures, openFor, rounds)' /\ CallsSound(work, deadline)'
  BY <1>4, <1>5, <1>9
<1> QED BY <1>1, <1>2, <1>4, <1>5, <1>10, <1>11 DEF FeedInv

(* work starts;                                                              *)
LEMMA FeedStartStep ==
  ASSUME FeedInv, NEW i \in DOMAIN work, StartsWork(i)
  PROVE  FeedInv'
<1>1. PICK s, d, a, f, o, r : s = work /\ d = deadline /\ a = asking /\ f = failures /\ o = openFor /\ r = rounds
  OBVIOUS
<1>2. s \in Seq(Task) /\ d \in Deadlines /\ CallsSound(s, d) /\ PileSound(s, d, a, f, o, r) /\ f \in Nat
  BY <1>1 DEF FeedInv
<1>3. PICK k \in DOMAIN s : k = i
  BY <1>1
<1>4. ~s[k].runs /\ \A j \in 1 .. k - 1 : s[j].runs
  BY <1>1, <1>3 DEF StartsWork
<1>5. PICK t : t = [s EXCEPT ![k].runs = TRUE]
  OBVIOUS
<1>6. t \in Seq(Task) /\ CallsSound(t, d)
  BY ONLY <1>2, <1>3, <1>4, <1>5, StartKeepsCalls
<1>7. GivenUpOf(t) \in SUBSET GivenUpOf(s)
  <2>1. \A j \in DOMAIN s : s[j] \in Task
    BY <1>2
  <2>2. DOMAIN t = DOMAIN s /\ \A j \in DOMAIN s : /\ t[j].wanted = s[j].wanted
                                                   /\ t[j].runs <=> j = k \/ s[j].runs
    BY <1>5, <2>1 DEF Task
  <2> QED BY <2>2 DEF GivenUpOf
<1>8. Cardinality(GivenUpOf(t)) <= Cardinality(GivenUpOf(s)) /\ (GivenUpOf(s) = {} => GivenUpOf(t) = {})
  <2>1. IsFiniteSet(GivenUpOf(s))
    BY <1>2, PartsAre
  <2> QED BY <1>7, <2>1, FS_Subset
<1>9. PileSound(t, d, a, f, o, r)
  BY ONLY <1>2, <1>6, <1>8, LessIsSound
<1>10. work' = t /\ UNCHANGED <<failures, openFor, asking, deadline, rounds>>
  BY <1>1, <1>3, <1>5 DEF StartsWork
<1>11. PileSound(work, deadline, asking, failures, openFor, rounds)' /\ CallsSound(work, deadline)'
  BY <1>1, <1>6, <1>9, <1>10
<1> QED BY <1>6, <1>10, <1>11 DEF FeedInv

(* it ends, heard of or not;                                                 *)
LEMMA FeedEndStep ==
  ASSUME FeedInv, NEW i \in DOMAIN work, NEW how, Ends(i, how)
  PROVE  FeedInv'
<1>1. PICK s, d, a, f, o, r : s = work /\ d = deadline /\ a = asking /\ f = failures /\ o = openFor /\ r = rounds
  OBVIOUS
<1>2. /\ s \in Seq(Task) /\ d \in Deadlines /\ a \subseteq Callers /\ f \in Nat /\ o \in 0 .. BREAKER_COOLDOWN /\ r \in Nat
      /\ CallsSound(s, d) /\ PileSound(s, d, a, f, o, r) /\ \A x \in a : d[x] = Free
  BY <1>1 DEF FeedInv
<1>3. PICK k \in DOMAIN s : k = i /\ k \in BusyOf(s)
  BY <1>1 DEF Ends, Busy, BusyOf
<1>4. PICK t : t = RemoveAt(s, k)
  OBVIOUS
<1>5. PICK old : Remains(t, s, k, old)
  BY ONLY <1>2, <1>3, <1>4, RemainsSo
<1>6. t \in Seq(Task)
  BY <1>5 DEF Remains
<1>7. PICK e : e = IF s[k].wanted THEN [d EXCEPT ![s[k].of] = Free] ELSE d
  OBVIOUS
<1>8. e \in Deadlines /\ CallsSound(t, e)
  BY ONLY <1>2, <1>3, <1>5, <1>7, EndKeepsCalls
<1>9. Cardinality(GivenUpOf(t)) <= Cardinality(GivenUpOf(s)) /\ (GivenUpOf(s) = {} => GivenUpOf(t) = {})
  BY ONLY <1>2, <1>3, <1>5, RemainsLess
<1>10. work' = t /\ deadline' = e /\ asking' = a
  BY <1>1, <1>3, <1>4, <1>7 DEF Ends
<1>11. Cardinality(GivenUpOf(t)) \in Nat /\ Cardinality(GivenUpOf(s)) \in Nat
  BY <1>2, <1>6, PartsAre
<1>12. s[k].of \in Callers /\ (s[k].wanted => d[s[k].of] >= 0)
  <2>1. s[k] \in Task
    BY <1>2, <1>3
  <2> QED BY <1>2, <1>3, <2>1 DEF Task, CallsSound
<1>13. \A x \in a : e[x] = Free
  BY <1>2, <1>7, <1>12 DEF Deadlines
<1>14. /\ failures' \in Nat /\ openFor' \in 0 .. BREAKER_COOLDOWN /\ rounds' \in Nat
       /\ PileSound(t, e, a, failures', openFor', rounds')
  <2>1. CASE ~s[k].wanted
    <3>1. PileSound(t, d, a, f, o, r)
      BY ONLY <1>2, <1>6, <1>9, LessIsSound
    <3>2. failures' = f /\ openFor' = o /\ rounds' = r /\ e = d
      BY <1>1, <1>3, <1>7, <2>1 DEF Ends
    <3> QED BY <1>2, <3>1, <3>2
  <2>2. CASE s[k].wanted /\ how # "error"
    <3>1. failures' = 0 /\ openFor' = 0 /\ rounds' = 0
      BY <1>1, <1>3, <2>2 DEF Ends, Record
    <3>2. Cardinality(GivenUpOf(s)) < Cardinality(Callers)
      BY ONLY <1>2, <1>3, <2>2, FewAreGivenUp
    <3>3. Cardinality(GivenUpOf(t)) < Cardinality(Callers) + 0
      BY ONLY <1>9, <1>11, <3>2, Numbers
    <3>4. 0 < Room(0)
      BY Rooms, Numbers
    <3>5. PileSound(t, e, a, 0, 0, 0)
      BY ONLY <3>3, <3>4 DEF PileSound
    <3> QED BY <3>1, <3>5, Numbers
  <2>3. CASE s[k].wanted /\ how = "error"
    <3>1. PICK f2, o2 : f2 = f + 1 /\ o2 = Opened(f2, o)
      OBVIOUS
    <3>2. failures' = f2 /\ openFor' = o2 /\ rounds' = r
      BY <1>1, <1>3, <2>3, <3>1 DEF Ends, Record, Opened
    <3>3. PICK c \in Callers : c = s[k].of
      BY <1>12
    <3>4. d[c] # Free /\ c \notin a /\ e = [d EXCEPT ![c] = Free]
      BY <1>2, <1>7, <1>12, <2>3, <3>3 DEF Free
    <3>5. Cardinality(OutOf(d, a)) = Cardinality(OutOf(e, a)) + 1
      BY ONLY <1>2, <3>3, <3>4, OutLess
    <3>6. Cardinality(GivenUpOf(t)) <= Cardinality(GivenUpOf(s)) + 1
      BY ONLY <1>9, <1>11
    <3>7. f2 \in Nat /\ o2 \in 0 .. BREAKER_COOLDOWN /\ PileSound(t, e, a, f2, o2, r)
      BY ONLY <1>2, <1>6, <3>1, <3>5, <3>6, FailureIsSound
    <3> QED BY <1>2, <3>2, <3>7
  <2> QED BY <2>1, <2>2, <2>3
<1>15. PileSound(work, deadline, asking, failures, openFor, rounds)' /\ CallsSound(work, deadline)'
  BY <1>8, <1>10, <1>14
<1> QED BY <1>2, <1>6, <1>8, <1>10, <1>13, <1>14, <1>15 DEF FeedInv

(* a caller gives up;                                                        *)
LEMMA FeedGivingUpStep ==
  ASSUME FeedInv, NEW c \in Callers, TimesOut(c)
  PROVE  FeedInv'
<1>1. PICK s, d, a, f, o, r : s = work /\ d = deadline /\ a = asking /\ f = failures /\ o = openFor /\ r = rounds
  OBVIOUS
<1>2. /\ s \in Seq(Task) /\ d \in Deadlines /\ a \subseteq Callers /\ f \in Nat /\ o \in 0 .. BREAKER_COOLDOWN /\ r \in Nat
      /\ CallsSound(s, d) /\ PileSound(s, d, a, f, o, r) /\ (\A x \in a : d[x] = Free) /\ d[c] = 0
  BY <1>1 DEF FeedInv, TimesOut
<1>3. PICK t, e : /\ t = Abandoned(s, c)
                  /\ e = [d EXCEPT ![c] = Free]
  OBVIOUS
<1>4. t \in Seq(Task) /\ e \in Deadlines /\ CallsSound(t, e)
  BY ONLY <1>2, <1>3, c \in Callers, GivingUpKeepsCalls
<1>5. PICK f2, o2 : f2 = f + 1 /\ o2 = Opened(f2, o)
  OBVIOUS
<1>6. Cardinality(GivenUpOf(t)) <= Cardinality(GivenUpOf(s)) + 1
  BY ONLY <1>2, <1>3, <1>4, GivenUpByOne
<1>7. d[c] # Free /\ c \notin a
  BY <1>2 DEF Free
<1>8. Cardinality(OutOf(d, a)) = Cardinality(OutOf(e, a)) + 1
  BY ONLY <1>2, <1>3, <1>7, c \in Callers, OutLess
<1>9. f2 \in Nat /\ o2 \in 0 .. BREAKER_COOLDOWN /\ PileSound(t, e, a, f2, o2, r)
  BY ONLY <1>2, <1>4, <1>5, <1>6, <1>8, FailureIsSound
<1>10. work' = t /\ deadline' = e /\ failures' = f2 /\ openFor' = o2 /\ asking' = a /\ rounds' = r
  BY <1>1, <1>3, <1>5 DEF TimesOut, Record, Abandoned, Opened
<1>11. \A x \in a : e[x] = Free
  BY <1>2, <1>3 DEF Deadlines
<1>12. PileSound(work, deadline, asking, failures, openFor, rounds)' /\ CallsSound(work, deadline)'
  BY <1>4, <1>9, <1>10
<1> QED BY <1>2, <1>4, <1>9, <1>10, <1>11, <1>12 DEF FeedInv

(* a second passes.                                                          *)
LEMMA FeedSecondStep ==
  ASSUME FeedInv, SecondPasses
  PROVE  FeedInv'
<1>1. PICK s, d, a, f, o, r : s = work /\ d = deadline /\ a = asking /\ f = failures /\ o = openFor /\ r = rounds
  OBVIOUS
<1>2. /\ s \in Seq(Task) /\ d \in Deadlines /\ a \subseteq Callers /\ f \in Nat /\ o \in 0 .. BREAKER_COOLDOWN /\ r \in Nat
      /\ CallsSound(s, d) /\ PileSound(s, d, a, f, o, r) /\ (\A x \in a : d[x] = Free) /\ \A c \in Callers : d[c] # 0
  BY <1>1 DEF FeedInv, SecondPasses
<1>3. PICK e, r2 : e = LateNearer(d) /\ r2 = IF o = 1 THEN r + 1 ELSE r
  OBVIOUS
<1>4. e \in Deadlines /\ CallsSound(s, e) /\ \A c \in Callers : e[c] = Free <=> d[c] = Free
  BY ONLY <1>2, <1>3, SecondKeepsCalls
<1>5. PileSound(s, e, a, f, Less(o), r2)
  BY ONLY <1>2, <1>3, <1>4, SecondKeepsPile
<1>6. work' = s /\ deadline' = e /\ asking' = a /\ failures' = f /\ openFor' = Less(o) /\ rounds' = r2
  BY <1>1, <1>3 DEF SecondPasses, LateNearer
<1>7. Less(o) \in 0 .. BREAKER_COOLDOWN /\ r2 \in Nat
  BY <1>2, <1>3, Numbers DEF Less
<1>8. \A x \in a : e[x] = Free
  BY <1>2, <1>4
<1>9. PileSound(work, deadline, asking, failures, openFor, rounds)' /\ CallsSound(work, deadline)'
  BY <1>4, <1>5, <1>6
<1> QED BY <1>2, <1>4, <1>6, <1>7, <1>8, <1>9 DEF FeedInv

(* At first nothing is behind the pool.                                      *)
LEMMA FeedStarts == FeedInit => FeedInv
<1> SUFFICES ASSUME FeedInit PROVE FeedInv
  OBVIOUS
<1>1. /\ work = <<>> /\ failures = 0 /\ openFor = 0 /\ asking = {} /\ rounds = 0
      /\ deadline \in Deadlines /\ work \in Seq(Task)
  BY Numbers DEF FeedInit, Deadlines, Free
<1>2. DOMAIN work = {}
  BY <1>1
<1>3. GivenUpOf(work) = {} /\ CallsSound(work, deadline)
  BY <1>2 DEF GivenUpOf, CallsSound
<1>4. 0 < Room(0)
  BY Rooms, Numbers
<1>5. PileSound(work, deadline, asking, failures, openFor, rounds)
  BY <1>1, <1>3, <1>4 DEF PileSound
<1> QED BY <1>1, <1>3, <1>5, Numbers DEF FeedInv

(* What is behind the pool of a keyless source grows by one call of every    *)
(* caller at most for each cooldown that runs out before the source answers  *)
(* again, however many the callers, the workers and the failures are, and    *)
(* though nothing ever ends what hangs.                                      *)
THEOREM BacklogStaysBounded == FeedInit /\ [][FeedNext]_feedVars => []BacklogIsBounded
<1>1. FeedInit => FeedInv
  BY FeedStarts
<1>2. FeedInv /\ [FeedNext]_feedVars => FeedInv'
  <2> SUFFICES ASSUME FeedInv, [FeedNext]_feedVars PROVE FeedInv'
    OBVIOUS
  <2>1. ASSUME NEW c \in Callers, LetThrough(c) PROVE FeedInv'
    BY <2>1, FeedLetThroughStep
  <2>2. ASSUME NEW c \in Callers, Submits(c) PROVE FeedInv'
    BY <2>2, FeedSubmitStep
  <2>3. ASSUME NEW c \in Callers, TimesOut(c) PROVE FeedInv'
    BY <2>3, FeedGivingUpStep
  <2>4. ASSUME NEW i \in DOMAIN work, StartsWork(i) PROVE FeedInv'
    BY <2>4, FeedStartStep
  <2>5. ASSUME NEW i \in DOMAIN work, NEW how \in {"rows", "no results", "error"}, Ends(i, how) PROVE FeedInv'
    BY <2>5, FeedEndStep
  <2>6. ASSUME SecondPasses PROVE FeedInv'
    BY <2>6, FeedSecondStep
  <2>7. ASSUME UNCHANGED feedVars PROVE FeedInv'
    BY <2>7 DEF feedVars, FeedInv
  <2> QED BY <2>1, <2>2, <2>3, <2>4, <2>5, <2>6, <2>7 DEF FeedNext
<1>3. FeedInv => BacklogIsBounded
  <2> SUFFICES ASSUME FeedInv PROVE BacklogIsBounded
    OBVIOUS
  <2>1. PICK s, d, a, f, o, r : s = work /\ d = deadline /\ a = asking /\ f = failures /\ o = openFor /\ r = rounds
    OBVIOUS
  <2>2. /\ s \in Seq(Task) /\ d \in Deadlines /\ f \in Nat /\ o \in 0 .. BREAKER_COOLDOWN /\ r \in Nat
        /\ CallsSound(s, d) /\ PileSound(s, d, a, f, o, r)
    BY <2>1 DEF FeedInv
  <2>3. PICK q \in Nat, g \in Nat, b \in Nat, u \in Nat :
          /\ q = Cardinality(QueueOf(s)) /\ g = Cardinality(GivenUpOf(s)) /\ b = Cardinality(BusyOf(s))
          /\ u = Cardinality(OutOf(d, a)) /\ Len(s) = q + b
    BY <2>2, PartsAre, OutAre
  <2>4. PICK n \in Nat, h \in Nat, m \in Nat, l \in Nat :
          /\ n = Cardinality(Callers) /\ h = BREAKER_THRESHOLD /\ m = Room(r) /\ l = Room(r + 1)
          /\ n > 0 /\ h > 0 /\ m >= h /\ l = m + n
    <3>1. Room(r) \in Nat /\ Room(r) >= BREAKER_THRESHOLD /\ Room(r + 1) = Room(r) + Cardinality(Callers)
      BY <2>2, Rooms
    <3>2. Room(r + 1) \in Nat
      BY ONLY <3>1, Numbers
    <3> QED BY ONLY <3>1, <3>2, Numbers
  <2>5. q <= g + u /\ u <= n
    <3>1. Cardinality(QueueOf(s)) <= Cardinality(GivenUpOf(s)) + Cardinality(OutOf(d, a))
      BY ONLY <2>2, QueueIsBounded
    <3> QED BY <2>3, <2>4, <3>1, OutAre
  <2>6. /\ g = 0 \/ g < n + f
        /\ o = 0 => f < m
        /\ o > 0 => f + u < l
    <3>1. GivenUpOf(s) = {} => g = 0
      BY <2>3, FS_EmptySet
    <3> QED BY <2>2, <2>3, <2>4, <3>1 DEF PileSound
  <2>7. o = 0 \/ o > 0
    BY <2>2, Numbers
  <2>8. q <= m + 2 * n - 2
    <3>0. l = m + n /\ u <= n /\ q <= g + u /\ f \in Nat
      BY ONLY <2>2, <2>4, <2>5
    <3>1. f + u <= m + n - 1
      <4>1. f < m \/ f + u < l
        BY ONLY <2>6, <2>7
      <4>2. CASE f < m
        BY ONLY <3>0, <4>2, u \in Nat, n \in Nat, m \in Nat
      <4>3. CASE f + u < l
        BY ONLY <3>0, <4>3, u \in Nat, n \in Nat, m \in Nat, l \in Nat
      <4> QED BY <4>1, <4>2, <4>3
    <3>2. CASE g = 0
      BY ONLY <2>4, <2>5, <3>2, q \in Nat, g \in Nat, u \in Nat, n \in Nat, h \in Nat, m \in Nat
    <3>3. CASE g < n + f
      BY ONLY <3>0, <3>1, <3>3, q \in Nat, g \in Nat, u \in Nat, n \in Nat, m \in Nat
    <3> QED BY <2>6, <3>2, <3>3
  <2>9. (r + 2) * n + h - 2 = m + 2 * n - 2
    <3>1. (r + 2) * n = r * n + 2 * n /\ r * n \in Nat
      BY ONLY <2>2, n \in Nat, SMTT(30)
    <3>2. m = h + r * n
      BY <2>4 DEF Room
    <3> QED BY ONLY <3>1, <3>2, n \in Nat, h \in Nat, m \in Nat
  <2>10. Busy = BusyOf(s)
    BY <2>1 DEF Busy, BusyOf
  <2>11. Len(s) - b = q
    BY ONLY <2>3, q \in Nat, b \in Nat
  <2>12. Len(s) - b <= (r + 2) * n + h - 2
    BY ONLY <2>8, <2>9, <2>11
  <2> QED BY ONLY <2>1, <2>3, <2>4, <2>10, <2>12 DEF BacklogIsBounded
<1> QED BY <1>1, <1>2, <1>3, PTL

=============================================================================
