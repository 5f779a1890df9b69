--------------------------- MODULE WindowsProofs ---------------------------
(***************************************************************************)
(* Proofs about the shell's windows and the session they show, for any     *)
(* number of backends, sessions and requests, of windows and tabs.         *)
(***************************************************************************)
EXTENDS TabManager, ShellSession, Orders, TLAPS

(* api.ts and index.ts: a window is unlocked only while the shell holds a   *)
(* token or has the lock on its way.                                        *)
THEOREM UnlockedShellHasToken == SessionSpec => []UnlockedNeedsToken
<1>1. SessionInit => UnlockedNeedsToken
  BY DEF SessionInit, UnlockedNeedsToken
<1>2. UnlockedNeedsToken /\ [SessionNext]_sessionVars => UnlockedNeedsToken'
  <2> SUFFICES ASSUME UnlockedNeedsToken, [SessionNext]_sessionVars
               PROVE  UnlockedNeedsToken'
    OBVIOUS
  <2> USE DEF UnlockedNeedsToken, shellVars, StoreOnly
  <2>1. ASSUME NEW q \in Requests, RequestStep(q) PROVE UnlockedNeedsToken'
    <3>1. CASE Deliver(q)
      BY <3>1 DEF Deliver, SetToken
    <3>2. CASE UNCHANGED shellVars
      BY <3>2
    <3>3. Deliver(q) \/ UNCHANGED shellVars
      BY <2>1 DEF RequestStep, Send, Fail, TimeOut, ServeLogin, ServeLogout, ServeLock,
                  Authorize, Finish
    <3> QED BY <3>1, <3>2, <3>3
  <2>2. ASSUME NEW s \in Sessions, GoIdle(s) PROVE UnlockedNeedsToken'
    BY <2>2 DEF GoIdle
  <2>3. CASE AnnounceLock
    BY <2>3 DEF AnnounceLock
  <2>4. CASE Unlocked
    BY <2>4 DEF Unlocked
  <2>5. ASSUME NEW p \in Procs, BackendEnds(p) PROVE UnlockedNeedsToken'
    BY <2>5 DEF BackendEnds
  <2>6. CASE Crashed
    BY <2>6 DEF Crashed, SetToken
  <2>7. CASE BackendMoves
    BY <2>7 DEF BackendMoves
  <2>8. CASE UNCHANGED sessionVars
    BY <2>8 DEF sessionVars
  <2> QED BY <2>1, <2>2, <2>3, <2>4, <2>5, <2>6, <2>7, <2>8 DEF SessionNext
<1> QED BY <1>1, <1>2, PTL DEF SessionSpec

(* A handler that runs works on a copy of the key that was taken while the  *)
(* entry was there.                                                         *)
RunningHasKey ==
  \A q \in UnderWay : req[q].phase = "running" => req[q].dek = "dek"

(* The strengthening of the session.                                         *)
RequestInv ==
  /\ current \in Procs \cup {None} /\ token \in Sessions \cup {None}
  /\ req \in [Requests -> RequestType \cup {None}]
  /\ RunningHasKey

(* A request that is answered is gone or has its answer.                    *)
LEMMA AnswerFacts ==
  ASSUME RequestInv, NEW q \in UnderWay, NEW r \in Sessions \cup {"ok", "401"}, Answer(q, r)
  PROVE  req' \in [Requests -> RequestType \cup {None}] /\ RunningHasKey'
<1> DEFINE new == IF req[q].phase = "abandoned" THEN None
                  ELSE [req[q] EXCEPT !.phase = "answered", !.result = r]
<1>1. q \in Requests /\ req[q] \in RequestType
  BY DEF RequestInv, UnderWay
<1>2. new = None \/ (new \in RequestType /\ new.phase = "answered")
  BY <1>1 DEF RequestType
<1>3. req' = [req EXCEPT ![q] = new]
  BY DEF Answer
<1> HIDE DEF new
<1> QED BY <1>1, <1>2, <1>3 DEF RequestInv, RunningHasKey, UnderWay

(* Requests stay well formed, and a running one keeps its copy of the key.  *)
LEMMA RequestInvStep ==
  ASSUME RequestInv, [SessionNext]_sessionVars
  PROVE  RequestInv'
<1> USE DEF RequestInv, shellVars, backendVars, StoreOnly
<1>1. ASSUME NEW q \in Requests, RequestStep(q) PROVE RequestInv'
  <2>1. ASSUME NEW r \in Routes, Send(q, r) PROVE RequestInv'
    <3> DEFINE new == [phase |-> "sent", route |-> r, bearer |-> token,
                       dest |-> current, dek |-> "none", result |-> "none"]
    <3>1. new \in RequestType /\ new.phase = "sent" /\ req' = [req EXCEPT ![q] = new]
      BY <2>1 DEF Send, RequestType
    <3>2. UNCHANGED <<backendVars, shellVars>>
      BY <2>1 DEF Send
    <3> HIDE DEF new
    <3> QED BY <3>1, <3>2 DEF RunningHasKey, UnderWay
  <2>2. CASE Fail(q)
    BY <2>2 DEF Fail, RunningHasKey, UnderWay
  <2>3. CASE TimeOut(q)
    <3> DEFINE new == [req[q] EXCEPT !.phase = "abandoned"]
    <3>1. req[q] \in RequestType /\ req' = [req EXCEPT ![q] = new]
      BY <2>3 DEF TimeOut, UnderWay
    <3>2. new \in RequestType /\ new.phase = "abandoned"
      BY <3>1 DEF RequestType
    <3>3. UNCHANGED <<backendVars, shellVars>>
      BY <2>3 DEF TimeOut
    <3> HIDE DEF new
    <3> QED BY <3>1, <3>2, <3>3 DEF RunningHasKey, UnderWay
  <2>4. CASE Deliver(q)
    <3>1. req[q] \in RequestType /\ req' = [req EXCEPT ![q] = None] /\ UNCHANGED current
      BY <2>4 DEF Deliver, UnderWay
    <3>2. token' \in Sessions \cup {None}
      BY <2>4, <3>1 DEF Deliver, SetToken, TokenAfter
    <3> QED BY <3>1, <3>2 DEF RunningHasKey, UnderWay
  <2>5. CASE ServeLogin(q) \/ ServeLogout(q) \/ ServeLock(q) \/ Finish(q)
    <3>1. q \in UnderWay /\ UNCHANGED <<backendVars, shellVars>>
      BY <2>5 DEF ServeLogin, ServeLogout, ServeLock, Finish, Asked
    <3>2. \E r \in Sessions \cup {"ok", "401"} : Answer(q, r)
      BY <2>5 DEF ServeLogin, ServeLogout, ServeLock, Finish
    <3> QED BY <3>1, <3>2, AnswerFacts
  <2>6. CASE Authorize(q)
    <3>1. q \in UnderWay /\ req[q] \in RequestType /\ UNCHANGED <<backendVars, shellVars>>
      BY <2>6 DEF Authorize, Asked, UnderWay
    <3>2. CASE Answer(q, "401")
      BY <3>1, <3>2, AnswerFacts
    <3>3. CASE ~Answer(q, "401")
      <4> DEFINE new == [req[q] EXCEPT !.phase = "running", !.dek = "dek"]
      <4>1. req' = [req EXCEPT ![q] = new]
        BY <2>6, <3>3 DEF Authorize
      <4>2. new \in RequestType /\ new.dek = "dek"
        BY <3>1 DEF RequestType
      <4> HIDE DEF new
      <4> QED BY <3>1, <4>1, <4>2 DEF RunningHasKey, UnderWay
    <3> QED BY <3>2, <3>3
  <2> QED BY <1>1, <2>1, <2>2, <2>3, <2>4, <2>5, <2>6 DEF RequestStep
<1>2. ASSUME UNCHANGED req, current' \in Procs \cup {None}, token' \in Sessions \cup {None}
      PROVE  RequestInv'
  BY <1>2 DEF RunningHasKey, UnderWay
<1>3. ASSUME NEW s \in Sessions, GoIdle(s) PROVE RequestInv'
  BY <1>2, <1>3 DEF GoIdle
<1>4. CASE AnnounceLock \/ Unlocked
  BY <1>2, <1>4 DEF AnnounceLock, Unlocked
<1>5. ASSUME NEW p \in Procs, BackendEnds(p) PROVE RequestInv'
  BY <1>2, <1>5 DEF BackendEnds, End
<1>6. CASE Crashed
  BY <1>2, <1>6 DEF Crashed, SetToken, Unpublish
<1>7. CASE BackendMoves
  BY <1>2, <1>7 DEF BackendMoves, Spawned, Listen, Publish
<1>8. CASE UNCHANGED sessionVars
  BY <1>2, <1>8 DEF sessionVars
<1> QED BY <1>1, <1>3, <1>4, <1>5, <1>6, <1>7, <1>8 DEF SessionNext

(* sessions.py: no credential is ever encrypted under a wiped key.          *)
THEOREM NothingSealedWithZero == SessionSpec => []SealedWithRealKey
<1>1. SessionInit => RequestInv /\ SealedWithRealKey
  BY DEF SessionInit, BackendInit, RequestInv, RunningHasKey, UnderWay, SealedWithRealKey
<1>2. RequestInv /\ [SessionNext]_sessionVars => RequestInv'
  BY RequestInvStep
<1>3. RequestInv /\ SealedWithRealKey /\ [SessionNext]_sessionVars => SealedWithRealKey'
  <2> SUFFICES ASSUME RequestInv, SealedWithRealKey, [SessionNext]_sessionVars
               PROVE  SealedWithRealKey'
    OBVIOUS
  <2>1. ASSUME NEW q \in Requests, Finish(q) PROVE SealedWithRealKey'
    <3>1. q \in UnderWay /\ req[q].dek = "dek"
      BY <2>1 DEF Finish, RequestInv, RunningHasKey
    <3> QED BY <2>1, <3>1 DEF Finish, SealedWithRealKey
  <2>2. CASE UNCHANGED sealed
    BY <2>2 DEF SealedWithRealKey
  <2>3. UNCHANGED sealed \/ \E q \in Requests : Finish(q)
    BY DEF SessionNext, RequestStep, Send, Fail, TimeOut, Deliver, ServeLogin, ServeLogout,
           ServeLock, Authorize, GoIdle, AnnounceLock, Unlocked, BackendEnds, Crashed,
           BackendMoves, storeVars, sessionVars
  <2> QED BY <2>1, <2>2, <2>3
<1> QED BY <1>1, <1>2, <1>3, PTL DEF SessionSpec

(* Dropping entries leaves homes and idle sessions what they were.          *)
LEMMA DropTypes ==
  ASSUME SessionTypeOK, NEW ss, Drop(ss)
  PROVE  home' \in [Sessions -> Procs \cup {None}] /\ idle' \subseteq Sessions
BY DEF SessionTypeOK, Drop

(* The store of a backend stays well formed.                                *)
LEMMA StoreTypes ==
  ASSUME SessionTypeOK, RequestInv, [SessionNext]_sessionVars
  PROVE  /\ home' \in [Sessions -> Procs \cup {None}] /\ idle' \subseteq Sessions
         /\ sealed' \subseteq {"dek", "zero"}
<1> DEFINE Goal == /\ home' \in [Sessions -> Procs \cup {None}] /\ idle' \subseteq Sessions
                   /\ sealed' \subseteq {"dek", "zero"}
<1>0. home \in [Sessions -> Procs \cup {None}] /\ idle \subseteq Sessions /\ sealed \subseteq {"dek", "zero"}
  BY DEF SessionTypeOK
<1>1. ASSUME NEW q \in UnderWay PROVE req[q].dest \in Procs /\ req[q].dek \in {"none", "dek"}
  BY <1>1 DEF UnderWay, RequestInv, RequestType
<1>2. CASE UNCHANGED storeVars
  BY <1>0, <1>2 DEF storeVars
<1>3. ASSUME NEW q \in Requests, ServeLogin(q) PROVE Goal
  BY <1>0, <1>1, <1>3 DEF ServeLogin, Asked
<1>4. ASSUME NEW ss, Drop(ss), UNCHANGED sealed PROVE Goal
  BY <1>0, <1>4, DropTypes
<1>5. ASSUME NEW q \in Requests, ServeLogout(q) PROVE Goal
  BY <1>4, <1>5 DEF ServeLogout
<1>6. ASSUME NEW q \in Requests, ServeLock(q) PROVE Goal
  BY <1>4, <1>6 DEF ServeLock, DropIdle
<1>7. ASSUME NEW q \in Requests, Authorize(q) PROVE Goal
  <2>1. CASE UNCHANGED <<home, idle>> /\ UNCHANGED sealed
    BY <1>2, <2>1 DEF storeVars
  <2>2. CASE DropIdle(req[q].bearer, req[q].dest) /\ UNCHANGED sealed
    BY <1>4, <2>2 DEF DropIdle
  <2> QED BY <1>7, <2>1, <2>2 DEF Authorize
<1>8. ASSUME NEW q \in Requests, Finish(q) PROVE Goal
  <2>1. q \in UnderWay /\ req[q].dek = "dek"
    BY <1>8 DEF Finish, RequestInv, RunningHasKey
  <2> QED BY <1>0, <1>8, <2>1 DEF Finish
<1>9. ASSUME NEW s \in Sessions, GoIdle(s) PROVE Goal
  BY <1>0, <1>9 DEF GoIdle
<1>10. ASSUME NEW p \in Procs, BackendEnds(p) PROVE Goal
  BY <1>4, <1>10 DEF BackendEnds
<1>11. \/ UNCHANGED storeVars
       \/ \E q \in Requests : ServeLogin(q) \/ ServeLogout(q) \/ ServeLock(q) \/ Authorize(q) \/ Finish(q)
       \/ \E s \in Sessions : GoIdle(s)
       \/ \E p \in Procs : BackendEnds(p)
  BY DEF SessionNext, RequestStep, Send, Fail, TimeOut, Deliver, AnnounceLock, Unlocked, Crashed,
         BackendMoves, sessionVars
<1> QED BY <1>2, <1>3, <1>5, <1>6, <1>7, <1>8, <1>9, <1>10, <1>11

(* So do the flags of the windows and what is known of the backends.        *)
LEMMA ShellTypes ==
  ASSUME SessionTypeOK, [SessionNext]_sessionVars
  PROVE  /\ windowsLocked' \in BOOLEAN /\ lockDue' \in BOOLEAN /\ unlockDue' \in BOOLEAN
         /\ up' \subseteq Procs /\ announced' \subseteq Procs
<1> USE DEF SessionTypeOK, shellVars, backendVars
<1>1. ASSUME NEW q \in Requests, RequestStep(q)
      PROVE  /\ windowsLocked' \in BOOLEAN /\ lockDue' \in BOOLEAN /\ unlockDue' \in BOOLEAN
             /\ up' \subseteq Procs /\ announced' \subseteq Procs
  <2>1. CASE Deliver(q)
    BY <2>1 DEF Deliver, SetToken
  <2>2. CASE UNCHANGED <<backendVars, shellVars>>
    BY <2>2
  <2>3. Deliver(q) \/ UNCHANGED <<backendVars, shellVars>>
    BY <1>1 DEF RequestStep, Send, Fail, TimeOut, ServeLogin, ServeLogout, ServeLock,
                Authorize, Finish, StoreOnly
  <2> QED BY <2>1, <2>2, <2>3
<1>2. ASSUME NEW s \in Sessions, GoIdle(s) PROVE UNCHANGED <<backendVars, shellVars>>
  BY <1>2 DEF GoIdle, StoreOnly
<1>3. CASE AnnounceLock \/ Unlocked
  BY <1>3 DEF AnnounceLock, Unlocked
<1>4. ASSUME NEW p \in Procs, BackendEnds(p)
      PROVE  up' \subseteq Procs /\ UNCHANGED <<announced, shellVars>>
  BY <1>4 DEF BackendEnds, End
<1>5. CASE Crashed
  BY <1>5 DEF Crashed, SetToken, Unpublish
<1>6. CASE BackendMoves
  BY <1>6 DEF BackendMoves, Spawned, Listen, Publish
<1>7. CASE UNCHANGED sessionVars
  BY <1>7 DEF sessionVars
<1> QED BY <1>1, <1>2, <1>3, <1>4, <1>5, <1>6, <1>7 DEF SessionNext

(* Types: entries, flags and requests stay what they are declared to be.    *)
THEOREM SessionTypeCorrect == SessionSpec => []SessionTypeOK
<1>1. SessionInit => RequestInv /\ SessionTypeOK
  BY DEF SessionInit, BackendInit, RequestInv, RunningHasKey, UnderWay, SessionTypeOK
<1>2. RequestInv /\ [SessionNext]_sessionVars => RequestInv'
  BY RequestInvStep
<1>3. RequestInv /\ SessionTypeOK /\ [SessionNext]_sessionVars => SessionTypeOK'
  BY RequestInvStep, StoreTypes, ShellTypes DEF SessionTypeOK, RequestInv
<1> QED BY <1>1, <1>2, <1>3, PTL DEF SessionSpec

(* api.ts and sessions.py: windows are open over a token only, and a        *)
(* credential is sealed under a key that is there.                          *)
THEOREM SessionStaysSound == SessionSpec => []SessionIsSound
BY SessionTypeCorrect, UnlockedShellHasToken, NothingSealedWithZero, PTL DEF SessionIsSound


-----------------------------------------------------------------------------
(* Lists of tabs and of windows *)

(* What a list has is what its positions have.                               *)
LEMMA ListIs ==
  ASSUME NEW S, NEW s \in Seq(S)
  PROVE  /\ Len(s) \in Nat /\ DOMAIN s = 1 .. Len(s) /\ ToSet(s) \subseteq S
         /\ \A t : t \in ToSet(s) <=> \E i \in 1 .. Len(s) : s[i] = t
         /\ \A t : Contains(s, t) <=> t \in ToSet(s)
         /\ s = <<>> <=> ToSet(s) = {}
<1>1. Len(s) \in Nat /\ DOMAIN s = 1 .. Len(s) /\ \A i \in 1 .. Len(s) : s[i] \in S
  OBVIOUS
<1>2. \A t : t \in ToSet(s) <=> \E i \in 1 .. Len(s) : s[i] = t
  BY <1>1 DEF ToSet
<1>3. \A t : Contains(s, t) <=> t \in ToSet(s)
  BY <1>2 DEF Contains
<1>4. s = <<>> <=> Len(s) = 0
  OBVIOUS
<1>5. Len(s) = 0 <=> ToSet(s) = {}
  <2>1. Len(s) # 0 => 1 \in 1 .. Len(s)
    BY <1>1
  <2>2. Len(s) = 0 => 1 .. Len(s) = {}
    OBVIOUS
  <2> QED BY <1>2, <2>1, <2>2
<1>6. ToSet(s) \subseteq S
  BY <1>1, <1>2
<1> QED BY <1>1, <1>2, <1>3, <1>4, <1>5, <1>6

(* The position of what is in a list.                                        *)
LEMMA IndexIs ==
  ASSUME NEW S, NEW s \in Seq(S), NEW t \in ToSet(s)
  PROVE  IndexOf(s, t) \in 1 .. Len(s) /\ s[IndexOf(s, t)] = t
<1>1. \E i \in DOMAIN s : s[i] = t
  BY ListIs
<1>2. IndexOf(s, t) \in DOMAIN s /\ s[IndexOf(s, t)] = t
  BY <1>1 DEF IndexOf
<1> QED BY <1>2, ListIs

(* splice(i, 1): what is at a position leaves.                               *)
LEMMA RemovedIs ==
  ASSUME NEW S, NEW s \in Seq(S), IsInjective(s), NEW i \in 1 .. Len(s)
  PROVE  /\ RemoveAt(s, i) \in Seq(S) /\ IsInjective(RemoveAt(s, i))
         /\ ToSet(RemoveAt(s, i)) = ToSet(s) \ {s[i]}
         /\ Len(RemoveAt(s, i)) = Len(s) - 1
         /\ i > 1 => RemoveAt(s, i)[1] = s[1]
<1> DEFINE L == Len(s)
           r == RemoveAt(s, i)
           a == SubSeq(s, 1, i - 1)
           b == SubSeq(s, i + 1, L)
<1>1. L \in Nat /\ DOMAIN s = 1 .. L
  OBVIOUS
<1>2. a \in Seq(S) /\ Len(a) = i - 1 /\ \A j \in 1 .. i - 1 : a[j] = s[j]
  OBVIOUS
<1>3. b \in Seq(S) /\ Len(b) = L - i /\ \A j \in 1 .. L - i : b[j] = s[i + j]
  OBVIOUS
<1>4. r = a \o b
  BY DEF RemoveAt
<1> HIDE DEF a, b, r
<1>5. r \in Seq(S) /\ Len(r) = L - 1 /\ DOMAIN r = 1 .. L - 1
  BY <1>2, <1>3, <1>4
<1>6. \A j \in 1 .. L - 1 : r[j] = IF j < i THEN s[j] ELSE s[j + 1]
  <2> SUFFICES ASSUME NEW j \in 1 .. L - 1 PROVE r[j] = IF j < i THEN s[j] ELSE s[j + 1]
    OBVIOUS
  <2>1. CASE j < i
    <3>1. r[j] = a[j] /\ j \in 1 .. i - 1
      BY <1>2, <1>3, <1>4, <2>1
    <3> QED BY <1>2, <2>1, <3>1
  <2>2. CASE ~(j < i)
    <3>1. r[j] = b[j - (i - 1)] /\ j - (i - 1) \in 1 .. L - i
      BY <1>2, <1>3, <1>4, <2>2
    <3>2. i + (j - (i - 1)) = j + 1
      OBVIOUS
    <3> QED BY <1>3, <2>2, <3>1, <3>2
  <2> QED BY <2>1, <2>2
<1>7. \A j, k \in 1 .. L : s[j] = s[k] => j = k
  BY <1>1 DEF IsInjective
<1>8. IsInjective(r)
  BY <1>1, <1>5, <1>6, <1>7 DEF IsInjective
<1>9. ASSUME NEW t PROVE t \in ToSet(r) <=> t \in ToSet(s) /\ t # s[i]
  <2>1. ASSUME NEW j \in 1 .. L - 1 PROVE r[j] \in ToSet(s) /\ r[j] # s[i]
    BY <1>1, <1>6, <1>7, ListIs
  <2>2. ASSUME NEW j \in 1 .. L, j # i PROVE \E k \in 1 .. L - 1 : r[k] = s[j]
    <3>1. CASE j < i
      BY <1>6, <3>1
    <3>2. CASE ~(j < i)
      <4>1. j - 1 \in 1 .. L - 1 /\ ~(j - 1 < i) /\ (j - 1) + 1 = j
        BY <2>2, <3>2
      <4> QED BY <1>6, <4>1
    <3> QED BY <3>1, <3>2
  <2>3. t \in ToSet(r) <=> \E k \in 1 .. L - 1 : r[k] = t
    BY <1>5, ListIs
  <2>4. t \in ToSet(s) <=> \E j \in 1 .. L : s[j] = t
    BY ListIs
  <2> QED BY <2>1, <2>2, <2>3, <2>4
<1>10. i > 1 => r[1] = s[1]
  BY <1>1, <1>6
<1> QED BY <1>5, <1>8, <1>9, <1>10 DEF r

(* splice(i, 0, t): something new comes to a position.                       *)
LEMMA InsertedIs ==
  ASSUME NEW S, NEW s \in Seq(S), IsInjective(s), NEW t \in S, t \notin ToSet(s), NEW i \in 1 .. Len(s) + 1
  PROVE  /\ InsertAt(s, i, t) \in Seq(S) /\ IsInjective(InsertAt(s, i, t))
         /\ ToSet(InsertAt(s, i, t)) = ToSet(s) \cup {t}
<1> DEFINE L == Len(s)
           r == InsertAt(s, i, t)
           a == SubSeq(s, 1, i - 1)
           b == SubSeq(s, i, L)
<1>1. L \in Nat /\ DOMAIN s = 1 .. L
  OBVIOUS
<1>2. a \in Seq(S) /\ Len(a) = i - 1 /\ \A j \in 1 .. i - 1 : a[j] = s[j]
  OBVIOUS
<1>3. b \in Seq(S) /\ Len(b) = L - i + 1 /\ \A j \in 1 .. L - i + 1 : b[j] = s[i + j - 1]
  OBVIOUS
<1>4. r = a \o <<t>> \o b /\ <<t>> \in Seq(S) /\ Len(<<t>>) = 1 /\ <<t>>[1] = t
  BY DEF InsertAt
<1> HIDE DEF a, b, r
<1> DEFINE c == a \o <<t>>
<1>5. c \in Seq(S) /\ Len(c) = i /\ c[i] = t /\ \A j \in 1 .. i - 1 : c[j] = s[j]
  BY <1>2, <1>4
<1>6. r = c \o b
  BY <1>4
<1> HIDE DEF c
<1>7. r \in Seq(S) /\ Len(r) = L + 1 /\ DOMAIN r = 1 .. L + 1
  <2>1. r \in Seq(S) /\ Len(r) = Len(c) + Len(b)
    <3>1. PICK p \in Seq(S), q \in Seq(S) : p = c /\ q = b
      BY <1>3, <1>5
    <3>2. p \o q \in Seq(S) /\ Len(p \o q) = Len(p) + Len(q)
      BY SMTT(20)
    <3> QED BY <1>6, <3>1, <3>2
  <2>2. i + (L - i + 1) = L + 1
    BY <1>1
  <2>3. Len(r) = L + 1
    BY <1>3, <1>5, <2>1, <2>2
  <2> QED BY <2>1, <2>3
<1>8. \A j \in 1 .. L + 1 : r[j] = IF j < i THEN s[j] ELSE IF j = i THEN t ELSE s[j - 1]
  <2> SUFFICES ASSUME NEW j \in 1 .. L + 1 PROVE r[j] = IF j < i THEN s[j] ELSE IF j = i THEN t ELSE s[j - 1]
    OBVIOUS
  <2>1. CASE j <= i
    <3>1. r[j] = c[j]
      BY <1>3, <1>5, <1>6, <2>1
    <3> QED BY <1>5, <2>1, <3>1
  <2>2. CASE ~(j <= i)
    <3>1. r[j] = b[j - i] /\ j - i \in 1 .. L - i + 1
      BY <1>3, <1>5, <1>6, <2>2
    <3>2. i + (j - i) - 1 = j - 1
      OBVIOUS
    <3> QED BY <1>3, <2>2, <3>1, <3>2
  <2> QED BY <2>1, <2>2
<1>9. \A j, k \in 1 .. L : s[j] = s[k] => j = k
  BY <1>1 DEF IsInjective
<1>10. \A j \in 1 .. L : s[j] # t
  BY ListIs
<1>11. IsInjective(r)
  <2> SUFFICES ASSUME NEW j \in 1 .. L + 1, NEW k \in 1 .. L + 1, r[j] = r[k] PROVE j = k
    BY <1>7 DEF IsInjective
  <2> QED BY <1>8, <1>9, <1>10
<1>12. ASSUME NEW u PROVE u \in ToSet(r) <=> u \in ToSet(s) \/ u = t
  <2>1. u \in ToSet(r) <=> \E k \in 1 .. L + 1 : r[k] = u
    BY <1>7, ListIs
  <2>2. u \in ToSet(s) <=> \E j \in 1 .. L : s[j] = u
    BY ListIs
  <2>3. ASSUME NEW k \in 1 .. L + 1 PROVE r[k] = t \/ \E j \in 1 .. L : s[j] = r[k]
    BY <1>8
  <2>4. ASSUME NEW j \in 1 .. L PROVE \E k \in 1 .. L + 1 : r[k] = s[j]
    <3>1. CASE j < i
      BY <1>8, <3>1
    <3>2. CASE ~(j < i)
      <4>1. j + 1 \in 1 .. L + 1 /\ ~(j + 1 < i) /\ j + 1 # i /\ (j + 1) - 1 = j
        BY <3>2
      <4> QED BY <1>8, <4>1
    <3> QED BY <3>1, <3>2
  <2>5. i \in 1 .. L + 1 /\ r[i] = t
    BY <1>8
  <2> QED BY <2>1, <2>2, <2>3, <2>4, <2>5
<1> QED BY <1>7, <1>11, <1>12 DEF r

(* push: something new comes last.                                           *)
LEMMA AppendedIs ==
  ASSUME NEW S, NEW s \in Seq(S), IsInjective(s), NEW t \in S, t \notin ToSet(s)
  PROVE  /\ Append(s, t) \in Seq(S) /\ IsInjective(Append(s, t))
         /\ ToSet(Append(s, t)) = ToSet(s) \cup {t}
         /\ s # <<>> => Append(s, t)[1] = s[1]
         /\ s = <<>> => Append(s, t)[1] = t
<1> DEFINE L == Len(s)
           r == Append(s, t)
<1>1. L \in Nat /\ DOMAIN s = 1 .. L /\ (s # <<>> => L # 0) /\ (s = <<>> => L = 0)
  OBVIOUS
<1>2. r \in Seq(S) /\ Len(r) = L + 1 /\ DOMAIN r = 1 .. L + 1 /\ r[L + 1] = t /\ \A j \in 1 .. L : r[j] = s[j]
  OBVIOUS
<1> HIDE DEF r
<1>3. \A j, k \in 1 .. L : s[j] = s[k] => j = k
  BY <1>1 DEF IsInjective
<1>4. \A j \in 1 .. L : s[j] # t
  BY ListIs
<1>5. \A j \in 1 .. L + 1 : j = L + 1 \/ j \in 1 .. L
  BY <1>1
<1>6. IsInjective(r)
  BY <1>2, <1>3, <1>4, <1>5 DEF IsInjective
<1>7. ASSUME NEW u PROVE u \in ToSet(r) <=> u \in ToSet(s) \/ u = t
  <2>1. u \in ToSet(r) <=> \E k \in 1 .. L + 1 : r[k] = u
    BY <1>2, ListIs
  <2>2. u \in ToSet(s) <=> \E j \in 1 .. L : s[j] = u
    BY ListIs
  <2>3. L + 1 \in 1 .. L + 1 /\ 1 .. L \subseteq 1 .. L + 1
    BY <1>1
  <2> QED BY <1>2, <1>5, <2>1, <2>2, <2>3
<1>8. (s # <<>> => r[1] = s[1]) /\ (s = <<>> => r[1] = t)
  BY <1>1, <1>2
<1> QED BY <1>2, <1>6, <1>7, <1>8 DEF r

-----------------------------------------------------------------------------
(* One window *)

(* A window whose views can be brought to what they should be: its split is  *)
(* a pair of its tabs, and what is attached it may take off.                 *)
Sane(w, x) ==
  /\ x \in WinType /\ IsInjective(x.tabs)
  /\ x.split # Nil => x.split[1] # x.split[2] /\ x.split[1] \in ToSet(x.tabs) /\ x.split[2] \in ToSet(x.tabs)
  /\ x.kids \subseteq ToSet(x.tabs) \cup {Divider} /\ (Divider \in x.kids => x.divider)
  /\ x.overlay # "under" /\ (x.overlay = "top" => host = w)
(* A window shows one of its tabs,                                           *)
Aims(x) == IF x.tabs = <<>> THEN x.active = Nil ELSE x.active \in ToSet(x.tabs)
(* and what is in it is what its layout says.                                *)
Sound(w, x) == Sane(w, x) /\ Aims(x) /\ x.kids = Wanted(x) /\ (Visible(x) => x.divider)

(* What a handler leaves of a window.                                        *)
Keeps(x, y) == y.target = x.target /\ (x.divider => y.divider)

(* The parts of a window.                                                    *)
LEMMA WinParts ==
  ASSUME NEW x \in WinType
  PROVE  /\ x.tabs \in Seq(Tabs) /\ x.active \in Tabs \cup {Nil} /\ x.prev \in Tabs \cup {Nil}
         /\ x.split \in {Nil} \cup (Tabs \X Tabs) /\ x.kids \in SUBSET (Tabs \cup {Divider}) /\ x.overlay \in Layers
         /\ x.divider \in BOOLEAN /\ x.page \in Pages /\ x.target \in Pages
BY DEF WinType

(* The pair that is visible is of the window's own tabs.                     *)
LEMMA WantedIs ==
  ASSUME NEW x \in WinType, x.split # Nil => x.split[1] \in ToSet(x.tabs) /\ x.split[2] \in ToSet(x.tabs)
  PROVE  /\ Visible(x) <=> x.split # Nil /\ x.active \in {x.split[1], x.split[2]}
         /\ Wanted(x) \subseteq ToSet(x.tabs) \cup {Divider} /\ (Divider \in Wanted(x) => Visible(x))
         /\ Visible(x) => Wanted(x) = {x.split[1], x.split[2], Divider}
         /\ ~Visible(x) => Wanted(x) = ToSet(x.tabs) \cap {x.active}
<1>1. x.tabs \in Seq(Tabs) /\ x.split \in {Nil} \cup (Tabs \X Tabs)
  BY WinParts
<1>2. x.split # Nil => ToSet(x.split) = {x.split[1], x.split[2]}
  <2> SUFFICES ASSUME x.split # Nil PROVE ToSet(x.split) = {x.split[1], x.split[2]}
    OBVIOUS
  <2>1. PICK a \in Tabs, b \in Tabs : x.split = <<a, b>>
    BY <1>1
  <2>2. DOMAIN <<a, b>> = 1 .. 2 /\ <<a, b>>[1] = a /\ <<a, b>>[2] = b
    OBVIOUS
  <2>3. ToSet(<<a, b>>) = {<<a, b>>[1], <<a, b>>[2]}
    BY <2>2 DEF ToSet
  <2> QED BY <2>1, <2>3
<1>3. Divider \notin ToSet(x.tabs)
  BY <1>1, ListIs, TabAssumption
<1>4. Visible(x) <=> x.split # Nil /\ x.active \in {x.split[1], x.split[2]}
  BY <1>2 DEF Visible
<1>5. (Visible(x) => Wanted(x) = {x.split[1], x.split[2], Divider}) /\ (~Visible(x) => Wanted(x) = ToSet(x.tabs) \cap {x.active})
  BY <1>2, <1>4 DEF Wanted
<1> QED BY <1>3, <1>4, <1>5

(* reconcile brings the views to what they should be.                        *)
LEMMA ReconcileIs ==
  ASSUME NEW w, NEW x, Sane(w, x), Aims(x)
  PROVE  /\ Sound(w, Reconcile(w, x)) /\ Keeps(x, Reconcile(w, x)) /\ Reconcile(w, x).tabs = x.tabs
<1> DEFINE kids == (x.kids \ Owned(x)) \cup Wanted(x)
           divider == x.divider \/ Visible(x)
           y == [x EXCEPT !.kids = kids, !.overlay = Layer(w, x), !.divider = divider]
<1>1. x \in WinType
  BY DEF Sane
<1>2. Reconcile(w, x) = y
  BY DEF Reconcile
<1>3. kids = Wanted(x)
  BY DEF Owned, Sane
<1>4. Wanted(x) \subseteq ToSet(x.tabs) \cup {Divider} /\ (Divider \in Wanted(x) => Visible(x))
  BY <1>1, WantedIs DEF Sane
<1>5. ToSet(x.tabs) \subseteq Tabs
  BY <1>1, WinParts, ListIs
<1>6. Layer(w, x) \in {"off", "top"} /\ (Layer(w, x) = "top" => host = w)
  BY <1>1, WinParts DEF Layer, Layers, Sane
<1>7. divider \in BOOLEAN
  BY <1>1, WinParts DEF Visible
<1>8. y \in WinType
  <2>1. kids \in SUBSET (Tabs \cup {Divider}) /\ Layer(w, x) \in Layers
    BY <1>3, <1>4, <1>5, <1>6 DEF Layers
  <2> HIDE DEF kids, divider
  <2> QED BY <1>1, <1>7, <2>1 DEF WinType
<1>9. /\ y.tabs = x.tabs /\ y.active = x.active /\ y.split = x.split /\ y.kids = kids /\ y.overlay = Layer(w, x)
      /\ y.divider = divider /\ y.target = x.target
  <2> HIDE DEF kids, divider
  <2> QED BY <1>1 DEF WinType
<1> HIDE DEF y, kids, divider
<1>10. Visible(y) = Visible(x) /\ Wanted(y) = Wanted(x)
  BY <1>9 DEF Visible, Wanted
<1>11. Sane(w, y) /\ Aims(y) /\ y.kids = Wanted(y) /\ (Visible(y) => y.divider)
  <2>1. divider = (x.divider \/ Visible(x))
    BY DEF divider
  <2> QED BY <1>3, <1>4, <1>6, <1>8, <1>9, <1>10, <2>1 DEF Sane, Aims
<1>12. Keeps(x, y)
  BY <1>9 DEF Keeps, divider
<1> QED BY <1>2, <1>9, <1>11, <1>12 DEF Sound

(* activate, of a tab that the window has.                                   *)
LEMMA ActivateIs ==
  ASSUME NEW w, NEW x, Sane(w, x), NEW t \in ToSet(x.tabs)
  PROVE  /\ Sound(w, Activate(w, x, t)) /\ Keeps(x, Activate(w, x, t)) /\ Activate(w, x, t).tabs = x.tabs
<1> DEFINE prev == IF x.active \in {Nil, t} THEN x.prev ELSE x.active
           y == [x EXCEPT !.prev = prev, !.active = t]
<1>1. x \in WinType /\ x.tabs \in Seq(Tabs)
  BY WinParts DEF Sane
<1>2. Contains(x.tabs, t) /\ t \in Tabs /\ x.tabs # <<>>
  BY <1>1, ListIs
<1>3. Activate(w, x, t) = Reconcile(w, y)
  BY <1>2 DEF Activate
<1>4. prev \in Tabs \cup {Nil}
  BY <1>1, WinParts
<1> HIDE DEF prev
<1>5. y \in WinType
  BY <1>1, <1>2, <1>4 DEF WinType
<1>6. /\ y.tabs = x.tabs /\ y.active = t /\ y.split = x.split /\ y.kids = x.kids /\ y.overlay = x.overlay
      /\ y.divider = x.divider /\ y.target = x.target
  BY <1>1 DEF WinType
<1> HIDE DEF y
<1>7. Sane(w, y) /\ Aims(y)
  BY <1>2, <1>5, <1>6 DEF Sane, Aims
<1>8. Sound(w, Reconcile(w, y)) /\ Keeps(y, Reconcile(w, y)) /\ Reconcile(w, y).tabs = y.tabs
  BY <1>7, ReconcileIs
<1> QED BY <1>3, <1>6, <1>8 DEF Keeps

(* closeTab and adoptTab: a tab leaves, its split with it, and a neighbour   *)
(* takes its place on screen.                                                *)
LEMMA WithoutIs ==
  ASSUME NEW w, NEW x, Sound(w, x), NEW t
  PROVE  /\ Sound(w, Without(w, x, t)) /\ Keeps(x, Without(w, x, t))
         /\ ToSet(Without(w, x, t).tabs) = ToSet(x.tabs) \ {t}
<1>1. x \in WinType /\ x.tabs \in Seq(Tabs) /\ Sane(w, x)
  BY WinParts DEF Sound, Sane
<1>2. CASE ~Contains(x.tabs, t)
  <2>1. Without(w, x, t) = x
    BY <1>2 DEF Without
  <2>2. ToSet(x.tabs) = ToSet(x.tabs) \ {t}
    BY <1>1, <1>2, ListIs
  <2> QED BY <2>1, <2>2 DEF Keeps
<1>3. CASE Contains(x.tabs, t)
  <2>1. t \in ToSet(x.tabs)
    BY <1>1, <1>3, ListIs
  <2>2. PICK i \in 1 .. Len(x.tabs) : i = IndexOf(x.tabs, t) /\ x.tabs[i] = t
    BY <1>1, <2>1, IndexIs
  <2>3. PICK tabs \in Seq(Tabs) : tabs = RemoveAt(x.tabs, i) /\ IsInjective(tabs) /\ ToSet(tabs) = ToSet(x.tabs) \ {t}
    BY <1>1, <2>2, RemovedIs DEF Sane
  <2>4. PICK split : split = SplitWithout(x, t)
    OBVIOUS
  <2>5. split \in {Nil} \cup (Tabs \X Tabs)
        /\ (split # Nil => split[1] # split[2] /\ split[1] \in ToSet(tabs) /\ split[2] \in ToSet(tabs))
    <3>1. CASE x.split # Nil /\ t \in ToSet(x.split)
      BY <2>4, <3>1 DEF SplitWithout
    <3>2. CASE x.split = Nil
      BY <2>4, <3>2 DEF SplitWithout
    <3>3. CASE x.split # Nil /\ t \notin ToSet(x.split)
      <4>1. PICK a \in Tabs, b \in Tabs : x.split = <<a, b>>
        BY <1>1, <3>3, WinParts
      <4>2. 1 \in DOMAIN x.split /\ 2 \in DOMAIN x.split
        BY <4>1
      <4>3. x.split[1] \in ToSet(x.split) /\ x.split[2] \in ToSet(x.split)
        BY <4>2 DEF ToSet
      <4> QED BY <1>1, <2>3, <2>4, <3>3, <4>1, <4>3 DEF SplitWithout, Sane
    <3> QED BY <3>1, <3>2, <3>3
  <2> DEFINE y == [x EXCEPT !.tabs = tabs, !.split = split, !.kids = x.kids \ {t}]
  <2>6. y \in WinType
    BY <1>1, <2>3, <2>5 DEF WinType
  <2>7. /\ y.tabs = tabs /\ y.active = x.active /\ y.split = split /\ y.kids = x.kids \ {t} /\ y.overlay = x.overlay
        /\ y.divider = x.divider /\ y.target = x.target /\ y.prev = x.prev
    BY <1>1 DEF WinType
  <2>8. t # Divider
    BY <1>1, <2>1, ListIs, TabAssumption
  <2>9. Without(w, x, t) = IF x.active = t THEN Activate(w, [y EXCEPT !.active = Nil], Neighbour(y.tabs, i)) ELSE Reconcile(w, y)
    BY <1>3, <2>2, <2>3, <2>4 DEF Without
  <2> HIDE DEF y
  <2>10. Sane(w, y)
    BY <1>1, <2>3, <2>5, <2>6, <2>7, <2>8 DEF Sane
  <2>11. CASE x.active # t
    <3>1. x.active \in ToSet(x.tabs)
      <4>1. x.tabs # <<>>
        BY <1>1, <2>1, ListIs
      <4> QED BY <4>1 DEF Sound, Aims
    <3>2. Aims(y)
      <4>1. x.active \in ToSet(tabs)
        BY <2>3, <2>11, <3>1
      <4> QED BY <2>3, <2>7, <4>1, ListIs DEF Aims
    <3> QED BY <2>3, <2>7, <2>9, <2>10, <2>11, <3>2, ReconcileIs DEF Keeps
  <2>12. CASE x.active = t
    <3> DEFINE z == [y EXCEPT !.active = Nil]
    <3>1. z \in WinType
      BY <2>6 DEF WinType
    <3>2. /\ z.tabs = tabs /\ z.active = Nil /\ z.split = split /\ z.kids = x.kids \ {t} /\ z.overlay = x.overlay
          /\ z.divider = x.divider /\ z.target = x.target
      BY <2>6, <2>7 DEF WinType
    <3>3. Without(w, x, t) = Activate(w, z, Neighbour(tabs, i))
      BY <2>7, <2>9, <2>12
    <3> HIDE DEF z
    <3>4. Sane(w, z)
      BY <2>10, <2>7, <3>1, <3>2 DEF Sane
    <3>5. CASE tabs = <<>>
      <4>1. ToSet(tabs) = {}
        BY <2>3, <3>5, ListIs
      <4>2. split = Nil
        BY <2>5, <4>1
      <4>3. ~Contains(z.tabs, Neighbour(tabs, i))
        BY <2>3, <3>2, <4>1, ListIs
      <4>4. Without(w, x, t) = z
        BY <3>3, <4>3 DEF Activate
      <4>5. ~Visible(z) /\ Wanted(z) = {}
        BY <3>2, <4>1, <4>2 DEF Visible, Wanted
      <4>6. x.split = Nil
        <5>1. ToSet(x.tabs) \subseteq {t}
          BY <2>3, <4>1
        <5> QED BY <1>1, <5>1 DEF Sane
      <4>7. x.kids \subseteq {t}
        <5>1. ~Visible(x) /\ Wanted(x) = ToSet(x.tabs) \cap {x.active}
          BY <4>6 DEF Visible, Wanted
        <5> QED BY <2>12, <5>1 DEF Sound
      <4>8. z.kids = {}
        BY <3>2, <4>7
      <4>9. Aims(z)
        BY <3>2, <3>5 DEF Aims
      <4> QED BY <2>3, <3>2, <3>4, <4>4, <4>5, <4>8, <4>9 DEF Sound, Keeps
    <3>6. CASE tabs # <<>>
      <4>1. Neighbour(tabs, i) \in ToSet(tabs)
        <5>1. Len(tabs) \in Nat /\ Len(tabs) # 0 /\ i \in Nat /\ i >= 1
          BY <2>2, <2>3, <3>6
        <5>2. PICK k \in 1 .. Len(tabs) : Neighbour(tabs, i) = tabs[k]
          BY <3>6, <5>1 DEF Neighbour
        <5> QED BY <2>3, <5>2, ListIs
      <4> QED BY <2>3, <3>2, <3>3, <3>4, <4>1, ActivateIs DEF Keeps
    <3> QED BY <3>5, <3>6
  <2> QED BY <2>11, <2>12
<1> QED BY <1>2, <1>3

(* reorder: the window shows what it showed.                                 *)
LEMMA MovedIs ==
  ASSUME NEW w, NEW x, Sound(w, x), NEW t \in ToSet(x.tabs), NEW n \in 1 .. Len(x.tabs)
  PROVE  /\ Sound(w, Moved(x, t, n)) /\ Keeps(x, Moved(x, t, n)) /\ ToSet(Moved(x, t, n).tabs) = ToSet(x.tabs)
<1>1. x \in WinType /\ x.tabs \in Seq(Tabs) /\ Sane(w, x)
  BY WinParts DEF Sound, Sane
<1>2. PICK i \in 1 .. Len(x.tabs) : i = IndexOf(x.tabs, t) /\ x.tabs[i] = t
  BY <1>1, IndexIs
<1>3. PICK rest \in Seq(Tabs) : /\ rest = RemoveAt(x.tabs, i) /\ IsInjective(rest) /\ ToSet(rest) = ToSet(x.tabs) \ {t}
                                /\ Len(rest) = Len(x.tabs) - 1
  <2>1. IsInjective(x.tabs)
    BY <1>1 DEF Sane
  <2>2. PICK l \in Seq(Tabs) : l = x.tabs
    BY <1>1
  <2>3. IsInjective(l) /\ i \in 1 .. Len(l)
    BY <1>2, <2>1, <2>2
  <2>4. /\ RemoveAt(l, i) \in Seq(Tabs) /\ IsInjective(RemoveAt(l, i)) /\ ToSet(RemoveAt(l, i)) = ToSet(l) \ {l[i]}
        /\ Len(RemoveAt(l, i)) = Len(l) - 1
    BY ONLY l \in Seq(Tabs), <2>3, RemovedIs
  <2> QED BY <1>2, <2>2, <2>4
<1>4. t \in Tabs /\ t \notin ToSet(rest) /\ n \in 1 .. Len(rest) + 1
  BY <1>1, <1>3, ListIs
<1>5. PICK tabs \in Seq(Tabs) : tabs = InsertAt(rest, n, t) /\ IsInjective(tabs) /\ ToSet(tabs) = ToSet(rest) \cup {t}
  BY <1>3, <1>4, InsertedIs
<1> DEFINE y == [x EXCEPT !.tabs = tabs]
<1>6. Moved(x, t, n) = y
  BY <1>2, <1>3, <1>5 DEF Moved
<1>7. y \in WinType
  BY <1>1 DEF WinType
<1>8. /\ y.tabs = tabs /\ y.active = x.active /\ y.split = x.split /\ y.kids = x.kids /\ y.overlay = x.overlay
      /\ y.divider = x.divider /\ y.target = x.target
  BY <1>1 DEF WinType
<1>9. ToSet(tabs) = ToSet(x.tabs)
  BY <1>3, <1>5
<1>10. tabs # <<>> /\ x.tabs # <<>>
  BY <1>1, <1>9, ListIs
<1> HIDE DEF y
<1>11. Visible(y) = Visible(x) /\ Wanted(y) = Wanted(x)
  BY <1>8, <1>9 DEF Visible, Wanted
<1>12. Sane(w, y) /\ Aims(y)
  BY <1>1, <1>5, <1>7, <1>8, <1>9, <1>10 DEF Sane, Sound, Aims
<1> QED BY <1>6, <1>8, <1>9, <1>11, <1>12 DEF Sound, Keeps

(* A window that is given a tab it does not have.                            *)
LEMMA GivenIs ==
  ASSUME NEW w, NEW x, Sound(w, x), NEW t, NEW tabs \in Seq(Tabs), IsInjective(tabs), ToSet(tabs) = ToSet(x.tabs) \cup {t}
  PROVE  LET y == [x EXCEPT !.tabs = tabs] IN
         /\ Sound(w, Activate(w, y, t)) /\ Keeps(x, Activate(w, y, t)) /\ Activate(w, y, t).tabs = tabs
         /\ x.tabs # <<>> => Sound(w, y) /\ Keeps(x, y)
<1>1. x \in WinType /\ x.tabs \in Seq(Tabs) /\ Sane(w, x)
  BY WinParts DEF Sound, Sane
<1> DEFINE y == [x EXCEPT !.tabs = tabs]
<1>2. y \in WinType
  BY <1>1 DEF WinType
<1>3. /\ y.tabs = tabs /\ y.active = x.active /\ y.split = x.split /\ y.kids = x.kids /\ y.overlay = x.overlay
      /\ y.divider = x.divider /\ y.target = x.target
  BY <1>1 DEF WinType
<1> HIDE DEF y
<1>4. Sane(w, y)
  BY <1>1, <1>2, <1>3 DEF Sane
<1>5. Sound(w, Activate(w, y, t)) /\ Keeps(x, Activate(w, y, t)) /\ Activate(w, y, t).tabs = tabs
  <2>1. t \in ToSet(y.tabs)
    BY <1>3
  <2> QED BY <1>3, <1>4, <2>1, ActivateIs DEF Keeps
<1>6. ASSUME x.tabs # <<>> PROVE Sound(w, y) /\ Keeps(x, y)
  <2>1. x.active \in ToSet(x.tabs)
    BY <1>6 DEF Sound, Aims
  <2>2. tabs # <<>>
    BY <2>1, ListIs
  <2>3. Aims(y)
    BY <1>3, <2>1, <2>2 DEF Aims
  <2>4. (Visible(y) <=> Visible(x)) /\ Wanted(y) = Wanted(x)
    <3>1. x.split # Nil => x.split[1] \in ToSet(x.tabs) /\ x.split[2] \in ToSet(x.tabs)
      BY <1>1 DEF Sane
    <3>2. y.split # Nil => y.split[1] \in ToSet(y.tabs) /\ y.split[2] \in ToSet(y.tabs)
      BY <1>4 DEF Sane
    <3>3. Visible(y) <=> Visible(x)
      BY <1>1, <1>2, <1>3, <3>1, <3>2, WantedIs
    <3>4. Visible(x) => Wanted(y) = Wanted(x)
      BY <1>1, <1>2, <1>3, <3>1, <3>2, <3>3, WantedIs
    <3>5. ToSet(y.tabs) \cap {y.active} = ToSet(x.tabs) \cap {x.active}
      BY <1>3, <2>1
    <3>6. ~Visible(x) => Wanted(y) = Wanted(x)
      BY <1>1, <1>2, <3>1, <3>2, <3>3, <3>5, WantedIs
    <3> QED BY <3>3, <3>4, <3>6
  <2> QED BY <1>3, <1>4, <2>3, <2>4 DEF Sound, Keeps
<1> QED BY <1>5, <1>6 DEF y

(* setSplit and unsplit.                                                     *)
LEMMA SplitIs ==
  ASSUME NEW w, NEW x, Sound(w, x), NEW a \in ToSet(x.tabs), NEW b \in ToSet(x.tabs), a # b
  PROVE  LET y == Activate(w, [x EXCEPT !.split = <<a, b>>], a) IN Sound(w, y) /\ Keeps(x, y) /\ y.tabs = x.tabs
<1>1. x \in WinType /\ x.tabs \in Seq(Tabs) /\ Sane(w, x)
  BY WinParts DEF Sound, Sane
<1>2. a \in Tabs /\ b \in Tabs
  BY <1>1, ListIs
<1> DEFINE z == [x EXCEPT !.split = <<a, b>>]
<1>3. z \in WinType
  BY <1>1, <1>2 DEF WinType
<1>4. /\ z.tabs = x.tabs /\ z.split = <<a, b>> /\ z.kids = x.kids /\ z.overlay = x.overlay
      /\ z.divider = x.divider /\ z.target = x.target
  BY <1>1 DEF WinType
<1> HIDE DEF z
<1>5. Sane(w, z)
  BY <1>1, <1>3, <1>4 DEF Sane
<1>6. Sound(w, Activate(w, z, a)) /\ Keeps(z, Activate(w, z, a)) /\ Activate(w, z, a).tabs = z.tabs
  BY <1>4, <1>5, ActivateIs
<1> QED BY <1>4, <1>6 DEF z, Keeps

(* The end of a split leaves the active tab alone on screen.                 *)
LEMMA UnsplitIs ==
  ASSUME NEW w, NEW x, Sound(w, x)
  PROVE  LET y == Reconcile(w, [x EXCEPT !.split = Nil]) IN Sound(w, y) /\ Keeps(x, y) /\ y.tabs = x.tabs
<1>1. x \in WinType /\ x.tabs \in Seq(Tabs) /\ Sane(w, x)
  BY WinParts DEF Sound, Sane
<1> DEFINE z == [x EXCEPT !.split = Nil]
<1>2. z \in WinType
  BY <1>1 DEF WinType
<1>3. /\ z.tabs = x.tabs /\ z.split = Nil /\ z.kids = x.kids /\ z.overlay = x.overlay
      /\ z.divider = x.divider /\ z.target = x.target /\ z.active = x.active
  BY <1>1 DEF WinType
<1> HIDE DEF z
<1>4. Sane(w, z) /\ Aims(z)
  BY <1>1, <1>2, <1>3 DEF Sane, Sound, Aims
<1>5. Sound(w, Reconcile(w, z)) /\ Keeps(z, Reconcile(w, z)) /\ Reconcile(w, z).tabs = z.tabs
  BY <1>4, ReconcileIs
<1> QED BY <1>3, <1>5 DEF z, Keeps

-----------------------------------------------------------------------------
(* All windows *)

(* What is outside the windows.                                              *)
TabRest ==
  /\ locked \in BOOLEAN /\ drag \in Tabs \cup {Nil} /\ menu \in MenuType \cup {Nil}
  /\ report \in Wins \cup {Nil} /\ host \in Wins \cup {Nil}

(* What is in wins is a window, and nothing else is.                         *)
WindowsSound ==
  /\ order \in Seq(Wins) /\ IsInjective(order) /\ DOMAIN win = Wins /\ win = [w \in Wins |-> win[w]]
  /\ \A w \in ToSet(order) : Sound(w, win[w])
  /\ \A w \in Wins : w \notin ToSet(order) => win[w] = Nil
  /\ closing \subseteq ToSet(order)

(* A tab is in one window, and alive while it is there.                      *)
TabsHoused ==
  /\ \A w, v \in ToSet(order), t \in Tabs : t \in ToSet(win[w].tabs) /\ t \in ToSet(win[v].tabs) => w = v
  /\ live \subseteq Tabs /\ \A t \in Tabs : t \in live <=> \E w \in ToSet(order) : t \in ToSet(win[w].tabs)
  /\ dividers = {w \in ToSet(order) : win[w].divider}

(* A window without tabs is on its way out, but for the one that signs in.   *)
BlankLeaves == \A w \in ToSet(order) : win[w].tabs = <<>> => w \in closing \/ (locked /\ w = order[1])

(* The strengthening of the tabs.                                            *)
TabInv == TabRest /\ WindowsSound /\ TabsHoused /\ BlankLeaves /\ LockCoversEveryWindow

(* A new window has no tabs, and its page is the lock's.                     *)
LEMMA NewWinIs ==
  ASSUME NEW w, NEW lock \in BOOLEAN
  PROVE  /\ Sound(w, NewWin(lock)) /\ NewWin(lock).tabs = <<>> /\ ~NewWin(lock).divider
         /\ lock => NewWin(lock).target = "auth"
<1> DEFINE x == NewWin(lock)
<1>1. /\ x.tabs = <<>> /\ x.active = Nil /\ x.split = Nil /\ x.kids = {} /\ x.overlay = "off" /\ x.divider = FALSE
      /\ x.target = Mode(lock)
  BY DEF NewWin
<1>2. x \in WinType
  BY DEF NewWin, WinType, Mode, Pages, Layers
<1> HIDE DEF x
<1>3. IsInjective(<<>>) /\ ToSet(<<>>) = {}
  BY DEF IsInjective, ToSet
<1>4. ~Visible(x) /\ Wanted(x) = {}
  BY <1>1, <1>3 DEF Visible, Wanted
<1>5. Sane(w, x) /\ Aims(x)
  BY <1>1, <1>2, <1>3 DEF Sane, Aims
<1> QED BY <1>1, <1>4, <1>5 DEF Sound, x, Mode

(* A program that starts has one window, at the lock.                        *)
LEMMA TabInvInit == TabInit => TabInv
<1> SUFFICES ASSUME TabInit PROVE TabInv
  OBVIOUS
<1>1. PICK w \in Wins : order = <<w>> /\ win = [v \in Wins |-> IF v = w THEN NewWin(TRUE) ELSE Nil]
  BY DEF TabInit
<1>2. /\ order \in Seq(Wins) /\ IsInjective(order) /\ ToSet(order) = {w} /\ order[1] = w
  <2>1. DOMAIN <<w>> = {1} /\ <<w>>[1] = w
    OBVIOUS
  <2> QED BY <1>1, <2>1 DEF IsInjective, ToSet
<1>3. /\ closing = {} /\ live = {} /\ dividers = {} /\ locked = TRUE
      /\ drag = Nil /\ menu = Nil /\ report = Nil /\ host = Nil
  BY DEF TabInit
<1>4. win[w] = NewWin(TRUE) /\ Sound(w, NewWin(TRUE)) /\ NewWin(TRUE).tabs = <<>> /\ ~NewWin(TRUE).divider /\ NewWin(TRUE).target = "auth"
  BY <1>1, NewWinIs
<1>5. ToSet(<<>>) = {}
  BY DEF ToSet
<1>6. WindowsSound
  BY <1>1, <1>2, <1>3, <1>4 DEF WindowsSound
<1>7. TabsHoused
  BY <1>2, <1>3, <1>4, <1>5 DEF TabsHoused
<1>8. BlankLeaves /\ LockCoversEveryWindow /\ TabRest
  BY <1>2, <1>3, <1>4 DEF BlankLeaves, LockCoversEveryWindow, TabRest
<1> QED BY <1>6, <1>7, <1>8 DEF TabInv

(* What the runs check follows from it.                                      *)
LEMMA TabInvHolds == TabInv => ViewsAreAccounted /\ NoBlankWindow /\ LockCoversEveryWindow
<1> SUFFICES ASSUME TabInv PROVE ViewsAreAccounted /\ NoBlankWindow /\ LockCoversEveryWindow
  OBVIOUS
<1>1. /\ order \in Seq(Wins) /\ ToSet(order) \subseteq Wins /\ \A w : Contains(order, w) <=> w \in ToSet(order)
  BY ListIs DEF TabInv, WindowsSound
<1>2. \A w \in ToSet(order) : Sound(w, win[w]) /\ win[w] \in WinType /\ win[w].tabs \in Seq(Tabs) /\ IsInjective(win[w].tabs)
  BY WinParts DEF TabInv, WindowsSound, Sound, Sane
<1>3. ASSUME NEW w \in ToSet(order)
      PROVE  /\ win[w].tabs # <<>> => Contains(win[w].tabs, win[w].active)
             /\ win[w].tabs = <<>> => win[w].active = Nil
  BY <1>2, ListIs DEF Sound, Aims
<1>4. NoBlankWindow
  BY <1>3 DEF NoBlankWindow, TabInv, BlankLeaves
<1>5. TabTypeOK
  BY <1>1, <1>2 DEF TabTypeOK, TabInv, WindowsSound, TabsHoused, TabRest
<1>6. OneHome
  <2>1. ASSUME NEW t \in Tabs
        PROVE  Cardinality({w \in ToSet(order) : Contains(win[w].tabs, t)}) = IF t \in live THEN 1 ELSE 0
    <3> DEFINE homes == {w \in ToSet(order) : Contains(win[w].tabs, t)}
    <3>1. \A w \in ToSet(order) : w \in homes <=> t \in ToSet(win[w].tabs)
      BY <1>2, ListIs
    <3>2. CASE t \in live
      <4>1. PICK w \in ToSet(order) : t \in ToSet(win[w].tabs)
        BY <3>2 DEF TabInv, TabsHoused
      <4>2. homes = {w}
        BY <3>1, <4>1 DEF TabInv, TabsHoused
      <4> HIDE DEF homes
      <4>3. Cardinality({w}) = 1
        BY FS_Singleton
      <4> QED BY <3>2, <4>2, <4>3 DEF homes
    <3>3. CASE t \notin live
      <4>1. homes = {}
        BY <3>1, <3>3 DEF TabInv, TabsHoused
      <4>2. Cardinality({}) = 0
        BY FS_EmptySet
      <4> QED BY <3>3, <4>1, <4>2
    <3> QED BY <3>2, <3>3
  <2> QED BY <1>2, <2>1 DEF OneHome, TabInv, TabsHoused
<1>7. ShownIsWanted /\ OverlayOnTop
  BY <1>2 DEF ShownIsWanted, OverlayOnTop, Sound, Sane
<1>8. SplitPairIsWhole
  <2> SUFFICES ASSUME NEW w \in ToSet(order), win[w].split # Nil
               PROVE  Cardinality(ToSet(win[w].split) \cap ToSet(win[w].tabs)) = 2
    BY DEF SplitPairIsWhole
  <2>1. PICK x \in WinType : x = win[w]
    BY <1>2
  <2>2. Sane(w, x)
    BY <1>2, <2>1 DEF Sound
  <2>3. PICK a \in Tabs, b \in Tabs : x.split = <<a, b>>
    BY <2>1, WinParts
  <2>4. a # b /\ a \in ToSet(x.tabs) /\ b \in ToSet(x.tabs)
    BY <2>1, <2>2, <2>3 DEF Sane
  <2>5. ToSet(<<a, b>>) = {a, b}
    <3>1. DOMAIN <<a, b>> = 1 .. 2 /\ <<a, b>>[1] = a /\ <<a, b>>[2] = b
      OBVIOUS
    <3> QED BY <3>1 DEF ToSet
  <2>6. ToSet(x.split) \cap ToSet(x.tabs) = {a} \cup {b}
    BY <2>3, <2>4, <2>5
  <2>7. IsFiniteSet({a}) /\ Cardinality({a}) = 1
    BY FS_Singleton
  <2>8. Cardinality({a} \cup {b}) = 2
    <3>1. PICK one : one = {a}
      OBVIOUS
    <3>2. IsFiniteSet(one) /\ Cardinality(one) = 1 /\ b \notin one
      BY <2>4, <2>7, <3>1
    <3>3. Cardinality(one \cup {b}) = Cardinality(one) + 1
      BY <3>2, FS_AddElement
    <3> QED BY <3>1, <3>2, <3>3
  <2> QED BY <2>1, <2>6, <2>8
<1> QED BY <1>4, <1>5, <1>6, <1>7, <1>8 DEF ViewsAreAccounted, TabInv

(* What an update of one window does: a tab the window gains or loses lives  *)
(* or dies with it.                                                          *)
LEMMA OneWindowHouses ==
  ASSUME TabInv, NEW w \in ToSet(order), NEW y, Sound(w, y), win[w].divider => y.divider,
         Update([win EXCEPT ![w] = y]), UNCHANGED <<order, host>>,
         live' = (live \ ToSet(win[w].tabs)) \cup ToSet(y.tabs),
         \A t \in ToSet(y.tabs) : t \in live => t \in ToSet(win[w].tabs),
         closing' \subseteq ToSet(order)
  PROVE  /\ WindowsSound' /\ TabsHoused'
         /\ win'[w] = y /\ \A v \in ToSet(order) : v # w => win'[v] = win[v]
<1>1. /\ ToSet(order) \subseteq Wins /\ order \in Seq(Wins) /\ DOMAIN win = Wins /\ w \in Wins
      /\ win = [v \in Wins |-> win[v]] /\ \A v \in Wins : v \notin ToSet(order) => win[v] = Nil
  BY ListIs DEF TabInv, WindowsSound
<1>2. /\ DOMAIN win' = Wins /\ win' = [v \in Wins |-> win'[v]] /\ win'[w] = y
      /\ \A v \in Wins : v # w => win'[v] = win[v]
  BY <1>1 DEF Update
<1>3. \A v \in ToSet(order) : Sound(v, win'[v])
  BY <1>1, <1>2 DEF TabInv, WindowsSound
<1>4. \A v \in ToSet(order) : win'[v] \in WinType /\ win'[v] # Nil
  BY <1>3, TabAssumption DEF Sound, Sane
<1>5. WindowsSound'
  <2>1. \A v \in ToSet(order) : Sound(v, win[v])'
    BY <1>3 DEF Sound, Sane
  <2> QED BY <1>1, <1>2, <2>1 DEF TabInv, WindowsSound
<1>6. y.tabs \in Seq(Tabs) /\ ToSet(y.tabs) \subseteq Tabs /\ live \subseteq Tabs
  <2>1. y \in WinType
    BY DEF Sound, Sane
  <2> QED BY <2>1, WinParts, ListIs DEF TabInv, TabsHoused
<1>7. TabsHoused'
  <2>1. ASSUME NEW u \in ToSet(order), NEW v \in ToSet(order), NEW t \in Tabs,
               t \in ToSet(win'[u].tabs), t \in ToSet(win'[v].tabs)
        PROVE  u = v
    <3>1. \A o \in ToSet(order) : t \in ToSet(win[o].tabs) => t \in live
      BY DEF TabInv, TabsHoused
    <3>2. \A o \in ToSet(order) : o # w => win'[o] = win[o]
      BY <1>1, <1>2
    <3> QED BY <1>2, <2>1, <3>1, <3>2 DEF TabInv, TabsHoused
  <2>2. ASSUME NEW t \in Tabs PROVE t \in live' <=> \E v \in ToSet(order) : t \in ToSet(win'[v].tabs)
    <3>1. \A o \in ToSet(order) : o # w => win'[o] = win[o]
      BY <1>1, <1>2
    <3>2. t \in live <=> \E v \in ToSet(order) : t \in ToSet(win[v].tabs)
      BY DEF TabInv, TabsHoused
    <3>3. \A o \in ToSet(order) : o # w /\ t \in ToSet(win[o].tabs) => t \notin ToSet(win[w].tabs)
      BY DEF TabInv, TabsHoused
    <3> QED BY <1>2, <3>1, <3>2, <3>3
  <2>3. dividers' = {v \in ToSet(order) : win'[v].divider}
    <3>1. dividers' = dividers \cup {v \in Wins : win'[v] # Nil /\ win'[v].divider}
      BY DEF Update
    <3>2. dividers = {v \in ToSet(order) : win[v].divider}
      BY DEF TabInv, TabsHoused
    <3>3. \A v \in ToSet(order) : win[v].divider => win'[v].divider
      BY <1>1, <1>2
    <3>4. \A v \in Wins : win'[v] # Nil => v \in ToSet(order)
      BY <1>1, <1>2
    <3> QED BY <1>1, <1>4, <3>1, <3>2, <3>3, <3>4
  <2>4. live' \subseteq Tabs
    BY <1>6
  <2> QED BY <2>1, <2>2, <2>3, <2>4 DEF TabsHoused
<1> QED BY <1>1, <1>2, <1>5, <1>7

(* The window keeps what it must.                                            *)
LEMMA OneWindowKeeps ==
  ASSUME TabInv, TabRest', NEW w \in ToSet(order), NEW y, Sound(w, y), Keeps(win[w], y),
         Update([win EXCEPT ![w] = y]), UNCHANGED <<order, host, locked>>,
         live' = (live \ ToSet(win[w].tabs)) \cup ToSet(y.tabs),
         \A t \in ToSet(y.tabs) : t \in live => t \in ToSet(win[w].tabs),
         closing \subseteq closing', closing' \subseteq ToSet(order),
         y.tabs = <<>> => w \in closing' \/ win[w].tabs = <<>>
  PROVE  TabInv'
<1>1. win[w].divider => y.divider
  BY DEF Keeps
<1>2. WindowsSound' /\ TabsHoused' /\ win'[w] = y /\ \A v \in ToSet(order) : v # w => win'[v] = win[v]
  BY <1>1, OneWindowHouses
<1>3. BlankLeaves'
  BY <1>2 DEF TabInv, BlankLeaves
<1>4. LockCoversEveryWindow'
  BY <1>2 DEF TabInv, LockCoversEveryWindow, Keeps
<1> QED BY <1>2, <1>3, <1>4 DEF TabInv

(* What adoptTab does to two windows, the second of which may be new.        *)
LEMMA AdoptKeeps ==
  ASSUME TabInv, TabRest', NEW from \in ToSet(order), NEW to \in Wins, to # from, NEW t \in ToSet(win[from].tabs),
         NEW x, Sound(to, x), NEW i \in 1 .. Len(x.tabs) + 1, NEW f,
         \/ order' = order /\ to \in ToSet(order) /\ x = win[to] /\ f = win
         \/ order' = Append(order, to) /\ to \notin ToSet(order) /\ x = NewWin(locked) /\ f = [win EXCEPT ![to] = x],
         Adopt(from, f, to, t, i), UNCHANGED <<live, host, locked>>
  PROVE  TabInv'
<1> DEFINE y == Without(from, win[from], t)
           tabs == InsertAt(x.tabs, i, t)
           z == Activate(to, [x EXCEPT !.tabs = tabs], t)
<1>1. /\ ToSet(order) \subseteq Wins /\ order \in Seq(Wins) /\ IsInjective(order) /\ DOMAIN win = Wins /\ from \in Wins
      /\ win = [v \in Wins |-> win[v]] /\ \A v \in Wins : v \notin ToSet(order) => win[v] = Nil
      /\ closing \subseteq ToSet(order) /\ \A v \in ToSet(order) : Sound(v, win[v])
  BY ListIs DEF TabInv, WindowsSound
<1>2. \A v \in ToSet(order) : win[v] \in WinType /\ win[v].tabs \in Seq(Tabs) /\ ToSet(win[v].tabs) \subseteq Tabs
  <2>1. \A v \in ToSet(order) : win[v] \in WinType
    BY <1>1 DEF Sound, Sane
  <2>2. \A v \in ToSet(order) : win[v].tabs \in Seq(Tabs)
    BY <2>1, WinParts
  <2> QED BY <2>1, <2>2, ListIs
<1>3. x \in WinType /\ x.tabs \in Seq(Tabs) /\ IsInjective(x.tabs) /\ ToSet(x.tabs) \subseteq Tabs /\ t \in Tabs
  BY <1>2, WinParts, ListIs DEF Sound, Sane
<1>4. locked \in BOOLEAN
  BY DEF TabInv, TabRest
<1>5. to \notin ToSet(order) => x.tabs = <<>> /\ ~x.divider /\ (locked => x.target = "auth") /\ ToSet(x.tabs) = {}
  BY <1>3, <1>4, NewWinIs, ListIs
<1>6. t \notin ToSet(x.tabs)
  BY <1>3, <1>5 DEF TabInv, TabsHoused
<1>7. tabs \in Seq(Tabs) /\ IsInjective(tabs) /\ ToSet(tabs) = ToSet(x.tabs) \cup {t}
  BY <1>3, <1>6, InsertedIs
<1> HIDE DEF tabs
<1>8. Sound(to, z) /\ Keeps(x, z) /\ z.tabs = tabs
  BY <1>7, GivenIs
<1>9. Sound(from, y) /\ Keeps(win[from], y) /\ ToSet(y.tabs) = ToSet(win[from].tabs) \ {t}
  <2>1. PICK o : o = win[from]
    OBVIOUS
  <2>2. Sound(from, o)
    BY <1>1, <2>1
  <2>3. Sound(from, Without(from, o, t)) /\ Keeps(o, Without(from, o, t)) /\ ToSet(Without(from, o, t).tabs) = ToSet(o.tabs) \ {t}
    BY <2>2, WithoutIs
  <2> QED BY <2>1, <2>3
<1>10. f[from] = win[from] /\ f[to] = x /\ DOMAIN f = Wins /\ \A v \in Wins : v # to => f[v] = win[v]
  BY <1>1
<1> DEFINE g == [f EXCEPT ![from] = y, ![to] = z]
<1>11. Update(g) /\ CloseIfEmpty(from)
  BY <1>10 DEF Adopt, tabs
<1> HIDE DEF y, z
<1>12. /\ DOMAIN g = Wins /\ g = [v \in Wins |-> g[v]] /\ g[from] = y /\ g[to] = z
       /\ \A v \in Wins : v # to /\ v # from => g[v] = win[v]
  BY <1>1, <1>10
<1> HIDE DEF g
<1>13. win' = g /\ dividers' = dividers \cup {v \in Wins : g[v] # Nil /\ g[v].divider}
  BY <1>11 DEF Update
<1>14. closing' = IF y.tabs = <<>> THEN closing \cup {from} ELSE closing
  BY <1>11, <1>12, <1>13 DEF CloseIfEmpty
<1>15. /\ order' \in Seq(Wins) /\ IsInjective(order') /\ ToSet(order') = ToSet(order) \cup {to}
       /\ order'[1] = order[1]
  <2>1. order # <<>>
    BY <1>1, ListIs
  <2>2. CASE order' = order
    BY <1>1, <2>2
  <2>3. CASE order' = Append(order, to) /\ to \notin ToSet(order)
    BY <1>1, <2>1, <2>3, AppendedIs
  <2> QED BY <2>2, <2>3
<1>16. \A v \in ToSet(order') : v = to \/ v = from \/ (v \in ToSet(order) /\ v \in Wins /\ g[v] = win[v])
  BY <1>1, <1>12, <1>15
<1>17. \A v \in ToSet(order') : Sound(v, g[v])
  BY <1>1, <1>8, <1>9, <1>12, <1>16
<1>18. WindowsSound'
  <2>1. \A v \in ToSet(order') : Sound(v, win[v])'
    BY <1>13, <1>17 DEF Sound, Sane
  <2>2. \A v \in Wins : v \notin ToSet(order') => win'[v] = Nil
    BY <1>1, <1>12, <1>13, <1>15
  <2>3. closing' \subseteq ToSet(order')
    BY <1>1, <1>14, <1>15
  <2> QED BY <1>12, <1>13, <1>15, <2>1, <2>2, <2>3 DEF WindowsSound
<1>19. \A v \in ToSet(order), u \in Tabs : u \in ToSet(win[v].tabs) => u \in live
  BY DEF TabInv, TabsHoused
<1>20. to \in ToSet(order) => x = win[to]
  OBVIOUS
<1>21. TabsHoused'
  <2>1. ASSUME NEW u \in Tabs, NEW v \in ToSet(order'), u \in ToSet(g[v].tabs)
        PROVE  IF u = t THEN v = to ELSE v \in ToSet(order) /\ u \in ToSet(win[v].tabs)
    <3>1. CASE v = to
      BY <1>5, <1>7, <1>8, <1>12, <1>20, <2>1, <3>1
    <3>2. CASE v = from
      BY <1>9, <1>12, <2>1, <3>2
    <3>3. CASE v # to /\ v # from
      <4>1. g[v] = win[v] /\ v \in ToSet(order)
        BY <1>16, <3>3
      <4> QED BY <2>1, <3>3, <4>1 DEF TabInv, TabsHoused
    <3> QED BY <3>1, <3>2, <3>3
  <2>2. ASSUME NEW v \in ToSet(order), NEW u \in Tabs, u \in ToSet(win[v].tabs), u # t PROVE u \in ToSet(g[v].tabs)
    BY <1>1, <1>7, <1>8, <1>9, <1>12, <1>20, <2>2
  <2>3. t \in ToSet(g[to].tabs) /\ to \in ToSet(order') /\ t \in live
    BY <1>7, <1>8, <1>12, <1>15, <1>19, <1>3
  <2>4. ASSUME NEW u \in ToSet(order'), NEW v \in ToSet(order'), NEW s \in Tabs, s \in ToSet(g[u].tabs), s \in ToSet(g[v].tabs)
        PROVE  u = v
    BY <2>1, <2>4 DEF TabInv, TabsHoused
  <2>5. ASSUME NEW u \in Tabs PROVE u \in live <=> \E v \in ToSet(order') : u \in ToSet(g[v].tabs)
    <3>1. u \in live <=> \E v \in ToSet(order) : u \in ToSet(win[v].tabs)
      BY DEF TabInv, TabsHoused
    <3>2. ToSet(order) \subseteq ToSet(order')
      BY <1>15
    <3> QED BY <2>1, <2>2, <2>3, <3>1, <3>2
  <2>6. dividers' = {v \in ToSet(order') : g[v].divider}
    <3>1. dividers = {v \in ToSet(order) : win[v].divider}
      BY DEF TabInv, TabsHoused
    <3>2. \A v \in ToSet(order) : win[v].divider => g[v].divider
      BY <1>8, <1>9, <1>12, <1>16, <1>15, <1>20 DEF Keeps
    <3>3. \A v \in Wins : v \notin ToSet(order') => g[v] = Nil
      BY <1>1, <1>12, <1>15
    <3>4. \A v \in ToSet(order') : g[v] # Nil /\ v \in Wins
      BY <1>1, <1>15, <1>17, TabAssumption DEF Sound, Sane
    <3> QED BY <1>13, <1>15, <3>1, <3>2, <3>3, <3>4
  <2>7. live' \subseteq Tabs
    BY DEF TabInv, TabsHoused
  <2> QED BY <1>13, <2>4, <2>5, <2>6, <2>7 DEF TabsHoused
<1>22. BlankLeaves'
  <2> SUFFICES ASSUME NEW v \in ToSet(order'), g[v].tabs = <<>> PROVE v \in closing' \/ (locked /\ v = order[1])
    BY <1>13, <1>15 DEF BlankLeaves
  <2>1. v # to
    <3>1. tabs # <<>>
      <4>1. t \in ToSet(tabs)
        BY <1>7
      <4> QED BY <1>7, <4>1, ListIs
    <3> QED BY <1>8, <1>12, <3>1
  <2>2. v = from => v \in closing'
    BY <1>12, <1>14
  <2>3. v # from => g[v] = win[v] /\ v \in ToSet(order)
    BY <1>16, <2>1
  <2>4. closing \subseteq closing'
    BY <1>14
  <2> QED BY <2>2, <2>3, <2>4 DEF TabInv, BlankLeaves
<1>23. LockCoversEveryWindow'
  <2> SUFFICES ASSUME locked, NEW v \in ToSet(order') PROVE v \in closing' \/ g[v].target = "auth"
    BY <1>13 DEF LockCoversEveryWindow
  <2>1. closing \subseteq closing'
    BY <1>14
  <2>2. v \in ToSet(order) => v \in closing \/ win[v].target = "auth"
    BY DEF TabInv, LockCoversEveryWindow
  <2> QED BY <1>5, <1>8, <1>9, <1>12, <1>15, <1>16, <1>20, <2>1, <2>2 DEF Keeps
<1> QED BY <1>18, <1>21, <1>22, <1>23 DEF TabInv

(* A window of wins, as the lemmas about one window take it.                 *)
LEMMA OfWins ==
  ASSUME TabInv
  PROVE  /\ \A w : Contains(order, w) <=> w \in ToSet(order)
         /\ \A w \in ToSet(order) : /\ w \in Wins /\ Sound(w, win[w]) /\ win[w] \in WinType /\ win[w].tabs \in Seq(Tabs)
                                    /\ IsInjective(win[w].tabs) /\ ToSet(win[w].tabs) \subseteq Tabs
                                    /\ \A t : Contains(win[w].tabs, t) <=> t \in ToSet(win[w].tabs)
                                    /\ Len(win[w].tabs) \in Nat
<1>1. order \in Seq(Wins) /\ \A w \in ToSet(order) : Sound(w, win[w])
  BY DEF TabInv, WindowsSound
<1>2. \A w \in ToSet(order) : win[w] \in WinType /\ IsInjective(win[w].tabs)
  BY <1>1 DEF Sound, Sane
<1>3. \A w \in ToSet(order) : win[w].tabs \in Seq(Tabs)
  BY <1>2, WinParts
<1>4. \A w : Contains(order, w) <=> w \in ToSet(order)
  BY <1>1, ListIs
<1>5. ToSet(order) \subseteq Wins
  BY <1>1, ListIs
<1> QED BY <1>1, <1>2, <1>3, <1>4, <1>5, ListIs

(* A tab that is opened is one that no window has.                           *)
LEMMA OpenKeeps ==
  ASSUME TabInv, TabRest', NEW w \in ToSet(order), NEW activate \in BOOLEAN, activate \/ win[w].tabs # <<>>,
         Open(w, activate), UNCHANGED <<order, closing, host, locked>>
  PROVE  TabInv'
<1>1. PICK t \in FreshTabs :
        /\ Update([win EXCEPT ![w] = IF activate THEN Activate(w, [win[w] EXCEPT !.tabs = Append(win[w].tabs, t)], t)
                                     ELSE [win[w] EXCEPT !.tabs = Append(win[w].tabs, t)]])
        /\ live' = live \cup {t}
  BY DEF Open
<1>2. t \in Tabs /\ t \notin live
  BY DEF FreshTabs
<1>3. PICK x \in WinType : x = win[w] /\ Sound(w, x) /\ x.tabs \in Seq(Tabs) /\ IsInjective(x.tabs) /\ ToSet(x.tabs) \subseteq Tabs
  BY OfWins
<1>4. \A u \in ToSet(x.tabs) : u \in live
  BY <1>3 DEF TabInv, TabsHoused
<1>5. PICK tabs \in Seq(Tabs) : tabs = Append(x.tabs, t) /\ IsInjective(tabs) /\ ToSet(tabs) = ToSet(x.tabs) \cup {t}
  <2>1. t \notin ToSet(x.tabs)
    BY <1>2, <1>4
  <2>2. PICK l \in Seq(Tabs) : l = x.tabs
    BY <1>3
  <2>3. Append(l, t) \in Seq(Tabs) /\ IsInjective(Append(l, t)) /\ ToSet(Append(l, t)) = ToSet(l) \cup {t}
    BY <1>2, <1>3, <2>1, <2>2, AppendedIs
  <2> QED BY <2>2, <2>3
<1> DEFINE y == [x EXCEPT !.tabs = tabs]
<1>6. /\ Sound(w, Activate(w, y, t)) /\ Keeps(x, Activate(w, y, t)) /\ Activate(w, y, t).tabs = tabs
      /\ x.tabs # <<>> => Sound(w, y) /\ Keeps(x, y)
  <2>1. Sound(w, x)
    BY <1>3
  <2>2. IsInjective(tabs) /\ ToSet(tabs) = ToSet(x.tabs) \cup {t}
    BY <1>5
  <2> QED BY <2>1, <2>2, GivenIs
<1>7. y.tabs = tabs
  BY <1>3 DEF WinType
<1> HIDE DEF y
<1>8. PICK z : z = IF activate THEN Activate(w, y, t) ELSE y
  OBVIOUS
<1>9. Sound(w, z) /\ Keeps(x, z) /\ z.tabs = tabs
  BY <1>3, <1>6, <1>7, <1>8
<1>10. Update([win EXCEPT ![w] = z])
  BY <1>1, <1>3, <1>5, <1>8 DEF y
<1>11. tabs # <<>>
  <2>1. t \in ToSet(tabs)
    BY <1>5
  <2> QED BY <2>1, ListIs
<1>12. live' = (live \ ToSet(win[w].tabs)) \cup ToSet(z.tabs)
  BY <1>1, <1>3, <1>4, <1>5, <1>9
<1>13. \A u \in ToSet(z.tabs) : u \in live => u \in ToSet(win[w].tabs)
  BY <1>2, <1>3, <1>5, <1>9
<1>14. closing \subseteq ToSet(order)
  BY DEF TabInv, WindowsSound
<1> QED BY <1>3, <1>9, <1>10, <1>11, <1>12, <1>13, <1>14, OneWindowKeeps

(* The states of a window while a list of tabs is closed.                    *)
Closes(w, x, ts, f) == f = [n \in 0 .. Len(ts) |-> IF n = 0 THEN x ELSE Without(w, f[n - 1], ts[n])]

(* Several tabs that are closed one after the other.                         *)
LEMMA WithoutEachIs ==
  ASSUME NEW w, NEW x, Sound(w, x), NEW ts \in Seq(Tabs), NEW f, Closes(w, x, ts, f)
  PROVE  Sound(w, f[Len(ts)]) /\ Keeps(x, f[Len(ts)]) /\ ToSet(f[Len(ts)].tabs) = ToSet(x.tabs) \ ToSet(ts)
<1> DEFINE L == Len(ts)
           left(n) == ToSet(x.tabs) \ {ts[i] : i \in 1 .. n}
           good(n) == Sound(w, f[n]) /\ Keeps(x, f[n]) /\ ToSet(f[n].tabs) = left(n)
           bad == {n \in 0 .. L : ~good(n)}
<1>1. L \in Nat /\ DOMAIN ts = 1 .. L /\ \A n \in 0 .. L : f[n] = IF n = 0 THEN x ELSE Without(w, f[n - 1], ts[n])
  BY DEF Closes
<1>2. bad = {}
  <2> SUFFICES ASSUME bad # {} PROVE FALSE
    OBVIOUS
  <2>1. PICK m \in bad : \A n \in bad : m <= n
    <3>1. bad \subseteq Nat
      BY <1>1
    <3> HIDE DEF bad
    <3> QED BY <3>1, Least
  <2>2. CASE m = 0
    <3>1. f[0] = x
      BY <1>1, <2>2
    <3>2. {ts[i] : i \in 1 .. 0} = {}
      OBVIOUS
    <3>3. good(0)
      BY <3>1, <3>2 DEF Keeps
    <3> QED BY <2>1, <2>2, <3>3
  <2>3. CASE m # 0
    <3>1. m \in 1 .. L /\ m - 1 \in 0 .. L /\ ~(m <= m - 1)
      BY <1>1, <2>1, <2>3
    <3>2. good(m - 1)
      BY <2>1, <3>1
    <3>3. PICK y : y = f[m - 1]
      OBVIOUS
    <3>4. f[m] = Without(w, y, ts[m])
      BY <1>1, <3>1, <3>3
    <3>10. PICK t : t = ts[m]
      OBVIOUS
    <3>5. Sound(w, y) /\ Keeps(x, y) /\ ToSet(y.tabs) = left(m - 1)
      BY <3>2, <3>3
    <3>6. Sound(w, f[m]) /\ Keeps(y, f[m]) /\ ToSet(f[m].tabs) = left(m - 1) \ {ts[m]}
      <4> HIDE DEF left, good, bad
      <4>1. Sound(w, y)
        BY <3>5
      <4>2. Sound(w, Without(w, y, t)) /\ Keeps(y, Without(w, y, t)) /\ ToSet(Without(w, y, t).tabs) = ToSet(y.tabs) \ {t}
        BY <4>1, WithoutIs
      <4> QED BY <3>4, <3>5, <3>10, <4>2
    <3>7. left(m) = left(m - 1) \ {ts[m]}
      <4>1. 1 .. m = 1 .. m - 1 \cup {m}
        BY <3>1
      <4> QED BY <4>1
    <3>8. Keeps(x, f[m])
      BY <3>5, <3>6 DEF Keeps
    <3>9. good(m)
      <4> HIDE DEF left
      <4> QED BY <3>6, <3>7, <3>8
    <3> QED BY <2>1, <3>9
  <2> QED BY <2>2, <2>3
<1>3. good(L)
  <2>1. L \in 0 .. L
    BY <1>1
  <2> HIDE DEF good
  <2> QED BY <1>2, <2>1
<1>4. ToSet(ts) = {ts[i] : i \in 1 .. L}
  BY <1>1 DEF ToSet
<1> QED BY <1>3, <1>4

(* The recursion over the list is well defined: were there a first length it *)
(* could not reach, the values before it would define it.                    *)
LEMMA WithoutAllRead ==
  ASSUME NEW w, NEW x, NEW ts \in Seq(Tabs)
  PROVE  \E f : Closes(w, x, ts, f) /\ WithoutAll(w, x, ts) = f[Len(ts)]
<1> DEFINE L == Len(ts)
           step(f, n) == IF n = 0 THEN x ELSE Without(w, f[n - 1], ts[n])
           reads(f, m) == f = [n \in 0 .. m |-> step(f, n)]
           bad == {m \in 0 .. L : ~\E f : reads(f, m)}
<1>1. L \in Nat
  OBVIOUS
<1>2. bad = {}
  <2> SUFFICES ASSUME bad # {} PROVE FALSE
    OBVIOUS
  <2>1. PICK m \in bad : \A o \in bad : m <= o
    <3>1. bad \subseteq Nat
      BY <1>1
    <3> HIDE DEF bad
    <3> QED BY <3>1, Least
  <2>2. CASE m = 0
    <3> DEFINE f == [n \in 0 .. 0 |-> x]
    <3>1. reads(f, 0)
      OBVIOUS
    <3> QED BY <2>1, <2>2, <3>1
  <2>3. CASE m # 0
    <3>1. m \in 1 .. L /\ m - 1 \in 0 .. L /\ ~(m <= m - 1)
      BY <1>1, <2>1, <2>3
    <3>2. m - 1 \notin bad
      BY <2>1, <3>1
    <3>3. PICK f : reads(f, m - 1)
      BY <3>1, <3>2
    <3> DEFINE g == [n \in 0 .. m |-> IF n = m THEN step(f, m) ELSE f[n]]
    <3>4. \A n \in 0 .. m - 1 : f[n] = step(f, n)
      BY <3>3
    <3> HIDE DEF reads
    <3>5. ASSUME NEW n \in 0 .. m PROVE g[n] = step(g, n)
      <4>1. n # 0 => g[n - 1] = f[n - 1]
        BY <3>1, n - 1 \in 0 .. m \/ n = 0
      <4>2. n # m => n \in 0 .. m - 1
        BY <3>1
      <4> QED BY <3>4, <4>1, <4>2
    <3>6. reads(g, m)
      BY <3>5 DEF reads
    <3> HIDE DEF g
    <3> QED BY <2>1, <3>6
  <2> QED BY <2>2, <2>3
<1>3. \E f : reads(f, L)
  BY <1>1, <1>2
<1> DEFINE best == CHOOSE f : reads(f, L)
<1>4. reads(best, L)
  BY <1>3
<1>5. WithoutAll(w, x, ts) = best[L]
  BY DEF WithoutAll
<1> HIDE DEF best
<1> QED BY <1>4, <1>5 DEF Closes

(* The handlers that close tabs; a window left without any is closed.        *)
LEMMA CloseAllKeeps ==
  ASSUME TabInv, TabRest', NEW w \in ToSet(order), NEW ts \in Seq(Tabs), CloseAll(w, ts), UNCHANGED <<order, host, locked>>
  PROVE  TabInv'
<1>1. PICK x \in WinType : x = win[w] /\ Sound(w, x)
  BY OfWins
<1>2. PICK f : Closes(w, x, ts, f) /\ WithoutAll(w, x, ts) = f[Len(ts)]
  BY WithoutAllRead
<1>3. PICK y : y = WithoutAll(w, x, ts)
  OBVIOUS
<1>4. Sound(w, y) /\ Keeps(x, y) /\ ToSet(y.tabs) = ToSet(x.tabs) \ ToSet(ts)
  <2>1. Closes(w, x, ts, f)
    BY <1>2
  <2>2. Sound(w, x)
    BY <1>1
  <2>3. Sound(w, f[Len(ts)]) /\ Keeps(x, f[Len(ts)]) /\ ToSet(f[Len(ts)].tabs) = ToSet(x.tabs) \ ToSet(ts)
    BY <2>1, <2>2, WithoutEachIs
  <2> QED BY <1>2, <1>3, <2>3
<1>5. /\ Update([win EXCEPT ![w] = y])
      /\ live' = live \ (ToSet(ts) \cap ToSet(x.tabs)) /\ CloseIfEmpty(w)
  BY <1>1, <1>3 DEF CloseAll
<1>6. w \in DOMAIN win /\ closing \subseteq ToSet(order)
  BY OfWins DEF TabInv, WindowsSound
<1>7. closing' = IF y.tabs = <<>> THEN closing \cup {w} ELSE closing
  BY <1>5, <1>6 DEF Update, CloseIfEmpty
<1>8. \A u \in ToSet(x.tabs) : u \in live
  BY <1>1, OfWins DEF TabInv, TabsHoused
<1>9. live' = (live \ ToSet(win[w].tabs)) \cup ToSet(y.tabs)
  BY <1>1, <1>4, <1>5, <1>8
<1>10. \A t \in ToSet(y.tabs) : t \in live => t \in ToSet(win[w].tabs)
  BY <1>1, <1>4
<1>11. Keeps(win[w], y)
  BY <1>1, <1>4
<1> QED BY <1>4, <1>5, <1>6, <1>7, <1>9, <1>10, <1>11, OneWindowKeeps

(* A window that keeps its tabs.                                             *)
LEMMA SameTabsKeeps ==
  ASSUME TabInv, TabRest', NEW w \in ToSet(order), NEW y, Sound(w, y), Keeps(win[w], y),
         ToSet(y.tabs) = ToSet(win[w].tabs), Update([win EXCEPT ![w] = y]),
         UNCHANGED <<order, closing, live, host, locked>>
  PROVE  TabInv'
<1>1. \A u \in ToSet(win[w].tabs) : u \in live
  BY OfWins DEF TabInv, TabsHoused
<1>2. live' = (live \ ToSet(win[w].tabs)) \cup ToSet(y.tabs)
  BY <1>1
<1>3. y.tabs = <<>> => win[w].tabs = <<>>
  <2>1. ToSet(<<>>) = {}
    BY DEF ToSet
  <2> QED BY <2>1, OfWins, ListIs
<1>4. closing \subseteq closing' /\ closing' \subseteq ToSet(order)
  BY DEF TabInv, WindowsSound
<1>5. \A t \in ToSet(y.tabs) : t \in live => t \in ToSet(win[w].tabs)
  OBVIOUS
<1> QED BY <1>2, <1>3, <1>4, <1>5, OneWindowKeeps

(* Windows that stay as they are, though some may be asked to close.         *)
LEMMA SameWindowsKeep ==
  ASSUME TabInv, TabRest', UNCHANGED <<order, win, live, dividers, locked>>,
         \A w \in ToSet(order) : win[w].overlay = "top" => host' = host,
         closing \subseteq closing', closing' \subseteq ToSet(order)
  PROVE  TabInv'
<1>1. \A w \in ToSet(order) : Sound(w, win[w])'
  <2> SUFFICES ASSUME NEW w \in ToSet(order) PROVE Sound(w, win[w])'
    OBVIOUS
  <2>1. Sound(w, win[w])
    BY OfWins
  <2> QED BY <2>1 DEF Sound, Sane
<1>2. WindowsSound'
  BY <1>1 DEF TabInv, WindowsSound
<1>3. TabsHoused' /\ BlankLeaves' /\ LockCoversEveryWindow'
  BY DEF TabInv, TabsHoused, BlankLeaves, LockCoversEveryWindow
<1> QED BY <1>2, <1>3 DEF TabInv

(* setSplit, of two tabs that the window still has.                          *)
LEMMA SetSplitKeeps ==
  ASSUME TabInv, TabRest', NEW w, NEW a, NEW b, SetSplit(w, a, b), UNCHANGED <<order, closing, live, host, locked>>
  PROVE  TabInv'
<1>1. w \in ToSet(order) /\ a \in ToSet(win[w].tabs) /\ b \in ToSet(win[w].tabs) /\ a # b
  BY OfWins DEF SetSplit, Holds
<1>2. PICK x \in WinType : x = win[w] /\ Sound(w, x)
  BY <1>1, OfWins
<1>3. PICK y : y = Activate(w, [x EXCEPT !.split = <<a, b>>], a)
  OBVIOUS
<1>4. Sound(w, y) /\ Keeps(x, y) /\ y.tabs = x.tabs
  <2>1. Sound(w, x) /\ a \in ToSet(x.tabs) /\ b \in ToSet(x.tabs) /\ a # b
    BY <1>1, <1>2
  <2> QED BY <1>3, <2>1, SplitIs
<1>5. Update([win EXCEPT ![w] = y])
  BY <1>2, <1>3 DEF SetSplit
<1>6. Keeps(win[w], y) /\ ToSet(y.tabs) = ToSet(win[w].tabs)
  BY <1>2, <1>4
<1> QED BY <1>1, <1>4, <1>5, <1>6, SameTabsKeeps

(* A click on a tab.                                                         *)
LEMMA ActivateKeeps ==
  ASSUME TabInv, TabRest', NEW w \in ToSet(order), NEW t \in ToSet(win[w].tabs),
         Update([win EXCEPT ![w] = Activate(w, win[w], t)]), UNCHANGED <<order, closing, live, host, locked>>
  PROVE  TabInv'
<1>1. PICK x \in WinType : x = win[w] /\ Sound(w, x)
  BY OfWins
<1>2. PICK y : y = Activate(w, x, t)
  OBVIOUS
<1>3. Sound(w, y) /\ Keeps(x, y) /\ y.tabs = x.tabs
  <2>1. Sane(w, x) /\ t \in ToSet(x.tabs)
    BY <1>1 DEF Sound
  <2> QED BY <1>2, <2>1, ActivateIs
<1>4. Update([win EXCEPT ![w] = y]) /\ Keeps(win[w], y) /\ ToSet(y.tabs) = ToSet(win[w].tabs)
  BY <1>1, <1>2, <1>3
<1> QED BY <1>3, <1>4, SameTabsKeeps

(* A tab that goes elsewhere in its strip.                                   *)
LEMMA MoveKeeps ==
  ASSUME TabInv, TabRest', NEW w \in ToSet(order), NEW t \in ToSet(win[w].tabs), NEW i \in 1 .. Len(win[w].tabs),
         Update([win EXCEPT ![w] = Moved(win[w], t, i)]), UNCHANGED <<order, closing, live, host, locked>>
  PROVE  TabInv'
<1>1. PICK x \in WinType : x = win[w] /\ Sound(w, x)
  BY OfWins
<1>2. PICK y : y = Moved(x, t, i)
  OBVIOUS
<1>3. Sound(w, y) /\ Keeps(x, y) /\ ToSet(y.tabs) = ToSet(x.tabs)
  <2>1. Sound(w, x) /\ t \in ToSet(x.tabs) /\ i \in 1 .. Len(x.tabs)
    BY <1>1
  <2> QED BY <1>2, <2>1, MovedIs
<1>4. Update([win EXCEPT ![w] = y]) /\ Keeps(win[w], y) /\ ToSet(y.tabs) = ToSet(win[w].tabs)
  BY <1>1, <1>2, <1>3
<1> QED BY <1>3, <1>4, SameTabsKeeps

(* The handler that ends a split.                                            *)
LEMMA UnsplitKeeps ==
  ASSUME TabInv, NEW w, Unsplit(w)
  PROVE  TabInv'
<1>1. w \in ToSet(order)
  BY OfWins DEF Unsplit, FromStrip
<1>2. PICK x \in WinType : x = win[w] /\ Sound(w, x)
  BY <1>1, OfWins
<1>3. PICK y : y = Reconcile(w, [x EXCEPT !.split = Nil])
  OBVIOUS
<1>4. Sound(w, y) /\ Keeps(x, y) /\ y.tabs = x.tabs
  BY <1>2, <1>3, UnsplitIs
<1>5. Update([win EXCEPT ![w] = y]) /\ Keeps(win[w], y) /\ ToSet(y.tabs) = ToSet(win[w].tabs)
      /\ UNCHANGED <<order, closing, live, host, locked>>
  BY <1>2, <1>3, <1>4 DEF Unsplit
<1>6. TabRest'
  BY DEF Unsplit, TabInv, TabRest
<1> QED BY <1>1, <1>4, <1>5, <1>6, SameTabsKeeps

(* detachToNewWindow: the new window is in wins before the old one may go.   *)
LEMMA DetachKeeps ==
  ASSUME TabInv, TabRest', NEW from \in ToSet(order), NEW t \in ToSet(win[from].tabs), Detach(from, t),
         UNCHANGED <<live, host, locked>>
  PROVE  TabInv'
<1>1. CASE Len(win[from].tabs) = 1
  <2>1. UNCHANGED <<order, win, closing, dividers>> /\ closing \subseteq ToSet(order)
    BY <1>1 DEF Detach, TabInv, WindowsSound
  <2> QED BY <2>1, SameWindowsKeep
<1>2. CASE Len(win[from].tabs) # 1
  <2>1. PICK n \in FreshWins : order' = Append(order, n) /\ Adopt(from, [win EXCEPT ![n] = NewWin(locked)], n, t, 1)
    BY <1>2 DEF Detach
  <2>2. n \in Wins /\ n \notin ToSet(order) /\ n # from
    BY <2>1 DEF FreshWins
  <2>3. PICK x : x = NewWin(locked)
    OBVIOUS
  <2>4. Sound(n, x) /\ x.tabs = <<>>
    <3>1. PICK lock \in BOOLEAN : lock = locked
      BY DEF TabInv, TabRest
    <3> QED BY <2>3, <3>1, NewWinIs
  <2>5. 1 \in 1 .. Len(x.tabs) + 1
    BY <2>4
  <2>6. PICK f : f = [win EXCEPT ![n] = x]
    OBVIOUS
  <2>7. Adopt(from, f, n, t, 1)
    BY <2>1, <2>3, <2>6
  <2> QED BY <2>1, <2>2, <2>3, <2>4, <2>5, <2>6, <2>7, AdoptKeeps
<1> QED BY <1>1, <1>2

(* A tab that is dropped on the strip of another window.                     *)
LEMMA DragIntoKeeps ==
  ASSUME TabInv, NEW from \in Wins, NEW to \in Wins, NEW i \in Int, i >= 1, DragInto(from, to, i)
  PROVE  TabInv'
<1>1. from \in ToSet(order) /\ to \in ToSet(order) /\ to # from /\ drag \in ToSet(win[from].tabs)
  BY OfWins DEF DragInto, Holds
<1>2. PICK t \in ToSet(win[from].tabs) : t = drag
  BY <1>1
<1>3. PICK x : x = win[to]
  OBVIOUS
<1>4. Sound(to, x) /\ Len(x.tabs) \in Nat
  BY <1>1, <1>3, OfWins
<1>5. i \in 1 .. Len(x.tabs) + 1
  BY <1>3, <1>4 DEF DragInto
<1>6. Adopt(from, win, to, t, i) /\ UNCHANGED <<live, host, locked, order>>
  BY <1>2 DEF DragInto
<1>7. PICK f : f = win
  OBVIOUS
<1>8. TabRest'
  BY DEF DragInto, TabInv, TabRest
<1> QED BY <1>1, <1>3, <1>4, <1>5, <1>6, <1>7, <1>8, AdoptKeeps

(* Windows of which only the overlay or the page changes.                    *)
LEMMA PaintedKeeps ==
  ASSUME TabInv, TabRest', UNCHANGED <<order, closing, live, dividers, locked>>,
         DOMAIN win' = Wins, win' = [v \in Wins |-> win'[v]], \A v \in Wins : v \notin ToSet(order) => win'[v] = Nil,
         \A v \in ToSet(order) : /\ win'[v].tabs = win[v].tabs /\ win'[v].target = win[v].target /\ win'[v].divider = win[v].divider
                                 /\ Sound(v, win[v])'
  PROVE  TabInv'
<1>1. WindowsSound'
  BY DEF TabInv, WindowsSound
<1>2. TabsHoused' /\ BlankLeaves' /\ LockCoversEveryWindow'
  BY DEF TabInv, TabsHoused, BlankLeaves, LockCoversEveryWindow
<1> QED BY <1>1, <1>2 DEF TabInv

(* A window with another overlay, or another page.                           *)
LEMMA PaintedIs ==
  ASSUME NEW w, NEW x, Sound(w, x), NEW y, y \in WinType,
         y.tabs = x.tabs, y.active = x.active, y.split = x.split, y.kids = x.kids, y.divider = x.divider,
         y.overlay # "under", y.overlay = "top" => host' = w
  PROVE  Sound(w, y)'
<1>1. Visible(y) = Visible(x) /\ Wanted(y) = Wanted(x)
  BY DEF Visible, Wanted
<1> QED BY <1>1 DEF Sound, Sane, Aims

(* A window that gets or loses the overlay.                                  *)
LEMMA OverlaidIs ==
  ASSUME NEW w, NEW x, Sound(w, x), NEW o \in {"off", "top"}
  PROVE  LET y == [x EXCEPT !.overlay = o] IN
         /\ (o = "top" => host' = w) => Sound(w, y)'
         /\ y.tabs = x.tabs /\ y.target = x.target /\ y.divider = x.divider /\ y.overlay = o
<1> DEFINE y == [x EXCEPT !.overlay = o]
<1>1. x \in WinType
  BY DEF Sound, Sane
<1>2. y \in WinType /\ y.tabs = x.tabs /\ y.active = x.active /\ y.split = x.split /\ y.kids = x.kids /\ y.divider = x.divider
      /\ y.overlay = o /\ y.target = x.target
  BY <1>1 DEF WinType, Layers
<1> HIDE DEF y
<1> QED BY <1>2, PaintedIs DEF y

(* A window that stays sound under another host.                             *)
LEMMA StillSound ==
  ASSUME NEW w, NEW x, Sound(w, x), x.overlay = "top" => host' = w
  PROVE  Sound(w, x)'
BY DEF Sound, Sane

(* attachOverlay: the view leaves the window that had it.                    *)
LEMMA AttachKeeps ==
  ASSUME TabInv, NEW w \in Wins, AttachOverlay(w)
  PROVE  TabInv'
<1>1. w \in ToSet(order) /\ host' = w /\ UNCHANGED <<order, closing, live, dividers, locked>>
  BY OfWins DEF AttachOverlay
<1>2. win' = [v \in Wins |-> IF win[v] = Nil THEN Nil ELSE [win[v] EXCEPT !.overlay = IF v = w THEN "top" ELSE "off"]]
  BY DEF AttachOverlay
<1>3. TabRest'
  BY DEF AttachOverlay, TabInv, TabRest
<1>4. ASSUME NEW v \in ToSet(order)
      PROVE  /\ win'[v].tabs = win[v].tabs /\ win'[v].target = win[v].target /\ win'[v].divider = win[v].divider
             /\ Sound(v, win[v])'
  <2>1. PICK x : x = win[v]
    OBVIOUS
  <2>2. Sound(v, x) /\ v \in Wins /\ x # Nil
    BY <2>1, OfWins, TabAssumption
  <2>3. PICK o \in {"off", "top"} : o = IF v = w THEN "top" ELSE "off"
    OBVIOUS
  <2>4. win'[v] = [x EXCEPT !.overlay = o]
    BY <1>2, <2>1, <2>2, <2>3
  <2>5. PICK y : y = [x EXCEPT !.overlay = o]
    OBVIOUS
  <2>6. Sound(v, y)' /\ y.tabs = x.tabs /\ y.target = x.target /\ y.divider = x.divider
    BY <1>1, <2>2, <2>3, <2>5, OverlaidIs
  <2>7. win'[v] = y
    BY <2>4, <2>5
  <2> QED BY <2>1, <2>6, <2>7 DEF Sound, Sane, Aims, Wanted, Visible
<1>5. DOMAIN win' = Wins /\ win' = [v \in Wins |-> win'[v]] /\ \A v \in Wins : v \notin ToSet(order) => win'[v] = Nil
  BY <1>2 DEF TabInv, WindowsSound
<1> QED BY <1>1, <1>3, <1>4, <1>5, PaintedKeeps

(* Without the overlay, each window is as it was.                            *)
LEMMA UncoveredIs ==
  ASSUME TabInv
  PROVE  /\ DOMAIN Uncovered = Wins /\ Uncovered = [v \in Wins |-> Uncovered[v]]
         /\ \A v \in Wins : v \notin ToSet(order) => Uncovered[v] = Nil
         /\ \A v \in ToSet(order) : Uncovered[v] \in {win[v], [win[v] EXCEPT !.overlay = "off"]} /\ Uncovered[v].overlay = "off"
<1>1. /\ DOMAIN win = Wins /\ win = [v \in Wins |-> win[v]] /\ \A v \in Wins : v \notin ToSet(order) => win[v] = Nil
      /\ \A v \in ToSet(order) : v \in Wins /\ win[v] \in WinType /\ Sound(v, win[v])
      /\ \A w : Contains(order, w) <=> w \in ToSet(order)
  BY OfWins DEF TabInv, WindowsSound
<1>2. \A v \in ToSet(order) : win[v].overlay \in {"off", "top"} /\ (win[v].overlay = "top" => host = v)
  BY <1>1, WinParts DEF Sound, Sane, Layers
<1>3. CASE Contains(order, host)
  <2>1. PICK h \in ToSet(order) : h = host
    BY <1>1, <1>3
  <2>2. PICK y : y = [win[h] EXCEPT !.overlay = "off"]
    OBVIOUS
  <2>3. y.overlay = "off"
    <3>1. win[h] \in WinType
      BY <1>1
    <3> QED BY <2>2, <3>1 DEF WinType
  <2>4. Uncovered = [win EXCEPT ![h] = y]
    BY <1>3, <2>1, <2>2 DEF Uncovered
  <2>5. Uncovered[h] = y /\ \A v \in Wins : v # h => Uncovered[v] = win[v]
    BY <1>1, <2>4
  <2>6. DOMAIN Uncovered = Wins /\ Uncovered = [v \in Wins |-> Uncovered[v]]
    BY <1>1, <2>4
  <2> QED BY <1>1, <1>2, <2>1, <2>2, <2>3, <2>5, <2>6
<1>4. CASE ~Contains(order, host)
  <2>1. Uncovered = win
    BY <1>4 DEF Uncovered
  <2>2. \A v \in ToSet(order) : win[v].overlay = "off"
    BY <1>1, <1>2, <1>4
  <2> QED BY <1>1, <2>1, <2>2
<1> QED BY <1>3, <1>4

(* detachOverlay.                                                            *)
LEMMA DetachOverlayKeeps ==
  ASSUME TabInv, DetachOverlay
  PROVE  TabInv'
<1>1. win' = Uncovered /\ host' = Nil /\ UNCHANGED <<order, closing, live, dividers, locked>> /\ TabRest'
  BY DEF DetachOverlay, TabInv, TabRest
<1>2. ASSUME NEW v \in ToSet(order)
      PROVE  /\ win'[v].tabs = win[v].tabs /\ win'[v].target = win[v].target /\ win'[v].divider = win[v].divider
             /\ Sound(v, win[v])'
  <2>1. PICK x : x = win[v]
    OBVIOUS
  <2>2. Sound(v, x)
    BY <2>1, OfWins
  <2>3. PICK y : y = win'[v]
    OBVIOUS
  <2>4. y \in {x, [x EXCEPT !.overlay = "off"]} /\ y.overlay = "off"
    BY <1>1, <2>1, <2>3, UncoveredIs
  <2>5. Sound(v, y)' /\ y.tabs = x.tabs /\ y.target = x.target /\ y.divider = x.divider
    <3>1. CASE y = x
      BY <2>2, <2>4, <3>1, StillSound
    <3>2. CASE y = [x EXCEPT !.overlay = "off"]
      <4>1. PICK o \in {"off", "top"} : o = "off"
        OBVIOUS
      <4> QED BY <2>2, <3>2, <4>1, OverlaidIs
    <3> QED BY <2>4, <3>1, <3>2
  <2> QED BY <2>1, <2>3, <2>5 DEF Sound, Sane, Aims, Wanted, Visible
<1>3. DOMAIN win' = Wins /\ win' = [v \in Wins |-> win'[v]] /\ \A v \in Wins : v \notin ToSet(order) => win'[v] = Nil
  BY <1>1, UncoveredIs
<1> QED BY <1>1, <1>2, <1>3, PaintedKeeps

(* The page of a window gives way to the one it waits for.                   *)
LEMMA PageKeeps ==
  ASSUME TabInv, NEW w \in Wins, PageSwaps(w)
  PROVE  TabInv'
<1>1. w \in ToSet(order) /\ UNCHANGED <<order, closing, live, dividers, locked, host>> /\ TabRest'
  BY OfWins DEF PageSwaps, TabInv, TabRest
<1>2. PICK x \in WinType : x = win[w] /\ Sound(w, x)
  BY <1>1, OfWins
<1> DEFINE y == [x EXCEPT !.page = x.target]
<1>3. /\ DOMAIN win = Wins /\ win = [v \in Wins |-> win[v]] /\ \A v \in Wins : v \notin ToSet(order) => win[v] = Nil
      /\ \A v \in ToSet(order) : v \in Wins /\ Sound(v, win[v])
  BY OfWins DEF TabInv, WindowsSound
<1>4. win' = [win EXCEPT ![w] = y]
  BY <1>2 DEF PageSwaps
<1>5. /\ y \in WinType /\ y.tabs = x.tabs /\ y.active = x.active /\ y.split = x.split /\ y.kids = x.kids /\ y.divider = x.divider
      /\ y.target = x.target /\ y.overlay = x.overlay
  BY <1>2 DEF WinType
<1> HIDE DEF y
<1>6. Sound(w, y)'
  <2>1. y.overlay # "under" /\ (y.overlay = "top" => host' = w)
    BY <1>1, <1>2, <1>5 DEF Sound, Sane
  <2> QED BY <1>2, <1>5, <2>1, PaintedIs
<1>7. /\ DOMAIN win' = Wins /\ win' = [v \in Wins |-> win'[v]] /\ \A v \in Wins : v \notin ToSet(order) => win'[v] = Nil
      /\ win'[w] = y /\ \A v \in Wins : v # w => win'[v] = win[v]
  BY <1>1, <1>3, <1>4
<1>8. ASSUME NEW v \in ToSet(order)
      PROVE  /\ win'[v].tabs = win[v].tabs /\ win'[v].target = win[v].target /\ win'[v].divider = win[v].divider
             /\ Sound(v, win[v])'
  <2>1. CASE v = w
    BY <1>2, <1>5, <1>6, <1>7, <2>1 DEF Sound, Sane, Aims, Wanted, Visible
  <2>2. CASE v # w
    <3>1. win'[v] = win[v] /\ Sound(v, win[v])
      BY <1>3, <1>7, <2>2
    <3> QED BY <1>1, <3>1 DEF Sound, Sane
  <2> QED BY <2>1, <2>2
<1> QED BY <1>1, <1>7, <1>8, PaintedKeeps

(* 'closed': a window goes, with its tabs and its divider.                   *)
LEMMA ClosedKeeps ==
  ASSUME TabInv, NEW w \in Wins, Closed(w)
  PROVE  TabInv'
<1>1. /\ w \in closing /\ closing' = closing \ {w} /\ live' = live \ ToSet(win[w].tabs)
      /\ dividers' = IF win[w].divider THEN dividers \ {w} ELSE dividers
      /\ win' = [win EXCEPT ![w] = Nil] /\ host' = IF host = w THEN Nil ELSE host
      /\ UNCHANGED <<locked, drag, menu, report>>
  BY DEF Closed
<1>2. /\ order \in Seq(Wins) /\ IsInjective(order) /\ DOMAIN win = Wins /\ win = [v \in Wins |-> win[v]]
      /\ \A v \in Wins : v \notin ToSet(order) => win[v] = Nil
      /\ closing \subseteq ToSet(order) /\ w \in ToSet(order) /\ \A v \in ToSet(order) : v \in Wins /\ Sound(v, win[v])
  BY <1>1, OfWins DEF TabInv, WindowsSound
<1>3. PICK o \in Seq(Wins) : o = order
  BY <1>2
<1>4. PICK i \in 1 .. Len(o) : i = IndexOf(o, w) /\ o[i] = w
  BY <1>2, <1>3, IndexIs
<1>5. order' = RemoveAt(o, i)
  BY <1>3, <1>4 DEF Closed
<1>6. order' \in Seq(Wins) /\ IsInjective(order') /\ ToSet(order') = ToSet(order) \ {w} /\ (order[1] # w => order'[1] = order[1])
  <2>1. IsInjective(o)
    BY <1>2, <1>3
  <2>2. /\ RemoveAt(o, i) \in Seq(Wins) /\ IsInjective(RemoveAt(o, i)) /\ ToSet(RemoveAt(o, i)) = ToSet(o) \ {o[i]}
        /\ i > 1 => RemoveAt(o, i)[1] = o[1]
    BY <2>1, RemovedIs
  <2>3. order[1] # w => i > 1
    BY <1>3, <1>4
  <2> QED BY <1>3, <1>4, <1>5, <2>2, <2>3
<1>7. DOMAIN win' = Wins /\ win' = [v \in Wins |-> win'[v]] /\ win'[w] = Nil /\ \A v \in Wins : v # w => win'[v] = win[v]
  BY <1>1, <1>2
<1>8. WindowsSound'
  <2>1. ASSUME NEW v \in ToSet(order') PROVE Sound(v, win[v])'
    <3>1. v \in ToSet(order) /\ v # w /\ win'[v] = win[v] /\ Sound(v, win[v])
      BY <1>2, <1>6, <1>7
    <3>2. win[v].overlay = "top" => host' = host
      BY <1>1, <3>1 DEF Sound, Sane
    <3> QED BY <3>1, <3>2 DEF Sound, Sane
  <2>2. \A v \in Wins : v \notin ToSet(order') => win'[v] = Nil
    BY <1>2, <1>6, <1>7
  <2>3. closing' \subseteq ToSet(order')
    BY <1>1, <1>2, <1>6
  <2> QED BY <1>6, <1>7, <2>1, <2>2, <2>3 DEF WindowsSound
<1>9. \A v \in ToSet(order') : v \in ToSet(order) /\ v # w /\ win'[v] = win[v]
  BY <1>2, <1>6, <1>7
<1>10. TabsHoused'
  <2>1. \A u, v \in ToSet(order'), t \in Tabs : t \in ToSet(win'[u].tabs) /\ t \in ToSet(win'[v].tabs) => u = v
    BY <1>9 DEF TabInv, TabsHoused
  <2>2. ASSUME NEW t \in Tabs PROVE t \in live' <=> \E v \in ToSet(order') : t \in ToSet(win'[v].tabs)
    <3>1. t \in live <=> \E v \in ToSet(order) : t \in ToSet(win[v].tabs)
      BY DEF TabInv, TabsHoused
    <3>2. \A v \in ToSet(order) : t \in ToSet(win[v].tabs) /\ t \in ToSet(win[w].tabs) => v = w
      BY <1>2 DEF TabInv, TabsHoused
    <3> QED BY <1>1, <1>2, <1>6, <1>9, <3>1, <3>2
  <2>3. dividers' = {v \in ToSet(order') : win'[v].divider}
    <3>1. dividers = {v \in ToSet(order) : win[v].divider}
      BY DEF TabInv, TabsHoused
    <3>2. \A v : v \in dividers' <=> v \in dividers /\ v # w
      BY <1>1, <3>1
    <3> QED BY <1>6, <1>9, <3>1, <3>2
  <2>4. live' \subseteq Tabs
    BY <1>1 DEF TabInv, TabsHoused
  <2> QED BY <2>1, <2>2, <2>3, <2>4 DEF TabsHoused
<1>11. BlankLeaves'
  <2> SUFFICES ASSUME NEW v \in ToSet(order'), win'[v].tabs = <<>> PROVE v \in closing' \/ (locked /\ v = order'[1])
    BY <1>1 DEF BlankLeaves
  <2>1. v \in closing \/ (locked /\ v = order[1])
    BY <1>9 DEF TabInv, BlankLeaves
  <2> QED BY <1>1, <1>6, <1>9, <2>1
<1>12. LockCoversEveryWindow'
  BY <1>1, <1>9 DEF TabInv, LockCoversEveryWindow
<1>13. TabRest'
  BY <1>1 DEF TabInv, TabRest
<1> QED BY <1>8, <1>10, <1>11, <1>12, <1>13 DEF TabInv

(* setLocked: one window is left, with the sign-in page.                     *)
LEMMA LockKeeps ==
  ASSUME TabInv, Lock
  PROVE  TabInv'
<1>1. ~locked /\ locked' = TRUE /\ host' \in {host, Nil} /\ UNCHANGED <<order, drag, menu, report>> /\ TabRest'
  BY DEF Lock, TabInv, TabRest
<1>2. CASE order = <<>>
  <2>1. ToSet(order) = {} /\ UNCHANGED <<win, closing, live, dividers>>
    BY <1>2 DEF Lock, ToSet
  <2>2. WindowsSound'
    BY <1>1, <2>1 DEF TabInv, WindowsSound
  <2>3. TabsHoused' /\ BlankLeaves' /\ LockCoversEveryWindow'
    BY <1>1, <2>1 DEF TabInv, TabsHoused, BlankLeaves, LockCoversEveryWindow
  <2> QED BY <1>1, <2>2, <2>3 DEF TabInv
<1>3. CASE order # <<>>
  <2>1. /\ order \in Seq(Wins) /\ IsInjective(order) /\ DOMAIN win = Wins /\ win = [v \in Wins |-> win[v]]
        /\ \A v \in Wins : v \notin ToSet(order) => win[v] = Nil
        /\ closing \subseteq ToSet(order) /\ \A v \in ToSet(order) : v \in Wins /\ Sound(v, win[v])
    BY OfWins DEF TabInv, WindowsSound
  <2>2. PICK w \in ToSet(order) : w = order[1]
    <3>1. 1 \in 1 .. Len(order)
      BY <1>3, <2>1
    <3> QED BY <2>1, <3>1, ListIs
  <2>3. PICK x \in WinType : x = win[w] /\ Sound(w, x)
    BY OfWins
  <2>4. PICK f : f = IF host' = Nil THEN Uncovered ELSE win
    OBVIOUS
  <2>5. /\ DOMAIN f = Wins /\ f = [v \in Wins |-> f[v]] /\ \A v \in Wins : v \notin ToSet(order) => f[v] = Nil
        /\ \A v \in ToSet(order) : /\ f[v] \in {win[v], [win[v] EXCEPT !.overlay = "off"]}
                                   /\ f[v].overlay # "off" => host' = host /\ f[v] = win[v]
    <3>1. CASE host' = Nil
      BY <2>4, <3>1, UncoveredIs
    <3>2. CASE host' # Nil
      BY <1>1, <2>1, <2>4, <3>2
    <3> QED BY <3>1, <3>2
  <2>6. ASSUME NEW v \in ToSet(order)
        PROVE  /\ f[v] \in WinType /\ f[v].tabs = win[v].tabs /\ f[v].target = win[v].target /\ f[v].divider = win[v].divider
               /\ f[v].overlay # "under" /\ (f[v].overlay = "top" => host' = v) /\ Sound(v, f[v])'
    <3>1. PICK z : z = win[v]
      OBVIOUS
    <3>2. Sound(v, z) /\ z \in WinType /\ z.overlay # "under" /\ (z.overlay = "top" => host = v)
      BY <2>1, <3>1 DEF Sound, Sane
    <3>3. PICK y : y = f[v]
      OBVIOUS
    <3>4. CASE y = z
      <4>1. y.overlay = "top" => host' = v
        BY <2>5, <3>1, <3>2, <3>3, <3>4
      <4> QED BY <3>1, <3>2, <3>3, <3>4, <4>1, StillSound
    <3>5. CASE y = [z EXCEPT !.overlay = "off"]
      <4>1. PICK o \in {"off", "top"} : o = "off"
        OBVIOUS
      <4>2. Sound(v, y)' /\ y.tabs = z.tabs /\ y.target = z.target /\ y.divider = z.divider /\ y.overlay = "off"
        BY <3>2, <3>5, <4>1, OverlaidIs
      <4>3. y \in WinType
        BY <3>2, <3>5 DEF WinType, Layers
      <4> QED BY <3>1, <3>3, <4>2, <4>3
    <3> QED BY <2>5, <3>1, <3>3, <3>4, <3>5
  <2> DEFINE y == [f[w] EXCEPT !.tabs = <<>>, !.active = Nil, !.split = Nil, !.kids = x.kids \ Owned(x),
                               !.divider = FALSE, !.target = "auth"]
  <2>7. /\ closing' = closing \cup LockOthers /\ live' = live \ ToSet(x.tabs)
        /\ dividers' = (IF x.divider THEN dividers \ {w} ELSE dividers) /\ win' = [f EXCEPT ![w] = y]
    BY <1>3, <2>2, <2>3, <2>4 DEF Lock
  <2>8. x.kids \ Owned(x) = {}
    BY <2>3 DEF Sound, Sane, Owned
  <2>9. /\ y \in WinType /\ y.tabs = <<>> /\ y.active = Nil /\ y.split = Nil /\ y.kids = {} /\ y.divider = FALSE
        /\ y.target = "auth" /\ y.overlay = f[w].overlay
    <3>1. f[w] \in WinType /\ <<>> \in Seq(Tabs)
      BY <2>6
    <3> QED BY <2>8, <3>1 DEF WinType, Pages
  <2> HIDE DEF y
  <2>10. Sound(w, y)'
    <3>1. IsInjective(<<>>) /\ ToSet(<<>>) = {}
      BY DEF IsInjective, ToSet
    <3>2. ~Visible(y) /\ Wanted(y) = {}
      BY <2>9, <3>1 DEF Visible, Wanted
    <3> QED BY <2>6, <2>9, <3>1, <3>2 DEF Sound, Sane, Aims
  <2>11. /\ DOMAIN win' = Wins /\ win' = [v \in Wins |-> win'[v]] /\ win'[w] = y
         /\ \A v \in Wins : v # w => win'[v] = f[v]
    BY <2>1, <2>5, <2>7
  <2>12. ToSet(order) \ {w} \subseteq LockOthers /\ LockOthers \subseteq ToSet(order)
    <3>1. /\ Len(Tail(order)) = Len(order) - 1 /\ Len(order) \in Nat /\ Len(order) # 0 /\ Tail(order) \in Seq(Wins)
          /\ \A i \in 1 .. Len(order) - 1 : Tail(order)[i] = order[i + 1]
      BY <1>3, <2>1
    <3>2. ASSUME NEW v \in ToSet(order), v # w PROVE v \in ToSet(Tail(order))
      <4>1. PICK i \in 1 .. Len(order) : order[i] = v
        BY <2>1, ListIs
      <4>2. i - 1 \in 1 .. Len(order) - 1 /\ (i - 1) + 1 = i
        BY <2>2, <3>1, <3>2, <4>1
      <4> QED BY <3>1, <4>1, <4>2, ListIs
    <3>3. ASSUME NEW v \in ToSet(Tail(order)) PROVE v \in ToSet(order)
      <4>1. PICK i \in 1 .. Len(order) - 1 : Tail(order)[i] = v
        BY <3>1, ListIs
      <4>2. i + 1 \in 1 .. Len(order)
        BY <3>1
      <4> QED BY <2>1, <3>1, <4>1, <4>2, ListIs
    <3> QED BY <3>2, <3>3 DEF LockOthers
  <2>13. WindowsSound'
    <3>1. \A v \in ToSet(order) : Sound(v, win[v])'
      <4> SUFFICES ASSUME NEW v \in ToSet(order) PROVE Sound(v, win[v])'
        OBVIOUS
      <4>1. CASE v = w
        BY <2>10, <2>11, <4>1 DEF Sound, Sane, Aims, Wanted, Visible
      <4>2. CASE v # w
        <5>1. win'[v] = f[v]
          BY <2>1, <2>11, <4>2
        <5> QED BY <2>6, <5>1 DEF Sound, Sane, Aims, Wanted, Visible
      <4> QED BY <4>1, <4>2
    <3>2. \A v \in Wins : v \notin ToSet(order) => win'[v] = Nil
      BY <2>5, <2>11
    <3>3. closing' \subseteq ToSet(order)
      BY <2>1, <2>7, <2>12
    <3> QED BY <1>1, <2>1, <2>11, <3>1, <3>2, <3>3 DEF WindowsSound
  <2>14. \A v \in ToSet(order) : v # w => win'[v].tabs = win[v].tabs /\ win'[v].divider = win[v].divider
    BY <2>1, <2>6, <2>11
  <2>15. TabsHoused'
    <3>1. ToSet(win'[w].tabs) = {}
      BY <2>9, <2>11 DEF ToSet
    <3>2. \A u, v \in ToSet(order), t \in Tabs : t \in ToSet(win'[u].tabs) /\ t \in ToSet(win'[v].tabs) => u = v
      BY <2>14, <3>1 DEF TabInv, TabsHoused
    <3>3. ASSUME NEW t \in Tabs PROVE t \in live' <=> \E v \in ToSet(order) : t \in ToSet(win'[v].tabs)
      <4>1. t \in live <=> \E v \in ToSet(order) : t \in ToSet(win[v].tabs)
        BY DEF TabInv, TabsHoused
      <4>2. \A v \in ToSet(order) : t \in ToSet(win[v].tabs) /\ t \in ToSet(win[w].tabs) => v = w
        BY DEF TabInv, TabsHoused
      <4> QED BY <2>3, <2>7, <2>14, <3>1, <4>1, <4>2
    <3>4. dividers' = {v \in ToSet(order) : win'[v].divider}
      <4>1. dividers = {v \in ToSet(order) : win[v].divider}
        BY DEF TabInv, TabsHoused
      <4>2. \A v : v \in dividers' <=> v \in dividers /\ v # w
        BY <2>3, <2>7, <4>1
      <4>3. ~win'[w].divider
        BY <2>9, <2>11
      <4> QED BY <2>14, <4>1, <4>2, <4>3
    <3>5. live' \subseteq Tabs
      BY <2>7 DEF TabInv, TabsHoused
    <3> QED BY <1>1, <3>2, <3>3, <3>4, <3>5 DEF TabsHoused
  <2>16. BlankLeaves'
    BY <1>1, <2>2, <2>7, <2>12 DEF BlankLeaves
  <2>17. LockCoversEveryWindow'
    BY <1>1, <2>7, <2>9, <2>11, <2>12 DEF LockCoversEveryWindow
  <2> QED BY <1>1, <2>13, <2>15, <2>16, <2>17 DEF TabInv
<1> QED BY <1>2, <1>3

(* Signing in opens a tab, in the window that is left or in a new one.       *)
LEMMA UnlockKeeps ==
  ASSUME TabInv, Unlock
  PROVE  TabInv'
<1>1. locked /\ locked' = FALSE /\ UNCHANGED <<closing, drag, menu, report, host>> /\ TabRest'
  BY DEF Unlock, TabInv, TabRest
<1>2. PICK w \in Wins, t \in FreshTabs :
        /\ IF order = <<>> THEN w \in FreshWins /\ order' = <<w>> ELSE w = order[1] /\ order' = order
        /\ LET x == IF order = <<>> THEN NewWin(FALSE) ELSE [win[w] EXCEPT !.target = "chrome"]
           IN Update([win EXCEPT ![w] = Activate(w, [x EXCEPT !.tabs = Append(x.tabs, t)], t)])
        /\ live' = live \cup {t}
  BY DEF Unlock
<1>3. t \in Tabs /\ t \notin live
  BY <1>2 DEF FreshTabs
<1>4. /\ order \in Seq(Wins) /\ IsInjective(order) /\ DOMAIN win = Wins /\ win = [v \in Wins |-> win[v]]
      /\ \A v \in Wins : v \notin ToSet(order) => win[v] = Nil
      /\ closing \subseteq ToSet(order) /\ \A v \in ToSet(order) : v \in Wins /\ Sound(v, win[v])
  BY OfWins DEF TabInv, WindowsSound
<1>5. PICK x \in WinType : x = IF order = <<>> THEN NewWin(FALSE) ELSE [win[w] EXCEPT !.target = "chrome"]
  <2>1. CASE order = <<>>
    <3>1. NewWin(FALSE) \in WinType
      BY NewWinIs DEF Sound, Sane
    <3> QED BY <2>1, <3>1
  <2>2. CASE order # <<>>
    <3>1. w \in ToSet(order)
      <4>1. 1 \in 1 .. Len(order)
        BY <1>4, <2>2
      <4> QED BY <1>2, <1>4, <2>2, <4>1, ListIs
    <3>2. win[w] \in WinType
      BY <1>4, <3>1 DEF Sound, Sane
    <3>3. [win[w] EXCEPT !.target = "chrome"] \in WinType
      BY <3>2 DEF WinType, Pages
    <3> QED BY <2>2, <3>3
  <2> QED BY <2>1, <2>2
<1>6. order # <<>> => w \in ToSet(order)
  <2>1. order # <<>> => 1 \in 1 .. Len(order)
    BY <1>4
  <2> QED BY <1>2, <1>4, <2>1, ListIs
<1>7. IF order = <<>> THEN x.tabs = <<>>
      ELSE x.tabs = win[w].tabs /\ x.divider = win[w].divider
  <2>1. CASE order = <<>>
    BY <1>5, <2>1, NewWinIs
  <2>2. CASE order # <<>>
    <3>1. win[w] \in WinType
      BY <1>4, <1>6, <2>2 DEF Sound, Sane
    <3> QED BY <1>5, <2>2, <3>1 DEF WinType
  <2> QED BY <2>1, <2>2
<1>8. Sound(w, x)
  <2>1. CASE order = <<>>
    BY <1>5, <2>1, NewWinIs
  <2>2. CASE order # <<>>
    <3>1. PICK o \in WinType : o = win[w] /\ Sound(w, o)
      BY <1>4, <1>6, <2>2 DEF Sound, Sane
    <3>2. /\ x.tabs = o.tabs /\ x.active = o.active /\ x.split = o.split /\ x.kids = o.kids /\ x.divider = o.divider
          /\ x.overlay = o.overlay
      BY <1>5, <2>2, <3>1 DEF WinType
    <3>3. Visible(x) = Visible(o) /\ Wanted(x) = Wanted(o)
      BY <3>2 DEF Visible, Wanted
    <3> QED BY <3>1, <3>2, <3>3 DEF Sound, Sane, Aims
  <2> QED BY <2>1, <2>2
<1>9. x.tabs \in Seq(Tabs) /\ IsInjective(x.tabs) /\ \A u \in ToSet(x.tabs) : u \in live
  <2>1. ToSet(<<>>) = {}
    BY DEF ToSet
  <2>2. order # <<>> => \A u \in ToSet(win[w].tabs) : u \in live
    BY <1>6, OfWins DEF TabInv, TabsHoused
  <2> QED BY <1>7, <1>8, <2>1, <2>2, WinParts DEF Sound, Sane
<1>10. PICK tabs \in Seq(Tabs) : tabs = Append(x.tabs, t) /\ IsInjective(tabs) /\ ToSet(tabs) = ToSet(x.tabs) \cup {t}
  <2>1. PICK l \in Seq(Tabs) : l = x.tabs
    BY <1>9
  <2>2. t \notin ToSet(l) /\ IsInjective(l)
    BY <1>3, <1>9, <2>1
  <2>3. Append(l, t) \in Seq(Tabs) /\ IsInjective(Append(l, t)) /\ ToSet(Append(l, t)) = ToSet(l) \cup {t}
    BY <1>3, <2>2, AppendedIs
  <2> QED BY <2>1, <2>3
<1>11. PICK y : y = Activate(w, [x EXCEPT !.tabs = tabs], t)
  OBVIOUS
<1>12. Sound(w, y) /\ Keeps(x, y) /\ y.tabs = tabs
  <2>1. IsInjective(tabs) /\ ToSet(tabs) = ToSet(x.tabs) \cup {t}
    BY <1>10
  <2> QED BY <1>8, <1>11, <2>1, GivenIs
<1>13. Update([win EXCEPT ![w] = y]) /\ live' = live \cup {t}
  BY <1>2, <1>5, <1>10, <1>11
<1>14. tabs # <<>>
  <2>1. t \in ToSet(tabs)
    BY <1>10
  <2> QED BY <2>1, ListIs
<1>15. CASE order # <<>>
  <2>1. w = order[1] /\ order' = order /\ w \in ToSet(order)
    BY <1>2, <1>6, <1>15
  <2>2. live' = (live \ ToSet(win[w].tabs)) \cup ToSet(y.tabs)
    BY <1>7, <1>9, <1>10, <1>12, <1>13, <1>15
  <2>3. \A u \in ToSet(y.tabs) : u \in live => u \in ToSet(win[w].tabs)
    BY <1>3, <1>7, <1>10, <1>12, <1>15
  <2>4. win[w].divider => y.divider
    BY <1>7, <1>12, <1>15 DEF Keeps
  <2>5. closing' \subseteq ToSet(order) /\ UNCHANGED host
    BY <1>1, <1>4
  <2>6. WindowsSound' /\ TabsHoused' /\ win'[w] = y /\ \A v \in ToSet(order) : v # w => win'[v] = win[v]
    BY <1>12, <1>13, <2>1, <2>2, <2>3, <2>4, <2>5, OneWindowHouses
  <2>7. BlankLeaves'
    BY <1>1, <1>12, <1>14, <2>1, <2>6 DEF TabInv, BlankLeaves
  <2>8. LockCoversEveryWindow'
    BY <1>1 DEF LockCoversEveryWindow
  <2> QED BY <1>1, <2>6, <2>7, <2>8 DEF TabInv
<1>16. CASE order = <<>>
  <2>1. ToSet(order) = {} /\ closing = {} /\ order' = <<w>> /\ \A v \in Wins : win[v] = Nil
    <3>1. ToSet(<<>>) = {}
      BY DEF ToSet
    <3> QED BY <1>2, <1>4, <1>16, <3>1
  <2>2. live = {} /\ dividers = {} /\ ToSet(x.tabs) = {}
    <3>1. ToSet(<<>>) = {}
      BY DEF ToSet
    <3> QED BY <1>7, <1>16, <2>1, <3>1 DEF TabInv, TabsHoused
  <2>3. order' \in Seq(Wins) /\ IsInjective(order') /\ ToSet(order') = {w}
    <3>1. DOMAIN <<w>> = {1} /\ <<w>>[1] = w
      OBVIOUS
    <3> QED BY <2>1, <3>1 DEF IsInjective, ToSet
  <2>4. /\ DOMAIN win' = Wins /\ win' = [v \in Wins |-> win'[v]] /\ win'[w] = y
        /\ \A v \in Wins : v # w => win'[v] = Nil
    BY <1>4, <1>13, <2>1 DEF Update
  <2>5. Sound(w, y)' /\ y # Nil
    BY <1>1, <1>12, TabAssumption DEF Sound, Sane, Aims, Wanted, Visible
  <2>6. WindowsSound'
    <3>1. Sound(w, win[w])'
      BY <2>4, <2>5 DEF Sound, Sane, Aims, Wanted, Visible
    <3> QED BY <1>1, <2>1, <2>3, <2>4, <3>1 DEF WindowsSound
  <2>7. TabsHoused'
    <3>1. live' = {t} /\ ToSet(y.tabs) = {t}
      BY <1>10, <1>12, <1>13, <2>2
    <3>2. dividers' = {v \in Wins : win'[v] # Nil /\ win'[v].divider}
      BY <1>13, <2>2 DEF Update
    <3>3. dividers' = {v \in ToSet(order') : win'[v].divider}
      BY <2>3, <2>4, <2>5, <3>2
    <3> QED BY <1>3, <2>3, <2>4, <3>1, <3>3 DEF TabsHoused
  <2>8. BlankLeaves' /\ LockCoversEveryWindow'
    BY <1>1, <1>12, <1>14, <2>3, <2>4 DEF BlankLeaves, LockCoversEveryWindow
  <2> QED BY <1>1, <2>6, <2>7, <2>8 DEF TabInv
<1> QED BY <1>15, <1>16

(* A click in a menu, of what the menu was built with.                       *)
LEMMA MenuClickKeeps ==
  ASSUME TabInv, MenuClick
  PROVE  TabInv'
<1>1. menu # Nil /\ menu' = Nil /\ Contains(order, menu.win) /\ UNCHANGED <<locked, drag, report, host>> /\ TabRest'
  BY DEF MenuClick, TabInv, TabRest
<1>2. menu \in MenuType
  BY <1>1 DEF TabInv, TabRest
<1>3. PICK w \in ToSet(order), t \in Tabs, others \in SUBSET Tabs : w = menu.win /\ t = menu.tab /\ others = menu.others
  <2>1. menu.win \in ToSet(order)
    BY <1>1, OfWins
  <2> QED BY <1>2, <2>1 DEF MenuType
<1>4. \/ (\E o \in others : SetSplit(w, t, o)) /\ UNCHANGED <<order, closing, live>>
      \/ Open(w, TRUE) /\ UNCHANGED <<order, closing>>
      \/ CloseAll(w, <<t>>) /\ UNCHANGED order
      \/ (\E ts \in SetToSeqs(others) : CloseAll(w, ts)) /\ UNCHANGED order
      \/ Holds(w, t) /\ Detach(w, t) /\ UNCHANGED live
  BY <1>3 DEF MenuClick
<1>5. CASE (\E o \in others : SetSplit(w, t, o)) /\ UNCHANGED <<order, closing, live>>
  <2>1. PICK o \in others : SetSplit(w, t, o)
    BY <1>5
  <2> QED BY <1>1, <1>5, <2>1, SetSplitKeeps
<1>6. CASE Open(w, TRUE) /\ UNCHANGED <<order, closing>>
  <2>1. PICK activate \in BOOLEAN : activate = TRUE
    OBVIOUS
  <2>2. Open(w, activate) /\ activate
    BY <1>6, <2>1
  <2> QED BY <1>1, <1>6, <2>2, OpenKeeps
<1>7. CASE CloseAll(w, <<t>>) /\ UNCHANGED order
  <2>1. PICK ts \in Seq(Tabs) : ts = <<t>>
    <3>1. t \in Tabs => <<t>> \in Seq(Tabs)
      OBVIOUS
    <3> QED BY <3>1
  <2> QED BY <1>1, <1>7, <2>1, CloseAllKeeps
<1>8. CASE (\E ts \in SetToSeqs(others) : CloseAll(w, ts)) /\ UNCHANGED order
  <2>1. PICK ts \in SetToSeqs(others) : CloseAll(w, ts)
    BY <1>8
  <2>2. Cardinality(others) \in Nat
    BY TabAssumption, FS_Subset, FS_CardinalityType
  <2>3. ts \in Seq(Tabs)
    <3>1. ts \in [1 .. Cardinality(others) -> others]
      BY <2>1 DEF SetToSeqs
    <3>2. ts \in [1 .. Cardinality(others) -> Tabs]
      BY <3>1
    <3> QED BY <2>2, <3>2
  <2> QED BY <1>1, <1>8, <2>1, <2>3, CloseAllKeeps
<1>9. CASE Holds(w, t) /\ Detach(w, t) /\ UNCHANGED live
  <2>1. t \in ToSet(win[w].tabs)
    BY <1>9, OfWins DEF Holds
  <2> QED BY <1>1, <1>9, <2>1, DetachKeeps
<1> QED BY <1>4, <1>5, <1>6, <1>7, <1>8, <1>9

(* What the strip, the tabs and the user do to a window.                     *)
LEMMA OneWindowStep ==
  ASSUME TabInv, NEW w \in Wins, OneWindow(w)
  PROVE  TabInv'
<1>1. CASE NewTab(w)
  <2>1. w \in ToSet(order) /\ Open(w, TRUE) /\ UNCHANGED <<order, closing, host, locked>> /\ TabRest'
    BY <1>1, OfWins DEF NewTab, TabInv, TabRest
  <2>2. PICK activate \in BOOLEAN : activate = TRUE
    OBVIOUS
  <2>3. Open(w, activate) /\ activate
    BY <2>1, <2>2
  <2> QED BY <2>1, <2>3, OpenKeeps
<1>2. CASE BackgroundTab(w)
  <2>1. /\ w \in ToSet(order) /\ Open(w, FALSE) /\ UNCHANGED <<order, closing, host, locked>> /\ TabRest'
        /\ win[w].tabs # <<>>
    BY <1>2, OfWins DEF BackgroundTab, TabInv, TabRest
  <2>2. PICK activate \in BOOLEAN : activate = FALSE
    OBVIOUS
  <2>3. Open(w, activate)
    BY <2>1, <2>2
  <2> QED BY <2>1, <2>3, OpenKeeps
<1>3. CASE Previous(w)
  <2>1. /\ w \in ToSet(order) /\ Contains(win[w].tabs, win[w].prev) /\ TabRest'
        /\ Update([win EXCEPT ![w] = Activate(w, win[w], win[w].prev)])
        /\ UNCHANGED <<order, closing, live, host, locked>>
    BY <1>3, OfWins DEF Previous, FromStrip, TabInv, TabRest
  <2>2. PICK t \in ToSet(win[w].tabs) : t = win[w].prev
    BY <2>1, OfWins
  <2>3. Update([win EXCEPT ![w] = Activate(w, win[w], t)])
    BY <2>1, <2>2
  <2> QED BY <2>1, <2>3, ActivateKeeps
<1>4. CASE Unsplit(w)
  BY <1>4, UnsplitKeeps
<1>5. CASE ReportAsked(w)
  <2>1. UNCHANGED <<order, win, live, dividers, locked, closing, host>> /\ TabRest' /\ closing \subseteq ToSet(order)
    BY <1>5 DEF ReportAsked, TabInv, TabRest, WindowsSound
  <2> QED BY <2>1, SameWindowsKeep
<1>6. CASE AttachOverlay(w)
  BY <1>6, AttachKeeps
<1>7. CASE CloseWindow(w)
  <2>1. /\ UNCHANGED <<order, win, live, dividers, locked, host>> /\ TabRest'
        /\ closing \subseteq closing' /\ closing' \subseteq ToSet(order)
    BY <1>7, OfWins DEF CloseWindow, TabInv, TabRest, WindowsSound
  <2> QED BY <2>1, SameWindowsKeep
<1>8. CASE Closed(w)
  BY <1>8, ClosedKeeps
<1>9. CASE PageSwaps(w)
  BY <1>9, PageKeeps
<1> QED BY <1>1, <1>2, <1>3, <1>4, <1>5, <1>6, <1>7, <1>8, <1>9 DEF OneWindow

(* What the strip does to one of its tabs.                                   *)
LEMMA OneTabStep ==
  ASSUME TabInv, NEW w \in Wins, NEW t \in Tabs, OneTab(w, t)
  PROVE  TabInv'
<1>1. CASE ActivateTab(w, t)
  <2>1. /\ w \in ToSet(order) /\ t \in ToSet(win[w].tabs) /\ TabRest'
        /\ Update([win EXCEPT ![w] = Activate(w, win[w], t)])
        /\ UNCHANGED <<order, closing, live, host, locked>>
    BY <1>1, OfWins DEF ActivateTab, Holds, TabInv, TabRest
  <2> QED BY <2>1, ActivateKeeps
<1>2. CASE CloseTab(w, t)
  <2>1. w \in ToSet(order) /\ CloseAll(w, <<t>>) /\ TabRest' /\ UNCHANGED <<order, host, locked>>
    BY <1>2, OfWins DEF CloseTab, FromStrip, TabInv, TabRest
  <2>2. PICK ts \in Seq(Tabs) : ts = <<t>>
    <3>1. t \in Tabs => <<t>> \in Seq(Tabs)
      OBVIOUS
    <3> QED BY <3>1
  <2>3. CloseAll(w, ts)
    BY <2>1, <2>2
  <2> QED BY <2>1, <2>3, CloseAllKeeps
<1>3. CASE DragStart(w, t)
  <2>1. UNCHANGED <<order, win, live, dividers, locked, closing, host>> /\ TabRest' /\ closing \subseteq ToSet(order)
    BY <1>3 DEF DragStart, TabInv, TabRest, WindowsSound
  <2> QED BY <2>1, SameWindowsKeep
<1>4. CASE MenuOpen(w, t)
  <2>1. UNCHANGED <<order, win, live, dividers, locked, closing, host>> /\ closing \subseteq ToSet(order)
    BY <1>4 DEF MenuOpen, TabInv, WindowsSound
  <2>2. TabRest'
    <3>1. ToSet(win[w].tabs) \subseteq Tabs
      BY <1>4, OfWins DEF MenuOpen, FromStrip
    <3> QED BY <1>4, <3>1 DEF MenuOpen, MenuType, TabInv, TabRest
  <2> QED BY <2>1, <2>2, SameWindowsKeep
<1>5. CASE \E i \in 1 .. Cardinality(Tabs) : Reorder(w, t, i)
  <2>1. PICK i \in 1 .. Cardinality(Tabs) : Reorder(w, t, i)
    BY <1>5
  <2>2. Cardinality(Tabs) \in Nat
    BY TabAssumption, FS_CardinalityType
  <2>3. /\ w \in ToSet(order) /\ t \in ToSet(win[w].tabs) /\ Len(win[w].tabs) \in Nat /\ TabRest'
        /\ Update([win EXCEPT ![w] = Moved(win[w], t, i)]) /\ i <= Len(win[w].tabs)
        /\ UNCHANGED <<order, closing, live, host, locked>>
    BY <2>1, OfWins DEF Reorder, Holds, TabInv, TabRest
  <2>4. i \in 1 .. Len(win[w].tabs)
    BY <2>2, <2>3
  <2> QED BY <2>3, <2>4, MoveKeeps
<1>6. CASE \E o \in Tabs : Split(w, t, o)
  <2>1. PICK o \in Tabs : Split(w, t, o)
    BY <1>6
  <2>2. SetSplit(w, t, o) /\ UNCHANGED <<order, closing, live, host, locked>> /\ TabRest'
    BY <2>1 DEF Split, TabInv, TabRest
  <2> QED BY <2>2, SetSplitKeeps
<1> QED BY <1>1, <1>2, <1>3, <1>4, <1>5, <1>6 DEF OneTab

(* What a drag does on its way and at its end.                               *)
LEMMA DragStep ==
  ASSUME TabInv, Drag
  PROVE  TabInv'
<1>1. Cardinality(Tabs) \in Nat
  BY TabAssumption, FS_CardinalityType
<1>2. CASE DragDrop
  <2>1. UNCHANGED <<order, win, live, dividers, locked, closing, host>> /\ TabRest' /\ closing \subseteq ToSet(order)
    BY <1>2 DEF DragDrop, TabInv, TabRest, WindowsSound
  <2> QED BY <2>1, SameWindowsKeep
<1>3. CASE \E w \in Wins : DragOut(w)
  <2>1. PICK w \in Wins : DragOut(w)
    BY <1>3
  <2>2. w \in ToSet(order) /\ drag \in ToSet(win[w].tabs) /\ TabRest' /\ UNCHANGED <<live, host, locked>>
    BY <2>1, OfWins DEF DragOut, Holds, TabInv, TabRest
  <2>3. PICK t \in ToSet(win[w].tabs) : t = drag
    BY <2>2
  <2>4. Detach(w, t)
    BY <2>1, <2>3 DEF DragOut
  <2> QED BY <2>2, <2>4, DetachKeeps
<1>4. CASE \E w \in Wins, i \in 1 .. Cardinality(Tabs) : DragMove(w, i)
  <2>1. PICK w \in Wins, i \in 1 .. Cardinality(Tabs) : DragMove(w, i)
    BY <1>4
  <2>2. /\ w \in ToSet(order) /\ drag \in ToSet(win[w].tabs) /\ Len(win[w].tabs) \in Nat /\ TabRest'
        /\ Update([win EXCEPT ![w] = Moved(win[w], drag, i)]) /\ i <= Len(win[w].tabs)
        /\ UNCHANGED <<order, closing, live, host, locked>>
    BY <2>1, OfWins DEF DragMove, Holds, TabInv, TabRest
  <2>3. PICK t \in ToSet(win[w].tabs) : t = drag
    BY <2>2
  <2>4. i \in 1 .. Len(win[w].tabs)
    BY <1>1, <2>2
  <2>5. Update([win EXCEPT ![w] = Moved(win[w], t, i)])
    BY <2>2, <2>3
  <2> QED BY <2>2, <2>4, <2>5, MoveKeeps
<1>5. CASE \E w, to \in Wins, i \in 1 .. Cardinality(Tabs) : DragInto(w, to, i)
  <2>1. PICK w \in Wins, to \in Wins, i \in 1 .. Cardinality(Tabs) : DragInto(w, to, i)
    BY <1>5
  <2>2. i \in Int /\ i >= 1
    BY <1>1
  <2> QED BY <2>1, <2>2, DragIntoKeeps
<1> QED BY <1>2, <1>3, <1>4, <1>5 DEF Drag

(* Every event keeps it.                                                     *)
LEMMA TabInvStep == TabInv /\ [TabNext]_tabVars => TabInv'
<1> SUFFICES ASSUME TabInv, [TabNext]_tabVars PROVE TabInv'
  OBVIOUS
<1>1. closing \subseteq ToSet(order)
  BY DEF TabInv, WindowsSound
<1>2. CASE \E w \in Wins : OneWindow(w) \/ \E t \in Tabs : OneTab(w, t)
  BY <1>2, OneWindowStep, OneTabStep
<1>3. CASE Drag
  BY <1>3, DragStep
<1>4. CASE MenuDismiss
  <2>1. UNCHANGED <<order, win, live, dividers, locked, closing, host>> /\ TabRest'
    BY <1>4 DEF MenuDismiss, TabInv, TabRest
  <2> QED BY <1>1, <2>1, SameWindowsKeep
<1>5. CASE MenuClick
  BY <1>5, MenuClickKeeps
<1>6. CASE ReportMinted
  <2>1. /\ report \in ToSet(order) /\ Open(report, TRUE) /\ UNCHANGED <<order, closing, host, locked>> /\ TabRest'
    BY <1>6, OfWins DEF ReportMinted, TabInv, TabRest
  <2>2. PICK w \in ToSet(order), activate \in BOOLEAN : w = report /\ activate = TRUE
    BY <2>1
  <2>3. Open(w, activate) /\ activate
    BY <2>1, <2>2
  <2> QED BY <2>1, <2>3, OpenKeeps
<1>7. CASE ReportDropped
  <2>1. UNCHANGED <<order, win, live, dividers, locked, closing, host>> /\ TabRest'
    BY <1>7 DEF ReportDropped, TabInv, TabRest
  <2> QED BY <1>1, <2>1, SameWindowsKeep
<1>8. CASE DetachOverlay
  BY <1>8, DetachOverlayKeeps
<1>9. CASE Lock
  BY <1>9, LockKeeps
<1>10. CASE Unlock
  BY <1>10, UnlockKeeps
<1>11. CASE Quit
  <2>1. /\ UNCHANGED <<order, win, live, dividers, locked, host>> /\ TabRest'
        /\ closing \subseteq closing' /\ closing' \subseteq ToSet(order)
    BY <1>1, <1>11 DEF Quit, TabInv, TabRest
  <2> QED BY <2>1, SameWindowsKeep
<1>12. CASE UNCHANGED tabVars
  <2>1. UNCHANGED <<order, win, live, dividers, locked, closing, host>> /\ TabRest'
    BY <1>12 DEF tabVars, TabInv, TabRest
  <2> QED BY <1>1, <2>1, SameWindowsKeep
<1> QED BY <1>2, <1>3, <1>4, <1>5, <1>6, <1>7, <1>8, <1>9, <1>10, <1>11, <1>12 DEF TabNext

(* So it always holds.                                                       *)
LEMMA TabsStayInOrder == TabSpec => []TabInv
<1> QED BY TabInvInit, TabInvStep, PTL DEF TabSpec

(* Whatever handlers, clicks, drags, wheels and locks come in whatever       *)
(* order, each view of the program is in one window, what a window shows is  *)
(* what it should, and no dead split or covered wheel is left.               *)
THEOREM ViewsStayAccounted == TabSpec => []ViewsAreAccounted
<1> QED BY TabsStayInOrder, TabInvHolds, PTL

(* A window with tabs shows one of them; one without is leaving or signs in. *)
THEOREM NoWindowIsBlank == TabSpec => []NoBlankWindow
<1> QED BY TabsStayInOrder, TabInvHolds, PTL

(* While locked, every window that stays shows the sign-in page or soon will. *)
THEOREM LockStaysCovering == TabSpec => []LockCoversEveryWindow
<1> QED BY TabsStayInOrder, TabInvHolds, PTL
=============================================================================
