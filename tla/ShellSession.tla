---------------------------- MODULE ShellSession ----------------------------
(***************************************************************************)
(* Who is signed in.  The shell's main process holds one session token     *)
(* (app/src/main/api.ts), the backend the sessions themselves with the     *)
(* user's data key (backend/sessions.py), the tab manager whether the      *)
(* windows are locked (tabs.ts, index.ts).  Requests run concurrently: the *)
(* token is read when one is sent, and its answer acts on whatever token   *)
(* is there when it comes back.                                            *)
(*                                                                         *)
(* The supervisor is used through what it promises (module Backend).       *)
(***************************************************************************)
EXTENDS FiniteSets, Backend

CONSTANTS
  Sessions, (* session tokens; a name is used again once nothing holds it   *)
  Requests  (* bounds how many requests are under way at one time           *)

ASSUME SessionAssumption == None \notin Sessions \cup Procs \cup Requests

VARIABLES
  \* backend: SessionStore, one per process
  home,      (* home[s]: the backend whose _by_token has s, or None         *)
  idle,      (* sessions that have been idle longer than idle_seconds       *)
  sealed,    (* what credentials were encrypted with: "dek" or "zero"       *)
  \* shell
  token,     (* sessionToken                                                *)
  windowsLocked, (* TabManager.locked                                       *)
  lockDue,   (* a setImmediate that announces the lock is set               *)
  unlockDue, (* a lock screen has sent 'auth:unlocked'                      *)
  \* requests
  req        (* req[q]: how far a request has come, what it asks for, the   *)
             (* token it was sent with, the backend it was sent to, the key *)
             (* in its handler's snapshot, and its answer                   *)

storeVars   == <<home, idle, sealed>>
shellVars   == <<token, windowsLocked, lockDue, unlockDue>>
sessionVars == <<backendVars, storeVars, shellVars, req>>

Routes == {"login", "logout", "lock", "data"}

RequestType ==
  [phase : {"sent", "running", "answered", "abandoned"}, route : Routes,
   bearer : Sessions \cup {None}, dest : Procs, dek : {"none", "dek"},
   result : Sessions \cup {"none", "ok", "401"}]

SessionTypeOK ==
  /\ up \subseteq Procs /\ announced \subseteq Procs /\ current \in Procs \cup {None}
  /\ home \in [Sessions -> Procs \cup {None}]
  /\ idle \subseteq Sessions
  /\ sealed \subseteq {"dek", "zero"}
  /\ token \in Sessions \cup {None}
  /\ windowsLocked \in BOOLEAN /\ lockDue \in BOOLEAN /\ unlockDue \in BOOLEAN
  /\ req \in [Requests -> RequestType \cup {None}]

SessionInit ==
  /\ BackendInit
  /\ home = [s \in Sessions |-> None]
  /\ idle = {} /\ sealed = {}
  /\ token = None /\ windowsLocked = TRUE /\ lockDue = FALSE /\ unlockDue = FALSE
  /\ req = [q \in Requests |-> None]

UnderWay == {q \in Requests : req[q] # None}

----------------------------------------------------------------------------
(* The store of one backend *)

Entries == {s \in Sessions : home[s] # None}

(* get(b): the entry of a token, if it is there and not idle too long.      *)
Known(b, p) == b # None /\ home[b] = p
Valid(b, p) == Known(b, p) /\ b \notin idle

(* A token that was never given out, or that nothing holds any more.        *)
NewToken(s) ==
  /\ s \notin Entries \cup {token}
  /\ \A q \in UnderWay : s \notin {req[q].bearer, req[q].result}

(* _drop: the entry goes and its key is wiped.                              *)
Drop(ss) ==
  /\ home' = [s \in Sessions |-> IF s \in ss THEN None ELSE home[s]]
  /\ idle' = idle \ ss

(* get drops the entry of a token that was idle too long.                   *)
DropIdle(b, p) == Drop(IF Known(b, p) /\ b \in idle THEN {b} ELSE {})

(* Answering a request whose reply nobody waits for ends it.                *)
Answer(q, r) ==
  req' = [req EXCEPT ![q] = IF @.phase = "abandoned" THEN None
                            ELSE [@ EXCEPT !.phase = "answered", !.result = r]]

Asked(q, r) ==
  /\ q \in UnderWay
  /\ req[q].phase \in {"sent", "abandoned"} /\ req[q].route = r /\ req[q].dest \in up

StoreOnly == UNCHANGED <<backendVars, shellVars>>

(* auth_login and auth_setup: a new entry, or 401.                          *)
ServeLogin(q) ==
  /\ Asked(q, "login")
  /\ \/ \E s \in Sessions :
          /\ NewToken(s)
          /\ home' = [home EXCEPT ![s] = req[q].dest]
          /\ Answer(q, s)
     \/ Answer(q, "401") /\ UNCHANGED home
  /\ UNCHANGED <<idle, sealed>> /\ StoreOnly

(* auth_logout: revoke the token that was sent, whatever it is.             *)
ServeLogout(q) ==
  /\ Asked(q, "logout")
  /\ Drop(IF Known(req[q].bearer, req[q].dest) THEN {req[q].bearer} ELSE {})
  /\ Answer(q, "ok")
  /\ UNCHANGED sealed /\ StoreOnly

(* auth_lock: revoke every session of the user.                             *)
ServeLock(q) ==
  /\ Asked(q, "lock")
  /\ IF Valid(req[q].bearer, req[q].dest)
       THEN Drop({s \in Sessions : home[s] = req[q].dest}) /\ Answer(q, "ok")
       ELSE DropIdle(req[q].bearer, req[q].dest) /\ Answer(q, "401")
  /\ UNCHANGED sealed /\ StoreOnly

(* Any other route begins with current_session: a snapshot with a private   *)
(* copy of the key, or 401.  (Once it is authorized it does not matter that *)
(* the shell has let go: its answer leaves the token alone.)                *)
Authorize(q) ==
  /\ Asked(q, "data")
  /\ IF Valid(req[q].bearer, req[q].dest)
       THEN /\ req' = [req EXCEPT ![q].phase = "running", ![q].dek = "dek"]
            /\ UNCHANGED <<home, idle>>
       ELSE DropIdle(req[q].bearer, req[q].dest) /\ Answer(q, "401")
  /\ UNCHANGED sealed /\ StoreOnly

(* Mutant: the handler works on the store's own buffer, which _drop zeroes. *)
Finish_OwnBuffer(q) ==
  /\ q \in UnderWay /\ req[q].phase = "running" /\ req[q].dest \in up
  /\ sealed' = sealed \cup {IF req[q].bearer \in Entries THEN "dek" ELSE "zero"}
  /\ Answer(q, "ok")
  /\ UNCHANGED <<home, idle>> /\ StoreOnly

(* ... and ends by using that copy, for instance to encrypt a credential.   *)
Finish(q) ==
  /\ q \in UnderWay /\ req[q].phase = "running" /\ req[q].dest \in up
  /\ sealed' = sealed \cup {req[q].dek}
  /\ Answer(q, "ok")
  /\ UNCHANGED <<home, idle>> /\ StoreOnly

(* last_seen falls behind by idle_seconds; nothing looks before the next get.*)
GoIdle(s) ==
  /\ s \in Entries \ idle
  /\ idle' = idle \cup {s}
  /\ UNCHANGED <<home, sealed, req>> /\ StoreOnly

----------------------------------------------------------------------------
(* The shell *)

(* Mutant: setToken does not announce the lock.                             *)
SetToken_Silent(s) == token' = s /\ UNCHANGED lockDue

(* setToken: only the change from signed in to signed out is announced.     *)
SetToken(s) ==
  /\ token' = s
  /\ lockDue' = (lockDue \/ (token # None /\ s = None))

(* api:request up to the send; without a backend it answers 503 at once.    *)
(* A lock screen only signs in, the tabs of an unlocked window do not.      *)
Send(q, r) ==
  /\ q \notin UnderWay /\ current # None
  /\ (r = "login") <=> windowsLocked
  /\ req' = [req EXCEPT ![q] = [phase |-> "sent", route |-> r, bearer |-> token,
                                dest |-> current, dek |-> "none", result |-> "none"]]
  /\ UNCHANGED <<backendVars, storeVars, shellVars>>

(* The connection fails with the backend: 502, nothing else changes.        *)
Fail(q) ==
  /\ q \in UnderWay /\ req[q].phase # "answered" /\ req[q].dest \notin up
  /\ req' = [req EXCEPT ![q] = None]
  /\ UNCHANGED <<backendVars, storeVars, shellVars>>

(* REQUEST_TIMEOUT_MS: the shell lets go; the backend may still serve it.   *)
TimeOut(q) ==
  /\ q \in UnderWay /\ req[q].phase = "sent"
  /\ req' = [req EXCEPT ![q].phase = "abandoned"]
  /\ UNCHANGED <<backendVars, storeVars, shellVars>>

(* The token an answer leaves behind: capture, clear, and the 401 rule.     *)
TokenAfter(r) ==
  IF r.route \in {"logout", "lock"} \/ (r.result = "401" /\ r.route # "login") THEN None
  ELSE IF r.result \in Sessions THEN r.result
  ELSE token

(* The answer arrives.  A lock screen that was granted a session signals    *)
(* 'auth:unlocked', unless it has given up waiting (20 s).                  *)
Deliver(q) ==
  /\ q \in UnderWay /\ req[q].phase = "answered"
  /\ req' = [req EXCEPT ![q] = None]
  /\ SetToken(TokenAfter(req[q]))
  /\ \/ UNCHANGED unlockDue
     \/ req[q].result \in Sessions /\ unlockDue' = TRUE
  /\ UNCHANGED <<backendVars, storeVars, windowsLocked>>

(* The setImmediate of setToken: setLocked(true).                           *)
AnnounceLock ==
  /\ lockDue
  /\ lockDue' = FALSE /\ windowsLocked' = TRUE
  /\ UNCHANGED <<backendVars, storeVars, req, token, unlockDue>>

(* Mutant: the signal of the lock screen is believed.                       *)
Unlocked_Unchecked ==
  /\ unlockDue
  /\ unlockDue' = FALSE /\ windowsLocked' = FALSE
  /\ UNCHANGED <<backendVars, storeVars, req, token, lockDue>>

(* announceUnlockedIfSignedIn                                               *)
Unlocked ==
  /\ unlockDue
  /\ unlockDue' = FALSE
  /\ windowsLocked' = (windowsLocked /\ token = None)
  /\ UNCHANGED <<backendVars, storeVars, req, token, lockDue>>

----------------------------------------------------------------------------
(* The supervisor, and what its steps do to the session *)

(* A backend takes its store with it.                                       *)
BackendEnds(p) ==
  /\ End(p)
  /\ Drop({s \in Sessions : home[s] = p})
  /\ UNCHANGED <<sealed, shellVars, req>>

(* onStatus('crashed'): the token goes and the windows lock, with the       *)
(* published backend or while another one is still published.               *)
Crashed ==
  /\ Unpublish \/ UNCHANGED backendVars
  /\ SetToken(None)
  /\ windowsLocked' = TRUE
  /\ UNCHANGED <<storeVars, unlockDue, req>>

(* Nothing else the supervisor does touches the session; stop() comes with  *)
(* the end of the shell.  A child is given a name no request is sent to.    *)
BackendMoves ==
  /\ \E p \in Procs : \/ Spawned(p) /\ \A q \in UnderWay : req[q].dest # p
                      \/ Listen(p) /\ p \notin up
                      \/ Publish(p)
  /\ UNCHANGED <<storeVars, shellVars, req>>

RequestStep(q) ==
  \/ \E r \in Routes : Send(q, r)
  \/ Fail(q) \/ TimeOut(q) \/ Deliver(q)
  \/ ServeLogin(q) \/ ServeLogout(q) \/ ServeLock(q) \/ Authorize(q) \/ Finish(q)

SessionNext ==
  \/ \E q \in Requests : RequestStep(q)
  \/ \E s \in Sessions : GoIdle(s)
  \/ AnnounceLock \/ Unlocked
  \/ \E p \in Procs : BackendEnds(p)
  \/ Crashed \/ BackendMoves

SessionSpec == SessionInit /\ [][SessionNext]_sessionVars

----------------------------------------------------------------------------
(* Properties *)

(* A window is unlocked only while the shell holds a token, or in the turn  *)
(* between losing it and the lock it has announced: whatever the order of   *)
(* answers, crashes and late 'auth:unlocked' signals.                       *)
UnlockedNeedsToken == ~windowsLocked => token # None \/ lockDue

(* No credential is ever encrypted with a wiped key, although a lock can    *)
(* land in the middle of any request (sessions.py 7-14).                    *)
SealedWithRealKey == "zero" \notin sealed

(* What the shell shows and what the backend seals stand on a session that  *)
(* is there.                                                                *)
SessionIsSound == SessionTypeOK /\ UnlockedNeedsToken /\ SealedWithRealKey

(* api.ts 298: a 401 on a non-login route "means the backend dropped our    *)
(* session": it ends only a session that is no longer valid.                *)
ClearedByItsOwn401 ==
  [][\A q \in UnderWay :
       (/\ req'[q] = None /\ req[q].route = "data" /\ req[q].result = "401"
        /\ token # None /\ token' = None)
         => token \notin Entries \/ token \in idle]_sessionVars

(* sessions.py 4-5: the data key lives only inside a session entry "while a *)
(* user is unlocked": once a signed-out shell is at rest no entry is left.  *)
SignedOutVaultIsLocked == token = None /\ windowsLocked /\ UnderWay = {} => Entries = {}
=============================================================================
