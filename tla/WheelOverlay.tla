---------------------------- MODULE WheelOverlay ----------------------------
(***************************************************************************)
(* WheelManager (app/src/main/wheel.ts): the gesture wheel and the apps    *)
(* launcher share one overlay view, which is attached to one window at a   *)
(* time (attachOverlay and detachOverlay of tabs.ts) and drawn by a page   *)
(* of its own (renderer/src/modes/WheelOverlay.tsx).                       *)
(*                                                                         *)
(* Every await of wheel.ts is an element of `calls` that is answered later *)
(* and in any order; between a call and its answer windows close, buttons  *)
(* go up and down, and the shell locks.  A spawn waits twice: for the      *)
(* wheels ("doc"), then for the notepad's hint ("pad").  It looks at       *)
(* spawnSeq after the first wait and at nothing after the second.          *)
(*                                                                         *)
(* isLocked and isSignedIn are one flag here: ShellSession has the turn    *)
(* of the event loop between them.                                         *)
(***************************************************************************)
EXTENDS FiniteSets

CONSTANTS
  Wins,   (* windows; an id is used again once nothing mentions it          *)
  Ids,    (* identities of Session objects, used again in the same way      *)
  None    (* null                                                           *)

(* Pages of a wheel: the one it opens with, those it navigates to, and the  *)
(* transient post picker.  Then the launcher's page.                        *)
Pages == {"first", "other", "picker"}
Modes == {"pending", "hold", "click"}
Session == [id : Ids, win : Wins, mode : Modes, page : Pages]
Face == [id : Ids, mode : Modes, page : Pages]
Tiles == [mode |-> "launcher"]

ASSUME WheelAssumption == Wins # {} /\ None \notin Wins \cup Ids \cup Session \cup Face \cup {Tiles}

VARIABLES
  windows,  (* the windows that are open                                    *)
  locked,   (* isLocked, or not isSignedIn                                  *)
  overlay,  (* the window whose contentView has the overlay as a child      *)
  attached, (* attachedOverlay.winId of the tab manager                     *)
  session,  (* this.session: its identity, window, mode and shown page      *)
  launcher, (* this.launcherSession.winId                                   *)
  release,  (* releaseDuringSpawn                                           *)
  leaked,   (* windows with a blur listener of a session that is gone       *)
  calls,    (* the answers that are waited for                              *)
  loaded,   (* the overlay's page: "no", "loading" or "yes"                 *)
  face,     (* what that page shows                                         *)
  \* the user
  held,     (* the window the right button was pressed in and is still down *)
  \* history
  pressed,  (* the window of the last press that spawned                    *)
  crossed   (* something came into a wait that nothing is checked after     *)

placeVars == <<overlay, attached, face>>
userVars  == <<held, pressed>>
overlayVars == <<windows, locked, placeVars, session, launcher, release, leaked,
               calls, loaded, userVars, crossed>>

Call ==
  [kind : {"doc", "pages"}, win : Wins]
    \cup [kind : {"pad"}, win : Wins, id : Ids]
    \cup [kind : {"lock", "picker"}, id : Ids]

WheelTypeOK ==
  /\ windows \subseteq Wins /\ windows # {} /\ locked \in BOOLEAN
  /\ overlay \in windows \cup {None} /\ attached \in Wins \cup {None}
  /\ session \in Session \cup {None}
  /\ launcher \in Wins \cup {None}
  /\ release \in BOOLEAN /\ leaked \subseteq Wins
  /\ calls \subseteq Call
  /\ loaded \in {"no", "loading", "yes"}
  /\ face \in Face \cup {None, Tiles}
  /\ held \in Wins \cup {None} /\ pressed \in Wins \cup {None}
  /\ crossed \in BOOLEAN

WheelInit ==
  /\ windows = Wins /\ locked = FALSE
  /\ overlay = None /\ attached = None /\ face = None
  /\ session = None /\ launcher = None
  /\ release = FALSE /\ leaked = {} /\ calls = {} /\ loaded = "no"
  /\ held = None /\ pressed = None /\ crossed = FALSE

Waiting(k) == {c \in calls : c.kind = k}

----------------------------------------------------------------------------
(* The overlay *)

SessionWin == IF session = None THEN {} ELSE {session.win}
LauncherWin == {launcher} \ {None}

(* What the page shows of a session.                                        *)
Shown(s) == [id |-> s.id, mode |-> s.mode, page |-> s.page]

(* push: a message to a page that is not listening yet evaporates ...       *)
Push(f) == face' = IF loaded = "yes" THEN f ELSE face

(* ... and wheel:update and wheel:mode only change a wheel that is shown.   *)
Update(f) == Push(IF face \in {None, Tiles} THEN face ELSE f)

(* detachOverlay, for the session and the launcher of windows ws: the view  *)
(* is taken from those windows, and attachedOverlay is forgotten.           *)
Detach(ws) ==
  /\ overlay' = IF overlay \in ws THEN None ELSE overlay
  /\ attached' = IF ws = {} THEN attached ELSE None
  /\ Push(IF ws = {} THEN face ELSE None)

(* despawn                                                                  *)
Despawn == session' = None /\ Detach(SessionWin) /\ UNCHANGED launcher

(* closeLauncher                                                            *)
CloseLauncher == launcher' = None /\ Detach(LauncherWin) /\ UNCHANGED session

(* both, in this order                                                      *)
CloseBoth == session' = None /\ launcher' = None /\ Detach(SessionWin \cup LauncherWin)

Outside == UNCHANGED <<windows, locked>>

----------------------------------------------------------------------------
(* The right button *)

(* A newer press or toggle supersedes the calls before it: when they are    *)
(* answered they find another spawnSeq (launcherSeq) and do nothing.        *)
Superseded(k) == Waiting(k)

(* wheel:evt 'down': the wheel of this window that is in click mode only    *)
(* moves; any other gives way to a new spawn.  The message may be on its    *)
(* way while the overlay comes to cover the view that sent it.              *)
Down(w) ==
  /\ w \in windows /\ held = None
  /\ held' = w
  /\ IF locked \/ (session # None /\ session.mode = "click" /\ session.win = w)
       THEN UNCHANGED <<placeVars, session, launcher, release, calls, pressed>>
       ELSE /\ Despawn
            /\ release' = FALSE
            /\ calls' = (calls \ Superseded("doc")) \cup {[kind |-> "doc", win |-> w]}
            /\ pressed' = w
  /\ Outside /\ UNCHANGED <<leaked, loaded>>

(* wheel:evt 'move', far enough from where the button went down.            *)
Move ==
  /\ ~locked /\ session # None
  /\ session.mode = "pending" /\ held = session.win
  /\ session' = [session EXCEPT !.mode = "hold"]
  /\ Update(Shown(session'))
  /\ Outside /\ UNCHANGED <<overlay, attached, launcher, release, leaked, calls, loaded, userVars>>

(* switchWheel, and the mode the face is left in.                           *)
Switch(p, m) ==
  /\ session' = [session EXCEPT !.page = p, !.mode = m]
  /\ Update(Shown(session'))
  /\ UNCHANGED <<overlay, attached, launcher>>

(* Mutant: a release while the spawn waits is dropped.                      *)
Up_Dropped ==
  /\ held # None /\ held' = None
  /\ IF locked \/ session = None \/ session.win # held \/ session.mode = "click"
       THEN UNCHANGED <<placeVars, session, launcher, release>>
       ELSE /\ UNCHANGED release
            /\ \/ session.mode = "pending" /\ Switch(session.page, "click")
               \/ session.mode = "hold" /\ \E p \in {"first", "other"} : Switch(p, "click")
               \/ session.mode = "hold" /\ Despawn
  /\ Outside /\ UNCHANGED <<leaked, calls, loaded, pressed>>

(* wheel:evt 'up': a click leaves the wheel open; the release of a hold     *)
(* acts on the segment under it, which opens another page or closes the     *)
(* wheel.  Without a session the release is remembered.                     *)
Up ==
  /\ held # None /\ held' = None
  /\ IF locked \/ session = None \/ session.win # held \/ session.mode = "click"
       THEN /\ release' = (release \/ (~locked /\ session = None))
            /\ UNCHANGED <<placeVars, session, launcher>>
       ELSE /\ UNCHANGED release
            /\ \/ session.mode = "pending" /\ Switch(session.page, "click")
               \/ session.mode = "hold" /\ \E p \in {"first", "other"} : Switch(p, "click")
               \/ session.mode = "hold" /\ Despawn
  /\ Outside /\ UNCHANGED <<leaked, calls, loaded, pressed>>

----------------------------------------------------------------------------
(* spawn and openLauncher *)

(* ensureOverlay                                                            *)
Ensure == loaded' = IF loaded = "no" THEN "loading" ELSE loaded

NewId(i) ==
  /\ session # None => session.id # i
  /\ \A c \in Waiting("pad") \cup Waiting("lock") \cup Waiting("picker") : c.id # i
  /\ face \notin {None, Tiles} => face.id # i

(* Mutant: attachOverlay does not look whether the window is there.         *)
Attach_Blind(w) == overlay' = w /\ attached' = w

(* attachOverlay: the view moves from wherever it is; a window that is gone *)
(* gets none.                                                               *)
Attach(w) ==
  IF w \in windows THEN overlay' = w /\ attached' = w
  ELSE /\ overlay' = IF overlay \in SessionWin \cup LauncherWin THEN None ELSE overlay
       /\ attached' = IF SessionWin \cup LauncherWin = {} THEN attached ELSE None

(* Mutant: an open launcher is left alone.                                  *)
DocAnswers_Launcher(c) ==
  /\ c \in Waiting("doc")
  /\ session' = None /\ UNCHANGED launcher
  /\ Attach(c.win) /\ Ensure
  /\ Push(IF SessionWin = {} THEN face ELSE None)
  /\ \/ /\ c.win \in windows
        /\ \E i \in Ids :
             NewId(i) /\ calls' = (calls \ {c}) \cup {[kind |-> "pad", win |-> c.win, id |-> i]}
     \/ c.win \notin windows /\ calls' = calls \ {c}
  /\ Outside /\ UNCHANGED <<release, leaked, userVars>>

(* spawn, from the answer to its first wait to its second.                  *)
DocAnswers(c) ==
  /\ c \in Waiting("doc")
  /\ session' = None /\ launcher' = None
  /\ Attach(c.win) /\ Ensure
  /\ Push(IF SessionWin \cup LauncherWin = {} THEN face ELSE None)
  /\ \/ /\ c.win \in windows
        /\ \E i \in Ids :
             NewId(i) /\ calls' = (calls \ {c}) \cup {[kind |-> "pad", win |-> c.win, id |-> i]}
     \/ c.win \notin windows /\ calls' = calls \ {c}
  /\ Outside /\ UNCHANGED <<release, leaked, userVars>>

(* spawn, after refreshPadHint, which answers whatever happens.             *)
PadAnswers(c) ==
  /\ c \in Waiting("pad")
  /\ calls' = calls \ {c}
  /\ session' = [id |-> c.id, win |-> c.win, page |-> "first",
                 mode |-> IF release THEN "click" ELSE "pending"]
  /\ release' = FALSE
  /\ leaked' = leaked \cup (SessionWin \cap windows)
  /\ Push(Shown(session'))
  /\ Outside /\ UNCHANGED <<overlay, attached, launcher, loaded, userVars>>

(* launcher:toggle                                                          *)
LauncherToggle(w) ==
  /\ w \in windows /\ ~locked
  /\ IF launcher = w THEN CloseLauncher /\ UNCHANGED calls
     ELSE IF w \in SessionWin THEN Despawn /\ UNCHANGED calls
     ELSE /\ calls' = (calls \ Superseded("pages")) \cup {[kind |-> "pages", win |-> w]}
          /\ UNCHANGED <<placeVars, session, launcher>>
  /\ Outside /\ UNCHANGED <<release, leaked, loaded, userVars>>

(* openLauncher, from its answer on.                                        *)
PagesAnswer(c) ==
  /\ c \in Waiting("pages")
  /\ calls' = calls \ {c}
  /\ session' = None
  /\ launcher' = IF c.win \in windows THEN c.win ELSE None
  /\ Attach(c.win) /\ Ensure
  /\ Push(IF c.win \in windows THEN Tiles
          ELSE IF SessionWin \cup LauncherWin = {} THEN face ELSE None)
  /\ Outside /\ UNCHANGED <<release, leaked, userVars>>

(* Either is answered with an error: nothing opens.                         *)
NoAnswer(c) ==
  /\ c \in Waiting("doc") \cup Waiting("pages")
  /\ calls' = calls \ {c}
  /\ Outside
  /\ UNCHANGED <<placeVars, session, launcher, release, leaked, loaded, userVars>>

----------------------------------------------------------------------------
(* What the overlay's page sends *)

(* Mutant: only a live wheel is replayed.                                   *)
Ready_WheelOnly ==
  /\ loaded = "loading" /\ loaded' = "yes"
  /\ face' = IF session # None THEN Shown(session) ELSE None
  /\ Outside
  /\ UNCHANGED <<overlay, attached, session, launcher, release, leaked, calls, userVars>>

(* wheelui:ready: whatever is live now is replayed.                         *)
Ready ==
  /\ loaded = "loading" /\ loaded' = "yes"
  /\ face' = IF launcher # None THEN Tiles
             ELSE IF session # None THEN Shown(session) ELSE None
  /\ Outside
  /\ UNCHANGED <<overlay, attached, session, launcher, release, leaked, calls, userVars>>

(* The page can be clicked: it shows something and it is on screen.         *)
Clickable == overlay # None /\ face # None

(* wheelui:act with the launcher open: a tile that is ready opens its page. *)
Pick ==
  /\ Clickable /\ launcher # None
  /\ face # Tiles => face.mode = "click"
  /\ CloseLauncher
  /\ Outside /\ UNCHANGED <<release, leaked, calls, loaded, userVars>>

(* wheelui:act on a wheel: another page, the post picker, or an action that *)
(* closes it.  Bound: one post picker (and one lock) is waited for at once. *)
Act ==
  /\ Clickable /\ launcher = None
  /\ session # None /\ session.mode = "click"
  /\ \/ /\ \E p \in {"first", "other"} : Switch(p, "click")
        /\ UNCHANGED calls
     \/ /\ Waiting("picker") = {}
        /\ calls' = calls \cup {[kind |-> "picker", id |-> session.id]}
        /\ UNCHANGED <<placeVars, session, launcher>>
     \/ Despawn /\ UNCHANGED calls
  /\ Outside /\ UNCHANGED <<release, leaked, loaded, userVars>>

(* openPostPicker after its wait: only the session that asked shows it.     *)
PickerAnswers(c) ==
  /\ c \in Waiting("picker")
  /\ calls' = calls \ {c}
  /\ IF session # None /\ session.id = c.id THEN Switch("picker", session.mode)
     ELSE UNCHANGED <<placeVars, session, launcher>>
  /\ Outside /\ UNCHANGED <<release, leaked, loaded, userVars>>

(* wheelui:lock                                                             *)
LockWheel ==
  /\ Clickable /\ session # None /\ session.mode = "click"
  /\ Waiting("lock") = {}
  /\ calls' = calls \cup {[kind |-> "lock", id |-> session.id]}
  /\ Outside
  /\ UNCHANGED <<placeVars, session, launcher, release, leaked, loaded, userVars>>

(* toggleLock after its wait: the wheel that was locked is drawn again, on  *)
(* whatever wheel the page shows by now (a page that shows none ignores it);*)
(* an error only leaves a line in the log.                                  *)
LockAnswers(c) ==
  /\ c \in Waiting("lock")
  /\ calls' = calls \ {c}
  /\ \/ UNCHANGED face
     \/ IF session # None /\ session.id = c.id THEN Update(Shown(session))
        ELSE \E p \in Pages : Update([face EXCEPT !.id = c.id, !.page = p])
  /\ Outside
  /\ UNCHANGED <<overlay, attached, session, launcher, release, leaked, loaded, userVars>>

(* wheelui:close: Escape, or a click beside the wheel.                      *)
Close ==
  /\ Clickable
  /\ CloseBoth
  /\ Outside /\ UNCHANGED <<release, leaked, calls, loaded, userVars>>

----------------------------------------------------------------------------
(* Windows and the lock *)

(* A window loses the focus or changes its size.                            *)
Blur(w) ==
  /\ w \in windows
  /\ LET wheel == session # None /\ w \in SessionWin \cup leaked
         tiles == launcher = w
         gone  == (IF wheel THEN SessionWin ELSE {}) \cup (IF tiles THEN {w} ELSE {})
     IN  /\ gone # {}
         /\ session' = IF wheel THEN None ELSE session
         /\ launcher' = IF tiles THEN None ELSE launcher
         /\ Detach(gone)
  /\ Outside /\ UNCHANGED <<release, leaked, calls, loaded, userVars>>

(* onWindowClosed and onWindowGone; the last window takes the program with  *)
(* it.  The release of a button that is down in it is never heard.          *)
WindowGone(w) ==
  /\ w \in windows /\ windows # {w}
  /\ windows' = windows \ {w}
  /\ LET gone == {w} \cap (SessionWin \cup LauncherWin)
     IN  /\ session' = IF w \in SessionWin THEN None ELSE session
         /\ launcher' = IF launcher = w THEN None ELSE launcher
         /\ overlay' = IF overlay = w THEN None ELSE overlay
         /\ attached' = IF gone = {} THEN attached ELSE None
         /\ Push(IF gone = {} THEN face ELSE None)
  /\ leaked' = leaked \ {w}
  /\ held' = IF held = w THEN None ELSE held
  /\ UNCHANGED <<locked, release, calls, loaded, pressed>>

(* A window is torn off or opened.                                          *)
WindowOpens(w) ==
  /\ ~locked /\ w \notin windows
  /\ w \notin SessionWin \cup LauncherWin \cup {attached, pressed}
  /\ \A c \in Waiting("doc") \cup Waiting("pages") \cup Waiting("pad") : c.win # w
  /\ windows' = windows \cup {w}
  /\ UNCHANGED <<locked, placeVars, session, launcher, release, leaked, calls, loaded, userVars>>

(* Mutant: a lock closes the wheel only.                                    *)
Lock_WheelOnly ==
  /\ ~locked /\ locked' = TRUE
  /\ Despawn
  /\ UNCHANGED <<windows, release, leaked, calls, loaded, userVars>>

(* onLockChanged(true)                                                      *)
Lock ==
  /\ ~locked /\ locked' = TRUE
  /\ CloseBoth
  /\ UNCHANGED <<windows, release, leaked, calls, loaded, userVars>>

Unlock ==
  /\ locked /\ locked' = FALSE
  /\ UNCHANGED <<windows, placeVars, session, launcher, release, leaked, calls, loaded, userVars>>

----------------------------------------------------------------------------
(* History: something came into a wait that nothing is checked after: into  *)
(* the second wait of a spawn; a lock into a first wait; a new wheel into   *)
(* the wait of toggleLock.                                                  *)
Crossing ==
  \/ /\ \E c \in Waiting("pad") : c \in calls'
     /\ \/ <<overlay, launcher, session, locked>>' # <<overlay, launcher, session, locked>>
        \/ \E c \in calls' \ calls : c.kind \in {"doc", "pad"}
  \/ /\ locked' # locked
     /\ Waiting("doc") \cup Waiting("pages") # {}
  \/ \E c \in Waiting("lock") \ calls' : session # None => session.id # c.id

(* ... until the overlay is free again and nothing is on its way to it.     *)
Free == overlay = None /\ session = None /\ launcher = None /\ calls = {}

Watch == crossed' = ((crossed \/ Crossing) /\ ~Free')

Step ==
  \/ \E w \in Wins :
       Down(w) \/ LauncherToggle(w) \/ Blur(w) \/ WindowGone(w) \/ WindowOpens(w)
  \/ Move \/ Up
  \/ \E c \in calls :
       DocAnswers(c) \/ PadAnswers(c) \/ PagesAnswer(c) \/ NoAnswer(c)
         \/ PickerAnswers(c) \/ LockAnswers(c)
  \/ Ready \/ Pick \/ Act \/ LockWheel \/ Close
  \/ Lock \/ Unlock

WheelNext == Step /\ Watch

WheelSpec == WheelInit /\ [][WheelNext]_overlayVars

----------------------------------------------------------------------------
(* Properties *)

(* Who has a claim on the overlay: the wheel, the launcher, a spawn that    *)
(* has attached it already.                                                 *)
Occupants ==
  {<<"wheel", w>> : w \in SessionWin} \cup {<<"launcher", w>> : w \in LauncherWin}
    \cup {<<"spawn", c.win>> : c \in Waiting("pad")}

(* "Never live alongside a wheel session, they share the one overlay view"  *)
(* (wheel.ts 207): the overlay is on a window exactly while one of them,    *)
(* and one only, has it there, and the tab manager knows where it is.       *)
OneOccupant ==
  ~crossed => /\ Occupants = {} => overlay = None
              /\ Occupants # {} => Occupants \in {{<<k, overlay>>} : k \in {"wheel", "launcher", "spawn"}}
              /\ overlay # None => attached = overlay

(* "Lock kills the wheel (and the launcher ...), unconditionally"           *)
(* (wheel.ts 228): nothing lies over the sign-in form.                      *)
NothingOverSignIn == locked /\ ~crossed => Occupants = {}

(* The overlay has one claimant, and none over the sign-in form.            *)
OverlayIsClaimed == WheelTypeOK /\ OneOccupant /\ NothingOverSignIn

(* Of presses in quick succession the last one gets the wheel, and a wheel *)
(* that waits for the release has a button that is down: "a very fast click *)
(* would leave the wheel stuck in pending" (wheel.ts 199).                  *)
AnswersTheGesture ==
  session # None /\ ~crossed =>
    /\ session.win = pressed
    /\ session.mode # "click" => held = session.win

(* "the face the user sees and the action a release fires come from one     *)
(* snapshot" (wheel.ts 586): the page shows what acts.                      *)
FaceIsWhatActs ==
  loaded = "yes" /\ ~crossed =>
    face = IF launcher # None THEN Tiles
           ELSE IF session # None THEN Shown(session) ELSE None

(* The wheel that is up is the one the last gesture asked for, and its page *)
(* shows what a release will do.                                            *)
GestureIsAnswered == AnswersTheGesture /\ FaceIsWhatActs

(* The same, whatever comes between: not kept.                              *)
LockKillsTheWheel == locked => session = None /\ launcher = None
NeverBoth         == session = None \/ launcher = None
OverlayIsOwned    == overlay # None => Occupants # {}
=============================================================================
