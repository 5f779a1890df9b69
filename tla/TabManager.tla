----------------------------- MODULE TabManager -----------------------------
(***************************************************************************)
(* The shell's windows and the live tabs in them (app/src/main/tabs.ts).   *)
(* A window keeps a list of tabs, which one is active, at most one split   *)
(* pair, and the native child views that are on screen.  Every handler     *)
(* must leave the child views and the bookkeeping in step: Electron        *)
(* destroys no view by itself, and draws whatever is attached.             *)
(*                                                                         *)
(* BaseWindow.close() only asks: 'closed' comes some time later, and until *)
(* then the window is still in wins and its renderers can still send.      *)
(* A handler is one action; what is between two events is interleaved: a   *)
(* report key being minted, a native menu, a drag, a page swap.            *)
(***************************************************************************)
EXTENDS SequencesExt, FiniteSets, Integers

CONSTANTS
  Wins,      (* window ids; one is used again once nothing mentions it      *)
  Tabs,      (* tab ids, each with its view; used again likewise            *)
  Divider,   (* the view between the two panes of a window's split          *)
  Nil,       (* no window, no tab                                           *)
  MaxPending (* bounds how many there are at a time of a drag, a tab menu,  *)
             (* a report on its way and a wheel                             *)

VARIABLES
  order,    (* wins                                                         *)
  win,      (* win[w]: the Win record of a window in wins, else Nil        *)
  closing,  (* windows whose close() was called and which are still in wins *)
  live,     (* tabs whose webContents is not closed                         *)
  dividers, (* windows whose divider view's webContents is not closed       *)
  locked,
  drag,     (* the tab being dragged                                        *)
  menu,     (* the open tab menu: its window, its tab and the others        *)
  report,   (* the window for which a report key is being minted            *)
  host      (* attachedOverlay.winId                                        *)

tabVars == <<order, win, closing, live, dividers, locked, drag, menu, report, host>>

Pages  == {"auth", "chrome"}      \* what a window's chrome view shows
Layers == {"off", "top", "under"} \* the overlay in a window: above all its kids or not

WinType ==
  [tabs : Seq(Tabs), active : Tabs \cup {Nil}, prev : Tabs \cup {Nil},
   split : {Nil} \cup (Tabs \X Tabs), kids : SUBSET (Tabs \cup {Divider}), overlay : Layers,
   divider : BOOLEAN, page : Pages, target : Pages]

ASSUME TabAssumption ==
  /\ Divider \notin Tabs /\ IsFiniteSet(Tabs)
  /\ Nil \notin Wins \cup Tabs \cup {Divider} /\ Nil \notin WinType
  /\ MaxPending \in Nat

MenuType == [win : Wins, tab : Tabs, others : SUBSET Tabs]

TabTypeOK ==
  /\ order \in Seq(Wins) /\ IsInjective(order)
  /\ \A w \in Wins : IF Contains(order, w) THEN win[w] \in WinType ELSE win[w] = Nil
  /\ closing \subseteq ToSet(order)
  /\ live \subseteq Tabs /\ dividers \subseteq Wins
  /\ locked \in BOOLEAN
  /\ drag \in Tabs \cup {Nil}
  /\ menu \in MenuType \cup {Nil}
  /\ report \in Wins \cup {Nil} /\ host \in Wins \cup {Nil}

Mode(lock) == IF lock THEN "auth" ELSE "chrome"

NewWin(lock) ==
  [tabs |-> <<>>, active |-> Nil, prev |-> Nil, split |-> Nil, kids |-> {}, overlay |-> "off",
   divider |-> FALSE, page |-> Mode(lock), target |-> Mode(lock)]

TabInit ==
  /\ \E w \in Wins : /\ order = <<w>>
                     /\ win = [v \in Wins |-> IF v = w THEN NewWin(TRUE) ELSE Nil]
  /\ closing = {} /\ live = {} /\ dividers = {}
  /\ locked = TRUE
  /\ drag = Nil /\ menu = Nil /\ report = Nil /\ host = Nil

-----------------------------------------------------------------------------
\* One window

IndexOf(s, t) == CHOOSE i \in DOMAIN s : s[i] = t

\* visibleSplit
Visible(x) ==
  /\ x.split # Nil
  /\ ToSet(x.split) \subseteq ToSet(x.tabs)
  /\ x.active \in ToSet(x.split)

\* the views that should be on screen
Wanted(x) ==
  IF Visible(x) THEN ToSet(x.split) \cup {Divider} ELSE ToSet(x.tabs) \cap {x.active}

\* the views that a window may attach and detach: never the overlay
Owned(x) == ToSet(x.tabs) \cup IF x.divider THEN {Divider} ELSE {}

(* Mutant: the overlay is not raised again above a view that was added. *)
Layer_NotRaised(w, x) == IF x.overlay # "off" /\ ~ Wanted(x) \subseteq x.kids THEN "under" ELSE x.overlay

\* a view that is added lands above the overlay, which reconcile raises where it is attached
Layer(w, x) ==
  IF x.overlay = "off" THEN "off"
  ELSE IF host = w THEN "top"
  ELSE IF Wanted(x) \subseteq x.kids THEN x.overlay
  ELSE "under"

(* Mutant: the divider is not among the views a window takes off again. *)
Reconcile_DividerStays(w, x) ==
  [x EXCEPT !.kids = (@ \ ToSet(x.tabs)) \cup Wanted(x),
            !.overlay = Layer(w, x), !.divider = @ \/ Visible(x)]

\* take off what is not wanted, add what is missing, make the divider if it is needed
Reconcile(w, x) ==
  [x EXCEPT !.kids = (x.kids \ Owned(x)) \cup Wanted(x),
            !.overlay = Layer(w, x), !.divider = x.divider \/ Visible(x)]

Activate(w, x, t) ==
  IF ~Contains(x.tabs, t) THEN x
  ELSE Reconcile(w, [x EXCEPT !.prev = IF x.active \in {Nil, t} THEN x.prev ELSE x.active,
                              !.active = t])

(* Mutant: a split dies only with its active member. *)
SplitWithout_Active(x, t) == IF x.split # Nil /\ t \in ToSet(x.split) /\ x.active = t THEN Nil ELSE x.split

\* a split dies with either member
SplitWithout(x, t) == IF x.split # Nil /\ t \in ToSet(x.split) THEN Nil ELSE x.split

\* the tab that is activated when the active one at i leaves
Neighbour(tabs, i) == IF tabs = <<>> THEN Nil ELSE tabs[IF i > Len(tabs) THEN Len(tabs) ELSE i]

\* what closeTab and adoptTab do to the window that a tab leaves, if it still has the tab
Without(w, x, t) ==
  LET i == IndexOf(x.tabs, t)
      y == [x EXCEPT !.tabs = RemoveAt(x.tabs, i), !.split = SplitWithout(x, t), !.kids = x.kids \ {t}]
  IN IF ~Contains(x.tabs, t) THEN x
     ELSE IF x.active = t THEN Activate(w, [y EXCEPT !.active = Nil], Neighbour(y.tabs, i))
     ELSE Reconcile(w, y)

\* reorder, to an index that is clamped to the list
Moved(x, t, i) == [x EXCEPT !.tabs = InsertAt(RemoveAt(x.tabs, IndexOf(x.tabs, t)), i, t)]

-----------------------------------------------------------------------------
\* Windows and tabs in handlers

Holds(w, t) == Contains(order, w) /\ Contains(win[w].tabs, t)

\* a message of the tab strip: the strip is what the chrome view shows
FromStrip(w) == Contains(order, w) /\ win[w].page = "chrome"

\* ids and windows that nothing refers to, so that their use again is not seen
FreshTabs ==
  Tabs \ (live \cup {drag} \cup {win[w].prev : w \in ToSet(order)}
               \cup IF menu = Nil THEN {} ELSE {menu.tab} \cup menu.others)

FreshWins ==
  Wins \ (ToSet(order) \cup {report, host} \cup IF menu = Nil THEN {} ELSE {menu.win})

Pending == Cardinality({i \in 1..4 : <<drag, menu, report, host>>[i] # Nil})

\* the records of a handler; a divider in one that had none is a new view
Update(f) ==
  /\ win' = f
  /\ dividers' = dividers \cup {w \in Wins : f[w] # Nil /\ f[w].divider}

\* win.close() on the windows that a handler left without tabs
CloseIfEmpty(w) == closing' = IF win'[w].tabs = <<>> THEN closing \cup {w} ELSE closing

\* newTab and newBrowserTab
Open(w, activate) ==
  \E t \in FreshTabs :
    LET x == [win[w] EXCEPT !.tabs = Append(win[w].tabs, t)]
    IN /\ Update([win EXCEPT ![w] = IF activate THEN Activate(w, x, t) ELSE x])
       /\ live' = live \cup {t}

\* closeTab, for each of a list of tabs
WithoutAll(w, x, ts) ==
  LET after[n \in 0 .. Len(ts)] == IF n = 0 THEN x ELSE Without(w, after[n - 1], ts[n])
  IN  after[Len(ts)]
CloseAll(w, ts) ==
  LET gone == ToSet(ts) \cap ToSet(win[w].tabs)
  IN /\ gone # {}
     /\ Update([win EXCEPT ![w] = WithoutAll(w, win[w], ts)])
     /\ live' = live \ gone
     /\ CloseIfEmpty(w)

(* Mutant: the window that the last tab left stays open. *)
Adopt_NoClose(from, f, to, t, i) ==
  /\ Update([f EXCEPT ![from] = Without(from, f[from], t),
                      ![to] = Activate(to, [f[to] EXCEPT !.tabs = InsertAt(f[to].tabs, i, t)], t)])
  /\ closing' = closing

\* adoptTab: the view of t moves from one of the windows of f to another
Adopt(from, f, to, t, i) ==
  /\ Update([f EXCEPT ![from] = Without(from, f[from], t),
                      ![to] = Activate(to, [f[to] EXCEPT !.tabs = InsertAt(f[to].tabs, i, t)], t)])
  /\ CloseIfEmpty(from)

\* detachToNewWindow; the only tab of a window moves with its window
Detach(from, t) ==
  IF Len(win[from].tabs) = 1 THEN UNCHANGED <<order, win, closing, dividers>>
  ELSE \E n \in FreshWins :
         /\ order' = Append(order, n)
         /\ Adopt(from, [win EXCEPT ![n] = NewWin(locked)], n, t, 1)

SetSplit(w, a, b) ==
  /\ ~locked /\ a # b
  /\ Holds(w, a) /\ Holds(w, b)
  /\ Update([win EXCEPT ![w] = Activate(w, [win[w] EXCEPT !.split = <<a, b>>], a)])

-----------------------------------------------------------------------------
\* Messages of the strip, of the tabs and of the wheel

\* tabs:new, tab:open, tab:openUrl and the wheel's destinations need an unlocked shell;
\* nav:goto and nav:home, which open a tab when the active one is of the other kind, only
\* a strip; the popup of a web page only the tab it is in
NewTab(w) ==
  /\ Contains(order, w)
  /\ ~locked \/ FromStrip(w) \/ win[w].tabs # <<>>
  /\ Open(w, TRUE)
  /\ UNCHANGED <<order, closing, locked, drag, menu, report, host>>

\* a popup that asks for a background tab
BackgroundTab(w) ==
  /\ Contains(order, w) /\ win[w].tabs # <<>>
  /\ Open(w, FALSE)
  /\ UNCHANGED <<order, closing, locked, drag, menu, report, host>>

\* tabs:activate, and activateTabGlobal of the wheel
ActivateTab(w, t) ==
  /\ Holds(w, t)
  /\ Update([win EXCEPT ![w] = Activate(w, @, t)])
  /\ UNCHANGED <<order, closing, live, locked, drag, menu, report, host>>

\* tabs:prev
Previous(w) ==
  /\ FromStrip(w)
  /\ Contains(win[w].tabs, win[w].prev)
  /\ Update([win EXCEPT ![w] = Activate(w, @, win[w].prev)])
  /\ UNCHANGED <<order, closing, live, locked, drag, menu, report, host>>

CloseTab(w, t) ==
  /\ FromStrip(w)
  /\ CloseAll(w, <<t>>)
  /\ UNCHANGED <<order, locked, drag, menu, report, host>>

Reorder(w, t, i) ==
  /\ FromStrip(w) /\ Holds(w, t) /\ i <= Len(win[w].tabs)
  /\ Update([win EXCEPT ![w] = Moved(@, t, i)])
  /\ UNCHANGED <<order, closing, live, locked, drag, menu, report, host>>

Split(w, a, b) ==
  /\ FromStrip(w)
  /\ SetSplit(w, a, b)
  /\ UNCHANGED <<order, closing, live, locked, drag, menu, report, host>>

Unsplit(w) ==
  /\ FromStrip(w) /\ win[w].split # Nil
  /\ Update([win EXCEPT ![w] = Reconcile(w, [win[w] EXCEPT !.split = Nil])])
  /\ UNCHANGED <<order, closing, live, locked, drag, menu, report, host>>

-----------------------------------------------------------------------------
\* A drag, which ends over a strip or over none

DragStart(w, t) ==
  /\ FromStrip(w) /\ Holds(w, t) /\ Pending < MaxPending
  /\ drag' = t
  /\ UNCHANGED <<order, win, closing, live, dividers, locked, menu, report, host>>

\* live reorder in the source window's strip
DragMove(w, i) ==
  /\ \E v \in Wins : FromStrip(v)
  /\ Holds(w, drag) /\ i <= Len(win[w].tabs)
  /\ Update([win EXCEPT ![w] = Moved(@, drag, i)])
  /\ UNCHANGED <<order, closing, live, locked, drag, menu, report, host>>

\* outside every strip
DragOut(w) ==
  /\ \E v \in Wins : FromStrip(v)
  /\ Holds(w, drag)
  /\ Detach(w, drag)
  /\ drag' = Nil
  /\ UNCHANGED <<live, locked, menu, report, host>>

\* over the strip of another window
DragInto(w, to, i) ==
  /\ \E v \in Wins : FromStrip(v)
  /\ Holds(w, drag) /\ Contains(order, to) /\ to # w
  /\ i <= Len(win[to].tabs) + 1
  /\ Adopt(w, win, to, drag, i)
  /\ drag' = Nil
  /\ UNCHANGED <<order, live, locked, menu, report, host>>

\* over its own strip, or when its window is gone
DragDrop ==
  /\ drag # Nil
  /\ \E v \in Wins : FromStrip(v)
  /\ drag' = Nil
  /\ UNCHANGED <<order, win, closing, live, dividers, locked, menu, report, host>>

-----------------------------------------------------------------------------
\* The menu of a tab: its clicks come after it was built

MenuOpen(w, t) ==
  /\ FromStrip(w) /\ ~locked /\ Holds(w, t) /\ Pending < MaxPending
  /\ menu' = [win |-> w, tab |-> t, others |-> ToSet(win[w].tabs) \ {t}]
  /\ UNCHANGED <<order, win, closing, live, dividers, locked, drag, report, host>>

MenuDismiss ==
  /\ menu # Nil /\ menu' = Nil
  /\ UNCHANGED <<order, win, closing, live, dividers, locked, drag, report, host>>

MenuClick ==
  /\ menu # Nil /\ menu' = Nil
  /\ Contains(order, menu.win) \* alive
  /\ LET w == menu.win IN
       \/ /\ \E o \in menu.others : SetSplit(w, menu.tab, o)
          /\ UNCHANGED <<order, closing, live>>
       \/ /\ Open(w, TRUE)
          /\ UNCHANGED <<order, closing>>
       \/ /\ CloseAll(w, <<menu.tab>>)
          /\ UNCHANGED order
       \/ /\ \E others \in SetToSeqs(menu.others) : CloseAll(w, others)
          /\ UNCHANGED order
       \/ /\ Len(win[w].tabs) > 1 /\ Holds(w, menu.tab)
          /\ Detach(w, menu.tab)
          /\ UNCHANGED live
  /\ UNCHANGED <<locked, drag, report, host>>

-----------------------------------------------------------------------------
\* Reports, overlay and windows

\* backtest:openReport waits for a key
ReportAsked(w) ==
  /\ ~locked /\ report = Nil /\ Pending < MaxPending
  /\ Contains(order, w) /\ win[w].tabs # <<>>
  /\ report' = w
  /\ UNCHANGED <<order, win, closing, live, dividers, locked, drag, menu, host>>

\* the window was looked up before the wait
ReportMinted ==
  /\ report # Nil /\ report' = Nil
  /\ Contains(order, report)
  /\ Open(report, TRUE)
  /\ UNCHANGED <<order, closing, locked, drag, menu, host>>

ReportDropped ==
  /\ report # Nil /\ report' = Nil
  /\ UNCHANGED <<order, win, closing, live, dividers, locked, drag, menu, host>>

\* a view has one parent: attaching it takes it out of another window
AttachOverlay(w) ==
  /\ Contains(order, w)
  /\ host # Nil \/ Pending < MaxPending
  /\ win' = [v \in Wins |-> IF win[v] = Nil THEN Nil
                            ELSE [win[v] EXCEPT !.overlay = IF v = w THEN "top" ELSE "off"]]
  /\ host' = w
  /\ UNCHANGED <<order, closing, live, dividers, locked, drag, menu, report>>

\* the wheel and the launcher detach the overlay from the window they attached it to
Uncovered == IF Contains(order, host) THEN [win EXCEPT ![host].overlay = "off"] ELSE win

DetachOverlay ==
  /\ host # Nil /\ host' = Nil
  /\ win' = Uncovered
  /\ UNCHANGED <<order, closing, live, dividers, locked, drag, menu, report>>

\* the user closes a window
CloseWindow(w) ==
  /\ Contains(order, w) /\ w \notin closing
  /\ closing' = closing \cup {w}
  /\ UNCHANGED <<order, win, live, dividers, locked, drag, menu, report, host>>

(* Mutant: the window goes and its tabs are left to Electron. *)
Closed_Leaks(w) ==
  /\ w \in closing /\ closing' = closing \ {w}
  /\ order' = RemoveAt(order, IndexOf(order, w))
  /\ win' = [win EXCEPT ![w] = Nil]
  /\ host' = IF host = w THEN Nil ELSE host
  /\ UNCHANGED <<live, dividers, locked, drag, menu, report>>

(* Mutant: the window stays in wins. *)
Closed_StaysListed(w) ==
  /\ w \in closing /\ closing' = closing \ {w}
  /\ live' = live \ ToSet(win[w].tabs)
  /\ dividers' = IF win[w].divider THEN dividers \ {w} ELSE dividers
  /\ win' = [win EXCEPT ![w] = Nil]
  /\ UNCHANGED <<order, locked, drag, menu, report, host>>

\* onWindowClosed; a winId in attachedOverlay that no window has any more is none at all
Closed(w) ==
  /\ w \in closing /\ closing' = closing \ {w}
  /\ live' = live \ ToSet(win[w].tabs)
  /\ dividers' = IF win[w].divider THEN dividers \ {w} ELSE dividers
  /\ win' = [win EXCEPT ![w] = Nil]
  /\ order' = RemoveAt(order, IndexOf(order, w))
  /\ host' = IF host = w THEN Nil ELSE host
  /\ UNCHANGED <<locked, drag, menu, report>>

\* before-quit: shutdown; onAllClosed quits too, and finds no window
Quit ==
  /\ closing # ToSet(order) /\ closing' = ToSet(order)
  /\ UNCHANGED <<order, win, live, dividers, locked, drag, menu, report, host>>

-----------------------------------------------------------------------------
\* setLocked

\* the page that setLocked asked for has replaced the other
PageSwaps(w) ==
  /\ Contains(order, w) /\ win[w].page # win[w].target
  /\ win' = [win EXCEPT ![w].page = win[w].target]
  /\ UNCHANGED <<order, closing, live, dividers, locked, drag, menu, report, host>>

(* Mutant: only the lock window is dealt with. *)
LockOthers_None == {}

\* all windows but the first are closed
LockOthers == ToSet(Tail(order))

\* onLockChanged despawns a wheel, but not one that is being opened
Lock ==
  /\ ~locked /\ locked' = TRUE
  /\ host' \in {host, Nil}
  /\ IF order = <<>> THEN UNCHANGED <<win, closing, live, dividers>>
     ELSE LET w == order[1]
              x == win[w]
              f == IF host' = Nil THEN Uncovered ELSE win
          IN /\ closing' = closing \cup LockOthers
             /\ live' = live \ ToSet(x.tabs)
             /\ dividers' = IF x.divider THEN dividers \ {w} ELSE dividers
             /\ win' = [f EXCEPT ![w] =
                          [f[w] EXCEPT !.tabs = <<>>, !.active = Nil, !.split = Nil,
                                       !.kids = x.kids \ Owned(x),
                                       !.divider = FALSE, !.target = "auth"]]
  /\ UNCHANGED <<order, drag, menu, report>>

Unlock ==
  /\ locked /\ locked' = FALSE
  /\ \E w \in Wins, t \in FreshTabs :
       /\ IF order = <<>> THEN w \in FreshWins /\ order' = <<w>>
          ELSE w = order[1] /\ order' = order
       /\ LET x == IF order = <<>> THEN NewWin(FALSE) ELSE [win[w] EXCEPT !.target = "chrome"]
          IN Update([win EXCEPT ![w] = Activate(w, [x EXCEPT !.tabs = Append(x.tabs, t)], t)])
       /\ live' = live \cup {t}
  /\ UNCHANGED <<closing, drag, menu, report, host>>

-----------------------------------------------------------------------------
OneWindow(w) ==
  \/ NewTab(w) \/ BackgroundTab(w) \/ Previous(w) \/ Unsplit(w)
  \/ ReportAsked(w) \/ AttachOverlay(w) \/ CloseWindow(w) \/ Closed(w) \/ PageSwaps(w)

OneTab(w, t) ==
  \/ ActivateTab(w, t) \/ CloseTab(w, t) \/ DragStart(w, t) \/ MenuOpen(w, t)
  \/ \E i \in 1..Cardinality(Tabs) : Reorder(w, t, i)
  \/ \E o \in Tabs : Split(w, t, o)

Drag ==
  \/ DragDrop
  \/ \E w \in Wins : DragOut(w)
  \/ \E w \in Wins, i \in 1..Cardinality(Tabs) : DragMove(w, i)
  \/ \E w, to \in Wins, i \in 1..Cardinality(Tabs) : DragInto(w, to, i)

TabNext ==
  \/ \E w \in Wins : OneWindow(w) \/ \E t \in Tabs : OneTab(w, t)
  \/ Drag
  \/ MenuDismiss \/ MenuClick
  \/ ReportMinted \/ ReportDropped
  \/ DetachOverlay
  \/ Lock \/ Unlock \/ Quit

TabSpec == TabInit /\ [][TabNext]_tabVars

-----------------------------------------------------------------------------
(***************************************************************************)
(* Properties                                                              *)
(***************************************************************************)

(* Every live tab is in exactly one window and every tab in a window is    *)
(* live, and a divider is alive exactly while its window holds it: Electron *)
(* closes no view of its own accord (tabs.ts:483-487), so a view that no   *)
(* handler closed is a renderer that is left running.                      *)
OneHome ==
  /\ \A t \in Tabs : Cardinality({w \in ToSet(order) : Contains(win[w].tabs, t)})
                       = IF t \in live THEN 1 ELSE 0
  /\ \A w \in ToSet(order) : IsInjective(win[w].tabs)
  /\ dividers = {w \in ToSet(order) : win[w].divider}

(* What is on screen is exactly what should be: the active tab alone, or   *)
(* the split pair with its divider (tabs.ts:537-542).                      *)
ShownIsWanted == \A w \in ToSet(order) : win[w].kids = Wanted(win[w])

(* A split names two different tabs of its own window: it dies with either *)
(* member, however that member leaves (tabs.ts:355-356).                   *)
SplitPairIsWhole ==
  \A w \in ToSet(order) : win[w].split # Nil =>
    Cardinality(ToSet(win[w].split) \cap ToSet(win[w].tabs)) = 2

(* Nothing is drawn over the wheel or the launcher, whatever opens under   *)
(* it (tabs.ts:566-571).                                                   *)
OverlayOnTop == \A w \in ToSet(order) : win[w].overlay # "under"

(* What is on a window's screen is what its strip says, and every view in   *)
(* the program is on one window's strip.                                    *)
ViewsAreAccounted == TabTypeOK /\ OneHome /\ ShownIsWanted /\ SplitPairIsWhole /\ OverlayOnTop

(* A window with tabs shows one of them, one without shows none, and while  *)
(* signed in it is on its way out: no sequence of closing, moving, dragging *)
(* and locking leaves a blank window or an active tab that is gone.         *)
NoBlankWindow ==
  \A w \in ToSet(order) :
    IF win[w].tabs = <<>> THEN win[w].active = Nil /\ (locked \/ w \in closing)
    ELSE Contains(win[w].tabs, win[w].active)

(* While locked, a window that is not on its way out shows the sign-in     *)
(* page or is about to: setLocked reaches every window, those that are     *)
(* made by a late drag or menu click included.                             *)
LockCoversEveryWindow ==
  locked => \A w \in ToSet(order) : w \in closing \/ win[w].target = "auth"

-----------------------------------------------------------------------------
(* Statements of the source that do not hold; see the README.              *)

(* "Tabs die" with the session (tabs.ts:868): refuted by a report whose    *)
(* key was minted meanwhile, a menu click, a message of the strip that was *)
(* under way.                                                              *)
NoTabsWhileLocked ==
  locked => \A w \in ToSet(order) : w \in closing \/ win[w].tabs = <<>>

(* prevActiveId is "the tab that was active before this one ... cleared    *)
(* when that tab closes or leaves" (tabs.ts:351-353): nothing clears it.   *)
PreviousIsAnother ==
  \A w \in ToSet(order) : win[w].prev # Nil =>
    Contains(win[w].tabs, win[w].prev) /\ win[w].prev # win[w].active

(* "Collapse to one lock window" (tabs.ts:868): the window that is kept    *)
(* may be one that is closing already, and then the program quits.         *)
LockKeepsAWindow ==
  [][Lock /\ (\E w \in ToSet(order) : w \notin closing)
       => \E w \in ToSet(order) : w \notin closing']_tabVars

(* After signing in every window shows its strip: refuted by a window that *)
(* a late drag made while locked.                                          *)
UnlockReachesEveryWindow ==
  ~locked => \A w \in ToSet(order) : w \in closing \/ win[w].target = "chrome"
=============================================================================
