------------------------------ MODULE Sidecar ------------------------------
(***************************************************************************)
(* The shell's supervisor of the Python process (app/src/main/sidecar.ts)  *)
(* and the watchdog in the process itself (backend/main.py).               *)
(*                                                                         *)
(* The shell is one event loop: each action of it is one turn, from the    *)
(* event that starts it (a line on stdout, an exit event, the answer or    *)
(* the failure of the health fetch, a timer) to the end of the promise     *)
(* continuations it runs.  Children run by themselves: what they do        *)
(* reaches the loop later, and two events that are both due are delivered  *)
(* in either order.  A call of launch() is named after the child it spawns.*)
(***************************************************************************)
EXTENDS Integers, FiniteSets

CONSTANTS
  Children,    (* bounds how many children are of interest at a time        *)
  NoChild,     (* JavaScript's null                                         *)
  MaxRestarts, (* MAX_RESTARTS                                              *)
  MaxTimers    (* bound: nothing new goes wrong while so many timers are set *)

ASSUME SidecarAssumption ==
  /\ NoChild \notin Children
  /\ MaxRestarts \in Nat \ {0}
  /\ MaxTimers \in Nat \ {0}

VARIABLES
  \* children
  child,       (* child[p]: "unborn", "booting", "listening" or "dead"      *)
  spoke,       (* children that have written their listening line           *)
  answer,      (* answer[p]: what p answered the health fetch, if it has    *)
  killed,      (* children that stop() has sent a kill to                   *)
  \* the shell's event loop
  launch,      (* launch[p]: where the launch() that spawned p stands       *)
  armed,       (* children whose exit handler of line 154 is installed      *)
  exitSeen,    (* children whose exit event has been delivered              *)
  tracked,     (* this.proc                                                 *)
  published,   (* this.state, as the child it points at                     *)
  restarts,    (* this.restarts                                             *)
  timers,      (* restart timers that are set                               *)
  quitting,    (* this.quitting                                             *)
  shellUp,     (* the Electron process is there                             *)
  \* history
  tries        (* launches since a child was last ready, up to MaxRestarts  *)

childVars  == <<child, spoke, answer, killed>>
launchVars == <<launch, armed, exitSeen>>
stateVars  == <<tracked, published, restarts, timers>>
sidecarVars == <<childVars, launchVars, stateVars, quitting, shellUp, tries>>

Alive(p) == child[p] \in {"booting", "listening"}
Bounded == timers < MaxTimers
InFlight == {p \in Children : launch[p] \in {"announcing", "probing"}}

SidecarTypeOK ==
  /\ child \in [Children -> {"unborn", "booting", "listening", "dead"}]
  /\ spoke \subseteq Children /\ killed \subseteq Children
  /\ answer \in [Children -> {"none", "ok", "bad"}]
  /\ launch \in [Children -> {"idle", "announcing", "probing", "settled"}]
  /\ armed \subseteq Children /\ exitSeen \subseteq Children
  /\ tracked \in Children \cup {NoChild} /\ published \in Children \cup {NoChild}
  /\ restarts \in 0..MaxRestarts /\ timers \in Nat
  /\ quitting \in BOOLEAN /\ shellUp \in BOOLEAN
  /\ tries \in 0..MaxRestarts

SidecarInit ==
  /\ child = [p \in Children |-> "unborn"]
  /\ answer = [p \in Children |-> "none"]
  /\ launch = [p \in Children |-> "idle"]
  /\ spoke = {} /\ killed = {} /\ armed = {} /\ exitSeen = {}
  /\ tracked = NoChild /\ published = NoChild
  /\ restarts = 0 /\ timers = 0
  /\ quitting = FALSE /\ shellUp = TRUE
  /\ tries = 0

(* A name that can be given to a new child: never used, or of a child that  *)
(* is gone and that nothing in the shell refers to any more.                *)
Fresh(p) ==
  \/ child[p] = "unborn"
  \/ /\ child[p] = "dead" /\ p \in exitSeen
     /\ launch[p] = "settled" /\ p \notin {tracked, published}

(* launch(), up to the first await: spawn, remember the child, listen.      *)
Spawn(p) ==
  /\ Fresh(p)
  /\ child' = [child EXCEPT ![p] = "booting"]
  /\ answer' = [answer EXCEPT ![p] = "none"]
  /\ launch' = [launch EXCEPT ![p] = "announcing"]
  /\ spoke' = spoke \ {p} /\ killed' = killed \ {p}
  /\ armed' = armed \ {p} /\ exitSeen' = exitSeen \ {p}
  /\ tracked' = p
  /\ tries' = IF tries < MaxRestarts THEN tries + 1 ELSE tries
  /\ UNCHANGED <<published, restarts, quitting, shellUp>>

(* Mutant: the rejection of a relaunch is not caught.                       *)
ScheduleRestart_Once ==
  IF quitting \/ restarts > 0
    THEN UNCHANGED <<restarts, timers>>
    ELSE restarts' = restarts + 1 /\ timers' = timers + 1

(* While not quitting it also emits "crashed", whether or not restarts are  *)
(* left: the composition with the session says what that does.              *)
ScheduleRestart ==
  IF quitting \/ restarts >= MaxRestarts
    THEN UNCHANGED <<restarts, timers>>
    ELSE restarts' = restarts + 1 /\ timers' = timers + 1

Settle(p) == launch' = [launch EXCEPT ![p] = "settled"]

(* launch() rejects: start and the restart timer both catch it.             *)
Reject(p) ==
  /\ Settle(p)
  /\ ScheduleRestart
  /\ UNCHANGED <<tracked, published, quitting, shellUp, tries>>

----------------------------------------------------------------------------
(* The shell *)

(* app.whenReady: the one call of start().                                  *)
Start(p) ==
  /\ shellUp /\ \A q \in Children : child[q] = "unborn"
  /\ ~quitting
  /\ Spawn(p)
  /\ UNCHANGED timers

(* The callback of a restart timer: it does not look at quitting.           *)
RestartTimer(p) ==
  /\ shellUp /\ timers > 0
  /\ timers' = timers - 1
  /\ Spawn(p)

(* The listening line arrives: the exit handler is armed and the health     *)
(* fetch sent before the loop takes another event.                          *)
HearLine(p) ==
  /\ shellUp /\ launch[p] = "announcing" /\ p \in spoke
  /\ launch' = [launch EXCEPT ![p] = "probing"]
  /\ armed' = armed \cup {p}
  /\ UNCHANGED <<childVars, exitSeen, stateVars, quitting, shellUp, tries>>

(* The 20 s timer: the promise is rejected, the child is left running.      *)
AnnounceTimeout(p) ==
  /\ shellUp /\ launch[p] = "announcing" /\ Bounded
  /\ Reject(p)
  /\ UNCHANGED <<childVars, armed, exitSeen>>

(* The exit event of a child rejects a launch that still waits for its     *)
(* line (147), or finds the handler of 154 and is the exit of this.proc;    *)
(* the exit of any other child is ignored.                                  *)
ExitRejects(p) == launch[p] = "announcing"
ExitOfTracked(p) == ~ExitRejects(p) /\ p \in armed /\ tracked = p

ExitEvent(p) ==
  /\ shellUp /\ child[p] = "dead" /\ p \notin exitSeen
  /\ exitSeen' = exitSeen \cup {p}
  /\ IF ExitRejects(p) THEN Settle(p) ELSE UNCHANGED launch
  /\ published' = IF ExitOfTracked(p) THEN NoChild ELSE published
  /\ IF ExitRejects(p) \/ ExitOfTracked(p)
       THEN ScheduleRestart
       ELSE UNCHANGED <<restarts, timers>>
  /\ UNCHANGED <<childVars, armed, tracked, quitting, shellUp, tries>>

(* Mutant: state is published without resetting the restart counter.        *)
HealthPassed_KeepsCount(p) ==
  /\ shellUp /\ launch[p] = "probing" /\ answer[p] = "ok"
  /\ Settle(p)
  /\ published' = p
  /\ tries' = 0
  /\ UNCHANGED <<childVars, armed, exitSeen, tracked, restarts, timers, quitting, shellUp>>

(* Mutant: the state is published before the child has announced itself.    *)
HealthPassed_Early(p) ==
  /\ shellUp /\ launch[p] = "announcing"
  /\ Settle(p)
  /\ published' = p
  /\ restarts' = 0 /\ tries' = 0
  /\ UNCHANGED <<childVars, armed, exitSeen, tracked, timers, quitting, shellUp>>

(* The health fetch came back ok: only now is the child published.          *)
HealthPassed(p) ==
  /\ shellUp /\ launch[p] = "probing" /\ answer[p] = "ok"
  /\ Settle(p)
  /\ published' = p
  /\ restarts' = 0 /\ tries' = 0
  /\ UNCHANGED <<childVars, armed, exitSeen, tracked, timers, quitting, shellUp>>

(* Mutant: the rejection of the health fetch is swallowed.                  *)
HealthFailed_Swallowed(p) ==
  /\ shellUp /\ launch[p] = "probing" /\ answer[p] # "ok"
  /\ Alive(p) => Bounded
  /\ Settle(p)
  /\ UNCHANGED <<childVars, armed, exitSeen, stateVars, quitting, shellUp, tries>>

(* The fetch came back with an error status, was refused or reset by a dead *)
(* child, or ran into its own deadline.                                     *)
HealthFailed(p) ==
  /\ shellUp /\ launch[p] = "probing" /\ answer[p] # "ok"
  /\ Alive(p) => Bounded
  /\ Reject(p)
  /\ UNCHANGED <<childVars, armed, exitSeen>>

(* before-quit: stop() kills the tree of this.proc and forgets it.          *)
Stop ==
  /\ shellUp
  /\ quitting' = TRUE
  /\ killed' = killed \cup ({tracked} \ {NoChild})
  /\ tracked' = NoChild /\ published' = NoChild
  /\ UNCHANGED <<child, spoke, answer, launchVars, restarts, timers, shellUp, tries>>

(* The Electron process ends, after before-quit or by force.                *)
ShellGone ==
  /\ shellUp
  /\ shellUp' = FALSE
  /\ UNCHANGED <<childVars, launchVars, stateVars, quitting, tries>>

----------------------------------------------------------------------------
(* The children *)

ChildUnchanged ==
  /\ UNCHANGED <<killed, launchVars, stateVars, quitting, shellUp, tries>>

(* The socket is bound and the listening line written.                      *)
Announce(p) ==
  /\ child[p] = "booting"
  /\ child' = [child EXCEPT ![p] = "listening"]
  /\ spoke' = spoke \cup {p}
  /\ UNCHANGED answer /\ ChildUnchanged

(* /api/health answers; "bad" stands for any status that is not 2xx.        *)
AnswerHealth(p, a) ==
  /\ child[p] = "listening" /\ launch[p] = "probing" /\ answer[p] = "none"
  /\ answer' = [answer EXCEPT ![p] = a]
  /\ UNCHANGED <<child, spoke>> /\ ChildUnchanged

Die(p) ==
  /\ Alive(p)
  /\ shellUp /\ ~quitting => Bounded
  /\ child' = [child EXCEPT ![p] = "dead"]
  /\ UNCHANGED <<spoke, answer>> /\ ChildUnchanged

(* stop()'s kill, or the end of stdin that _die_with_parent waits for.      *)
DieOnRequest(p) == (p \in killed \/ ~shellUp) /\ Die(p)

ShellStep(p) ==
  \/ Start(p) \/ RestartTimer(p) \/ HearLine(p) \/ AnnounceTimeout(p)
  \/ ExitEvent(p) \/ HealthPassed(p) \/ HealthFailed(p)

ChildStep(p) ==
  \/ Announce(p) \/ Die(p)
  \/ \E a \in {"ok", "bad"} : AnswerHealth(p, a)

SidecarNext ==
  \/ \E p \in Children : ShellStep(p) \/ ChildStep(p)
  \/ Stop
  \/ ShellGone

SidecarSpec == SidecarInit /\ [][SidecarNext]_sidecarVars

(* Timers fire, events that are due are delivered, and the fetch has a      *)
(* deadline of its own; a child owes nothing but to die when told to.       *)
SidecarFairness ==
  /\ WF_sidecarVars(\E p \in Children : Start(p))
  /\ WF_sidecarVars(\E p \in Children : RestartTimer(p))
  /\ \A p \in Children :
       /\ WF_sidecarVars(AnnounceTimeout(p))
       /\ WF_sidecarVars(ExitEvent(p))
       /\ WF_sidecarVars(HealthPassed(p) \/ HealthFailed(p))
       /\ WF_sidecarVars(DieOnRequest(p))

FairSidecarSpec == SidecarSpec /\ SidecarFairness

----------------------------------------------------------------------------
(* Properties *)

PublishedBackend == INSTANCE Backend WITH
  Procs <- Children, None <- NoChild, up <- {p \in Children : child[p] = "listening"}, announced <- spoke, current <- published

(* sidecar.ts 7-8: to the rest of the shell the supervisor is a Backend: it *)
(* never points at a child that did not announce a port, and a child is not *)
(* mistaken for the one that had its name before.                           *)
SupervisesBackend == PublishedBackend!BackendSpec

(* The supervisor is at rest: nothing it started or set is outstanding.     *)
Idle == timers = 0 /\ InFlight = {}

(* The bound on children is reached: no launch can be told from the others. *)
OutOfNames == \A p \in Children : ~Fresh(p)

Started == \E p \in Children : child[p] # "unborn"

(* While no backend is published the supervisor is always on its way to     *)
(* one -- a launch in flight, a restart timer set, an exit event due --     *)
(* unless it has used up its restarts or the app is quitting (start,        *)
(* scheduleRestart and the exit handler together).                          *)
NeverIdleWhileDown ==
  Started /\ published = NoChild /\ ~quitting => ~Idle \/ restarts = MaxRestarts

(* It gives up only after MaxRestarts launches since a backend was last     *)
(* ready: no pending timer is counted that never launched, and a ready      *)
(* backend starts the count afresh.                                         *)
GivesUpHonestly ==
  Started /\ Idle /\ published = NoChild /\ ~quitting => tries = MaxRestarts

(* The shell without a backend is on its way to one, or has tried as often  *)
(* as it may.                                                               *)
SupervisorIsHonest == NeverIdleWhileDown /\ GivesUpHonestly

(* After every failure the shell comes to rest: with a backend, with its    *)
(* restarts used up, quitting, or out of the names this model has.          *)
SettlesAgain ==
  [](shellUp /\ ~quitting => <>(\/ published # NoChild \/ quitting \/ ~shellUp
                                \/ Idle /\ restarts = MaxRestarts
                                \/ OutOfNames))

(* Comment at sidecar.ts 11-12 and 153: a process that dies in the health   *)
(* window triggers "one" restart.                                           *)
OneRestartPerDeath == timers + Cardinality(InFlight) <= 1

(* sidecar.ts 172: stop kills the whole child tree; no child that is alive  *)
(* after it has been spared.                                                *)
NothingOutlivesStop == quitting => \A p \in Children : Alive(p) => p \in killed

(* REQUIREMENTS.md 480: the shell survives a sidecar crash.  When the shell *)
(* is told that the child it serves from has exited, it stops serving from  *)
(* it.                                                                      *)
ExitUnpublishes ==
  [][\A p \in Children :
       ~quitting /\ published = p /\ p \in exitSeen' \ exitSeen => published' # p]_sidecarVars
=============================================================================
