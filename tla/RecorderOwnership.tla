------------------------- MODULE RecorderOwnership -------------------------
(***************************************************************************)
(* Which process records market data into one data directory.  Apps are    *)
(* backends started by the desktop shell (backend/main.py), recorders are  *)
(* unattended processes started at logon (backend/recorder_main.py).  The  *)
(* kernel's port lock (instancelock.py) lets one of them record; an app    *)
(* that does not get it runs without a recorder, a recorder that does not  *)
(* get it exits.  A recorder is told to stop through a flag file that      *)
(* autostart.unregister writes.  Two apps of one directory happen: nothing *)
(* stops a second launch, and the supervisor itself can start two backends *)
(* side by side (module Sidecar).                                          *)
(***************************************************************************)

CONSTANTS Apps, Recs, Nobody

ASSUME OwnershipAssumption == Nobody \notin Apps \cup Recs /\ Apps \cap Recs = {}

VARIABLES
  holder,    (* the process whose socket is bound to port_for(data_dir)     *)
  connected, (* processes whose Recorder has its market.db connection open  *)
  ticking,   (* processes whose recorder thread is inside a tick            *)
  app,       (* app[a]: how far a backend has come in main()                *)
  live,      (* apps with a backtest running, its row 'running'             *)
  swept,     (* those of them whose row a sweep has marked 'error'          *)
  rec,       (* rec[r]: how far an unattended recorder has come in main()   *)
  halted,    (* processes whose Recorder._stop is set                       *)
  flag,      (* the file recorder.stop                                      *)
  scheduled, (* a logon task or Startup entry exists                        *)
  stopping,  (* unregister has removed the schedule, not yet written the flag*)
  readable,  (* syskey.load() returns a key                                 *)
  asked      (* history: recorders that unregister told to stop since they began *)

appVars  == <<app, live, swept>>
cfgVars  == <<scheduled, stopping, readable>>
ownVars  == <<holder, connected, ticking, appVars, rec, halted, flag, cfgVars, asked>>

AppSteps == {"off", "booting", "sweeping", "owner", "guest"}
RecSteps == {"off", "booting", "locked", "keyed", "started", "watching", "stopping", "closed"}

OwnTypeOK ==
  /\ holder \in Apps \cup Recs \cup {Nobody}
  /\ connected \subseteq Apps \cup Recs /\ ticking \subseteq Apps \cup Recs
  /\ halted \subseteq Apps \cup Recs
  /\ app \in [Apps -> AppSteps] /\ rec \in [Recs -> RecSteps]
  /\ live \subseteq Apps /\ swept \subseteq live /\ asked \subseteq Recs
  /\ {flag, scheduled, stopping, readable} \subseteq BOOLEAN

OwnInit ==
  /\ holder = Nobody /\ connected = {} /\ ticking = {} /\ halted = {}
  /\ app = [a \in Apps |-> "off"] /\ live = {} /\ swept = {}
  /\ rec = [r \in Recs |-> "off"] /\ asked = {}
  /\ flag = FALSE /\ scheduled = FALSE /\ stopping = FALSE /\ readable = FALSE

----------------------------------------------------------------------------
(* What every process does *)

AppAt(a, from, to) == app[a] = from /\ app' = [app EXCEPT ![a] = to]
RecAt(r, from, to) == rec[r] = from /\ rec' = [rec EXCEPT ![r] = to]

(* Recorder(connect_market(), ...) and its start().                         *)
StartRecorder(p) == connected' = connected \cup {p} /\ UNCHANGED <<ticking, halted>>

(* The kernel closes the sockets and files of a process that ends, however  *)
(* it ends; its threads are daemons.                                        *)
Ends(p) ==
  /\ holder' = IF holder = p THEN Nobody ELSE holder
  /\ connected' = connected \ {p} /\ ticking' = ticking \ {p} /\ halted' = halted \ {p}

(* The loop of a recorder thread waits on _stop between its ticks; it is    *)
(* not joined, so a tick goes on after stop() and after the connection is   *)
(* closed under it.                                                         *)
TickBegins(p) ==
  /\ p \in connected \ (ticking \cup halted)
  /\ ticking' = ticking \cup {p}
  /\ UNCHANGED <<holder, connected, appVars, rec, halted, flag, cfgVars, asked>>

TickEnds(p) ==
  /\ ticking' = ticking \ {p} /\ p \in ticking
  /\ UNCHANGED <<holder, connected, appVars, rec, halted, flag, cfgVars, asked>>

----------------------------------------------------------------------------
(* The app's backend: main.py *)

AppStart(a) ==
  /\ AppAt(a, "off", "booting")
  /\ UNCHANGED <<holder, connected, ticking, live, swept, rec, halted, flag, cfgVars, asked>>

(* Mutant: every booting backend sweeps, not only the owner of the lock.    *)
AppAcquire_SweepsAnyway(a) ==
  /\ \/ holder = Nobody /\ holder' = a /\ AppAt(a, "booting", "sweeping") /\ UNCHANGED swept
     \/ holder # Nobody /\ UNCHANGED holder /\ AppAt(a, "booting", "guest") /\ swept' = live
  /\ UNCHANGED <<connected, ticking, live, rec, halted, flag, cfgVars, asked>>

(* acquire_or_none: bind the port, or run without a recorder.               *)
AppAcquire(a) ==
  /\ \/ holder = Nobody /\ holder' = a /\ AppAt(a, "booting", "sweeping")
     \/ holder # Nobody /\ UNCHANGED holder /\ AppAt(a, "booting", "guest")
  /\ UNCHANGED <<connected, ticking, live, swept, rec, halted, flag, cfgVars, asked>>

(* sweep_orphans marks every row that says 'running', whoever runs it; then *)
(* the recorder starts.                                                     *)
AppSweep(a) ==
  /\ AppAt(a, "sweeping", "owner")
  /\ swept' = live
  /\ StartRecorder(a)
  /\ UNCHANGED <<holder, live, rec, flag, cfgVars, asked>>

AppRun(a) ==
  /\ app[a] \in {"owner", "guest"} /\ a \notin live
  /\ live' = live \cup {a}
  /\ UNCHANGED <<holder, connected, ticking, app, swept, rec, halted, flag, cfgVars, asked>>

(* The run's reader has settled its row.                                    *)
AppRunEnds(a) ==
  /\ a \in live
  /\ live' = live \ {a} /\ swept' = swept \ {a}
  /\ UNCHANGED <<holder, connected, ticking, app, rec, halted, flag, cfgVars, asked>>

(* The server returns: recorder.stop() sets the event, the process ends.    *)
(* Or it is killed, at any point.  Its own run is no longer live.           *)
AppEnds(a) ==
  /\ app[a] # "off"
  /\ app' = [app EXCEPT ![a] = "off"]
  /\ live' = live \ {a} /\ swept' = swept \ {a}
  /\ Ends(a)
  /\ UNCHANGED <<rec, flag, cfgVars, asked>>

----------------------------------------------------------------------------
(* The unattended recorder: recorder_main.py *)

RecLaunch(r) ==
  /\ scheduled /\ RecAt(r, "off", "booting")
  /\ UNCHANGED <<holder, connected, ticking, appVars, halted, flag, cfgVars, asked>>

(* The lock first, before any database is opened.                           *)
RecAcquire(r) ==
  /\ holder = Nobody /\ holder' = r /\ RecAt(r, "booting", "locked")
  /\ UNCHANGED <<connected, ticking, appVars, halted, flag, cfgVars, asked>>

RecLoadKey(r) ==
  /\ readable /\ RecAt(r, "locked", "keyed")
  /\ UNCHANGED <<holder, connected, ticking, appVars, halted, flag, cfgVars, asked>>

RecStart(r) ==
  /\ RecAt(r, "keyed", "started")
  /\ StartRecorder(r)
  /\ UNCHANGED <<holder, appVars, flag, cfgVars, asked>>

(* Mutant: a flag left by an earlier run is not removed.                    *)
RecClearFlag_Kept(r) ==
  /\ RecAt(r, "started", "watching")
  /\ UNCHANGED <<holder, connected, ticking, appVars, halted, flag, cfgVars, asked>>

(* "a stale flag must not kill this run"                                    *)
RecClearFlag(r) ==
  /\ RecAt(r, "started", "watching")
  /\ flag' = FALSE
  /\ UNCHANGED <<holder, connected, ticking, appVars, halted, cfgVars, asked>>

(* Mutant: the flag is consumed and the loop goes on.                       *)
RecSeeFlag_NoBreak(r) ==
  /\ flag /\ RecAt(r, "watching", "watching")
  /\ flag' = FALSE
  /\ UNCHANGED <<holder, connected, ticking, appVars, halted, cfgVars, asked>>

(* Looked at every five seconds.                                            *)
RecSeeFlag(r) ==
  /\ flag /\ RecAt(r, "watching", "stopping")
  /\ flag' = FALSE
  /\ UNCHANGED <<holder, connected, ticking, appVars, halted, cfgVars, asked>>

(* The handler of SIGINT and SIGTERM stops the thread ...                   *)
RecSignal(r) ==
  /\ rec[r] = "watching"
  /\ halted' = halted \cup {r}
  /\ UNCHANGED <<holder, connected, ticking, appVars, rec, flag, cfgVars, asked>>

(* ... and the loop sees that the thread is no longer alive.                *)
RecSeeDead(r) ==
  /\ r \in halted \ ticking /\ RecAt(r, "watching", "stopping")
  /\ UNCHANGED <<holder, connected, ticking, appVars, halted, flag, cfgVars, asked>>

(* Mutant: the lock is released before the connection is closed.            *)
RecClose_ReleasesFirst(r) ==
  /\ RecAt(r, "stopping", "closed")
  /\ halted' = halted \cup {r} /\ holder' = Nobody
  /\ UNCHANGED <<connected, ticking, appVars, flag, cfgVars, asked>>

(* finally: rec.stop(), con.close() ...                                     *)
RecClose(r) ==
  /\ RecAt(r, "stopping", "closed")
  /\ halted' = halted \cup {r} /\ connected' = connected \ {r}
  /\ UNCHANGED <<holder, ticking, appVars, flag, cfgVars, asked>>

(* ... lock.release(), and the process ends with its threads.  (Between the *)
(* two nothing but the log is written.)                                     *)
RecRelease(r) ==
  /\ rec[r] = "closed" /\ holder = r
  /\ holder' = Nobody
  /\ UNCHANGED <<connected, ticking, appVars, rec, halted, flag, cfgVars, asked>>

(* It ends by itself without the lock, without a key, or once it has        *)
(* released; logoff or a kill ends it at any point.                         *)
RecGone(r) ==
  /\ rec' = [rec EXCEPT ![r] = "off"]
  /\ asked' = asked \ {r}
  /\ Ends(r)
  /\ UNCHANGED <<appVars, flag, cfgVars>>

RecEnds(r) ==
  /\ \/ rec[r] = "booting" /\ holder # Nobody
     \/ rec[r] = "locked" /\ ~readable
     \/ rec[r] = "closed" /\ holder # r
  /\ RecGone(r)

RecKilled(r) == rec[r] # "off" /\ RecGone(r)

----------------------------------------------------------------------------
(* Turning it on and off: syskey.py, autostart.py *)

Enrol ==
  /\ ~readable /\ readable' = TRUE
  /\ UNCHANGED <<holder, connected, ticking, appVars, rec, halted, flag, scheduled, stopping, asked>>

(* remove(), or a password reset that leaves the blob unreadable.           *)
LoseKey ==
  /\ readable /\ readable' = FALSE
  /\ UNCHANGED <<holder, connected, ticking, appVars, rec, halted, flag, scheduled, stopping, asked>>

(* Refuses without a readable key.                                          *)
Register ==
  /\ readable /\ ~scheduled
  /\ scheduled' = TRUE
  /\ UNCHANGED <<holder, connected, ticking, appVars, rec, halted, flag, readable, stopping, asked>>

(* Both mechanisms and the launcher go first ...                            *)
Unschedule ==
  /\ ~stopping
  /\ scheduled' = FALSE /\ stopping' = TRUE
  /\ UNCHANGED <<holder, connected, ticking, appVars, rec, halted, flag, readable, asked>>

(* ... then the run in flight is told.                                      *)
WriteFlag ==
  /\ stopping
  /\ stopping' = FALSE /\ flag' = TRUE
  /\ asked' = asked \cup {r \in Recs : rec[r] # "off"}
  /\ UNCHANGED <<holder, connected, ticking, appVars, rec, halted, scheduled, readable>>

----------------------------------------------------------------------------
AppStep(a) ==
  AppStart(a) \/ AppAcquire(a) \/ AppSweep(a) \/ AppRun(a) \/ AppRunEnds(a) \/ AppEnds(a)

(* What a running recorder process does without being told.                 *)
RecProceeds(r) ==
  \/ RecAcquire(r) \/ RecLoadKey(r) \/ RecStart(r) \/ RecClearFlag(r)
  \/ RecSeeFlag(r) \/ RecSeeDead(r) \/ RecClose(r) \/ RecRelease(r) \/ RecEnds(r)

RecStep(r) == RecLaunch(r) \/ RecProceeds(r) \/ RecSignal(r) \/ RecKilled(r)

OwnNext ==
  \/ \E a \in Apps : AppStep(a)
  \/ \E r \in Recs : RecStep(r)
  \/ \E p \in Apps \cup Recs : TickBegins(p) \/ TickEnds(p)
  \/ Enrol \/ LoseKey \/ Register \/ Unschedule \/ WriteFlag

OwnSpec == OwnInit /\ [][OwnNext]_ownVars

(* A process that the operating system schedules goes on.                   *)
FairOwnSpec == OwnSpec /\ \A r \in Recs : WF_ownVars(RecProceeds(r))

----------------------------------------------------------------------------
(* Properties *)

(* "A second recorder that gets as far as opening market.db has already had *)
(* the chance to do harm" (recorder_main.py 106): a recorder has its        *)
(* connection open only while its process owns the lock.                    *)
OneWriter == connected \subseteq {holder}

(* The owner of the lock never loses its own running backtest to the sweep  *)
(* of another process (backtests.py 263-269).                               *)
OwnRunIsSafe == holder \notin swept

(* A recorder shuts down only because of a signal or because it was told to *)
(* since it began: a flag written for an earlier run never ends a later one *)
(* (recorder_main.py 139).                                                  *)
StopsOnlyWhenAsked ==
  \A r \in Recs : rec[r] = "stopping" => r \in asked \cup halted

(* One process records: it alone writes, nobody sweeps its run, and nobody  *)
(* stops it by a flag meant for another.                                    *)
OneOwner == OneWriter /\ OwnRunIsSafe /\ StopsOnlyWhenAsked

(* The lock never stays with a process that is gone.                        *)
OwnerIsAlive ==
  /\ \A a \in Apps : holder = a => app[a] \in {"sweeping", "owner"}
  /\ \A r \in Recs : holder = r => rec[r] \notin {"off", "booting"}

(* Once a recorder watches the flag, writing it ends that recorder.         *)
FlagStopsRun ==
  \A r \in Recs : [](rec[r] = "watching" /\ flag => <>(rec[r] = "off"))

(* main.py 104: "Only the process that owns the runner may declare its runs *)
(* orphaned": no sweep ever marks a run whose app is still running it.      *)
SweepSparesLiveRuns == swept = {}

(* autostart.py 185: "Stopping the SCHEDULE is not stopping the RUN": a     *)
(* recorder in flight when unregister returns ends.                         *)
UnregisterStops ==
  \A r \in Recs : [](r \in asked => <>(rec[r] = "off"))

(* main.py 91: "ONE recorder per data directory": two never tick together.  *)
OneTicks == \A p, q \in ticking : p = q
=============================================================================
