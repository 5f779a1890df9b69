-------------------------- MODULE ProcessesProofs --------------------------
(***************************************************************************)
(* Proofs about the processes of the program: the supervisor, for any      *)
(* number of children, any MAX_RESTARTS and any bound on timers, and who   *)
(* records, for any number of apps and unattended recorders.               *)
(***************************************************************************)
EXTENDS Sidecar, RecorderOwnership, TLAPS

----------------------------------------------------------------------------
(* The supervisor *)

(* Every restart that is counted is a timer that is still set or a launch   *)
(* that was made since the count was reset.                                 *)
RestartsAreLaunches == tries = MaxRestarts \/ restarts <= tries + timers

(* The strengthening of the supervisor.                                      *)
SidecarInv == SidecarTypeOK /\ NeverIdleWhileDown /\ RestartsAreLaunches

(* Spawning keeps the types, and the launch it starts is in flight.         *)
LEMMA SpawnFacts ==
  ASSUME SidecarTypeOK, NEW p \in Children, Spawn(p), timers' \in Nat
  PROVE  SidecarTypeOK' /\ p \in InFlight'
BY SidecarAssumption DEF SidecarTypeOK, Spawn, InFlight

(* Type correctness is inductive.                                           *)
LEMMA SupervisorTypeStep ==
  ASSUME SidecarTypeOK, [SidecarNext]_sidecarVars
  PROVE  SidecarTypeOK'
<1> USE SidecarAssumption DEF SidecarTypeOK
<1>1. ASSUME NEW p \in Children, ShellStep(p) PROVE SidecarTypeOK'
  <2>1. CASE Start(p)
    BY <2>1, SpawnFacts DEF Start
  <2>2. CASE RestartTimer(p)
    BY <2>2, SpawnFacts DEF RestartTimer
  <2>3. CASE HearLine(p)
    BY <2>3 DEF HearLine, childVars, stateVars
  <2>4. CASE AnnounceTimeout(p)
    BY <2>4 DEF AnnounceTimeout, Reject, Settle, ScheduleRestart, childVars
  <2>5. CASE ExitEvent(p)
    BY <2>5 DEF ExitEvent, Settle, ScheduleRestart, childVars
  <2>6. CASE HealthPassed(p)
    BY <2>6 DEF HealthPassed, Settle, childVars
  <2>7. CASE HealthFailed(p)
    BY <2>7 DEF HealthFailed, Reject, Settle, ScheduleRestart, childVars
  <2> QED BY <1>1, <2>1, <2>2, <2>3, <2>4, <2>5, <2>6, <2>7 DEF ShellStep
<1>2. ASSUME NEW p \in Children, ChildStep(p) PROVE SidecarTypeOK'
  <2> USE DEF ChildUnchanged, launchVars, stateVars
  <2>1. CASE Announce(p)
    BY <2>1 DEF Announce
  <2>2. CASE Die(p)
    BY <2>2 DEF Die
  <2>3. ASSUME NEW a \in {"ok", "bad"}, AnswerHealth(p, a) PROVE SidecarTypeOK'
    BY <2>3 DEF AnswerHealth
  <2> QED BY <1>2, <2>1, <2>2, <2>3 DEF ChildStep
<1>3. CASE Stop
  BY <1>3 DEF Stop, launchVars
<1>4. CASE ShellGone
  BY <1>4 DEF ShellGone, childVars, launchVars, stateVars
<1>5. CASE UNCHANGED sidecarVars
  BY <1>5 DEF sidecarVars, childVars, launchVars, stateVars
<1> QED BY <1>1, <1>2, <1>3, <1>4, <1>5 DEF SidecarNext

(* What a failure leaves behind: a timer, or no restarts left.              *)
LEMMA ScheduleFacts ==
  ASSUME SidecarTypeOK, ScheduleRestart, ~quitting
  PROVE  /\ timers' > 0 \/ restarts' = MaxRestarts
         /\ restarts' - restarts = timers' - timers
BY SidecarAssumption DEF SidecarTypeOK, ScheduleRestart

(* No step leaves the supervisor idle without a backend.                    *)
LEMMA NeverIdleStep ==
  ASSUME SidecarTypeOK, NeverIdleWhileDown, [SidecarNext]_sidecarVars
  PROVE  NeverIdleWhileDown'
<1> USE SidecarAssumption DEF SidecarTypeOK, NeverIdleWhileDown, Idle, Started, InFlight
<1>1. ASSUME NEW p \in Children, ShellStep(p) PROVE NeverIdleWhileDown'
  <2>1. CASE Start(p)
    BY <2>1, SpawnFacts DEF Start
  <2>2. CASE RestartTimer(p)
    BY <2>2, SpawnFacts DEF RestartTimer
  <2>3. CASE HearLine(p)
    BY <2>3 DEF HearLine, childVars, stateVars
  <2>4. CASE AnnounceTimeout(p)
    BY <2>4, ScheduleFacts DEF AnnounceTimeout, Reject, Settle, childVars
  <2>5. CASE ExitEvent(p)
    <3>1. CASE ExitRejects(p) \/ ExitOfTracked(p)
      BY <2>5, <3>1, ScheduleFacts DEF ExitEvent, childVars
    <3>2. CASE ~(ExitRejects(p) \/ ExitOfTracked(p))
      BY <2>5, <3>2 DEF ExitEvent, childVars
    <3> QED BY <3>1, <3>2
  <2>6. CASE HealthPassed(p)
    BY <2>6 DEF HealthPassed, Settle, childVars
  <2>7. CASE HealthFailed(p)
    BY <2>7, ScheduleFacts DEF HealthFailed, Reject, Settle, childVars
  <2> QED BY <1>1, <2>1, <2>2, <2>3, <2>4, <2>5, <2>6, <2>7 DEF ShellStep
<1>2. ASSUME NEW p \in Children, ChildStep(p) PROVE NeverIdleWhileDown'
  <2> USE DEF ChildUnchanged, launchVars, stateVars
  <2>1. CASE Announce(p)
    BY <2>1 DEF Announce
  <2>2. CASE Die(p)
    BY <2>2 DEF Die, Alive
  <2>3. ASSUME NEW a \in {"ok", "bad"}, AnswerHealth(p, a) PROVE NeverIdleWhileDown'
    BY <2>3 DEF AnswerHealth
  <2> QED BY <1>2, <2>1, <2>2, <2>3 DEF ChildStep
<1>3. CASE Stop
  BY <1>3 DEF Stop, launchVars
<1>4. CASE ShellGone
  BY <1>4 DEF ShellGone, childVars, launchVars, stateVars
<1>5. CASE UNCHANGED sidecarVars
  BY <1>5 DEF sidecarVars, childVars, launchVars, stateVars
<1> QED BY <1>1, <1>2, <1>3, <1>4, <1>5 DEF SidecarNext

(* The count of restarts is covered by timers and launches.                 *)
LEMMA RestartsStep ==
  ASSUME SidecarTypeOK, RestartsAreLaunches, [SidecarNext]_sidecarVars
  PROVE  RestartsAreLaunches'
<1> USE SidecarAssumption DEF SidecarTypeOK, RestartsAreLaunches
<1>1. ASSUME NEW p \in Children, ShellStep(p) PROVE RestartsAreLaunches'
  <2>1. CASE Start(p)
    BY <2>1 DEF Start, Spawn
  <2>2. CASE RestartTimer(p)
    BY <2>2 DEF RestartTimer, Spawn
  <2>3. CASE HearLine(p)
    BY <2>3 DEF HearLine, stateVars
  <2>4. CASE AnnounceTimeout(p)
    BY <2>4 DEF AnnounceTimeout, Reject, ScheduleRestart
  <2>5. CASE ExitEvent(p)
    BY <2>5 DEF ExitEvent, ScheduleRestart
  <2>6. CASE HealthPassed(p)
    BY <2>6 DEF HealthPassed
  <2>7. CASE HealthFailed(p)
    BY <2>7 DEF HealthFailed, Reject, ScheduleRestart
  <2> QED BY <1>1, <2>1, <2>2, <2>3, <2>4, <2>5, <2>6, <2>7 DEF ShellStep
<1>2. ASSUME NEW p \in Children, ChildStep(p) PROVE RestartsAreLaunches'
  BY <1>2 DEF ChildStep, Announce, Die, AnswerHealth, ChildUnchanged, stateVars
<1>3. CASE Stop
  BY <1>3 DEF Stop
<1>4. CASE ShellGone
  BY <1>4 DEF ShellGone, stateVars
<1>5. CASE UNCHANGED sidecarVars
  BY <1>5 DEF sidecarVars, stateVars
<1> QED BY <1>1, <1>2, <1>3, <1>4, <1>5 DEF SidecarNext

(* The inductive invariant of the supervisor.                               *)
THEOREM SidecarInvariant == SidecarSpec => []SidecarInv
<1>1. SidecarInit => SidecarInv
  <2> SUFFICES ASSUME SidecarInit PROVE SidecarInv
    OBVIOUS
  <2>1. 0 \in 0..MaxRestarts /\ 0 \in Nat
    BY SidecarAssumption
  <2>2. SidecarTypeOK
    BY <2>1 DEF SidecarInit, SidecarTypeOK
  <2>3. NeverIdleWhileDown
    BY DEF SidecarInit, NeverIdleWhileDown, Started
  <2>4. RestartsAreLaunches
    BY <2>1 DEF SidecarInit, RestartsAreLaunches
  <2> QED BY <2>2, <2>3, <2>4 DEF SidecarInv
<1>2. SidecarInv /\ [SidecarNext]_sidecarVars => SidecarInv'
  BY SupervisorTypeStep, NeverIdleStep, RestartsStep DEF SidecarInv
<1> QED BY <1>1, <1>2, PTL DEF SidecarSpec

(* The type invariant of the supervisor.                                    *)
THEOREM SidecarTypeCorrect == SidecarSpec => []SidecarTypeOK
<1>1. SidecarInv => SidecarTypeOK
  BY DEF SidecarInv
<1> QED BY <1>1, SidecarInvariant, PTL

(* start, scheduleRestart and the exit handler never leave the shell at     *)
(* rest without a backend while it has restarts left.                       *)
THEOREM SupervisorNeverIdles == SidecarSpec => []NeverIdleWhileDown
<1>1. SidecarInv => NeverIdleWhileDown
  BY DEF SidecarInv
<1> QED BY <1>1, SidecarInvariant, PTL

(* The shell gives up only after MAX_RESTARTS launches since the last       *)
(* backend that was ready: no restart is counted that was not tried.        *)
THEOREM SupervisorGivesUpHonestly == SidecarSpec => []GivesUpHonestly
<1>1. SidecarInv => GivesUpHonestly
  BY SidecarAssumption DEF SidecarInv, SidecarTypeOK, NeverIdleWhileDown,
     RestartsAreLaunches, GivesUpHonestly, Idle
<1> QED BY <1>1, SidecarInvariant, PTL

(* A child whose health check is being made, or was answered, has announced *)
(* itself.                                                                  *)
ProbedHasSpoken ==
  /\ \A p \in Children : launch[p] = "probing" \/ answer[p] # "none" => p \in spoke
  /\ \A p \in Children : p \in spoke \/ p = published => child[p] # "unborn"

(* Every step keeps that a child which is probed has spoken.                 *)
LEMMA SpokenStep ==
  ASSUME SidecarTypeOK, ProbedHasSpoken, [SidecarNext]_sidecarVars
  PROVE  ProbedHasSpoken'
<1> USE DEF SidecarTypeOK, ProbedHasSpoken
<1>1. ASSUME NEW p \in Children, ShellStep(p) PROVE ProbedHasSpoken'
  <2>1. CASE Start(p) \/ RestartTimer(p)
    BY <2>1 DEF Start, RestartTimer, Spawn
  <2>2. CASE HearLine(p)
    BY <2>2 DEF HearLine, childVars, stateVars
  <2>3. CASE AnnounceTimeout(p)
    BY <2>3 DEF AnnounceTimeout, Reject, Settle, childVars
  <2>4. CASE ExitEvent(p)
    BY <2>4, SidecarAssumption DEF ExitEvent, Settle, childVars
  <2>5. CASE HealthPassed(p)
    BY <2>5 DEF HealthPassed, Settle, childVars
  <2>6. CASE HealthFailed(p)
    BY <2>6 DEF HealthFailed, Reject, Settle, childVars
  <2> QED BY <1>1, <2>1, <2>2, <2>3, <2>4, <2>5, <2>6 DEF ShellStep
<1>2. ASSUME NEW p \in Children, ChildStep(p) PROVE ProbedHasSpoken'
  BY <1>2 DEF ChildStep, Announce, Die, AnswerHealth, ChildUnchanged, launchVars, stateVars
<1>3. CASE Stop
  BY <1>3, SidecarAssumption DEF Stop, launchVars
<1>4. CASE ShellGone \/ UNCHANGED sidecarVars
  BY <1>4 DEF ShellGone, sidecarVars, launchVars, childVars, stateVars
<1> QED BY <1>1, <1>2, <1>3, <1>4 DEF SidecarNext

(* Every step of the supervisor is a step of a Backend, or none.            *)
LEMMA BackendStep ==
  ASSUME SidecarTypeOK, ProbedHasSpoken, [SidecarNext]_sidecarVars
  PROVE  [PublishedBackend!BackendNext]_PublishedBackend!backendVars
<1> DEFINE Up == {p \in Children : child[p] = "listening"}
<1> USE DEF SidecarTypeOK, PublishedBackend!BackendNext, PublishedBackend!backendVars
<1>1. ASSUME NEW p \in Children, ShellStep(p)
      PROVE  [PublishedBackend!BackendNext]_PublishedBackend!backendVars
  <2>1. CASE Start(p) \/ RestartTimer(p)
    <3>1. Spawn(p) /\ published' = published /\ spoke' = spoke \ {p}
      BY <2>1 DEF Start, RestartTimer, Spawn
    <3>2. child[p] # "listening" /\ Up' = Up
      BY <3>1 DEF Spawn, Fresh
    <3>3. p # published
      BY <3>1 DEF Spawn, Fresh, ProbedHasSpoken
    <3> QED BY <3>1, <3>2, <3>3 DEF PublishedBackend!Spawned
  <2>2. CASE HearLine(p)
    BY <2>2 DEF HearLine, childVars, stateVars
  <2>3. CASE AnnounceTimeout(p)
    BY <2>3 DEF AnnounceTimeout, Reject, childVars
  <2>4. CASE ExitEvent(p)
    BY <2>4 DEF ExitEvent, childVars, PublishedBackend!Unpublish
  <2>5. CASE HealthPassed(p)
    <3>1. published' = p /\ p \in spoke /\ UNCHANGED <<child, spoke>>
      BY <2>5 DEF HealthPassed, ProbedHasSpoken, childVars
    <3> QED BY <3>1 DEF PublishedBackend!Publish
  <2>6. CASE HealthFailed(p)
    BY <2>6 DEF HealthFailed, Reject, childVars
  <2> QED BY <1>1, <2>1, <2>2, <2>3, <2>4, <2>5, <2>6 DEF ShellStep
<1>2. ASSUME NEW p \in Children, ChildStep(p)
      PROVE  [PublishedBackend!BackendNext]_PublishedBackend!backendVars
  <2> USE DEF ChildUnchanged, stateVars
  <2>1. CASE Announce(p)
    <3>1. Up' = Up \cup {p} /\ spoke' = spoke \cup {p} /\ published' = published
      BY <2>1 DEF Announce
    <3> QED BY <3>1 DEF PublishedBackend!Listen
  <2>2. CASE Die(p)
    <3>1. Up' = Up \ {p} /\ UNCHANGED <<spoke, published>>
      BY <2>2 DEF Die
    <3> QED BY <3>1 DEF PublishedBackend!End
  <2>3. ASSUME NEW a \in {"ok", "bad"}, AnswerHealth(p, a)
        PROVE  [PublishedBackend!BackendNext]_PublishedBackend!backendVars
    BY <2>3 DEF AnswerHealth
  <2> QED BY <1>2, <2>1, <2>2, <2>3 DEF ChildStep
<1>3. CASE Stop
  BY <1>3 DEF Stop, PublishedBackend!Unpublish
<1>4. CASE ShellGone \/ UNCHANGED sidecarVars
  BY <1>4 DEF ShellGone, sidecarVars, childVars, stateVars
<1> QED BY <1>1, <1>2, <1>3, <1>4 DEF SidecarNext

(* sidecar.ts: a shell without a backend is on its way to one, or has used  *)
(* up MAX_RESTARTS launches since it last had one.                          *)
THEOREM SupervisorKeepsItsWord == SidecarSpec => []SupervisorIsHonest
BY SupervisorNeverIdles, SupervisorGivesUpHonestly, PTL DEF SupervisorIsHonest

(* The supervisor implements the interface the session relies on.           *)
THEOREM SidecarImplementsBackend == SidecarSpec => SupervisesBackend
<1>1. SidecarInit => PublishedBackend!BackendInit /\ ProbedHasSpoken
  BY SidecarAssumption DEF SidecarInit, PublishedBackend!BackendInit, ProbedHasSpoken
<1>2. SidecarTypeOK /\ ProbedHasSpoken /\ [SidecarNext]_sidecarVars => ProbedHasSpoken'
  BY SpokenStep
<1>3. SidecarTypeOK /\ ProbedHasSpoken /\ [SidecarNext]_sidecarVars
        => [PublishedBackend!BackendNext]_PublishedBackend!backendVars
  BY BackendStep
<1> QED
  BY <1>1, <1>2, <1>3, SidecarTypeCorrect, PTL
     DEF SidecarSpec, SupervisesBackend, PublishedBackend!BackendSpec

----------------------------------------------------------------------------
(* The ownership of recording *)

(* The lock is held exactly where main() says so.                           *)
HolderKnows ==
  /\ \A a \in Apps : app[a] \in {"sweeping", "owner"} <=> holder = a
  /\ \A r \in Recs :
       /\ rec[r] \in {"locked", "keyed", "started", "watching", "stopping"} => holder = r
       /\ holder = r => rec[r] \notin {"off", "booting"}

(* A connection is open only between the start of a recorder and its close. *)
ConnectedWhere ==
  \A p \in connected :
     \/ p \in Apps /\ app[p] = "owner"
     \/ p \in Recs /\ rec[p] \in {"started", "watching", "stopping"}

(* Runs are started by backends that serve, so a booting one has none.      *)
LiveWhere == \A a \in live : app[a] \in {"owner", "guest"}

(* The flag a recorder watches was written while it was running.            *)
FlagIsForMe == \A r \in Recs : rec[r] = "watching" /\ flag => r \in asked

(* The strengthening of the ownership.                                       *)
OwnInv ==
  /\ OwnTypeOK /\ HolderKnows /\ ConnectedWhere
  /\ LiveWhere /\ OwnRunIsSafe /\ FlagIsForMe /\ StopsOnlyWhenAsked


(* Type correctness is inductive.                                           *)
LEMMA OwnTypeStep ==
  ASSUME OwnTypeOK, [OwnNext]_ownVars
  PROVE  OwnTypeOK'
<1> USE OwnershipAssumption DEF OwnTypeOK, AppSteps, RecSteps
<1>1. ASSUME NEW a \in Apps, AppStep(a) PROVE OwnTypeOK'
  <2>1. CASE AppStart(a)
    BY <2>1 DEF AppAt, AppStart, appVars, cfgVars
  <2>2. CASE AppAcquire(a)
    BY <2>2 DEF AppAt, AppAcquire, appVars, cfgVars
  <2>3. CASE AppSweep(a)
    BY <2>3 DEF AppAt, AppSweep, StartRecorder, appVars, cfgVars
  <2>4. CASE AppRun(a)
    BY <2>4 DEF AppRun, appVars, cfgVars
  <2>5. CASE AppRunEnds(a)
    BY <2>5 DEF AppRunEnds, appVars, cfgVars
  <2>6. CASE AppEnds(a)
    BY <2>6 DEF AppEnds, Ends, appVars, cfgVars
  <2> QED BY <1>1, <2>1, <2>2, <2>3, <2>4, <2>5, <2>6 DEF AppStep
<1>2. ASSUME NEW r \in Recs, RecStep(r) PROVE OwnTypeOK'
  <2>1. CASE RecLaunch(r)
    BY <2>1 DEF RecAt, RecLaunch, appVars, cfgVars
  <2>2. CASE RecAcquire(r)
    BY <2>2 DEF RecAt, RecAcquire, appVars, cfgVars
  <2>3. CASE RecLoadKey(r)
    BY <2>3 DEF RecAt, RecLoadKey, appVars, cfgVars
  <2>4. CASE RecStart(r)
    BY <2>4 DEF RecAt, RecStart, StartRecorder, appVars, cfgVars
  <2>5. CASE RecClearFlag(r)
    BY <2>5 DEF RecAt, RecClearFlag, appVars, cfgVars
  <2>6. CASE RecSeeFlag(r)
    BY <2>6 DEF RecAt, RecSeeFlag, appVars, cfgVars
  <2>7. CASE RecSeeDead(r)
    BY <2>7 DEF RecAt, RecSeeDead, appVars, cfgVars
  <2>8. CASE RecClose(r)
    BY <2>8 DEF RecAt, RecClose, appVars, cfgVars
  <2>9. CASE RecRelease(r)
    BY <2>9 DEF RecRelease, appVars, cfgVars
  <2>10. CASE RecSignal(r)
    BY <2>10 DEF RecSignal, appVars, cfgVars
  <2>11. CASE RecEnds(r) \/ RecKilled(r)
    BY <2>11 DEF RecEnds, RecKilled, RecGone, Ends, appVars, cfgVars
  <2> QED BY <1>2, <2>1, <2>2, <2>3, <2>4, <2>5, <2>6, <2>7, <2>8, <2>9, <2>10, <2>11 DEF RecStep, RecProceeds
<1>3. ASSUME NEW p \in Apps \cup Recs, TickBegins(p) \/ TickEnds(p) PROVE OwnTypeOK'
  BY <1>3 DEF TickBegins, TickEnds, appVars, cfgVars
<1>4. CASE Enrol \/ LoseKey \/ Register \/ Unschedule
  BY <1>4 DEF Enrol, LoseKey, Register, Unschedule, appVars
<1>5. CASE WriteFlag
  BY <1>5 DEF WriteFlag, appVars
<1>6. CASE UNCHANGED ownVars
  BY <1>6 DEF ownVars, appVars, cfgVars
<1> QED BY <1>1, <1>2, <1>3, <1>4, <1>5, <1>6 DEF OwnNext

(* The lock moves only with the control of the process that takes it.       *)
LEMMA HolderStep ==
  ASSUME OwnTypeOK, HolderKnows, [OwnNext]_ownVars
  PROVE  HolderKnows'
<1> USE OwnershipAssumption DEF OwnTypeOK, HolderKnows
<1>1. ASSUME NEW a \in Apps, AppStep(a) PROVE HolderKnows'
  <2>1. CASE AppStart(a)
    BY <2>1 DEF AppAt, AppStart, appVars, cfgVars
  <2>2. CASE AppAcquire(a)
    BY <2>2 DEF AppAt, AppAcquire, appVars, cfgVars
  <2>3. CASE AppSweep(a)
    BY <2>3 DEF AppAt, AppSweep, StartRecorder, appVars, cfgVars
  <2>4. CASE AppRun(a)
    BY <2>4 DEF AppRun, appVars, cfgVars
  <2>5. CASE AppRunEnds(a)
    BY <2>5 DEF AppRunEnds, appVars, cfgVars
  <2>6. CASE AppEnds(a)
    BY <2>6 DEF AppEnds, Ends, appVars, cfgVars
  <2> QED BY <1>1, <2>1, <2>2, <2>3, <2>4, <2>5, <2>6 DEF AppStep
<1>2. ASSUME NEW r \in Recs, RecStep(r) PROVE HolderKnows'
  <2>1. CASE RecLaunch(r)
    BY <2>1 DEF RecAt, RecLaunch, appVars, cfgVars
  <2>2. CASE RecAcquire(r)
    BY <2>2 DEF RecAt, RecAcquire, appVars, cfgVars
  <2>3. CASE RecLoadKey(r)
    BY <2>3 DEF RecAt, RecLoadKey, appVars, cfgVars
  <2>4. CASE RecStart(r)
    BY <2>4 DEF RecAt, RecStart, StartRecorder, appVars, cfgVars
  <2>5. CASE RecClearFlag(r)
    BY <2>5 DEF RecAt, RecClearFlag, appVars, cfgVars
  <2>6. CASE RecSeeFlag(r)
    BY <2>6 DEF RecAt, RecSeeFlag, appVars, cfgVars
  <2>7. CASE RecSeeDead(r)
    BY <2>7 DEF RecAt, RecSeeDead, appVars, cfgVars
  <2>8. CASE RecClose(r)
    BY <2>8 DEF RecAt, RecClose, appVars, cfgVars
  <2>9. CASE RecRelease(r)
    BY <2>9 DEF RecRelease, appVars, cfgVars
  <2>10. CASE RecSignal(r)
    BY <2>10 DEF RecSignal, appVars, cfgVars
  <2>11. CASE RecEnds(r) \/ RecKilled(r)
    BY <2>11 DEF RecEnds, RecKilled, RecGone, Ends, appVars, cfgVars
  <2> QED BY <1>2, <2>1, <2>2, <2>3, <2>4, <2>5, <2>6, <2>7, <2>8, <2>9, <2>10, <2>11 DEF RecStep, RecProceeds
<1>3. ASSUME NEW p \in Apps \cup Recs, TickBegins(p) \/ TickEnds(p) PROVE HolderKnows'
  BY <1>3 DEF TickBegins, TickEnds, appVars, cfgVars
<1>4. CASE Enrol \/ LoseKey \/ Register \/ Unschedule
  BY <1>4 DEF Enrol, LoseKey, Register, Unschedule, appVars
<1>5. CASE WriteFlag
  BY <1>5 DEF WriteFlag, appVars
<1>6. CASE UNCHANGED ownVars
  BY <1>6 DEF ownVars, appVars, cfgVars
<1> QED BY <1>1, <1>2, <1>3, <1>4, <1>5, <1>6 DEF OwnNext

(* Connections are opened by owners and closed before the lock goes.        *)
LEMMA ConnectedStep ==
  ASSUME OwnTypeOK, ConnectedWhere, [OwnNext]_ownVars
  PROVE  ConnectedWhere'
<1> USE OwnershipAssumption DEF OwnTypeOK, ConnectedWhere
<1>1. ASSUME NEW a \in Apps, AppStep(a) PROVE ConnectedWhere'
  <2>1. CASE AppStart(a)
    BY <2>1 DEF AppAt, AppStart, appVars, cfgVars
  <2>2. CASE AppAcquire(a)
    BY <2>2 DEF AppAt, AppAcquire, appVars, cfgVars
  <2>3. CASE AppSweep(a)
    BY <2>3 DEF AppAt, AppSweep, StartRecorder, appVars, cfgVars
  <2>4. CASE AppRun(a)
    BY <2>4 DEF AppRun, appVars, cfgVars
  <2>5. CASE AppRunEnds(a)
    BY <2>5 DEF AppRunEnds, appVars, cfgVars
  <2>6. CASE AppEnds(a)
    BY <2>6 DEF AppEnds, Ends, appVars, cfgVars
  <2> QED BY <1>1, <2>1, <2>2, <2>3, <2>4, <2>5, <2>6 DEF AppStep
<1>2. ASSUME NEW r \in Recs, RecStep(r) PROVE ConnectedWhere'
  <2>1. CASE RecLaunch(r)
    BY <2>1 DEF RecAt, RecLaunch, appVars, cfgVars
  <2>2. CASE RecAcquire(r)
    BY <2>2 DEF RecAt, RecAcquire, appVars, cfgVars
  <2>3. CASE RecLoadKey(r)
    BY <2>3 DEF RecAt, RecLoadKey, appVars, cfgVars
  <2>4. CASE RecStart(r)
    BY <2>4 DEF RecAt, RecStart, StartRecorder, appVars, cfgVars
  <2>5. CASE RecClearFlag(r)
    BY <2>5 DEF RecAt, RecClearFlag, appVars, cfgVars
  <2>6. CASE RecSeeFlag(r)
    BY <2>6 DEF RecAt, RecSeeFlag, appVars, cfgVars
  <2>7. CASE RecSeeDead(r)
    BY <2>7 DEF RecAt, RecSeeDead, appVars, cfgVars
  <2>8. CASE RecClose(r)
    BY <2>8 DEF RecAt, RecClose, appVars, cfgVars
  <2>9. CASE RecRelease(r)
    BY <2>9 DEF RecRelease, appVars, cfgVars
  <2>10. CASE RecSignal(r)
    BY <2>10 DEF RecSignal, appVars, cfgVars
  <2>11. CASE RecEnds(r) \/ RecKilled(r)
    BY <2>11 DEF RecEnds, RecKilled, RecGone, Ends, appVars, cfgVars
  <2> QED BY <1>2, <2>1, <2>2, <2>3, <2>4, <2>5, <2>6, <2>7, <2>8, <2>9, <2>10, <2>11 DEF RecStep, RecProceeds
<1>3. ASSUME NEW p \in Apps \cup Recs, TickBegins(p) \/ TickEnds(p) PROVE ConnectedWhere'
  BY <1>3 DEF TickBegins, TickEnds, appVars, cfgVars
<1>4. CASE Enrol \/ LoseKey \/ Register \/ Unschedule
  BY <1>4 DEF Enrol, LoseKey, Register, Unschedule, appVars
<1>5. CASE WriteFlag
  BY <1>5 DEF WriteFlag, appVars
<1>6. CASE UNCHANGED ownVars
  BY <1>6 DEF ownVars, appVars, cfgVars
<1> QED BY <1>1, <1>2, <1>3, <1>4, <1>5, <1>6 DEF OwnNext

(* Only a serving backend starts a run, and its end ends the run.           *)
LEMMA LiveStep ==
  ASSUME OwnTypeOK, LiveWhere, [OwnNext]_ownVars
  PROVE  LiveWhere'
<1> USE OwnershipAssumption DEF OwnTypeOK, LiveWhere
<1>1. ASSUME NEW a \in Apps, AppStep(a) PROVE LiveWhere'
  <2>1. CASE AppStart(a)
    BY <2>1 DEF AppAt, AppStart, appVars, cfgVars
  <2>2. CASE AppAcquire(a)
    BY <2>2 DEF AppAt, AppAcquire, appVars, cfgVars
  <2>3. CASE AppSweep(a)
    BY <2>3 DEF AppAt, AppSweep, StartRecorder, appVars, cfgVars
  <2>4. CASE AppRun(a)
    BY <2>4 DEF AppRun, appVars, cfgVars
  <2>5. CASE AppRunEnds(a)
    BY <2>5 DEF AppRunEnds, appVars, cfgVars
  <2>6. CASE AppEnds(a)
    BY <2>6 DEF AppEnds, Ends, appVars, cfgVars
  <2> QED BY <1>1, <2>1, <2>2, <2>3, <2>4, <2>5, <2>6 DEF AppStep
<1>2. ASSUME NEW r \in Recs, RecStep(r) PROVE LiveWhere'
  <2>1. CASE RecLaunch(r)
    BY <2>1 DEF RecAt, RecLaunch, appVars, cfgVars
  <2>2. CASE RecAcquire(r)
    BY <2>2 DEF RecAt, RecAcquire, appVars, cfgVars
  <2>3. CASE RecLoadKey(r)
    BY <2>3 DEF RecAt, RecLoadKey, appVars, cfgVars
  <2>4. CASE RecStart(r)
    BY <2>4 DEF RecAt, RecStart, StartRecorder, appVars, cfgVars
  <2>5. CASE RecClearFlag(r)
    BY <2>5 DEF RecAt, RecClearFlag, appVars, cfgVars
  <2>6. CASE RecSeeFlag(r)
    BY <2>6 DEF RecAt, RecSeeFlag, appVars, cfgVars
  <2>7. CASE RecSeeDead(r)
    BY <2>7 DEF RecAt, RecSeeDead, appVars, cfgVars
  <2>8. CASE RecClose(r)
    BY <2>8 DEF RecAt, RecClose, appVars, cfgVars
  <2>9. CASE RecRelease(r)
    BY <2>9 DEF RecRelease, appVars, cfgVars
  <2>10. CASE RecSignal(r)
    BY <2>10 DEF RecSignal, appVars, cfgVars
  <2>11. CASE RecEnds(r) \/ RecKilled(r)
    BY <2>11 DEF RecEnds, RecKilled, RecGone, Ends, appVars, cfgVars
  <2> QED BY <1>2, <2>1, <2>2, <2>3, <2>4, <2>5, <2>6, <2>7, <2>8, <2>9, <2>10, <2>11 DEF RecStep, RecProceeds
<1>3. ASSUME NEW p \in Apps \cup Recs, TickBegins(p) \/ TickEnds(p) PROVE LiveWhere'
  BY <1>3 DEF TickBegins, TickEnds, appVars, cfgVars
<1>4. CASE Enrol \/ LoseKey \/ Register \/ Unschedule
  BY <1>4 DEF Enrol, LoseKey, Register, Unschedule, appVars
<1>5. CASE WriteFlag
  BY <1>5 DEF WriteFlag, appVars
<1>6. CASE UNCHANGED ownVars
  BY <1>6 DEF ownVars, appVars, cfgVars
<1> QED BY <1>1, <1>2, <1>3, <1>4, <1>5, <1>6 DEF OwnNext

(* A sweep is made by the owner, before it serves.                          *)
LEMMA SafeStep ==
  ASSUME OwnTypeOK, HolderKnows, LiveWhere, OwnRunIsSafe, [OwnNext]_ownVars
  PROVE  OwnRunIsSafe'
<1> USE OwnershipAssumption DEF OwnTypeOK, HolderKnows, LiveWhere, OwnRunIsSafe
<1>1. ASSUME NEW a \in Apps, AppStep(a) PROVE OwnRunIsSafe'
  <2>1. CASE AppStart(a)
    BY <2>1 DEF AppAt, AppStart, appVars, cfgVars
  <2>2. CASE AppAcquire(a)
    BY <2>2 DEF AppAt, AppAcquire, appVars, cfgVars
  <2>3. CASE AppSweep(a)
    BY <2>3 DEF AppAt, AppSweep, StartRecorder, appVars, cfgVars
  <2>4. CASE AppRun(a)
    BY <2>4 DEF AppRun, appVars, cfgVars
  <2>5. CASE AppRunEnds(a)
    BY <2>5 DEF AppRunEnds, appVars, cfgVars
  <2>6. CASE AppEnds(a)
    BY <2>6 DEF AppEnds, Ends, appVars, cfgVars
  <2> QED BY <1>1, <2>1, <2>2, <2>3, <2>4, <2>5, <2>6 DEF AppStep
<1>2. ASSUME NEW r \in Recs, RecStep(r) PROVE OwnRunIsSafe'
  <2>1. CASE RecLaunch(r)
    BY <2>1 DEF RecAt, RecLaunch, appVars, cfgVars
  <2>2. CASE RecAcquire(r)
    BY <2>2 DEF RecAt, RecAcquire, appVars, cfgVars
  <2>3. CASE RecLoadKey(r)
    BY <2>3 DEF RecAt, RecLoadKey, appVars, cfgVars
  <2>4. CASE RecStart(r)
    BY <2>4 DEF RecAt, RecStart, StartRecorder, appVars, cfgVars
  <2>5. CASE RecClearFlag(r)
    BY <2>5 DEF RecAt, RecClearFlag, appVars, cfgVars
  <2>6. CASE RecSeeFlag(r)
    BY <2>6 DEF RecAt, RecSeeFlag, appVars, cfgVars
  <2>7. CASE RecSeeDead(r)
    BY <2>7 DEF RecAt, RecSeeDead, appVars, cfgVars
  <2>8. CASE RecClose(r)
    BY <2>8 DEF RecAt, RecClose, appVars, cfgVars
  <2>9. CASE RecRelease(r)
    BY <2>9 DEF RecRelease, appVars, cfgVars
  <2>10. CASE RecSignal(r)
    BY <2>10 DEF RecSignal, appVars, cfgVars
  <2>11. CASE RecEnds(r) \/ RecKilled(r)
    BY <2>11 DEF RecEnds, RecKilled, RecGone, Ends, appVars, cfgVars
  <2> QED BY <1>2, <2>1, <2>2, <2>3, <2>4, <2>5, <2>6, <2>7, <2>8, <2>9, <2>10, <2>11 DEF RecStep, RecProceeds
<1>3. ASSUME NEW p \in Apps \cup Recs, TickBegins(p) \/ TickEnds(p) PROVE OwnRunIsSafe'
  BY <1>3 DEF TickBegins, TickEnds, appVars, cfgVars
<1>4. CASE Enrol \/ LoseKey \/ Register \/ Unschedule
  BY <1>4 DEF Enrol, LoseKey, Register, Unschedule, appVars
<1>5. CASE WriteFlag
  BY <1>5 DEF WriteFlag, appVars
<1>6. CASE UNCHANGED ownVars
  BY <1>6 DEF ownVars, appVars, cfgVars
<1> QED BY <1>1, <1>2, <1>3, <1>4, <1>5, <1>6 DEF OwnNext

(* A recorder clears the flag before it watches it.                         *)
LEMMA FlagStep ==
  ASSUME OwnTypeOK, FlagIsForMe, [OwnNext]_ownVars
  PROVE  FlagIsForMe'
<1> USE OwnershipAssumption DEF OwnTypeOK, FlagIsForMe
<1>1. ASSUME NEW a \in Apps, AppStep(a) PROVE FlagIsForMe'
  <2>1. CASE AppStart(a)
    BY <2>1 DEF AppAt, AppStart, appVars, cfgVars
  <2>2. CASE AppAcquire(a)
    BY <2>2 DEF AppAt, AppAcquire, appVars, cfgVars
  <2>3. CASE AppSweep(a)
    BY <2>3 DEF AppAt, AppSweep, StartRecorder, appVars, cfgVars
  <2>4. CASE AppRun(a)
    BY <2>4 DEF AppRun, appVars, cfgVars
  <2>5. CASE AppRunEnds(a)
    BY <2>5 DEF AppRunEnds, appVars, cfgVars
  <2>6. CASE AppEnds(a)
    BY <2>6 DEF AppEnds, Ends, appVars, cfgVars
  <2> QED BY <1>1, <2>1, <2>2, <2>3, <2>4, <2>5, <2>6 DEF AppStep
<1>2. ASSUME NEW r \in Recs, RecStep(r) PROVE FlagIsForMe'
  <2>1. CASE RecLaunch(r)
    BY <2>1 DEF RecAt, RecLaunch, appVars, cfgVars
  <2>2. CASE RecAcquire(r)
    BY <2>2 DEF RecAt, RecAcquire, appVars, cfgVars
  <2>3. CASE RecLoadKey(r)
    BY <2>3 DEF RecAt, RecLoadKey, appVars, cfgVars
  <2>4. CASE RecStart(r)
    BY <2>4 DEF RecAt, RecStart, StartRecorder, appVars, cfgVars
  <2>5. CASE RecClearFlag(r)
    BY <2>5 DEF RecAt, RecClearFlag, appVars, cfgVars
  <2>6. CASE RecSeeFlag(r)
    BY <2>6 DEF RecAt, RecSeeFlag, appVars, cfgVars
  <2>7. CASE RecSeeDead(r)
    BY <2>7 DEF RecAt, RecSeeDead, appVars, cfgVars
  <2>8. CASE RecClose(r)
    BY <2>8 DEF RecAt, RecClose, appVars, cfgVars
  <2>9. CASE RecRelease(r)
    BY <2>9 DEF RecRelease, appVars, cfgVars
  <2>10. CASE RecSignal(r)
    BY <2>10 DEF RecSignal, appVars, cfgVars
  <2>11. CASE RecEnds(r) \/ RecKilled(r)
    BY <2>11 DEF RecEnds, RecKilled, RecGone, Ends, appVars, cfgVars
  <2> QED BY <1>2, <2>1, <2>2, <2>3, <2>4, <2>5, <2>6, <2>7, <2>8, <2>9, <2>10, <2>11 DEF RecStep, RecProceeds
<1>3. ASSUME NEW p \in Apps \cup Recs, TickBegins(p) \/ TickEnds(p) PROVE FlagIsForMe'
  BY <1>3 DEF TickBegins, TickEnds, appVars, cfgVars
<1>4. CASE Enrol \/ LoseKey \/ Register \/ Unschedule
  BY <1>4 DEF Enrol, LoseKey, Register, Unschedule, appVars
<1>5. CASE WriteFlag
  BY <1>5 DEF WriteFlag, appVars
<1>6. CASE UNCHANGED ownVars
  BY <1>6 DEF ownVars, appVars, cfgVars
<1> QED BY <1>1, <1>2, <1>3, <1>4, <1>5, <1>6 DEF OwnNext

(* So what it sees was written for it.                                      *)
LEMMA AskedStep ==
  ASSUME OwnTypeOK, FlagIsForMe, StopsOnlyWhenAsked, [OwnNext]_ownVars
  PROVE  StopsOnlyWhenAsked'
<1> USE OwnershipAssumption DEF OwnTypeOK, FlagIsForMe, StopsOnlyWhenAsked
<1>1. ASSUME NEW a \in Apps, AppStep(a) PROVE StopsOnlyWhenAsked'
  <2>1. CASE AppStart(a)
    BY <2>1 DEF AppAt, AppStart, appVars, cfgVars
  <2>2. CASE AppAcquire(a)
    BY <2>2 DEF AppAt, AppAcquire, appVars, cfgVars
  <2>3. CASE AppSweep(a)
    BY <2>3 DEF AppAt, AppSweep, StartRecorder, appVars, cfgVars
  <2>4. CASE AppRun(a)
    BY <2>4 DEF AppRun, appVars, cfgVars
  <2>5. CASE AppRunEnds(a)
    BY <2>5 DEF AppRunEnds, appVars, cfgVars
  <2>6. CASE AppEnds(a)
    BY <2>6 DEF AppEnds, Ends, appVars, cfgVars
  <2> QED BY <1>1, <2>1, <2>2, <2>3, <2>4, <2>5, <2>6 DEF AppStep
<1>2. ASSUME NEW r \in Recs, RecStep(r) PROVE StopsOnlyWhenAsked'
  <2>1. CASE RecLaunch(r)
    BY <2>1 DEF RecAt, RecLaunch, appVars, cfgVars
  <2>2. CASE RecAcquire(r)
    BY <2>2 DEF RecAt, RecAcquire, appVars, cfgVars
  <2>3. CASE RecLoadKey(r)
    BY <2>3 DEF RecAt, RecLoadKey, appVars, cfgVars
  <2>4. CASE RecStart(r)
    BY <2>4 DEF RecAt, RecStart, StartRecorder, appVars, cfgVars
  <2>5. CASE RecClearFlag(r)
    BY <2>5 DEF RecAt, RecClearFlag, appVars, cfgVars
  <2>6. CASE RecSeeFlag(r)
    BY <2>6 DEF RecAt, RecSeeFlag, appVars, cfgVars
  <2>7. CASE RecSeeDead(r)
    BY <2>7 DEF RecAt, RecSeeDead, appVars, cfgVars
  <2>8. CASE RecClose(r)
    BY <2>8 DEF RecAt, RecClose, appVars, cfgVars
  <2>9. CASE RecRelease(r)
    BY <2>9 DEF RecRelease, appVars, cfgVars
  <2>10. CASE RecSignal(r)
    BY <2>10 DEF RecSignal, appVars, cfgVars
  <2>11. CASE RecEnds(r) \/ RecKilled(r)
    BY <2>11 DEF RecEnds, RecKilled, RecGone, Ends, appVars, cfgVars
  <2> QED BY <1>2, <2>1, <2>2, <2>3, <2>4, <2>5, <2>6, <2>7, <2>8, <2>9, <2>10, <2>11 DEF RecStep, RecProceeds
<1>3. ASSUME NEW p \in Apps \cup Recs, TickBegins(p) \/ TickEnds(p) PROVE StopsOnlyWhenAsked'
  BY <1>3 DEF TickBegins, TickEnds, appVars, cfgVars
<1>4. CASE Enrol \/ LoseKey \/ Register \/ Unschedule
  BY <1>4 DEF Enrol, LoseKey, Register, Unschedule, appVars
<1>5. CASE WriteFlag
  BY <1>5 DEF WriteFlag, appVars
<1>6. CASE UNCHANGED ownVars
  BY <1>6 DEF ownVars, appVars, cfgVars
<1> QED BY <1>1, <1>2, <1>3, <1>4, <1>5, <1>6 DEF OwnNext

(* The invariant, from which the four theorems follow.                      *)
LEMMA OwnInvariant == OwnSpec => []OwnInv
<1>1. OwnInit => OwnInv
  BY OwnershipAssumption DEF OwnInit, OwnInv, OwnTypeOK, AppSteps, RecSteps, HolderKnows,
     ConnectedWhere, LiveWhere, OwnRunIsSafe, FlagIsForMe, StopsOnlyWhenAsked
<1>2. OwnInv /\ [OwnNext]_ownVars => OwnInv'
  BY OwnTypeStep, HolderStep, ConnectedStep, LiveStep, SafeStep, FlagStep, AskedStep DEF OwnInv
<1> QED BY <1>1, <1>2, PTL DEF OwnSpec

(* Every variable keeps its type.                                           *)
THEOREM OwnershipTypeCorrect == OwnSpec => []OwnTypeOK
BY OwnInvariant, PTL DEF OwnInv

(* Whatever starts, dies and shuts down, and in whatever order, a recorder  *)
(* writes only while its process owns the lock.                             *)
THEOREM OneRecorderWrites == OwnSpec => []OneWriter
<1>1. OwnInv => OneWriter
  BY DEF OwnInv, OneWriter, HolderKnows, ConnectedWhere
<1> QED BY <1>1, OwnInvariant, PTL

(* The owner of the lock is a process that is running.                      *)
THEOREM LockIsNeverOrphaned == OwnSpec => []OwnerIsAlive
<1>1. OwnInv => OwnerIsAlive
  BY DEF OwnInv, OwnerIsAlive, HolderKnows
<1> QED BY <1>1, OwnInvariant, PTL

(* The owner's own running backtest is never swept.                         *)
THEOREM OwnersRunsAreSafe == OwnSpec => []OwnRunIsSafe
BY OwnInvariant, PTL DEF OwnInv

(* No recorder stops because of a flag that was meant for an earlier one.   *)
THEOREM NoStaleStop == OwnSpec => []StopsOnlyWhenAsked
BY OwnInvariant, PTL DEF OwnInv

(* main.py and recorder_main.py: one process records, and neither its run   *)
(* nor its recording is ended by what was meant for another.                *)
THEOREM OwnerIsAlone == OwnSpec => []OneOwner
BY OneRecorderWrites, OwnersRunsAreSafe, NoStaleStop, PTL DEF OneOwner
=============================================================================
