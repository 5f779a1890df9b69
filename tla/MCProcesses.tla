----------------------------- MODULE MCProcesses -----------------------------
(***************************************************************************)
(* The processes of the program: the supervisor and the backends it        *)
(* starts, and which of several backends and unattended recorders records. *)
(* Each is a component of its own, and a behaviour is one of them.         *)
(***************************************************************************)
EXTENDS Sidecar, RecorderOwnership

CONSTANT Parts  (* the components the run looks at *)
VARIABLE part
processVars == <<part, sidecarVars, ownVars>>

ProcessesInit == part \in Parts /\ SidecarInit /\ OwnInit

AsSidecar(A) == part = "sidecar" /\ A /\ UNCHANGED <<part, ownVars>>
AsOwner(A) == part = "owner" /\ A /\ UNCHANGED <<part, sidecarVars>>

ProcessesNext == AsSidecar(SidecarNext) \/ AsOwner(OwnNext)

(* SidecarFairness and that of FairOwnSpec, each in its own behaviours.     *)
ProcessesFairness ==
  /\ WF_processVars(AsSidecar(\E p \in Children : Start(p)))
  /\ WF_processVars(AsSidecar(\E p \in Children : RestartTimer(p)))
  /\ \A p \in Children :
       /\ WF_processVars(AsSidecar(AnnounceTimeout(p)))
       /\ WF_processVars(AsSidecar(ExitEvent(p)))
       /\ WF_processVars(AsSidecar(HealthPassed(p) \/ HealthFailed(p)))
       /\ WF_processVars(AsSidecar(DieOnRequest(p)))
  /\ \A r \in Recs : WF_processVars(AsOwner(RecProceeds(r)))

ProcessesSpec == ProcessesInit /\ [][ProcessesNext]_processVars /\ ProcessesFairness

(* Nothing stays half way: a shell that lost its backend comes to rest, and *)
(* a recorder that is told to stop ends (sidecar.ts scheduleRestart,        *)
(* recorder_main.py main).                                                  *)
ProcessesSettle == (part = "sidecar" => SettlesAgain) /\ FlagStopsRun
=============================================================================
