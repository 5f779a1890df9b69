------------------------------ MODULE Backend ------------------------------
(***************************************************************************)
(* What the supervisor promises to the rest of the shell: which backends   *)
(* can answer, and which one requests are sent to.  A backend is served    *)
(* from only after it has announced itself; it may die at any time, and    *)
(* the shell may go on pointing at it.                                     *)
(***************************************************************************)
CONSTANTS Procs, None

VARIABLES
  up,        (* backends that are listening                                 *)
  announced, (* backends that have announced a port                         *)
  current    (* sidecar.current, as the backend it points at                *)

backendVars == <<up, announced, current>>

BackendInit == up = {} /\ announced = {} /\ current = None

(* The name of a backend that is gone is given to a new child.              *)
Spawned(p) ==
  /\ p \notin up \cup {current}
  /\ announced' = announced \ {p}
  /\ UNCHANGED <<up, current>>

Listen(p) ==
  /\ up' = up \cup {p} /\ announced' = announced \cup {p}
  /\ UNCHANGED current

End(p) ==
  /\ up' = up \ {p}
  /\ UNCHANGED <<announced, current>>

Publish(p) ==
  /\ p \in announced
  /\ current' = p
  /\ UNCHANGED <<up, announced>>

Unpublish ==
  /\ current' = None
  /\ UNCHANGED <<up, announced>>

BackendNext ==
  \/ \E p \in Procs : Spawned(p) \/ Listen(p) \/ End(p) \/ Publish(p)
  \/ Unpublish

BackendSpec == BackendInit /\ [][BackendNext]_backendVars
=============================================================================
