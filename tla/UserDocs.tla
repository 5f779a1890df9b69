------------------------------ MODULE UserDocs ------------------------------
(***************************************************************************)
(* What a user keeps in app.db beside favourites and drawings: the gesture *)
(* wheels (backend/wheels.py), written whole by the settings panel and by  *)
(* the hub of an open wheel; the settings (backend/settings.py); and the   *)
(* notepad (backend/notepad.py), whose add counts before it inserts and    *)
(* whose edit reads before it writes.                                      *)
(***************************************************************************)
EXTENDS Naturals, FiniteSets, Sequences

CONSTANTS
  Custom,      (* wheels a user may make                                    *)
  MaxSaves,    (* bounds the saves of the panel                             *)
  MaxLocks,    (* bounds what the hub writes                                *)
  PadIds, Texts, MaxEntries, PadCallers,
  Floor0, Ceiling0  (* the bounds of a numeric setting                      *)

ASSUME UserAssumption ==
  /\ {MaxSaves, MaxLocks, MaxEntries, Floor0, Ceiling0} \subseteq Nat /\ Floor0 <= Ceiling0
  /\ PadCallers # {} /\ IsFiniteSet(PadCallers)

-----------------------------------------------------------------------------
(* Wheels.                                                                   *)
VARIABLES
  wheelRow,  (* the stored document, or NoRow                               *)
  panel,     (* what the panel shows                                        *)
  saves,     (* its saves, in the order they were begun: [at, doc, dropped, *)
             (* carry, fresh], fresh while nobody has written since the lock*)
             (* was read                                                    *)
  hub,       (* the document an open wheel was spawned with, or NoRow       *)
  locksMade

wheelVars == <<wheelRow, panel, saves, hub, locksMade>>

NoWheel  == "none"
NoWheels == [version |-> "none", wheels |-> {}, links |-> {}, bound |-> NoWheel, locked |-> NoWheel]
DefaultDoc == [version |-> "7", wheels |-> {"main"}, links |-> {}, bound |-> "main", locked |-> NoWheel]
WheelDocs ==
  {[version |-> "7", wheels |-> {"main"} \cup c, links |-> l, bound |-> b, locked |-> NoWheel] :
     c \in SUBSET Custom, l \in SUBSET Custom, b \in Custom \cup {"main"}}

(* validate: a built-in wheel cannot go, and whatever names a wheel - a       *)
(* segment, the lock, the wheel of an element class - names one that is there.*)
ValidWheels(doc) ==
  /\ "main" \in doc.wheels
  /\ doc.links \subseteq doc.wheels /\ doc.bound \in doc.wheels
  /\ doc.locked \in doc.wheels \cup {NoWheel}

GetWheels == IF wheelRow.version = "7" /\ ValidWheels(wheelRow) THEN wheelRow ELSE DefaultDoc

WheelsInit ==
  /\ wheelRow \in {NoWheels, [DefaultDoc EXCEPT !.version = "6", !.bound = "gone"], DefaultDoc}
  /\ panel = GetWheels /\ saves = <<>> /\ hub = NoWheels /\ locksMade = 0

WheelsTypeOK ==
  /\ wheelRow.version = "7" => ValidWheels(wheelRow)
  /\ ValidWheels(GetWheels)
  /\ hub = NoWheels \/ ValidWheels(hub)
  /\ \A i \in DOMAIN saves : saves[i].at \in {"get", "put", "echo", "refused", "over"}
  /\ Len(saves) <= MaxSaves /\ locksMade \in 0 .. MaxLocks

(* save: the panel shows the edit at once.                                   *)
PanelEdits(doc) ==
  /\ doc # panel /\ Len(saves) < MaxSaves
  /\ LET next == [doc EXCEPT !.locked = IF panel.locked \in doc.wheels THEN panel.locked ELSE NoWheel] IN
     /\ panel' = next
     /\ saves' = Append(saves, [at |-> "get", doc |-> next, dropped |-> panel.wheels \ doc.wheels,
                                carry |-> next.locked, fresh |-> FALSE])
  /\ UNCHANGED <<wheelRow, hub, locksMade>>

Carry(save, locked) == IF locked \in save.dropped THEN NoWheel ELSE locked
(* Mutant: the lock the panel was mounted with is written back.              *)
ReadLock_Snapshot(i) ==
  /\ saves[i].at = "get"
  /\ saves' = [saves EXCEPT ![i].at = "put", ![i].fresh = TRUE]
  /\ UNCHANGED <<wheelRow, panel, hub, locksMade>>

ReadLock(i) ==
  /\ saves[i].at = "get"
  /\ \/ saves' = [saves EXCEPT ![i].at = "put", ![i].fresh = TRUE,
                               ![i].carry = Carry(saves[i], GetWheels.locked)]
     \/ saves' = [saves EXCEPT ![i].at = "put"]     (* the read failed       *)
  /\ UNCHANGED <<wheelRow, panel, hub, locksMade>>

Stale == [i \in DOMAIN saves |-> [saves[i] EXCEPT !.fresh = FALSE]]
PanelPut(i) ==
  /\ saves[i].at = "put"
  /\ LET doc == [saves[i].doc EXCEPT !.locked = saves[i].carry] IN
     IF ValidWheels(doc)
     THEN wheelRow' = doc /\ saves' = [Stale EXCEPT ![i].at = "echo", ![i].doc = doc]
     ELSE saves' = [saves EXCEPT ![i].at = "refused"] /\ UNCHANGED wheelRow
  /\ UNCHANGED <<panel, hub, locksMade>>

(* Only the newest save may write to what is shown.                          *)
Answered(i) ==
  /\ saves[i].at \in {"echo", "refused"}
  /\ panel' = IF i # Len(saves) THEN panel
              ELSE IF saves[i].at = "echo" THEN saves[i].doc ELSE GetWheels
  /\ saves' = [saves EXCEPT ![i].at = "over"]
  /\ UNCHANGED <<wheelRow, hub, locksMade>>

Spawn == hub = NoWheels /\ hub' = GetWheels /\ UNCHANGED <<wheelRow, panel, saves, locksMade>>
Dismiss == hub # NoWheels /\ hub' = NoWheels /\ UNCHANGED <<wheelRow, panel, saves, locksMade>>

(* toggleLock writes the document the wheel was spawned with.                *)
ToggleLock(w) ==
  /\ hub # NoWheels /\ w \in hub.wheels /\ locksMade < MaxLocks
  /\ hub' = [hub EXCEPT !.locked = IF @ = w THEN NoWheel ELSE w]
  /\ wheelRow' = hub' /\ locksMade' = locksMade + 1
  /\ saves' = Stale /\ UNCHANGED panel

WheelsNext ==
  \/ \E doc \in WheelDocs : PanelEdits(doc)
  \/ \E i \in DOMAIN saves : ReadLock(i)
  \/ \E i \in DOMAIN saves : PanelPut(i)
  \/ \E i \in DOMAIN saves : Answered(i)
  \/ Spawn
  \/ Dismiss
  \/ \E w \in Custom \cup {"main"} : ToggleLock(w)

-----------------------------------------------------------------------------
(* Settings: a number is clamped, a choice that is not one is the default; a *)
(* row that cannot be read is the default as well.                           *)
VARIABLE prefs

OneOf == {"on", "off"}
NoPref  == <<>>
Corrupt == <<0, 0>>
Clamp(n) == IF n < Floor0 THEN Floor0 ELSE IF n > Ceiling0 THEN Ceiling0 ELSE n
Coerce(k, v) ==
  IF k = "number" THEN <<Clamp(v[1])>>
  ELSE IF v[1] \in OneOf THEN v ELSE <<"off">>
SPEC == [number |-> <<Floor0>>, choice |-> <<"off">>]
GetAll == [k \in DOMAIN SPEC |-> IF prefs[k] \in {NoPref, Corrupt} THEN SPEC[k] ELSE Coerce(k, prefs[k])]

PrefsInit == prefs \in [DOMAIN SPEC -> {NoPref, Corrupt}]
PutPref(k, v) == prefs' = [prefs EXCEPT ![k] = Coerce(k, v)]
PrefsNext ==
  \/ \E n \in Floor0 .. Ceiling0 + 1 : PutPref("number", <<n>>)
  \/ \E c \in OneOf \cup {"neither"} : PutPref("choice", <<c>>)
PrefsTypeOK == GetAll.number[1] \in Floor0 .. Ceiling0 /\ GetAll.choice[1] \in OneOf

-----------------------------------------------------------------------------
(* The notepad.  A payload has a kind and a text; Texts with a secret in     *)
(* them, or too long, are refused.                                           *)
VARIABLES
  pad,    (* the entries: [id, kind, text, label]                           *)
  caller  (* caller[c]: the add or the edit c is in, between its two steps  *)

padVars == <<pad, caller>>
PadKinds == {"note", "chain"}
Secret == "secret"
Quiet == [op |-> "none", entry |-> [id |-> "none", kind |-> "note", text |-> "", label |-> ""]]
ValidPayload(kind, text) == kind \in PadKinds /\ text # Secret
Destination(e) == IF e.kind = "note" THEN "notepad.gs" ELSE "opt.gs"
Label(e) == IF e.label # "" THEN e.label ELSE e.kind
Summaries == {[id |-> e.id, kind |-> e.kind, label |-> Label(e), destination |-> Destination(e)] : e \in pad}

PadInit == pad = {} /\ caller = [c \in PadCallers |-> Quiet]
PadTypeOK ==
  /\ Cardinality(pad) <= MaxEntries + Cardinality(PadCallers) - 1
  /\ \A e, f \in pad : e.id = f.id => e = f
  /\ \A e \in pad : ValidPayload(e.kind, e.text)
  /\ Cardinality(Summaries) = Cardinality(pad)

CountForAdd(c, kind, text) ==
  /\ caller[c] = Quiet /\ ValidPayload(kind, text) /\ Cardinality(pad) < MaxEntries
  /\ caller' = [caller EXCEPT ![c] = [op |-> "add",
       entry |-> [id |-> "none", kind |-> kind, text |-> text, label |-> ""]]]
  /\ UNCHANGED pad
InsertEntry(c, id) ==
  /\ caller[c].op = "add" /\ id \notin {e.id : e \in pad}
  /\ pad' = pad \cup {[caller[c].entry EXCEPT !.id = id]}
  /\ caller' = [caller EXCEPT ![c] = Quiet]

(* Mutant: an edit does not look at the payload again.                       *)
ReadForEdit_NoCheck(c, e, text, label) ==
  /\ caller[c] = Quiet
  /\ caller' = [caller EXCEPT ![c] = [op |-> "edit", entry |-> [e EXCEPT !.text = text, !.label = label]]]
  /\ UNCHANGED pad

(* An edit keeps the kind; a label alone writes the payload it read back.    *)
ReadForEdit(c, e, text, label) ==
  /\ caller[c] = Quiet /\ ValidPayload(e.kind, text)
  /\ caller' = [caller EXCEPT ![c] = [op |-> "edit", entry |-> [e EXCEPT !.text = text, !.label = label]]]
  /\ UNCHANGED pad
UpdateEntry(c) ==
  /\ caller[c].op = "edit"
  /\ pad' = {IF e.id = caller[c].entry.id THEN caller[c].entry ELSE e : e \in pad}
  /\ caller' = [caller EXCEPT ![c] = Quiet]
RemoveEntry(e) == pad' = pad \ {e} /\ UNCHANGED caller

PadNext ==
  \/ \E c \in PadCallers, kind \in PadKinds, text \in Texts : CountForAdd(c, kind, text)
  \/ \E c \in PadCallers, id \in PadIds : InsertEntry(c, id)
  \/ \E c \in PadCallers, e \in pad, text \in Texts, label \in {"", "mine"} : ReadForEdit(c, e, text, label)
  \/ \E c \in PadCallers : UpdateEntry(c)
  \/ \E e \in pad : RemoveEntry(e)

-----------------------------------------------------------------------------
(* A save of the panel leaves the lock as it is, whatever the panel was      *)
(* mounted with, unless it drops the locked wheel or somebody wrote between  *)
(* its read of the lock and its write (GesturesPanel.tsx, LOCK-PRESERVING).  *)
PanelKeepsTheLock ==
  [][\A i \in DOMAIN saves :
       saves[i].at = "put" /\ saves'[i].at = "echo" /\ saves[i].fresh
         => \/ wheelRow'.locked = GetWheels.locked
            \/ wheelRow'.locked = NoWheel /\ GetWheels.locked \in saves[i].dropped]_wheelVars
=============================================================================
