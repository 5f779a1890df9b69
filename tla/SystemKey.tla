------------------------------ MODULE SystemKey ------------------------------
(***************************************************************************)
(* The key the unattended recorder works with (backend/syskey.py), its      *)
(* enrolment (app.py) and the probe that decides what a key can do          *)
(* (backend/keyprobe.py).  The key is sealed to the Windows profile in a    *)
(* file that is replaced whole; a second file says what the page shows.     *)
(***************************************************************************)
EXTENDS Integers, FiniteSets

CONSTANTS
  Keys,          (* what can be typed: [name, hosts]: the hosts it works at   *)
  Users,
  Enrolments     (* requests that may be under way at once                    *)

VARIABLES
  sealed,        (* system-key.bin: a blob, or NoBlob                         *)
  temporary,     (* system-key.tmp                                            *)
  metadata,      (* system-key.json: the key it is about, or NoBlob           *)
  profile,       (* the Windows profile: it changes when it is reset          *)
  enrolment      (* [request -> what it is at]                                *)
keyVars == <<sealed, temporary, metadata, profile, enrolment>>

NoBlob == [key |-> "none"]
NoRequest == [at |-> "idle"]

-----------------------------------------------------------------------------
(* _ask: a host lets a key in or rejects it, or the answer is unclear.       *)
Answers(key, host) == {IF host \in key.hosts THEN "ok" ELSE "rejected", "unclear"}

(* Mutant: what is not let in by the live host is a paper key.               *)
VerdictOf_PaperHost(live, paper) ==
  IF live = "ok" THEN "LIVE_CAPABLE" ELSE IF paper = "ok" THEN "PAPER_ONLY" ELSE "UNDETERMINED"

(* verdict_of: only a rejection by the live host makes a paper key.          *)
VerdictOf(live, paper) ==
  CASE live = "ok" -> "LIVE_CAPABLE"
    [] live = "rejected" /\ paper = "ok" -> "PAPER_ONLY"
    [] OTHER -> "UNDETERMINED"
StoredUnder(verdict, accepts) == verdict = "PAPER_ONLY" \/ (verdict = "LIVE_CAPABLE" /\ accepts)

(* syskey_enrol: both hosts are asked, then the key is refused or sealed.    *)
Goes(e, r) == enrolment' = [enrolment EXCEPT ![e] = r]
Begins(e) ==
  /\ enrolment[e] = NoRequest
  /\ \E key \in Keys, user \in Users, accepts \in BOOLEAN :
       Goes(e, [at |-> "probe", key |-> key, user |-> user, accepts |-> accepts])
  /\ UNCHANGED <<sealed, temporary, metadata, profile>>
Probes(e) ==
  LET r == enrolment[e] IN
  /\ r.at = "probe"
  /\ \E live \in Answers(r.key, "live"), paper \in Answers(r.key, "paper") :
       LET verdict == VerdictOf(live, paper)
       IN Goes(e, IF StoredUnder(verdict, r.accepts)
                  THEN [at |-> "seal", blob |-> [key |-> r.key.name, verdict |-> verdict, owner |-> r.user,
                                                 accepted |-> r.accepts, profile |-> profile]]
                  ELSE NoRequest)
  /\ UNCHANGED <<sealed, temporary, metadata, profile>>
(* store: the blob beside the file, the replacement, the metadata.           *)
Writes(e) ==
  /\ enrolment[e].at = "seal" /\ temporary' = enrolment[e].blob
  /\ Goes(e, [enrolment[e] EXCEPT !.at = "replace"])
  /\ UNCHANGED <<sealed, metadata, profile>>
Replaces(e) ==
  /\ enrolment[e].at = "replace"
  /\ IF temporary = NoBlob THEN Goes(e, NoRequest) /\ UNCHANGED sealed
     ELSE sealed' = temporary /\ Goes(e, [enrolment[e] EXCEPT !.at = "describe"])
  /\ temporary' = NoBlob
  /\ UNCHANGED <<metadata, profile>>
Describes(e) ==
  /\ enrolment[e].at = "describe" /\ metadata' = enrolment[e].blob /\ Goes(e, NoRequest)
  /\ UNCHANGED <<sealed, temporary, profile>>
(* remove: the blob, then the metadata.                                      *)
Removes(e) ==
  /\ enrolment[e] = NoRequest /\ sealed' = NoBlob /\ Goes(e, [at |-> "forget"])
  /\ UNCHANGED <<temporary, metadata, profile>>
Forgets(e) ==
  /\ enrolment[e].at = "forget" /\ metadata' = NoBlob /\ Goes(e, NoRequest)
  /\ UNCHANGED <<sealed, temporary, profile>>
Dies ==
  /\ enrolment' = [e \in Enrolments |-> NoRequest]
  /\ UNCHANGED <<sealed, temporary, metadata, profile>>
ProfileIsReset ==
  profile = 1 /\ profile' = 2 /\ UNCHANGED <<sealed, temporary, metadata, enrolment>>

(* load, and system_creds_provider: a key of its owner, if it unseals.       *)
Loads == IF sealed # NoBlob /\ sealed.profile = profile THEN sealed ELSE NoBlob
CredsOf(user) == IF Loads # NoBlob /\ Loads.owner = user THEN Loads ELSE NoBlob

KeyInit ==
  /\ sealed = NoBlob /\ temporary = NoBlob /\ metadata = NoBlob /\ profile = 1
  /\ enrolment = [e \in Enrolments |-> NoRequest]
KeyNext ==
  \/ \E e \in Enrolments : Begins(e) \/ Probes(e) \/ Writes(e) \/ Replaces(e) \/ Describes(e) \/ Removes(e) \/ Forgets(e)
  \/ Dies \/ ProfileIsReset

KeySpec == KeyInit /\ [][KeyNext]_keyVars

-----------------------------------------------------------------------------
(* Whichever hosts answered and whatever died or ran beside it, a key that   *)
(* works while nobody is there was proven unable to move money, or its owner *)
(* accepted that it can.                                                     *)
StoredKeyWasProven ==
  \A user \in Users : CredsOf(user) # NoBlob =>
    \E key \in Keys :
      /\ key.name = CredsOf(user).key
      /\ "live" \in key.hosts => CredsOf(user).accepted /\ CredsOf(user).verdict = "LIVE_CAPABLE"
=============================================================================
