------------------------------ MODULE RunLedger ------------------------------
(***************************************************************************)
(* What the table backtest_runs promises, whoever writes to it: a row is   *)
(* opened 'running' by one run, that run alone settles it, exactly once,   *)
(* a settled row only ever leaves the table, and a row whose run is lost   *)
(* (the process that kept it died, or its write failed) is settled by the  *)
(* boot sweep or by nobody.  BacktestRuns implements this module: see      *)
(* LedgerOf there.                                                         *)
(***************************************************************************)
EXTENDS Integers

CONSTANTS
  Runs,     (* every call of BacktestManager.start, in no particular order *)
  MaxId,    (* rowids are 1..MaxId                                         *)
  None      (* no run                                                      *)

VARIABLES
  status,   (* status[i]: the status column of row i, "free" when absent   *)
  keeper    (* keeper[i]: the run that may settle row i, or None           *)

ledgerVars == <<status, keeper>>

Ids     == 1..MaxId
Settled == {"done", "error", "cancelled"}

LedgerInit ==
  /\ status = [i \in Ids |-> "free"]
  /\ keeper = [i \in Ids |-> None]

(* A run opens a row nobody uses, and keeps it. *)
Open(i, r) ==
  /\ status[i] = "free"
  /\ \A j \in Ids : keeper[j] # r
  /\ status' = [status EXCEPT ![i] = "running"]
  /\ keeper' = [keeper EXCEPT ![i] = r]

(* The keeper of a row settles it and lets it go. *)
Settle(i, s) ==
  /\ status[i] = "running"
  /\ keeper[i] # None
  /\ status' = [status EXCEPT ![i] = s]
  /\ keeper' = [keeper EXCEPT ![i] = None]

(* The keeper of a row could not write it and is gone. *)
Lose(i) ==
  /\ keeper[i] # None
  /\ keeper' = [keeper EXCEPT ![i] = None]
  /\ UNCHANGED status

(* A settled row is deleted. *)
Remove(i) ==
  /\ status[i] \in Settled
  /\ status' = [status EXCEPT ![i] = "free"]
  /\ UNCHANGED keeper

(* The process that kept the rows dies: their status stays 'running'. *)
Abandon ==
  /\ keeper' = [i \in Ids |-> None]
  /\ UNCHANGED status

(* The next process marks what it finds 'running' as failed. *)
Sweep ==
  /\ \A i \in Ids : keeper[i] = None
  /\ status' = [i \in Ids |-> IF status[i] = "running" THEN "error" ELSE status[i]]
  /\ UNCHANGED keeper

LedgerNext ==
  \/ \E i \in Ids, r \in Runs : Open(i, r)
  \/ \E i \in Ids, s \in Settled : Settle(i, s)
  \/ \E i \in Ids : Lose(i) \/ Remove(i)
  \/ Abandon
  \/ Sweep

LedgerSpec == LedgerInit /\ [][LedgerNext]_ledgerVars

==============================================================================
