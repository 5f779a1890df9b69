----------------------------- MODULE BacktestRuns -----------------------------
(***************************************************************************)
(* BacktestManager (backend/backtests.py), the runner subprocess           *)
(* (backend/bt_runner.py) and the boot sweep (backend/main.py).            *)
(*                                                                         *)
(* Four kinds of actor work on the same rows, directories and fields:      *)
(*   - request threads: start, cancel, delete_run, mint_report_key;        *)
(*   - one reader thread per run (_follow, _ingest);                       *)
(*   - the runner processes, which outlive the sidecar that spawned them;  *)
(*   - the sidecar process, which may die and boot again.                  *)
(* self._lock is held over all of start (INSERT to thread start), so it is *)
(* modelled by `starter`; every other section that takes it is one action, *)
(* enabled only while no start is in progress.                             *)
(***************************************************************************)
EXTENDS Integers, FiniteSets, TLC

CONSTANTS
  Runs,        (* one element per call of start that reaches its INSERT     *)
  MaxId,       (* bound on rowids                                           *)
  None,        (* Python's None                                             *)
  MaxCrashes,  (* bound: how often the sidecar may die                      *)
  LockOutcomes (* what acquire_or_none may answer at boot: {TRUE}, BOOLEAN  *)

ASSUME ConstantsAssumption ==
  /\ None \notin Runs
  /\ MaxId \in Nat
  /\ MaxCrashes \in Nat
  /\ LockOutcomes \subseteq BOOLEAN

(* Runs are interchangeable.                                               *)
RunSymmetry == Permutations(Runs)

VARIABLES
  \* market.db: table backtest_runs
  status,       (* status[i]: status column of row i; "free" = no such row  *)
  occupant,     (* occupant[i]: the run whose INSERT made row i             *)
  ingested,     (* ingested[i]: the run whose result row i carries          *)
  \* the out_root directory
  dirs,         (* the rowids i whose directory out_root/<i> exists         *)
  jobs,         (* those with a job.json in it                              *)
  resultBy,     (* resultBy[i]: the run that wrote <i>/result.json          *)
  resultOk,     (* the rowids whose result.json has no 'error' key          *)
  \* runner processes
  proc,         (* proc[r]: how far the runner of run r has come            *)
  exitedOk,     (* the runs whose runner exited with code zero              *)
  rid,          (* rid[r]: the rowid run r was given, 0 before its INSERT   *)
  \* the sidecar's memory
  up,           (* the sidecar is running                                   *)
  ownsLock,     (* state.recorder_lock is not None                          *)
  starter,      (* the run whose start holds self._lock, or None            *)
  tracked,      (* self._proc, as the run it belongs to                     *)
  runId,        (* self._run_id, 0 = None                                   *)
  cancelledRun, (* self._cancelled_run, 0 = None                            *)
  progress,     (* the run self._progress speaks of, None = empty           *)
  keys,         (* keys[i]: the run self._report_keys[i] was minted for     *)
  reader,       (* reader[r]: where the reader thread of run r stands       *)
  deleteStep,   (* how far the delete_run in progress has come ...          *)
  deleteId,     (* ... and of which row                                     *)
  mintId,       (* the report-key request in progress: the row it read, ... *)
  mintRun,      (* ... and the run that was in it                           *)
  \* history
  asked,        (* runs whose cancel() returned True                        *)
  crashes,      (* how often the sidecar has died                           *)
  stranded      (* runs whose last write failed while this sidecar was up   *)

dbVars      == <<status, occupant, ingested>>
diskVars    == <<dirs, jobs, resultBy, resultOk>>
runnerVars  == <<proc, exitedOk>>
managerVars == <<tracked, runId, cancelledRun, progress>>
deleteVars  == <<deleteStep, deleteId>>
mintVars    == <<mintId, mintRun>>
requestVars == <<deleteVars, mintVars, keys>>
bootVars    == <<up, ownsLock, crashes, stranded>>
vars == <<dbVars, diskVars, runnerVars, rid, bootVars, starter, managerVars,
          requestVars, reader, asked>>

Ids     == 1..MaxId
Settled == {"done", "error", "cancelled"}
Live    == {"booting", "working", "written"}

(* Reader steps up to the write that settles the row, and after it. *)
Pending   == {"following", "exited", "cancelling", "ingesting"}
Finishing == {"cleanup", "unlinking", "closing"}

RowTypes ==
  /\ status \in [Ids -> {"free", "running"} \cup Settled]
  /\ occupant \in [Ids -> Runs \cup {None}]
  /\ ingested \in [Ids -> Runs \cup {None}]

DiskTypes ==
  /\ dirs \subseteq Ids /\ jobs \subseteq Ids /\ resultOk \subseteq Ids
  /\ resultBy \in [Ids -> Runs \cup {None}]

RunTypes ==
  /\ proc \in [Runs -> {"unborn", "gone"} \cup Live]
  /\ exitedOk \subseteq Runs /\ asked \subseteq Runs
  /\ rid \in [Runs -> 0..MaxId]
  /\ reader \in [Runs -> {"none", "finished"} \cup Pending \cup Finishing]

MemoryTypes ==
  /\ up \in BOOLEAN /\ ownsLock \in BOOLEAN /\ crashes \in Nat
  /\ starter \in Runs \cup {None} /\ tracked \in Runs \cup {None}
  /\ progress \in Runs \cup {None}
  /\ runId \in 0..MaxId /\ cancelledRun \in 0..MaxId
  /\ stranded \subseteq Runs

RequestTypes ==
  /\ keys \in [Ids -> Runs \cup {None}]
  /\ deleteStep \in {"idle", "row", "dir"} /\ deleteId \in 0..MaxId
  /\ deleteStep # "idle" => deleteId # 0
  /\ mintId \in 0..MaxId /\ mintRun \in Runs \cup {None}

TypeOK == RowTypes /\ DiskTypes /\ RunTypes /\ MemoryTypes /\ RequestTypes

Init ==
  /\ status = [i \in Ids |-> "free"]
  /\ occupant = [i \in Ids |-> None]
  /\ ingested = [i \in Ids |-> None]
  /\ dirs = {} /\ jobs = {} /\ resultOk = {}
  /\ resultBy = [i \in Ids |-> None]
  /\ proc = [r \in Runs |-> "unborn"]
  /\ exitedOk = {}
  /\ rid = [r \in Runs |-> 0]
  /\ up = FALSE /\ ownsLock = FALSE /\ crashes = 0
  /\ starter = None
  /\ tracked = None /\ runId = 0 /\ cancelledRun = 0 /\ progress = None
  /\ keys = [i \in Ids |-> None]
  /\ reader = [r \in Runs |-> "none"]
  /\ deleteStep = "idle" /\ deleteId = 0 /\ mintId = 0 /\ mintRun = None
  /\ asked = {} /\ stranded = {}

LockFree == up /\ starter = None

(* self._proc is not None and self._proc.poll() is None *)
TrackedAlive == tracked # None /\ proc[tracked] \in Live

(* The rowid SQLite gives a new row of a table whose INTEGER PRIMARY KEY   *)
(* has no AUTOINCREMENT: one more than the largest in use.                 *)
IsNextId(i) ==
  /\ \A j \in Ids : j >= i => status[j] = "free"
  /\ \A j \in Ids : j = i - 1 => status[j] # "free"

(* UPDATE backtest_runs SET status=s ... WHERE id=i: a row that is not     *)
(* there is not touched, and the row that is there may be any run's.       *)
SetStatus(i, s) ==
  status' = [status EXCEPT ![i] = IF @ = "free" THEN @ ELSE s]

(* The last write of run r, made where nothing is left to catch it with:   *)
(* market.db may be locked, full or gone, and then the row stays 'running' *)
(* until a boot sweeps it.                                                 *)
FinishOrStrand(r) ==
  /\ \/ SetStatus(rid[r], "error") /\ UNCHANGED stranded
     \/ stranded' = stranded \cup {r} /\ UNCHANGED status
  /\ UNCHANGED <<up, ownsLock, crashes>>

(* rmtree(out_root/<i>, ignore_errors=True)                                *)
RemoveTree(i) ==
  /\ dirs' = dirs \ {i} /\ jobs' = jobs \ {i} /\ resultOk' = resultOk \ {i}
  /\ resultBy' = [resultBy EXCEPT ![i] = None]

(* mkdir(parents, exist_ok) and job.json: an older result.json stays.      *)
MakeJob(i) ==
  /\ dirs' = dirs \cup {i} /\ jobs' = jobs \cup {i}
  /\ UNCHANGED <<resultBy, resultOk>>

(* result.json of run r, a result or an error; r's directory must be there *)
WriteResult(r, good) ==
  /\ rid[r] \in dirs
  /\ resultBy' = [resultBy EXCEPT ![rid[r]] = r]
  /\ resultOk' = IF good THEN resultOk \cup {rid[r]} ELSE resultOk \ {rid[r]}
  /\ UNCHANGED <<dirs, jobs>>

-------------------------------------------------------------------------------
(* start: the lock is taken, a live runner refuses the call, the row goes  *)
(* in.                                                                     *)
StartInsert(r) ==
  /\ LockFree
  /\ ~TrackedAlive
  /\ rid[r] = 0
  /\ \E i \in Ids :
       /\ IsNextId(i)
       /\ status' = [status EXCEPT ![i] = "running"]
       /\ occupant' = [occupant EXCEPT ![i] = r]
       /\ ingested' = [ingested EXCEPT ![i] = None]
       /\ rid' = [rid EXCEPT ![r] = i]
  /\ starter' = r
  /\ UNCHANGED <<diskVars, runnerVars, bootVars, managerVars, requestVars, reader, asked>>

(* Mutant: start leaves _cancelled_run as it is.                           *)
StartLaunch_KeepsFlag(r) ==
  /\ up /\ starter = r /\ r # None
  /\ MakeJob(rid[r])
  /\ proc' = [proc EXCEPT ![r] = "booting"]
  /\ tracked' = r
  /\ runId' = rid[r]
  /\ progress' = r
  /\ reader' = [reader EXCEPT ![r] = "following"]
  /\ starter' = None
  /\ UNCHANGED <<dbVars, exitedOk, rid, bootVars, requestVars, cancelledRun,
                 asked>>

(* start: directory, job file, Popen, the four fields, the reader thread;  *)
(* the lock is released.                                                   *)
StartLaunch(r) ==
  /\ up /\ starter = r /\ r # None
  /\ MakeJob(rid[r])
  /\ proc' = [proc EXCEPT ![r] = "booting"]
  /\ tracked' = r
  /\ runId' = rid[r]
  /\ cancelledRun' = 0
  /\ progress' = r
  /\ reader' = [reader EXCEPT ![r] = "following"]
  /\ starter' = None
  /\ UNCHANGED <<dbVars, exitedOk, rid, bootVars, requestVars, asked>>

(* Mutant: a failed launch leaves its row alone.                           *)
StartFail_NoFinish(r) ==
  /\ up /\ starter = r /\ r # None
  /\ MakeJob(rid[r]) \/ UNCHANGED diskVars
  /\ starter' = None
  /\ UNCHANGED <<dbVars, runnerVars, rid, bootVars, managerVars, requestVars, reader, asked>>

(* start: mkdir, the job file, stderr or Popen raised, and then perhaps    *)
(* _finish as well.                                                        *)
StartFail(r) ==
  /\ up /\ starter = r /\ r # None
  /\ MakeJob(rid[r]) \/ UNCHANGED diskVars
  /\ FinishOrStrand(r)
  /\ starter' = None
  /\ UNCHANGED <<occupant, ingested, runnerVars, rid, managerVars, requestVars,
                 reader, asked>>

(* cancel: only the tracked, live run.  A runner that has written its      *)
(* result may have exited by itself between poll() and kill().             *)
Cancel ==
  /\ LockFree
  /\ runId # 0 /\ TrackedAlive
  /\ cancelledRun' = runId
  /\ \/ UNCHANGED exitedOk
     \/ /\ proc[tracked] = "written"
        /\ exitedOk' = exitedOk \cup {tracked}
  /\ proc' = [proc EXCEPT ![tracked] = "gone"]
  /\ asked' = asked \cup {tracked}
  /\ UNCHANGED <<dbVars, diskVars, rid, bootVars, starter, tracked, runId, progress,
                 requestVars, reader>>

-------------------------------------------------------------------------------
(* The runner reads its job file; without one it dies at once.             *)
RunnerBoot(r) ==
  /\ proc[r] = "booting"
  /\ rid[r] \in jobs
  /\ proc' = [proc EXCEPT ![r] = "working"]
  /\ UNCHANGED <<dbVars, diskVars, exitedOk, rid, bootVars, starter, managerVars, requestVars,
                 reader, asked>>

(* The runner writes result.json, a result or a caught engine error.       *)
RunnerWrite(r) ==
  /\ proc[r] = "working"
  /\ \E good \in BOOLEAN : WriteResult(r, good)
  /\ proc' = [proc EXCEPT ![r] = "written"]
  /\ UNCHANGED <<dbVars, exitedOk, rid, bootVars, starter, managerVars, requestVars,
                 reader, asked>>

RunnerExit(r) ==
  /\ proc[r] = "written"
  /\ proc' = [proc EXCEPT ![r] = "gone"]
  /\ exitedOk' = exitedOk \cup {r}
  /\ UNCHANGED <<dbVars, diskVars, rid, bootVars, starter, managerVars, requestVars,
                 reader, asked>>

(* An uncaught exception (which still writes an error result when the      *)
(* directory is there), a missing job file or directory, a hard crash.     *)
RunnerDie(r) ==
  /\ proc[r] \in Live
  /\ \/ UNCHANGED diskVars
     \/ proc[r] = "working" /\ WriteResult(r, FALSE)
  /\ proc' = [proc EXCEPT ![r] = "gone"]
  /\ UNCHANGED <<dbVars, exitedOk, rid, bootVars, starter, managerVars, requestVars, reader, asked>>

-------------------------------------------------------------------------------
(* _follow: a progress line, read whenever the reader gets to it.          *)
ReaderProgress(r) ==
  /\ reader[r] = "following"
  /\ progress' = r
  /\ UNCHANGED <<dbVars, diskVars, runnerVars, rid, bootVars, starter, tracked, runId,
                 cancelledRun, requestVars, reader, asked>>

(* _follow: stdout is at its end and proc.wait() has returned.             *)
ReaderWait(r) ==
  /\ reader[r] = "following"
  /\ proc[r] = "gone"
  /\ reader' = [reader EXCEPT ![r] = "exited"]
  /\ UNCHANGED <<dbVars, diskVars, runnerVars, rid, bootVars, starter, managerVars,
                 requestVars, asked>>

(* _ingest: was this run cancelled?  Read and cleared under the lock.      *)
ReaderVerdict(r) ==
  /\ LockFree
  /\ reader[r] = "exited"
  /\ \/ /\ cancelledRun = rid[r]
        /\ cancelledRun' = 0
        /\ reader' = [reader EXCEPT ![r] = "cancelling"]
     \/ /\ cancelledRun # rid[r]
        /\ reader' = [reader EXCEPT ![r] = "ingesting"]
        /\ UNCHANGED cancelledRun
  /\ UNCHANGED <<dbVars, diskVars, runnerVars, rid, bootVars, starter, tracked, runId,
                 progress, requestVars, asked>>

(* _ingest: the cancelled row.                                             *)
ReaderCancelled(r) ==
  /\ reader[r] = "cancelling"
  /\ SetStatus(rid[r], "cancelled")
  /\ reader' = [reader EXCEPT ![r] = "cleanup"]
  /\ UNCHANGED <<occupant, ingested, diskVars, runnerVars, rid, bootVars, starter,
                 managerVars, requestVars, asked>>

(* Mutant: the exit code is not looked at.                                 *)
GoodResult_AnyExit(r) == resultBy[rid[r]] # None /\ rid[r] \in resultOk

(* _ingest: rmtree(out_dir) of a cancelled run.                            *)
ReaderCleanup(r) ==
  /\ reader[r] = "cleanup"
  /\ RemoveTree(rid[r])
  /\ reader' = [reader EXCEPT ![r] = "closing"]
  /\ UNCHANGED <<dbVars, runnerVars, rid, bootVars, starter, managerVars,
                 requestVars, asked>>

GoodResult(r) == r \in exitedOk /\ resultBy[rid[r]] # None /\ rid[r] \in resultOk

(* _ingest: exit code, result file and its 'error' key make an error row.  *)
ReaderError(r) ==
  /\ reader[r] = "ingesting"
  /\ ~GoodResult(r)
  /\ SetStatus(rid[r], "error")
  /\ reader' = [reader EXCEPT ![r] = "closing"]
  /\ UNCHANGED <<occupant, ingested, diskVars, runnerVars, rid, bootVars, starter,
                 managerVars, requestVars, asked>>

(* _ingest: whatever result.json holds goes into the row.                  *)
ReaderDone(r) ==
  /\ reader[r] = "ingesting"
  /\ GoodResult(r)
  /\ SetStatus(rid[r], "done")
  /\ ingested' = [ingested EXCEPT ![rid[r]] =
                    IF status[rid[r]] = "free" THEN @ ELSE resultBy[rid[r]]]
  /\ reader' = [reader EXCEPT ![r] = "unlinking"]
  /\ UNCHANGED <<occupant, diskVars, runnerVars, rid, bootVars, starter, managerVars,
                 requestVars, asked>>

(* _ingest: the result and job files go; the reports stay.                 *)
ReaderUnlink(r) ==
  /\ reader[r] = "unlinking"
  /\ jobs' = jobs \ {rid[r]} /\ resultOk' = resultOk \ {rid[r]}
  /\ resultBy' = [resultBy EXCEPT ![rid[r]] = None]
  /\ UNCHANGED dirs
  /\ reader' = [reader EXCEPT ![r] = "closing"]
  /\ UNCHANGED <<dbVars, runnerVars, rid, bootVars, starter, managerVars,
                 requestVars, asked>>

(* _follow, except branch: anything up to the row's UPDATE raised, which   *)
(* may have been the database, and may be again.                           *)
ReaderFail(r) ==
  /\ reader[r] \in Pending
  /\ proc' = [proc EXCEPT ![r] = "gone"]
  /\ FinishOrStrand(r)
  /\ reader' = [reader EXCEPT ![r] = "closing"]
  /\ UNCHANGED <<occupant, ingested, diskVars, exitedOk, rid, starter,
                 managerVars, requestVars, asked>>

(* Mutant: finally clears the fields whoever they belong to by now.        *)
ReaderClose_NoGuard(r) ==
  /\ LockFree
  /\ reader[r] = "closing"
  /\ progress' = None /\ runId' = 0 /\ tracked' = None
  /\ reader' = [reader EXCEPT ![r] = "finished"]
  /\ UNCHANGED <<dbVars, diskVars, runnerVars, rid, bootVars, starter, cancelledRun,
                 requestVars, asked>>

(* _follow, finally: an old reader leaves the next run's fields alone.     *)
ReaderClose(r) ==
  /\ LockFree
  /\ reader[r] = "closing"
  /\ \/ /\ runId = rid[r]
        /\ progress' = None /\ runId' = 0 /\ tracked' = None
     \/ /\ runId # rid[r]
        /\ UNCHANGED <<progress, runId, tracked>>
  /\ reader' = [reader EXCEPT ![r] = "finished"]
  /\ UNCHANGED <<dbVars, diskVars, runnerVars, rid, bootVars, starter, cancelledRun,
                 requestVars, asked>>

-------------------------------------------------------------------------------
(* delete_run: refused for the tracked run; the key goes first.            *)
DeleteCheck(i) ==
  /\ LockFree
  /\ deleteStep = "idle"
  /\ runId # i
  /\ keys' = [keys EXCEPT ![i] = None]
  /\ deleteStep' = "row" /\ deleteId' = i
  /\ UNCHANGED <<dbVars, diskVars, runnerVars, rid, bootVars, starter, managerVars,
                 mintVars, reader, asked>>

(* Mutant: DELETE without AND status != 'running'.                         *)
DeleteRow_AnyStatus ==
  /\ deleteStep = "row"
  /\ \/ /\ status[deleteId] # "free"
        /\ status' = [status EXCEPT ![deleteId] = "free"]
        /\ occupant' = [occupant EXCEPT ![deleteId] = None]
        /\ ingested' = [ingested EXCEPT ![deleteId] = None]
        /\ deleteStep' = "dir"
        /\ UNCHANGED deleteId
     \/ /\ status[deleteId] = "free"
        /\ deleteStep' = "idle" /\ deleteId' = 0
        /\ UNCHANGED dbVars
  /\ UNCHANGED <<diskVars, runnerVars, rid, bootVars, starter, managerVars, mintVars, keys,
                 reader, asked>>

(* delete_run: DELETE ... AND status != 'running', committed.              *)
DeleteRow ==
  /\ deleteStep = "row"
  /\ \/ /\ status[deleteId] \in Settled
        /\ status' = [status EXCEPT ![deleteId] = "free"]
        /\ occupant' = [occupant EXCEPT ![deleteId] = None]
        /\ ingested' = [ingested EXCEPT ![deleteId] = None]
        /\ deleteStep' = "dir"
        /\ UNCHANGED deleteId
     \/ /\ status[deleteId] \notin Settled
        /\ deleteStep' = "idle" /\ deleteId' = 0
        /\ UNCHANGED dbVars
  /\ UNCHANGED <<diskVars, runnerVars, rid, bootVars, starter, managerVars, mintVars, keys,
                 reader, asked>>

(* delete_run: rmtree(out_root/<id>), outside any lock.                    *)
DeleteDir ==
  /\ deleteStep = "dir"
  /\ RemoveTree(deleteId)
  /\ deleteStep' = "idle" /\ deleteId' = 0
  /\ UNCHANGED <<dbVars, runnerVars, rid, bootVars, starter, managerVars, mintVars, keys,
                 reader, asked>>

(* POST report-key: the row's report_files are read on one connection ...  *)
MintRead(i) ==
  /\ up /\ mintId = 0
  /\ status[i] = "done"
  /\ mintId' = i /\ mintRun' = occupant[i]
  /\ UNCHANGED <<dbVars, diskVars, runnerVars, rid, bootVars, starter, managerVars,
                 deleteVars, keys, reader, asked>>

(* ... and the key is minted afterwards, replacing any previous one.       *)
MintKey ==
  /\ LockFree
  /\ mintId # 0
  /\ keys' = [keys EXCEPT ![mintId] = mintRun]
  /\ mintId' = 0 /\ mintRun' = None
  /\ UNCHANGED <<dbVars, diskVars, runnerVars, rid, bootVars, starter, managerVars,
                 deleteVars, reader, asked>>

(* consume_report_key: used once, or past its time to live.                *)
ConsumeKey(i) ==
  /\ LockFree
  /\ keys[i] # None
  /\ keys' = [keys EXCEPT ![i] = None]
  /\ UNCHANGED <<dbVars, diskVars, runnerVars, rid, bootVars, starter, managerVars,
                 deleteVars, mintVars, reader, asked>>

-------------------------------------------------------------------------------
(* The sidecar dies; its threads and memory go, its runners do not.        *)
Crash ==
  /\ up
  /\ crashes < MaxCrashes
  /\ up' = FALSE /\ ownsLock' = FALSE /\ crashes' = crashes + 1
  /\ starter' = None
  /\ tracked' = None /\ runId' = 0 /\ cancelledRun' = 0 /\ progress' = None
  /\ keys' = [i \in Ids |-> None]
  /\ reader' = [r \in Runs |-> "none"]
  /\ deleteStep' = "idle" /\ deleteId' = 0 /\ mintId' = 0 /\ mintRun' = None
  /\ stranded' = {}
  /\ UNCHANGED <<dbVars, diskVars, runnerVars, rid, asked>>

(* Mutant: the sweep's UPDATE has lost its WHERE clause.                   *)
Boot_SweepsAll ==
  /\ ~up
  /\ up' = TRUE
  /\ \E owns \in LockOutcomes :
       /\ ownsLock' = owns
       /\ status' = IF owns
                      THEN [i \in Ids |-> IF status[i] # "free" THEN "error" ELSE "free"]
                      ELSE status
  /\ UNCHANGED <<occupant, ingested, diskVars, runnerVars, rid, crashes, stranded,
                 starter, managerVars, requestVars, reader, asked>>

(* Mutant: nothing calls sweep_orphans.                                    *)
Boot_NoSweep ==
  /\ ~up
  /\ up' = TRUE
  /\ ownsLock' \in LockOutcomes
  /\ UNCHANGED <<dbVars, diskVars, runnerVars, rid, crashes, stranded, starter,
                 managerVars, requestVars, reader, asked>>

(* main(): only the owner of the recorder lock sweeps the orphaned rows.   *)
Boot ==
  /\ ~up
  /\ up' = TRUE
  /\ \E owns \in LockOutcomes :
       /\ ownsLock' = owns
       /\ status' = IF owns
                      THEN [i \in Ids |-> IF status[i] = "running" THEN "error" ELSE status[i]]
                      ELSE status
  /\ UNCHANGED <<occupant, ingested, diskVars, runnerVars, rid, crashes, stranded,
                 starter, managerVars, requestVars, reader, asked>>

-------------------------------------------------------------------------------
StartStep  == \E r \in Runs : StartInsert(r) \/ StartLaunch(r) \/ StartFail(r)
RunnerStep(r) == RunnerBoot(r) \/ RunnerWrite(r) \/ RunnerExit(r) \/ RunnerDie(r)
ReaderStep(r) ==
  \/ ReaderWait(r) \/ ReaderVerdict(r) \/ ReaderCancelled(r) \/ ReaderCleanup(r)
  \/ ReaderError(r) \/ ReaderDone(r) \/ ReaderUnlink(r) \/ ReaderFail(r)
  \/ ReaderClose(r)
RequestStep ==
  \/ Cancel \/ DeleteRow \/ DeleteDir \/ MintKey
  \/ \E i \in Ids : DeleteCheck(i) \/ MintRead(i) \/ ConsumeKey(i)

Next ==
  \/ StartStep \/ RequestStep \/ Crash \/ Boot
  \/ \E r \in Runs : RunnerStep(r) \/ ReaderStep(r) \/ ReaderProgress(r)

Spec == Init /\ [][Next]_vars

(* Python keeps scheduling its threads, the engine terminates, the shell   *)
(* starts the sidecar again; nobody is obliged to press a button.          *)
Fairness ==
  /\ WF_vars(Boot)
  /\ WF_vars(\E r \in Runs : StartLaunch(r) \/ StartFail(r))
  /\ \A r \in Runs : WF_vars(RunnerStep(r)) /\ WF_vars(ReaderStep(r))

FairSpec == Spec /\ Fairness

-------------------------------------------------------------------------------
(* Run r is held: its start is under way, or its reader has yet to settle  *)
(* its row.                                                                *)
Held(r) == starter = r \/ reader[r] \in Pending

(* A runner whose reader died with its sidecar.                            *)
Orphan(r) == proc[r] # "unborn" /\ reader[r] = "none"

(* Two runs were given the same rowid, one after the other.                *)
Reused(r) == \E q \in Runs : q # r /\ rid[q] = rid[r]

(* A runner this sidecar spawned and still reads from.                     *)
LiveChild(r) == proc[r] \in Live /\ ~Orphan(r)

(* "One run at a time by design" (backtests.py:229): this sidecar has two  *)
(* live runners only if a rowid was reused under an old reader's feet.     *)
OneRunAtATime ==
  \A r, q \in Runs :
    LiveChild(r) /\ LiveChild(q) => r = q \/ Reused(r) \/ Reused(q)

(* A live runner of this sidecar is the one cancel() can reach: no other   *)
(* reader's clean-up detaches the manager from it, rowid reuse apart.      *)
LiveRunIsCancellable ==
  \A r \in Runs : LiveChild(r) => (tracked = r /\ runId = rid[r]) \/ Reused(r)

(* Whoever still has a row to settle finds its own row there, and finds it *)
(* 'running': no delete, reused rowid or sweep comes between.              *)
HeldRowIsOwn ==
  \A r \in Runs : Held(r) =>
    rid[r] # 0 /\ status[rid[r]] = "running" /\ occupant[rid[r]] = r

(* "The row must not stay 'running'" (backtests.py:355): once the owner of *)
(* the recorder lock has booted, every row marked 'running' is held, but   *)
(* for those whose last write failed: "a DB failure here strands the row;  *)
(* the restart sweep is the backstop" (backtests.py:452).                  *)
RunningIsHeld ==
  up /\ ownsLock => \A i \in Ids :
    status[i] = "running" => Held(occupant[i]) \/ occupant[i] \in stranded

(* A stranded run is over: its runner is dead, nothing waits to settle it, *)
(* and the row it leaves behind, if that is still its own, says 'running'. *)
StrandedIsOver ==
  \A r \in stranded :
    /\ rid[r] # 0 /\ ~Held(r) /\ proc[r] \notin Live
    /\ occupant[rid[r]] = r => status[rid[r]] = "running"

(* A row says 'cancelled' only if cancel() returned True for that very run *)
(* and not for an earlier owner of the same rowid.                         *)
CancelledWasAsked ==
  \A i \in Ids : status[i] = "cancelled" => occupant[i] \in asked

(* The numbers in a 'done' row are those of the row's own run; only a      *)
(* runner orphaned by a sidecar crash can put others there.                *)
DoneIsOwnOrOrphan ==
  \A i \in Ids : status[i] = "done" =>
    ingested[i] = occupant[i] \/ (ingested[i] # None /\ Orphan(ingested[i]))

(* Rows and runners belong together: a held row is its run's, a running  *)
(* row is held or stranded, what is stranded is over, and a live runner is *)
(* the one that can be cancelled.                                          *)
RowsAreTracked ==
  HeldRowIsOwn /\ RunningIsHeld /\ StrandedIsOver /\ LiveRunIsCancellable

(* What a settled row says is true of its own run.                          *)
FatesAreHonest == CancelledWasAsked /\ DoneIsOwnOrOrphan

(* The table behaves like RunLedger: the keeper of a row is its occupant   *)
(* while that run is held.                                                 *)
Keeper == [i \in Ids |-> IF occupant[i] # None /\ Held(occupant[i]) THEN occupant[i] ELSE None]

Ledger == INSTANCE RunLedger WITH keeper <- Keeper

(* A row is settled once, by its own run or, once that run has lost it, by *)
(* the boot sweep, and then only ever leaves the table (RunLedger).        *)
LedgerOf == Ledger!LedgerSpec

(* Every run that gets a row ends: its row does not stay 'running', unless *)
(* the write that would settle it failed and this sidecar lives on.        *)
EveryRunSettles ==
  \A i \in Ids : status[i] = "running" ~> status[i] # "running" \/ occupant[i] \in stranded

(* What the repository says and the code does not keep; TLC refutes each   *)
(* of them.              *)

(* backtests.py:253-254: the per-run flag no longer mislabels the previous *)
(* run's finish, so a run whose cancel() returned True is recorded as      *)
(* cancelled and never read in as if it had failed or finished by itself.  *)
CancelledNotIngested == \A r \in asked : reader[r] # "ingesting"

(* backtests.py:563: delete_run removes a finished run's directory; a      *)
(* directory a run in progress works in is not taken away.                 *)
OnlyFinishedDirsGo ==
  [][\A i \in Ids : i \in dirs \ dirs' => status[i] # "running"]_vars

(* backtests.py:567: the key of a deleted run is not left for the next     *)
(* owner of its rowid.                                                     *)
KeyIsForOccupant ==
  \A i \in Ids : keys[i] # None /\ occupant[i] # None => keys[i] = occupant[i]

(* backtests.py:458: an old reader never wipes the next run's fields, so   *)
(* the manager never loses a runner it has to kill or wait for.            *)
NextRunIsNotWiped == \A r \in Runs : LiveChild(r) => tracked = r

(* backtests.py:458: an old reader does not touch the next run's progress. *)
ProgressIsTracked == progress # None /\ runId # 0 => rid[progress] = runId

(* selftest.py:3665: the boot sweep keeps orphaned runs from staying       *)
(* 'running' for ever, whoever holds the recorder lock.                    *)
OrphansAreSwept == EveryRunSettles
===============================================================================
