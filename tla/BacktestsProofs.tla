--------------------------- MODULE BacktestsProofs ---------------------------
(***************************************************************************)
(* Proofs about backtests, for any set of runs, any crashes, any strategy, *)
(* any prices and any number of days: the manager and its runners          *)
(* (BacktestRuns), the books of the loop (BtLedger), the price cache a run *)
(* reads from (BtPrices), and what a strategy says: its rules (BtRules),   *)
(* its sweeps (BtSweep), its series (BtIndicators) and its structures      *)
(* (BtStructure).                                                          *)
(*                                                                         *)
(* None of the safety properties is inductive alone.  What carries those   *)
(* of the runs is IInv: rows and runs point at each other, a run's fields  *)
(* appear in the order its start writes them, a dead sidecar has no        *)
(* threads, and what the manager tracks is a runner with a reader.  The    *)
(* ledger's is LedgerInv, which follows the positions through the two      *)
(* passes of a day, and the cache's is PricesInv, which says what each of  *)
(* its layers may claim.  Of a strategy there is less to carry (EngineInv) *)
(* and more to compute: most of its part is lemmas on the operators, what  *)
(* a recursive function is for every length of its input.                  *)
(***************************************************************************)
EXTENDS BacktestRuns, MCEngine, SequenceTheorems, TLAPS

(* A row and the run that made it point at each other.                     *)
RowsInv ==
  \A i \in Ids :
    /\ status[i] = "free" <=> occupant[i] = None
    /\ occupant[i] # None => rid[occupant[i]] = i

(* INSERT, Popen, reader: in this order; a runner without a waiting reader *)
(* is dead or orphaned.                                                    *)
LifeInv ==
  \A r \in Runs :
    /\ rid[r] = 0 => proc[r] = "unborn"
    /\ proc[r] = "unborn" => reader[r] = "none"
    /\ starter = r => rid[r] # 0 /\ proc[r] = "unborn"
    /\ LiveChild(r) => reader[r] = "following"
    /\ r \in exitedOk => proc[r] = "gone"

(* Threads and fields die with the sidecar.                                *)
DownInv ==
  ~up => /\ starter = None /\ tracked = None /\ deleteStep = "idle"
         /\ stranded = {} /\ \A r \in Runs : reader[r] = "none"

(* self._proc and self._run_id speak of one run; start runs only while no  *)
(* tracked runner lives.                                                   *)
TrackInv ==
  /\ tracked # None => runId = rid[tracked] /\ reader[tracked] # "none"
  /\ starter # None => ~TrackedAlive

(* A cancellation, pending or decided, was asked for by that run's user.   *)
CancelInv ==
  \A r \in Runs :
    /\ reader[r] \in Pending /\ cancelledRun = rid[r] => r \in asked
    /\ reader[r] = "cancelling" => r \in asked

(* A result file a held run can still read in is its own or an orphan's.   *)
ResultInv ==
  \A r \in Runs :
    reader[r] \in Pending /\ (proc[r] = "written" \/ (proc[r] = "gone" /\ r \in exitedOk)) =>
      \/ resultBy[rid[r]] \in {r, None}
      \/ Orphan(resultBy[rid[r]])

(* The strengthening of the runs.                                            *)
IInv ==
  /\ TypeOK /\ RowsInv /\ LifeInv /\ DownInv /\ TrackInv
  /\ HeldRowIsOwn /\ RunningIsHeld /\ StrandedIsOver /\ LiveRunIsCancellable
  /\ CancelInv /\ CancelledWasAsked
  /\ ResultInv /\ DoneIsOwnOrOrphan

-------------------------------------------------------------------------------
(* The columns keep their types.                                           *)
LEMMA RowTypesStep == IInv /\ [Next]_vars => RowTypes'
<1> SUFFICES ASSUME IInv, [Next]_vars PROVE RowTypes'
  OBVIOUS
<1> USE ConstantsAssumption DEF IInv, TypeOK, RowTypes, RunTypes,
      RequestTypes, MemoryTypes, DiskTypes, Ids, Settled, Live, Pending,
      Finishing, dbVars, diskVars, runnerVars, managerVars, requestVars,
      deleteVars, mintVars, bootVars
<1>1. ASSUME NEW r \in Runs, StartInsert(r) PROVE RowTypes'
  BY <1>1 DEF StartInsert, LockFree, TrackedAlive, IsNextId
<1>2. ASSUME NEW r \in Runs, StartFail(r) PROVE RowTypes'
  <2>1. UNCHANGED <<occupant, ingested>>
    BY <1>2 DEF StartFail
  <2>2. SetStatus(rid[r], "error") \/ UNCHANGED status
    BY <1>2 DEF StartFail, FinishOrStrand
  <2>3. CASE SetStatus(rid[r], "error")
    BY <2>1, <2>3 DEF SetStatus
  <2>4. CASE UNCHANGED status
    BY <2>1, <2>4
  <2> QED
    BY <2>2, <2>3, <2>4
<1>3. ASSUME NEW r \in Runs, ReaderCancelled(r) PROVE RowTypes'
  BY <1>3 DEF ReaderCancelled, SetStatus
<1>4. ASSUME NEW r \in Runs, ReaderError(r) PROVE RowTypes'
  BY <1>4 DEF ReaderError, SetStatus, GoodResult
<1>5. ASSUME NEW r \in Runs, ReaderDone(r) PROVE RowTypes'
  BY <1>5 DEF ReaderDone, SetStatus, GoodResult
<1>6. ASSUME NEW r \in Runs, ReaderFail(r) PROVE RowTypes'
  BY <1>6 DEF ReaderFail, FinishOrStrand, SetStatus
<1>7. CASE DeleteRow
  BY <1>7 DEF DeleteRow
<1>8. CASE Boot
  BY <1>8 DEF Boot
<1>9. CASE UNCHANGED <<status, occupant, ingested>>
  BY <1>9
<1> QED
  BY <1>1, <1>2, <1>3, <1>4, <1>5, <1>6, <1>7, <1>8, <1>9
  DEF Next, StartStep, RequestStep, RunnerStep, ReaderStep, vars,
      StartLaunch, RunnerBoot, RunnerWrite, RunnerExit, RunnerDie,
      ReaderProgress, ReaderWait, ReaderVerdict, ReaderCleanup, ReaderUnlink,
      ReaderClose, DeleteCheck, MintRead, ConsumeKey, Cancel, DeleteDir,
      MintKey, Crash

(* The run directories keep their types.                                   *)
LEMMA DiskTypesStep == IInv /\ [Next]_vars => DiskTypes'
<1> SUFFICES ASSUME IInv, [Next]_vars PROVE DiskTypes'
  OBVIOUS
<1> USE ConstantsAssumption DEF IInv, TypeOK, DiskTypes, RunTypes,
      RequestTypes, LifeInv, MemoryTypes, LiveChild, Orphan, Ids, Settled,
      Live, Pending, Finishing, dbVars, diskVars, runnerVars, managerVars,
      requestVars, deleteVars, mintVars, bootVars
<1>1. ASSUME NEW r \in Runs, StartLaunch(r) PROVE DiskTypes'
  <2>1. rid[r] \in Ids
    BY <1>1 DEF StartLaunch
  <2> QED
    BY <1>1, <2>1 DEF StartLaunch, MakeJob
<1>2. ASSUME NEW r \in Runs, StartFail(r) PROVE DiskTypes'
  BY <1>2 DEF StartFail, FinishOrStrand, SetStatus, MakeJob
<1>3. ASSUME NEW r \in Runs, RunnerWrite(r) PROVE DiskTypes'
  <2>1. rid[r] \in Ids
    BY <1>3 DEF RunnerWrite
  <2>2. PICK good \in BOOLEAN : WriteResult(r, good)
    BY <1>3 DEF RunnerWrite
  <2> QED
    BY <2>1, <2>2 DEF WriteResult
<1>4. ASSUME NEW r \in Runs, RunnerDie(r) PROVE DiskTypes'
  <2>1. CASE UNCHANGED diskVars
    BY <2>1
  <2>2. CASE proc[r] = "working" /\ WriteResult(r, FALSE)
    <3>1. rid[r] \in Ids
      BY <2>2
    <3> QED
      BY <2>2, <3>1 DEF WriteResult
  <2> QED
    BY <1>4, <2>1, <2>2 DEF RunnerDie
<1>5. ASSUME NEW r \in Runs, ReaderCleanup(r) PROVE DiskTypes'
  BY <1>5 DEF ReaderCleanup, RemoveTree
<1>6. ASSUME NEW r \in Runs, ReaderUnlink(r) PROVE DiskTypes'
  BY <1>6 DEF ReaderUnlink
<1>7. CASE DeleteDir
  BY <1>7 DEF DeleteDir, RemoveTree
<1>8. CASE UNCHANGED <<dirs, jobs, resultBy, resultOk>>
  BY <1>8
<1> QED
  BY <1>1, <1>2, <1>3, <1>4, <1>5, <1>6, <1>7, <1>8
  DEF Next, StartStep, RequestStep, RunnerStep, ReaderStep, vars,
      StartInsert, RunnerBoot, RunnerExit, ReaderProgress, ReaderWait,
      ReaderVerdict, ReaderCancelled, ReaderError, ReaderDone, ReaderFail,
      FinishOrStrand, ReaderClose, DeleteCheck, MintRead, ConsumeKey, Cancel, DeleteRow,
      MintKey, Crash, Boot

(* Runners, readers and rowids keep their types.                           *)
LEMMA RunTypesStep == IInv /\ [Next]_vars => RunTypes'
<1> SUFFICES ASSUME IInv, [Next]_vars PROVE RunTypes'
  OBVIOUS
<1> USE ConstantsAssumption DEF IInv, TypeOK, RunTypes, MemoryTypes, Ids,
      Settled, Live, Pending, Finishing, dbVars, diskVars, runnerVars,
      managerVars, requestVars, deleteVars, mintVars, bootVars
<1>1. ASSUME NEW r \in Runs, StartInsert(r) PROVE RunTypes'
  BY <1>1 DEF StartInsert, LockFree, TrackedAlive, IsNextId
<1>2. ASSUME NEW r \in Runs, StartLaunch(r) PROVE RunTypes'
  BY <1>2 DEF StartLaunch, MakeJob
<1>3. ASSUME NEW r \in Runs, RunnerBoot(r) PROVE RunTypes'
  BY <1>3 DEF RunnerBoot
<1>4. ASSUME NEW r \in Runs, RunnerWrite(r) PROVE RunTypes'
  BY <1>4 DEF RunnerWrite, WriteResult
<1>5. ASSUME NEW r \in Runs, RunnerExit(r) PROVE RunTypes'
  BY <1>5 DEF RunnerExit
<1>6. ASSUME NEW r \in Runs, RunnerDie(r) PROVE RunTypes'
  BY <1>6 DEF RunnerDie, WriteResult
<1>7. ASSUME NEW r \in Runs, ReaderWait(r) PROVE RunTypes'
  BY <1>7 DEF ReaderWait
<1>8. ASSUME NEW r \in Runs, ReaderVerdict(r) PROVE RunTypes'
  BY <1>8 DEF ReaderVerdict, LockFree
<1>9. ASSUME NEW r \in Runs, ReaderCancelled(r) PROVE RunTypes'
  BY <1>9 DEF ReaderCancelled, SetStatus
<1>10. ASSUME NEW r \in Runs, ReaderCleanup(r) PROVE RunTypes'
  BY <1>10 DEF ReaderCleanup, RemoveTree
<1>11. ASSUME NEW r \in Runs, ReaderError(r) PROVE RunTypes'
  BY <1>11 DEF ReaderError, SetStatus, GoodResult
<1>12. ASSUME NEW r \in Runs, ReaderDone(r) PROVE RunTypes'
  BY <1>12 DEF ReaderDone, SetStatus, GoodResult
<1>13. ASSUME NEW r \in Runs, ReaderUnlink(r) PROVE RunTypes'
  BY <1>13 DEF ReaderUnlink
<1>14. ASSUME NEW r \in Runs, ReaderFail(r) PROVE RunTypes'
  BY <1>14 DEF ReaderFail, FinishOrStrand, SetStatus
<1>15. ASSUME NEW r \in Runs, ReaderClose(r) PROVE RunTypes'
  BY <1>15 DEF ReaderClose, LockFree
<1>16. CASE Cancel
  BY <1>16 DEF Cancel, LockFree, TrackedAlive
<1>17. CASE Crash
  BY <1>17 DEF Crash
<1>18. CASE UNCHANGED <<proc, exitedOk, rid, reader, asked>>
  BY <1>18
<1> QED
  BY <1>1, <1>2, <1>3, <1>4, <1>5, <1>6, <1>7, <1>8, <1>9, <1>10,
      <1>11, <1>12, <1>13, <1>14, <1>15, <1>16, <1>17, <1>18
  DEF Next, StartStep, RequestStep, RunnerStep, ReaderStep, vars, StartFail,
      FinishOrStrand, ReaderProgress, DeleteCheck, MintRead, ConsumeKey, DeleteRow, DeleteDir,
      MintKey, Boot

(* The manager's fields keep their types.                                  *)
LEMMA MemoryTypesStep == IInv /\ [Next]_vars => MemoryTypes'
<1> SUFFICES ASSUME IInv, [Next]_vars PROVE MemoryTypes'
  OBVIOUS
<1> USE ConstantsAssumption DEF IInv, TypeOK, MemoryTypes, RunTypes, Ids,
      Settled, Live, Pending, Finishing, dbVars, diskVars, runnerVars,
      managerVars, requestVars, deleteVars, mintVars, bootVars
<1>1. ASSUME NEW r \in Runs, StartInsert(r) PROVE MemoryTypes'
  BY <1>1 DEF StartInsert, LockFree, TrackedAlive, IsNextId
<1>2. ASSUME NEW r \in Runs, StartLaunch(r) PROVE MemoryTypes'
  BY <1>2 DEF StartLaunch, MakeJob
<1>3. ASSUME NEW r \in Runs, StartFail(r) PROVE MemoryTypes'
  BY <1>3 DEF StartFail, FinishOrStrand, SetStatus, MakeJob
<1>4. ASSUME NEW r \in Runs, ReaderProgress(r) PROVE MemoryTypes'
  BY <1>4 DEF ReaderProgress
<1>5. ASSUME NEW r \in Runs, ReaderVerdict(r) PROVE MemoryTypes'
  BY <1>5 DEF ReaderVerdict, LockFree
<1>6. ASSUME NEW r \in Runs, ReaderClose(r) PROVE MemoryTypes'
  BY <1>6 DEF ReaderClose, LockFree
<1>7. CASE Cancel
  BY <1>7 DEF Cancel, LockFree, TrackedAlive
<1>8. CASE Crash
  <2>1. crashes' \in Nat /\ 0 \in 0..MaxId
    BY <1>8 DEF Crash
  <2> QED
    BY <1>8, <2>1 DEF Crash
<1>9. CASE Boot
  BY <1>9 DEF Boot
<1>10. ASSUME NEW r \in Runs, ReaderFail(r) PROVE MemoryTypes'
  BY <1>10 DEF ReaderFail, FinishOrStrand
<1>11. CASE UNCHANGED <<up, ownsLock, crashes, stranded, starter, tracked, progress, runId,
                        cancelledRun>>
  BY <1>11
<1> QED
  BY <1>1, <1>2, <1>3, <1>4, <1>5, <1>6, <1>7, <1>8, <1>9, <1>10, <1>11
  DEF Next, StartStep, RequestStep, RunnerStep, ReaderStep, vars, RunnerBoot,
      RunnerWrite, RunnerExit, RunnerDie, ReaderWait, ReaderCancelled,
      ReaderCleanup, ReaderError, ReaderDone, ReaderUnlink, DeleteCheck, MintRead, ConsumeKey, DeleteRow, DeleteDir, MintKey

(* Delete and report-key requests keep their types.                        *)
LEMMA RequestTypesStep == IInv /\ [Next]_vars => RequestTypes'
<1> SUFFICES ASSUME IInv, [Next]_vars PROVE RequestTypes'
  OBVIOUS
<1> USE ConstantsAssumption DEF IInv, TypeOK, RequestTypes, RowTypes,
      MemoryTypes, Ids, Settled, Live, Pending, Finishing, dbVars, diskVars,
      runnerVars, managerVars, requestVars, deleteVars, mintVars, bootVars
<1>1. ASSUME NEW i \in Ids, DeleteCheck(i) PROVE RequestTypes'
  BY <1>1 DEF DeleteCheck, LockFree
<1>2. ASSUME NEW i \in Ids, MintRead(i) PROVE RequestTypes'
  BY <1>2 DEF MintRead
<1>3. ASSUME NEW i \in Ids, ConsumeKey(i) PROVE RequestTypes'
  BY <1>3 DEF ConsumeKey, LockFree
<1>4. CASE DeleteRow
  BY <1>4 DEF DeleteRow
<1>5. CASE DeleteDir
  BY <1>5 DEF DeleteDir, RemoveTree
<1>6. CASE MintKey
  BY <1>6 DEF MintKey, LockFree
<1>7. CASE Crash
  BY <1>7 DEF Crash
<1>8. CASE UNCHANGED <<keys, deleteStep, deleteId, mintId, mintRun>>
  BY <1>8
<1> QED
  BY <1>1, <1>2, <1>3, <1>4, <1>5, <1>6, <1>7, <1>8
  DEF Next, StartStep, RequestStep, RunnerStep, ReaderStep, vars,
      StartInsert, StartLaunch, StartFail, FinishOrStrand, RunnerBoot, RunnerWrite,
      RunnerExit, RunnerDie, ReaderProgress, ReaderWait, ReaderVerdict,
      ReaderCancelled, ReaderCleanup, ReaderError, ReaderDone, ReaderUnlink,
      ReaderFail, ReaderClose, Cancel, Boot

(* Rows and runs point at each other after every step.                     *)
LEMMA RowsInvStep == IInv /\ [Next]_vars => RowsInv'
<1> SUFFICES ASSUME IInv, [Next]_vars PROVE RowsInv'
  OBVIOUS
<1> USE ConstantsAssumption DEF IInv, TypeOK, RowsInv, RowTypes, RunTypes,
      LifeInv, MemoryTypes, RequestTypes, LiveChild, Orphan, Ids, Settled,
      Live, Pending, Finishing, dbVars, diskVars, runnerVars, managerVars,
      requestVars, deleteVars, mintVars, bootVars
<1>1. ASSUME NEW r \in Runs, StartInsert(r) PROVE RowsInv'
  BY <1>1 DEF StartInsert, LockFree, TrackedAlive, IsNextId
<1>2. ASSUME NEW r \in Runs, StartFail(r) PROVE RowsInv'
  BY <1>2 DEF StartFail, FinishOrStrand, SetStatus, MakeJob
<1>3. ASSUME NEW r \in Runs, ReaderCancelled(r) PROVE RowsInv'
  BY <1>3 DEF ReaderCancelled, SetStatus
<1>4. ASSUME NEW r \in Runs, ReaderError(r) PROVE RowsInv'
  BY <1>4 DEF ReaderError, SetStatus, GoodResult
<1>5. ASSUME NEW r \in Runs, ReaderDone(r) PROVE RowsInv'
  BY <1>5 DEF ReaderDone, SetStatus, GoodResult
<1>6. ASSUME NEW r \in Runs, ReaderFail(r) PROVE RowsInv'
  BY <1>6 DEF ReaderFail, FinishOrStrand, SetStatus
<1>7. CASE DeleteRow
  BY <1>7 DEF DeleteRow
<1>8. CASE Boot
  BY <1>8 DEF Boot
<1>9. CASE UNCHANGED <<status, occupant, rid>>
  BY <1>9
<1> QED
  BY <1>1, <1>2, <1>3, <1>4, <1>5, <1>6, <1>7, <1>8, <1>9
  DEF Next, StartStep, RequestStep, RunnerStep, ReaderStep, vars,
      StartLaunch, RunnerBoot, RunnerWrite, RunnerExit, RunnerDie,
      ReaderProgress, ReaderWait, ReaderVerdict, ReaderCleanup, ReaderUnlink,
      ReaderClose, DeleteCheck, MintRead, ConsumeKey, Cancel, DeleteDir,
      MintKey, Crash

(* Every step respects the order in a run's life.                          *)
LEMMA LifeInvStep == IInv /\ [Next]_vars => LifeInv'
<1> SUFFICES ASSUME IInv, [Next]_vars PROVE LifeInv'
  OBVIOUS
<1> USE ConstantsAssumption DEF IInv, TypeOK, LifeInv, RunTypes, MemoryTypes,
      LiveChild, Orphan, DownInv, Ids, Settled, Live, Pending, Finishing,
      dbVars, diskVars, runnerVars, managerVars, requestVars, deleteVars,
      mintVars, bootVars
<1>1. ASSUME NEW r \in Runs, StartInsert(r) PROVE LifeInv'
  BY <1>1 DEF StartInsert, LockFree, TrackedAlive, IsNextId
<1>2. ASSUME NEW r \in Runs, StartLaunch(r) PROVE LifeInv'
  BY <1>2 DEF StartLaunch, MakeJob
<1>3. ASSUME NEW r \in Runs, StartFail(r) PROVE LifeInv'
  BY <1>3 DEF StartFail, FinishOrStrand, SetStatus, MakeJob
<1>4. ASSUME NEW r \in Runs, RunnerBoot(r) PROVE LifeInv'
  BY <1>4 DEF RunnerBoot
<1>5. ASSUME NEW r \in Runs, RunnerWrite(r) PROVE LifeInv'
  BY <1>5 DEF RunnerWrite, WriteResult
<1>6. ASSUME NEW r \in Runs, RunnerExit(r) PROVE LifeInv'
  BY <1>6 DEF RunnerExit
<1>7. ASSUME NEW r \in Runs, RunnerDie(r) PROVE LifeInv'
  BY <1>7 DEF RunnerDie, WriteResult
<1>8. ASSUME NEW r \in Runs, ReaderWait(r) PROVE LifeInv'
  BY <1>8 DEF ReaderWait
<1>9. ASSUME NEW r \in Runs, ReaderVerdict(r) PROVE LifeInv'
  BY <1>9 DEF ReaderVerdict, LockFree
<1>10. ASSUME NEW r \in Runs, ReaderCancelled(r) PROVE LifeInv'
  BY <1>10 DEF ReaderCancelled, SetStatus
<1>11. ASSUME NEW r \in Runs, ReaderCleanup(r) PROVE LifeInv'
  BY <1>11 DEF ReaderCleanup, RemoveTree
<1>12. ASSUME NEW r \in Runs, ReaderError(r) PROVE LifeInv'
  BY <1>12 DEF ReaderError, SetStatus, GoodResult
<1>13. ASSUME NEW r \in Runs, ReaderDone(r) PROVE LifeInv'
  BY <1>13 DEF ReaderDone, SetStatus, GoodResult
<1>14. ASSUME NEW r \in Runs, ReaderUnlink(r) PROVE LifeInv'
  BY <1>14 DEF ReaderUnlink
<1>15. ASSUME NEW r \in Runs, ReaderFail(r) PROVE LifeInv'
  BY <1>15 DEF ReaderFail, FinishOrStrand, SetStatus
<1>16. ASSUME NEW r \in Runs, ReaderClose(r) PROVE LifeInv'
  BY <1>16 DEF ReaderClose, LockFree
<1>17. CASE Cancel
  BY <1>17 DEF Cancel, LockFree, TrackedAlive
<1>18. CASE Crash
  BY <1>18 DEF Crash
<1>19. CASE UNCHANGED <<rid, proc, reader, starter, exitedOk>>
  BY <1>19
<1> QED
  BY <1>1, <1>2, <1>3, <1>4, <1>5, <1>6, <1>7, <1>8, <1>9, <1>10,
      <1>11, <1>12, <1>13, <1>14, <1>15, <1>16, <1>17, <1>18, <1>19
  DEF Next, StartStep, RequestStep, RunnerStep, ReaderStep, vars,
      ReaderProgress, DeleteCheck, MintRead, ConsumeKey, DeleteRow, DeleteDir,
      MintKey, Boot

(* No step gives a dead sidecar threads or fields.                         *)
LEMMA DownInvStep == IInv /\ [Next]_vars => DownInv'
<1> SUFFICES ASSUME IInv, [Next]_vars PROVE DownInv'
  OBVIOUS
<1> USE ConstantsAssumption DEF IInv, TypeOK, DownInv, MemoryTypes, LifeInv,
      Ids, Settled, Live, Pending, Finishing, dbVars, diskVars, runnerVars,
      managerVars, requestVars, deleteVars, mintVars, bootVars
<1>1. ASSUME NEW r \in Runs, StartInsert(r) PROVE DownInv'
  BY <1>1 DEF StartInsert, LockFree, TrackedAlive, IsNextId
<1>2. ASSUME NEW r \in Runs, StartLaunch(r) PROVE DownInv'
  BY <1>2 DEF StartLaunch, MakeJob
<1>3. ASSUME NEW r \in Runs, StartFail(r) PROVE DownInv'
  BY <1>3 DEF StartFail, FinishOrStrand, SetStatus, MakeJob
<1>4. ASSUME NEW r \in Runs, ReaderWait(r) PROVE DownInv'
  BY <1>4 DEF ReaderWait
<1>5. ASSUME NEW r \in Runs, ReaderVerdict(r) PROVE DownInv'
  BY <1>5 DEF ReaderVerdict, LockFree
<1>6. ASSUME NEW r \in Runs, ReaderCancelled(r) PROVE DownInv'
  BY <1>6 DEF ReaderCancelled, SetStatus
<1>7. ASSUME NEW r \in Runs, ReaderCleanup(r) PROVE DownInv'
  BY <1>7 DEF ReaderCleanup, RemoveTree
<1>8. ASSUME NEW r \in Runs, ReaderError(r) PROVE DownInv'
  BY <1>8 DEF ReaderError, SetStatus, GoodResult
<1>9. ASSUME NEW r \in Runs, ReaderDone(r) PROVE DownInv'
  BY <1>9 DEF ReaderDone, SetStatus, GoodResult
<1>10. ASSUME NEW r \in Runs, ReaderUnlink(r) PROVE DownInv'
  BY <1>10 DEF ReaderUnlink
<1>11. ASSUME NEW r \in Runs, ReaderFail(r) PROVE DownInv'
  BY <1>11 DEF ReaderFail, FinishOrStrand, SetStatus
<1>12. ASSUME NEW r \in Runs, ReaderClose(r) PROVE DownInv'
  BY <1>12 DEF ReaderClose, LockFree
<1>13. ASSUME NEW i \in Ids, DeleteCheck(i) PROVE DownInv'
  BY <1>13 DEF DeleteCheck, LockFree
<1>14. CASE DeleteRow
  BY <1>14 DEF DeleteRow
<1>15. CASE DeleteDir
  BY <1>15 DEF DeleteDir, RemoveTree
<1>16. CASE Crash
  BY <1>16 DEF Crash
<1>17. CASE Boot
  BY <1>17 DEF Boot
<1>18. CASE UNCHANGED <<up, starter, tracked, deleteStep, reader, stranded>>
  BY <1>18
<1> QED
  BY <1>1, <1>2, <1>3, <1>4, <1>5, <1>6, <1>7, <1>8, <1>9, <1>10,
      <1>11, <1>12, <1>13, <1>14, <1>15, <1>16, <1>17, <1>18
  DEF Next, StartStep, RequestStep, RunnerStep, ReaderStep, vars, RunnerBoot,
      RunnerWrite, RunnerExit, RunnerDie, ReaderProgress, MintRead,
      ConsumeKey, Cancel, MintKey

(* Every step keeps self._proc and self._run_id about one run.             *)
LEMMA TrackInvStep == IInv /\ [Next]_vars => TrackInv'
<1> SUFFICES ASSUME IInv, [Next]_vars PROVE TrackInv'
  OBVIOUS
<1> USE ConstantsAssumption DEF IInv, TypeOK, TrackInv, TrackedAlive,
      RunTypes, MemoryTypes, LifeInv, LiveChild, Orphan, Ids, Settled, Live,
      Pending, Finishing, dbVars, diskVars, runnerVars, managerVars,
      requestVars, deleteVars, mintVars, bootVars
<1>1. ASSUME NEW r \in Runs, StartInsert(r) PROVE TrackInv'
  BY <1>1 DEF StartInsert, LockFree, IsNextId
<1>2. ASSUME NEW r \in Runs, StartLaunch(r) PROVE TrackInv'
  BY <1>2 DEF StartLaunch, MakeJob
<1>3. ASSUME NEW r \in Runs, StartFail(r) PROVE TrackInv'
  BY <1>3 DEF StartFail, FinishOrStrand, SetStatus, MakeJob
<1>4. ASSUME NEW r \in Runs, RunnerBoot(r) PROVE TrackInv'
  BY <1>4 DEF RunnerBoot
<1>5. ASSUME NEW r \in Runs, RunnerWrite(r) PROVE TrackInv'
  BY <1>5 DEF RunnerWrite, WriteResult
<1>6. ASSUME NEW r \in Runs, RunnerExit(r) PROVE TrackInv'
  BY <1>6 DEF RunnerExit
<1>7. ASSUME NEW r \in Runs, RunnerDie(r) PROVE TrackInv'
  BY <1>7 DEF RunnerDie, WriteResult
<1>8. ASSUME NEW r \in Runs, ReaderWait(r) PROVE TrackInv'
  BY <1>8 DEF ReaderWait
<1>9. ASSUME NEW r \in Runs, ReaderVerdict(r) PROVE TrackInv'
  BY <1>9 DEF ReaderVerdict, LockFree
<1>10. ASSUME NEW r \in Runs, ReaderCancelled(r) PROVE TrackInv'
  BY <1>10 DEF ReaderCancelled, SetStatus
<1>11. ASSUME NEW r \in Runs, ReaderCleanup(r) PROVE TrackInv'
  BY <1>11 DEF ReaderCleanup, RemoveTree
<1>12. ASSUME NEW r \in Runs, ReaderError(r) PROVE TrackInv'
  BY <1>12 DEF ReaderError, SetStatus, GoodResult
<1>13. ASSUME NEW r \in Runs, ReaderDone(r) PROVE TrackInv'
  BY <1>13 DEF ReaderDone, SetStatus, GoodResult
<1>14. ASSUME NEW r \in Runs, ReaderUnlink(r) PROVE TrackInv'
  BY <1>14 DEF ReaderUnlink
<1>15. ASSUME NEW r \in Runs, ReaderFail(r) PROVE TrackInv'
  BY <1>15 DEF ReaderFail, FinishOrStrand, SetStatus
<1>16. ASSUME NEW r \in Runs, ReaderClose(r) PROVE TrackInv'
  BY <1>16 DEF ReaderClose, LockFree
<1>17. CASE Cancel
  BY <1>17 DEF Cancel, LockFree
<1>18. CASE Crash
  BY <1>18 DEF Crash
<1>19. CASE UNCHANGED <<tracked, runId, rid, reader, starter, proc>>
  BY <1>19
<1> QED
  BY <1>1, <1>2, <1>3, <1>4, <1>5, <1>6, <1>7, <1>8, <1>9, <1>10,
      <1>11, <1>12, <1>13, <1>14, <1>15, <1>16, <1>17, <1>18, <1>19
  DEF Next, StartStep, RequestStep, RunnerStep, ReaderStep, vars,
      ReaderProgress, DeleteCheck, MintRead, ConsumeKey, DeleteRow, DeleteDir,
      MintKey, Boot

(* No step takes a held row away or gives it to another run.               *)
LEMMA HeldRowIsOwnStep == IInv /\ [Next]_vars => HeldRowIsOwn'
<1> SUFFICES ASSUME IInv, [Next]_vars PROVE HeldRowIsOwn'
  OBVIOUS
<1> USE ConstantsAssumption DEF IInv, TypeOK, HeldRowIsOwn, Held, RowTypes,
      RunTypes, MemoryTypes, LifeInv, RowsInv, DownInv, RequestTypes,
      LiveChild, Orphan, Ids, Settled, Live, Pending, Finishing, dbVars,
      diskVars, runnerVars, managerVars, requestVars, deleteVars, mintVars,
      bootVars
<1>1. ASSUME NEW r \in Runs, StartInsert(r) PROVE HeldRowIsOwn'
  BY <1>1 DEF StartInsert, LockFree, TrackedAlive, IsNextId
<1>2. ASSUME NEW r \in Runs, StartLaunch(r) PROVE HeldRowIsOwn'
  BY <1>2 DEF StartLaunch, MakeJob
<1>3. ASSUME NEW r \in Runs, StartFail(r) PROVE HeldRowIsOwn'
  BY <1>3 DEF StartFail, FinishOrStrand, SetStatus, MakeJob
<1>4. ASSUME NEW r \in Runs, ReaderWait(r) PROVE HeldRowIsOwn'
  BY <1>4 DEF ReaderWait
<1>5. ASSUME NEW r \in Runs, ReaderVerdict(r) PROVE HeldRowIsOwn'
  BY <1>5 DEF ReaderVerdict, LockFree
<1>6. ASSUME NEW r \in Runs, ReaderCancelled(r) PROVE HeldRowIsOwn'
  BY <1>6 DEF ReaderCancelled, SetStatus
<1>7. ASSUME NEW r \in Runs, ReaderCleanup(r) PROVE HeldRowIsOwn'
  BY <1>7 DEF ReaderCleanup, RemoveTree
<1>8. ASSUME NEW r \in Runs, ReaderError(r) PROVE HeldRowIsOwn'
  BY <1>8 DEF ReaderError, SetStatus, GoodResult
<1>9. ASSUME NEW r \in Runs, ReaderDone(r) PROVE HeldRowIsOwn'
  BY <1>9 DEF ReaderDone, SetStatus, GoodResult
<1>10. ASSUME NEW r \in Runs, ReaderUnlink(r) PROVE HeldRowIsOwn'
  BY <1>10 DEF ReaderUnlink
<1>11. ASSUME NEW r \in Runs, ReaderFail(r) PROVE HeldRowIsOwn'
  BY <1>11 DEF ReaderFail, FinishOrStrand, SetStatus
<1>12. ASSUME NEW r \in Runs, ReaderClose(r) PROVE HeldRowIsOwn'
  BY <1>12 DEF ReaderClose, LockFree
<1>13. CASE DeleteRow
  BY <1>13 DEF DeleteRow
<1>14. CASE Crash
  BY <1>14 DEF Crash
<1>15. CASE Boot
  BY <1>15 DEF Boot
<1>16. CASE UNCHANGED <<starter, reader, rid, status, occupant>>
  BY <1>16
<1> QED
  BY <1>1, <1>2, <1>3, <1>4, <1>5, <1>6, <1>7, <1>8, <1>9, <1>10,
      <1>11, <1>12, <1>13, <1>14, <1>15, <1>16
  DEF Next, StartStep, RequestStep, RunnerStep, ReaderStep, vars, RunnerBoot,
      RunnerWrite, RunnerExit, RunnerDie, ReaderProgress, DeleteCheck,
      MintRead, ConsumeKey, Cancel, DeleteDir, MintKey

(* No step leaves a row 'running' that nobody holds.                       *)
LEMMA RunningIsHeldStep == IInv /\ [Next]_vars => RunningIsHeld'
<1> SUFFICES ASSUME IInv, [Next]_vars PROVE RunningIsHeld'
  OBVIOUS
<1> USE ConstantsAssumption DEF IInv, TypeOK, RunningIsHeld, HeldRowIsOwn,
      Held, RowTypes, RunTypes, MemoryTypes, LifeInv, RowsInv, RequestTypes,
      LiveChild, Orphan, Ids, Settled, Live, Pending, Finishing, dbVars,
      diskVars, runnerVars, managerVars, requestVars, deleteVars, mintVars,
      bootVars
<1>1. ASSUME NEW r \in Runs, StartInsert(r) PROVE RunningIsHeld'
  BY <1>1 DEF StartInsert, LockFree, TrackedAlive, IsNextId
<1>2. ASSUME NEW r \in Runs, StartLaunch(r) PROVE RunningIsHeld'
  BY <1>2 DEF StartLaunch, MakeJob
<1>3. ASSUME NEW r \in Runs, StartFail(r) PROVE RunningIsHeld'
  BY <1>3 DEF StartFail, FinishOrStrand, SetStatus, MakeJob
<1>4. ASSUME NEW r \in Runs, ReaderWait(r) PROVE RunningIsHeld'
  BY <1>4 DEF ReaderWait
<1>5. ASSUME NEW r \in Runs, ReaderVerdict(r) PROVE RunningIsHeld'
  <2>1. \A q \in Runs : Held(q) => Held(q)'
    BY <1>5 DEF ReaderVerdict, LockFree
  <2>2. UNCHANGED <<up, ownsLock, status, occupant, stranded>>
    BY <1>5 DEF ReaderVerdict
  <2> QED
    BY <2>1, <2>2
<1>6. ASSUME NEW r \in Runs, ReaderCancelled(r) PROVE RunningIsHeld'
  BY <1>6 DEF ReaderCancelled, SetStatus
<1>7. ASSUME NEW r \in Runs, ReaderCleanup(r) PROVE RunningIsHeld'
  BY <1>7 DEF ReaderCleanup, RemoveTree
<1>8. ASSUME NEW r \in Runs, ReaderError(r) PROVE RunningIsHeld'
  BY <1>8 DEF ReaderError, SetStatus, GoodResult
<1>9. ASSUME NEW r \in Runs, ReaderDone(r) PROVE RunningIsHeld'
  BY <1>9 DEF ReaderDone, SetStatus, GoodResult
<1>10. ASSUME NEW r \in Runs, ReaderUnlink(r) PROVE RunningIsHeld'
  BY <1>10 DEF ReaderUnlink
<1>11. ASSUME NEW r \in Runs, ReaderFail(r) PROVE RunningIsHeld'
  BY <1>11 DEF ReaderFail, FinishOrStrand, SetStatus
<1>12. ASSUME NEW r \in Runs, ReaderClose(r) PROVE RunningIsHeld'
  BY <1>12 DEF ReaderClose, LockFree
<1>13. CASE DeleteRow
  BY <1>13 DEF DeleteRow
<1>14. CASE Crash
  BY <1>14 DEF Crash
<1>15. CASE Boot
  BY <1>15 DEF Boot
<1>16. CASE UNCHANGED <<up, ownsLock, status, starter, reader, occupant, stranded>>
  BY <1>16
<1> QED
  BY <1>1, <1>2, <1>3, <1>4, <1>5, <1>6, <1>7, <1>8, <1>9, <1>10,
      <1>11, <1>12, <1>13, <1>14, <1>15, <1>16
  DEF Next, StartStep, RequestStep, RunnerStep, ReaderStep, vars, RunnerBoot,
      RunnerWrite, RunnerExit, RunnerDie, ReaderProgress, DeleteCheck,
      MintRead, ConsumeKey, Cancel, DeleteDir, MintKey

(* No step wakes a stranded run or writes its row.                         *)
LEMMA StrandedIsOverStep == IInv /\ [Next]_vars => StrandedIsOver'
<1> SUFFICES ASSUME IInv, [Next]_vars PROVE StrandedIsOver'
  OBVIOUS
<1> USE ConstantsAssumption DEF IInv, TypeOK, StrandedIsOver, HeldRowIsOwn,
      Held, RowTypes, RunTypes, MemoryTypes, LifeInv, RowsInv, DownInv,
      RequestTypes, LiveChild, Orphan, Ids, Settled, Live, Pending, Finishing,
      dbVars, diskVars, runnerVars, managerVars, requestVars, deleteVars,
      mintVars, bootVars
<1>1. ASSUME NEW r \in Runs, StartInsert(r) PROVE StrandedIsOver'
  BY <1>1 DEF StartInsert, LockFree, TrackedAlive, IsNextId
<1>2. ASSUME NEW r \in Runs, StartLaunch(r) PROVE StrandedIsOver'
  BY <1>2 DEF StartLaunch, MakeJob
<1>3. ASSUME NEW r \in Runs, StartFail(r) PROVE StrandedIsOver'
  BY <1>3 DEF StartFail, FinishOrStrand, SetStatus, MakeJob
<1>4. ASSUME NEW r \in Runs, RunnerBoot(r) PROVE StrandedIsOver'
  BY <1>4 DEF RunnerBoot
<1>5. ASSUME NEW r \in Runs, RunnerWrite(r) PROVE StrandedIsOver'
  BY <1>5 DEF RunnerWrite, WriteResult
<1>6. ASSUME NEW r \in Runs, RunnerExit(r) PROVE StrandedIsOver'
  BY <1>6 DEF RunnerExit
<1>7. ASSUME NEW r \in Runs, RunnerDie(r) PROVE StrandedIsOver'
  BY <1>7 DEF RunnerDie, WriteResult
<1>8. ASSUME NEW r \in Runs, ReaderWait(r) PROVE StrandedIsOver'
  BY <1>8 DEF ReaderWait
<1>9. ASSUME NEW r \in Runs, ReaderVerdict(r) PROVE StrandedIsOver'
  BY <1>9 DEF ReaderVerdict, LockFree
<1>10. ASSUME NEW r \in Runs, ReaderCancelled(r) PROVE StrandedIsOver'
  BY <1>10 DEF ReaderCancelled, SetStatus
<1>11. ASSUME NEW r \in Runs, ReaderCleanup(r) PROVE StrandedIsOver'
  BY <1>11 DEF ReaderCleanup, RemoveTree
<1>12. ASSUME NEW r \in Runs, ReaderError(r) PROVE StrandedIsOver'
  BY <1>12 DEF ReaderError, SetStatus, GoodResult
<1>13. ASSUME NEW r \in Runs, ReaderDone(r) PROVE StrandedIsOver'
  BY <1>13 DEF ReaderDone, SetStatus, GoodResult
<1>14. ASSUME NEW r \in Runs, ReaderUnlink(r) PROVE StrandedIsOver'
  BY <1>14 DEF ReaderUnlink
<1>15. ASSUME NEW r \in Runs, ReaderFail(r) PROVE StrandedIsOver'
  BY <1>15 DEF ReaderFail, FinishOrStrand, SetStatus
<1>16. ASSUME NEW r \in Runs, ReaderClose(r) PROVE StrandedIsOver'
  BY <1>16 DEF ReaderClose, LockFree
<1>17. CASE Cancel
  BY <1>17 DEF Cancel, LockFree, TrackedAlive
<1>18. CASE DeleteRow
  BY <1>18 DEF DeleteRow
<1>19. CASE Crash
  BY <1>19 DEF Crash
<1>20. CASE Boot
  BY <1>20 DEF Boot
<1>21. CASE UNCHANGED <<starter, reader, proc, rid, status, occupant, stranded>>
  BY <1>21
<1> QED
  BY <1>1, <1>2, <1>3, <1>4, <1>5, <1>6, <1>7, <1>8, <1>9, <1>10,
      <1>11, <1>12, <1>13, <1>14, <1>15, <1>16, <1>17, <1>18, <1>19, <1>20,
      <1>21
  DEF Next, StartStep, RequestStep, RunnerStep, ReaderStep, vars,
      ReaderProgress, DeleteCheck, MintRead, ConsumeKey, DeleteDir, MintKey

(* No step detaches the manager from a live runner.                        *)
LEMMA LiveRunIsCancellableStep == IInv /\ [Next]_vars => LiveRunIsCancellable'
<1> SUFFICES ASSUME IInv, [Next]_vars PROVE LiveRunIsCancellable'
  OBVIOUS
<1> USE ConstantsAssumption DEF IInv, TypeOK, LiveRunIsCancellable, LiveChild,
      Orphan, Reused, TrackInv, TrackedAlive, LifeInv, RunTypes, MemoryTypes,
      Ids, Settled, Live, Pending, Finishing, dbVars, diskVars, runnerVars,
      managerVars, requestVars, deleteVars, mintVars, bootVars
<1>1. ASSUME NEW r \in Runs, StartInsert(r) PROVE LiveRunIsCancellable'
  BY <1>1 DEF StartInsert, LockFree, IsNextId
<1>2. ASSUME NEW r \in Runs, StartLaunch(r) PROVE LiveRunIsCancellable'
  BY <1>2 DEF StartLaunch, MakeJob
<1>3. ASSUME NEW r \in Runs, RunnerBoot(r) PROVE LiveRunIsCancellable'
  BY <1>3 DEF RunnerBoot
<1>4. ASSUME NEW r \in Runs, RunnerWrite(r) PROVE LiveRunIsCancellable'
  BY <1>4 DEF RunnerWrite, WriteResult
<1>5. ASSUME NEW r \in Runs, RunnerExit(r) PROVE LiveRunIsCancellable'
  BY <1>5 DEF RunnerExit
<1>6. ASSUME NEW r \in Runs, RunnerDie(r) PROVE LiveRunIsCancellable'
  BY <1>6 DEF RunnerDie, WriteResult
<1>7. ASSUME NEW r \in Runs, ReaderWait(r) PROVE LiveRunIsCancellable'
  BY <1>7 DEF ReaderWait
<1>8. ASSUME NEW r \in Runs, ReaderVerdict(r) PROVE LiveRunIsCancellable'
  BY <1>8 DEF ReaderVerdict, LockFree
<1>9. ASSUME NEW r \in Runs, ReaderCancelled(r) PROVE LiveRunIsCancellable'
  BY <1>9 DEF ReaderCancelled, SetStatus
<1>10. ASSUME NEW r \in Runs, ReaderCleanup(r) PROVE LiveRunIsCancellable'
  BY <1>10 DEF ReaderCleanup, RemoveTree
<1>11. ASSUME NEW r \in Runs, ReaderError(r) PROVE LiveRunIsCancellable'
  BY <1>11 DEF ReaderError, SetStatus, GoodResult
<1>12. ASSUME NEW r \in Runs, ReaderDone(r) PROVE LiveRunIsCancellable'
  BY <1>12 DEF ReaderDone, SetStatus, GoodResult
<1>13. ASSUME NEW r \in Runs, ReaderUnlink(r) PROVE LiveRunIsCancellable'
  BY <1>13 DEF ReaderUnlink
<1>14. ASSUME NEW r \in Runs, ReaderFail(r) PROVE LiveRunIsCancellable'
  BY <1>14 DEF ReaderFail, FinishOrStrand, SetStatus
<1>15. ASSUME NEW r \in Runs, ReaderClose(r) PROVE LiveRunIsCancellable'
  BY <1>15 DEF ReaderClose, LockFree
<1>16. CASE Cancel
  BY <1>16 DEF Cancel, LockFree
<1>17. CASE Crash
  BY <1>17 DEF Crash
<1>18. CASE UNCHANGED <<proc, reader, tracked, runId, rid>>
  BY <1>18
<1> QED
  BY <1>1, <1>2, <1>3, <1>4, <1>5, <1>6, <1>7, <1>8, <1>9, <1>10,
      <1>11, <1>12, <1>13, <1>14, <1>15, <1>16, <1>17, <1>18
  DEF Next, StartStep, RequestStep, RunnerStep, ReaderStep, vars, StartFail,
      FinishOrStrand, ReaderProgress, DeleteCheck, MintRead, ConsumeKey, DeleteRow, DeleteDir,
      MintKey, Boot

(* No step lets a cancellation reach a run it was not meant for.           *)
LEMMA CancelInvStep == IInv /\ [Next]_vars => CancelInv'
<1> SUFFICES ASSUME IInv, [Next]_vars PROVE CancelInv'
  OBVIOUS
<1> USE ConstantsAssumption DEF IInv, TypeOK, CancelInv, HeldRowIsOwn, Held,
      TrackInv, TrackedAlive, LifeInv, LiveChild, Orphan, RunTypes,
      MemoryTypes, RowTypes, Ids, Settled, Live, Pending, Finishing, dbVars,
      diskVars, runnerVars, managerVars, requestVars, deleteVars, mintVars,
      bootVars
<1>1. ASSUME NEW r \in Runs, StartInsert(r) PROVE CancelInv'
  BY <1>1 DEF StartInsert, LockFree, IsNextId
<1>2. ASSUME NEW r \in Runs, StartLaunch(r) PROVE CancelInv'
  BY <1>2 DEF StartLaunch, MakeJob
<1>3. ASSUME NEW r \in Runs, ReaderWait(r) PROVE CancelInv'
  BY <1>3 DEF ReaderWait
<1>4. ASSUME NEW r \in Runs, ReaderVerdict(r) PROVE CancelInv'
  BY <1>4 DEF ReaderVerdict, LockFree
<1>5. ASSUME NEW r \in Runs, ReaderCancelled(r) PROVE CancelInv'
  BY <1>5 DEF ReaderCancelled, SetStatus
<1>6. ASSUME NEW r \in Runs, ReaderCleanup(r) PROVE CancelInv'
  BY <1>6 DEF ReaderCleanup, RemoveTree
<1>7. ASSUME NEW r \in Runs, ReaderError(r) PROVE CancelInv'
  BY <1>7 DEF ReaderError, SetStatus, GoodResult
<1>8. ASSUME NEW r \in Runs, ReaderDone(r) PROVE CancelInv'
  BY <1>8 DEF ReaderDone, SetStatus, GoodResult
<1>9. ASSUME NEW r \in Runs, ReaderUnlink(r) PROVE CancelInv'
  BY <1>9 DEF ReaderUnlink
<1>10. ASSUME NEW r \in Runs, ReaderFail(r) PROVE CancelInv'
  BY <1>10 DEF ReaderFail, FinishOrStrand, SetStatus
<1>11. ASSUME NEW r \in Runs, ReaderClose(r) PROVE CancelInv'
  BY <1>11 DEF ReaderClose, LockFree
<1>12. CASE Cancel
  BY <1>12 DEF Cancel, LockFree
<1>13. CASE Crash
  BY <1>13 DEF Crash
<1>14. CASE UNCHANGED <<reader, cancelledRun, rid, asked>>
  BY <1>14
<1> QED
  BY <1>1, <1>2, <1>3, <1>4, <1>5, <1>6, <1>7, <1>8, <1>9, <1>10,
      <1>11, <1>12, <1>13, <1>14
  DEF Next, StartStep, RequestStep, RunnerStep, ReaderStep, vars, StartFail,
      FinishOrStrand, RunnerBoot, RunnerWrite, RunnerExit, RunnerDie, ReaderProgress,
      DeleteCheck, MintRead, ConsumeKey, DeleteRow, DeleteDir, MintKey, Boot

(* No step records a cancellation nobody asked for.                        *)
LEMMA CancelledWasAskedStep == IInv /\ [Next]_vars => CancelledWasAsked'
<1> SUFFICES ASSUME IInv, [Next]_vars PROVE CancelledWasAsked'
  OBVIOUS
<1> USE ConstantsAssumption DEF IInv, TypeOK, CancelledWasAsked, CancelInv,
      HeldRowIsOwn, Held, RowTypes, RunTypes, RequestTypes, RowsInv,
      MemoryTypes, Ids, Settled, Live, Pending, Finishing, dbVars, diskVars,
      runnerVars, managerVars, requestVars, deleteVars, mintVars, bootVars
<1>1. ASSUME NEW r \in Runs, StartInsert(r) PROVE CancelledWasAsked'
  BY <1>1 DEF StartInsert, LockFree, TrackedAlive, IsNextId
<1>2. ASSUME NEW r \in Runs, StartFail(r) PROVE CancelledWasAsked'
  BY <1>2 DEF StartFail, FinishOrStrand, SetStatus, MakeJob
<1>3. ASSUME NEW r \in Runs, ReaderCancelled(r) PROVE CancelledWasAsked'
  BY <1>3 DEF ReaderCancelled, SetStatus
<1>4. ASSUME NEW r \in Runs, ReaderError(r) PROVE CancelledWasAsked'
  BY <1>4 DEF ReaderError, SetStatus, GoodResult
<1>5. ASSUME NEW r \in Runs, ReaderDone(r) PROVE CancelledWasAsked'
  BY <1>5 DEF ReaderDone, SetStatus, GoodResult
<1>6. ASSUME NEW r \in Runs, ReaderFail(r) PROVE CancelledWasAsked'
  BY <1>6 DEF ReaderFail, FinishOrStrand, SetStatus
<1>7. CASE Cancel
  BY <1>7 DEF Cancel, LockFree, TrackedAlive
<1>8. CASE DeleteRow
  BY <1>8 DEF DeleteRow
<1>9. CASE Boot
  BY <1>9 DEF Boot
<1>10. CASE UNCHANGED <<status, occupant, asked>>
  BY <1>10
<1> QED
  BY <1>1, <1>2, <1>3, <1>4, <1>5, <1>6, <1>7, <1>8, <1>9, <1>10
  DEF Next, StartStep, RequestStep, RunnerStep, ReaderStep, vars,
      StartLaunch, RunnerBoot, RunnerWrite, RunnerExit, RunnerDie,
      ReaderProgress, ReaderWait, ReaderVerdict, ReaderCleanup, ReaderUnlink,
      ReaderClose, DeleteCheck, MintRead, ConsumeKey, DeleteDir, MintKey,
      Crash

(* No step puts a stranger's result where a held run reads.                *)
LEMMA ResultInvStep == IInv /\ [Next]_vars => ResultInv'
<1> SUFFICES ASSUME IInv, [Next]_vars PROVE ResultInv'
  OBVIOUS
<1> USE ConstantsAssumption DEF IInv, TypeOK, ResultInv, LifeInv, LiveChild,
      Orphan, HeldRowIsOwn, Held, RunTypes, DiskTypes, MemoryTypes,
      RequestTypes, RowTypes, DownInv, TrackInv, TrackedAlive, Ids, Settled,
      Live, Pending, Finishing, dbVars, diskVars, runnerVars, managerVars,
      requestVars, deleteVars, mintVars, bootVars
<1>1. ASSUME NEW r \in Runs, StartInsert(r) PROVE ResultInv'
  BY <1>1 DEF StartInsert, LockFree, IsNextId
<1>2. ASSUME NEW r \in Runs, StartLaunch(r) PROVE ResultInv'
  BY <1>2 DEF StartLaunch, MakeJob
<1>3. ASSUME NEW r \in Runs, RunnerBoot(r) PROVE ResultInv'
  BY <1>3 DEF RunnerBoot
<1>4. ASSUME NEW r \in Runs, RunnerWrite(r) PROVE ResultInv'
  BY <1>4 DEF RunnerWrite, WriteResult
<1>5. ASSUME NEW r \in Runs, RunnerExit(r) PROVE ResultInv'
  BY <1>5 DEF RunnerExit
<1>6. ASSUME NEW r \in Runs, RunnerDie(r) PROVE ResultInv'
  <2>1. CASE UNCHANGED diskVars
    BY <1>6, <2>1 DEF RunnerDie
  <2>2. CASE proc[r] = "working" /\ WriteResult(r, FALSE)
    BY <1>6, <2>2 DEF RunnerDie, WriteResult
  <2> QED
    BY <1>6, <2>1, <2>2 DEF RunnerDie
<1>7. ASSUME NEW r \in Runs, ReaderWait(r) PROVE ResultInv'
  BY <1>7 DEF ReaderWait
<1>8. ASSUME NEW r \in Runs, ReaderVerdict(r) PROVE ResultInv'
  BY <1>8 DEF ReaderVerdict, LockFree
<1>9. ASSUME NEW r \in Runs, ReaderCancelled(r) PROVE ResultInv'
  BY <1>9 DEF ReaderCancelled, SetStatus
<1>10. ASSUME NEW r \in Runs, ReaderCleanup(r) PROVE ResultInv'
  BY <1>10 DEF ReaderCleanup, RemoveTree
<1>11. ASSUME NEW r \in Runs, ReaderError(r) PROVE ResultInv'
  BY <1>11 DEF ReaderError, SetStatus, GoodResult
<1>12. ASSUME NEW r \in Runs, ReaderDone(r) PROVE ResultInv'
  BY <1>12 DEF ReaderDone, SetStatus, GoodResult
<1>13. ASSUME NEW r \in Runs, ReaderUnlink(r) PROVE ResultInv'
  BY <1>13 DEF ReaderUnlink
<1>14. ASSUME NEW r \in Runs, ReaderFail(r) PROVE ResultInv'
  BY <1>14 DEF ReaderFail, FinishOrStrand, SetStatus
<1>15. ASSUME NEW r \in Runs, ReaderClose(r) PROVE ResultInv'
  BY <1>15 DEF ReaderClose, LockFree
<1>16. CASE Cancel
  BY <1>16 DEF Cancel, LockFree
<1>17. CASE DeleteDir
  BY <1>17 DEF DeleteDir, RemoveTree
<1>18. CASE Crash
  BY <1>18 DEF Crash
<1>19. CASE UNCHANGED <<reader, proc, exitedOk, resultBy, rid>>
  BY <1>19
<1> QED
  BY <1>1, <1>2, <1>3, <1>4, <1>5, <1>6, <1>7, <1>8, <1>9, <1>10,
      <1>11, <1>12, <1>13, <1>14, <1>15, <1>16, <1>17, <1>18, <1>19
  DEF Next, StartStep, RequestStep, RunnerStep, ReaderStep, vars, StartFail,
      FinishOrStrand, ReaderProgress, DeleteCheck, MintRead, ConsumeKey, DeleteRow, MintKey,
      Boot, MakeJob

(* No step ingests a stranger's result.                                    *)
LEMMA DoneIsOwnOrOrphanStep == IInv /\ [Next]_vars => DoneIsOwnOrOrphan'
<1> SUFFICES ASSUME IInv, [Next]_vars PROVE DoneIsOwnOrOrphan'
  OBVIOUS
<1> USE ConstantsAssumption DEF IInv, TypeOK, DoneIsOwnOrOrphan, ResultInv,
      LifeInv, LiveChild, Orphan, HeldRowIsOwn, Held, RunTypes, DiskTypes,
      MemoryTypes, RequestTypes, RowTypes, RowsInv, GoodResult, Ids, Settled,
      Live, Pending, Finishing, dbVars, diskVars, runnerVars, managerVars,
      requestVars, deleteVars, mintVars, bootVars
<1>1. ASSUME NEW r \in Runs, StartInsert(r) PROVE DoneIsOwnOrOrphan'
  BY <1>1 DEF StartInsert, LockFree, TrackedAlive, IsNextId
<1>2. ASSUME NEW r \in Runs, StartLaunch(r) PROVE DoneIsOwnOrOrphan'
  BY <1>2 DEF StartLaunch, MakeJob
<1>3. ASSUME NEW r \in Runs, StartFail(r) PROVE DoneIsOwnOrOrphan'
  BY <1>3 DEF StartFail, FinishOrStrand, SetStatus, MakeJob
<1>4. ASSUME NEW r \in Runs, RunnerBoot(r) PROVE DoneIsOwnOrOrphan'
  BY <1>4 DEF RunnerBoot
<1>5. ASSUME NEW r \in Runs, RunnerWrite(r) PROVE DoneIsOwnOrOrphan'
  BY <1>5 DEF RunnerWrite, WriteResult
<1>6. ASSUME NEW r \in Runs, RunnerExit(r) PROVE DoneIsOwnOrOrphan'
  BY <1>6 DEF RunnerExit
<1>7. ASSUME NEW r \in Runs, RunnerDie(r) PROVE DoneIsOwnOrOrphan'
  BY <1>7 DEF RunnerDie, WriteResult
<1>8. ASSUME NEW r \in Runs, ReaderWait(r) PROVE DoneIsOwnOrOrphan'
  BY <1>8 DEF ReaderWait
<1>9. ASSUME NEW r \in Runs, ReaderVerdict(r) PROVE DoneIsOwnOrOrphan'
  BY <1>9 DEF ReaderVerdict, LockFree
<1>10. ASSUME NEW r \in Runs, ReaderCancelled(r) PROVE DoneIsOwnOrOrphan'
  BY <1>10 DEF ReaderCancelled, SetStatus
<1>11. ASSUME NEW r \in Runs, ReaderCleanup(r) PROVE DoneIsOwnOrOrphan'
  BY <1>11 DEF ReaderCleanup, RemoveTree
<1>12. ASSUME NEW r \in Runs, ReaderError(r) PROVE DoneIsOwnOrOrphan'
  BY <1>12 DEF ReaderError, SetStatus
<1>13. ASSUME NEW r \in Runs, ReaderDone(r) PROVE DoneIsOwnOrOrphan'
  BY <1>13 DEF ReaderDone, SetStatus
<1>14. ASSUME NEW r \in Runs, ReaderUnlink(r) PROVE DoneIsOwnOrOrphan'
  BY <1>14 DEF ReaderUnlink
<1>15. ASSUME NEW r \in Runs, ReaderFail(r) PROVE DoneIsOwnOrOrphan'
  BY <1>15 DEF ReaderFail, FinishOrStrand, SetStatus
<1>16. ASSUME NEW r \in Runs, ReaderClose(r) PROVE DoneIsOwnOrOrphan'
  BY <1>16 DEF ReaderClose, LockFree
<1>17. CASE Cancel
  BY <1>17 DEF Cancel, LockFree, TrackedAlive
<1>18. CASE DeleteRow
  BY <1>18 DEF DeleteRow
<1>19. CASE Crash
  BY <1>19 DEF Crash
<1>20. CASE Boot
  BY <1>20 DEF Boot
<1>21. CASE UNCHANGED <<status, ingested, occupant, proc, reader>>
  BY <1>21
<1> QED
  BY <1>1, <1>2, <1>3, <1>4, <1>5, <1>6, <1>7, <1>8, <1>9, <1>10,
      <1>11, <1>12, <1>13, <1>14, <1>15, <1>16, <1>17, <1>18, <1>19, <1>20,
      <1>21
  DEF Next, StartStep, RequestStep, RunnerStep, ReaderStep, vars,
      ReaderProgress, DeleteCheck, MintRead, ConsumeKey, DeleteDir, MintKey

-------------------------------------------------------------------------------
(* Nothing has happened yet.                                               *)
LEMMA InitIInv == Init => IInv
<1> SUFFICES ASSUME Init PROVE IInv
  OBVIOUS
<1> USE ConstantsAssumption DEF Init, Ids, Settled, Live, Pending, Finishing
<1>1. TypeOK
  <2>1. RowTypes /\ DiskTypes
    BY DEF RowTypes, DiskTypes
  <2>2. RunTypes
    BY DEF RunTypes
  <2>3. 0 \in 0..MaxId
    OBVIOUS
  <2>4. MemoryTypes
    BY <2>3 DEF MemoryTypes
  <2>5. RequestTypes
    BY <2>3 DEF RequestTypes
  <2> QED
    BY <2>1, <2>2, <2>4, <2>5 DEF TypeOK
<1>2. RowsInv /\ LifeInv /\ DownInv /\ TrackInv
  BY DEF RowsInv, LifeInv, DownInv, TrackInv, LiveChild, Orphan
<1>3. HeldRowIsOwn /\ RunningIsHeld /\ StrandedIsOver /\ LiveRunIsCancellable
  BY DEF HeldRowIsOwn, Held, RunningIsHeld, StrandedIsOver, LiveRunIsCancellable, LiveChild
<1>4. CancelInv /\ CancelledWasAsked /\ ResultInv /\ DoneIsOwnOrOrphan
  BY DEF CancelInv, CancelledWasAsked, ResultInv, DoneIsOwnOrOrphan
<1> QED
  BY <1>1, <1>2, <1>3, <1>4 DEF IInv

(* The invariant holds in every reachable state.                           *)
THEOREM InvariantHolds == Spec => []IInv
<1>1. IInv /\ [Next]_vars => IInv'
  BY RowTypesStep, DiskTypesStep, RunTypesStep, MemoryTypesStep, RequestTypesStep,
     RowsInvStep, LifeInvStep, DownInvStep, TrackInvStep, HeldRowIsOwnStep,
     RunningIsHeldStep, StrandedIsOverStep, LiveRunIsCancellableStep, CancelInvStep,
     CancelledWasAskedStep, ResultInvStep, DoneIsOwnOrOrphanStep
  DEF IInv, TypeOK
<1> QED
  BY <1>1, InitIInv, PTL DEF Spec

(* The type invariant, for every value of the constants.                   *)
THEOREM TypeCorrect == Spec => []TypeOK
<1>1. IInv => TypeOK
  BY DEF IInv
<1> QED
  BY <1>1, InvariantHolds, PTL

(* start, delete, sweep and reused rowids never come between a run and its *)
(* row before the run has settled it.                                      *)
THEOREM HeldRowsAreOwn == Spec => []HeldRowIsOwn
<1>1. IInv => HeldRowIsOwn
  BY DEF IInv
<1> QED
  BY <1>1, InvariantHolds, PTL

(* Under the owner of the recorder lock a row stays 'running' unheld only  *)
(* if the write that was to settle it failed ...                           *)
THEOREM RunningRowsAreHeld == Spec => []RunningIsHeld
<1>1. IInv => RunningIsHeld
  BY DEF IInv
<1> QED
  BY <1>1, InvariantHolds, PTL

(* ... and a run whose last write failed is over.                          *)
THEOREM StrandedRunsAreOver == Spec => []StrandedIsOver
<1>1. IInv => StrandedIsOver
  BY DEF IInv
<1> QED
  BY <1>1, InvariantHolds, PTL

(* The manager never loses a live runner, rowid reuse apart ...            *)
THEOREM LiveRunsAreCancellable == Spec => []LiveRunIsCancellable
<1>1. IInv => LiveRunIsCancellable
  BY DEF IInv
<1> QED
  BY <1>1, InvariantHolds, PTL

(* ... so it never has two.                                                *)
THEOREM AtMostOneRun == Spec => []OneRunAtATime
<1>1. IInv => OneRunAtATime
  BY DEF IInv, LiveRunIsCancellable, OneRunAtATime
<1> QED
  BY <1>1, InvariantHolds, PTL

(* Nobody's run is recorded as cancelled without having been cancelled.    *)
THEOREM CancelledRunsWereAsked == Spec => []CancelledWasAsked
<1>1. IInv => CancelledWasAsked
  BY DEF IInv
<1> QED
  BY <1>1, InvariantHolds, PTL

(* Only a runner orphaned by a crash can get its numbers into another      *)
(* run's row.                                                              *)
THEOREM DoneRowsAreOwn == Spec => []DoneIsOwnOrOrphan
<1>1. IInv => DoneIsOwnOrOrphan
  BY DEF IInv
<1> QED
  BY <1>1, InvariantHolds, PTL

-------------------------------------------------------------------------------
(* A step that leaves rows alone and lets no held run go is a stutter of   *)
(* the ledger.                                                             *)
LEMMA LedgerStutter ==
  ASSUME UNCHANGED <<status, occupant>>,
         \A r \in Runs : Held(r)' <=> Held(r),
         RowTypes
  PROVE  UNCHANGED <<status, Keeper>>
<1>1. Keeper' = Keeper
  BY DEF Keeper, RowTypes
<1> QED
  BY <1>1

(* A held run that settles its row, and with it stops being held, is the   *)
(* ledger's Settle.                                                        *)
LEMMA LedgerSettle ==
  ASSUME IInv, NEW r \in Runs, NEW s \in Settled,
         Held(r), ~Held(r)', SetStatus(rid[r], s), UNCHANGED occupant,
         \A q \in Runs \ {r} : Held(q)' <=> Held(q)
  PROVE  Ledger!Settle(rid[r], s) /\ rid[r] \in Ids
<1> USE ConstantsAssumption DEF IInv, TypeOK, RowTypes, RunTypes, Ids
<1>1. rid[r] \in Ids /\ status[rid[r]] = "running" /\ occupant[rid[r]] = r
  BY DEF HeldRowIsOwn
<1>2. \A j \in Ids : occupant[j] = r => j = rid[r]
  BY DEF RowsInv
<1>3. Keeper[rid[r]] = r
  BY <1>1 DEF Keeper
<1>4. Keeper' = [Keeper EXCEPT ![rid[r]] = None]
  BY <1>1, <1>2 DEF Keeper
<1>5. status' = [status EXCEPT ![rid[r]] = s]
  BY <1>1 DEF SetStatus
<1> QED
  BY <1>1, <1>3, <1>4, <1>5 DEF Ledger!Settle

(* A held run that stops being held without a word to its row is the       *)
(* ledger's Lose.                                                          *)
LEMMA LedgerLose ==
  ASSUME IInv, NEW r \in Runs, Held(r), ~Held(r)', UNCHANGED <<status, occupant>>,
         \A q \in Runs \ {r} : Held(q)' <=> Held(q)
  PROVE  Ledger!Lose(rid[r]) /\ rid[r] \in Ids
<1> USE ConstantsAssumption DEF IInv, TypeOK, RowTypes, RunTypes, Ids
<1>1. rid[r] \in Ids /\ occupant[rid[r]] = r
  BY DEF HeldRowIsOwn
<1>2. \A j \in Ids : occupant[j] = r => j = rid[r]
  BY DEF RowsInv
<1>3. Keeper[rid[r]] = r
  BY <1>1 DEF Keeper
<1>4. \A j \in Ids \ {rid[r]} : Keeper'[j] = Keeper[j]
  BY <1>2 DEF Keeper
<1>5. Keeper'[rid[r]] = None
  BY <1>1 DEF Keeper
<1>6. Keeper' = [Keeper EXCEPT ![rid[r]] = None]
  BY <1>4, <1>5 DEF Keeper
<1> QED
  BY <1>1, <1>3, <1>6 DEF Ledger!Lose

(* Every step of the manager is a step of the ledger or none.              *)
LEMMA LedgerStep == IInv /\ [Next]_vars => [Ledger!LedgerNext]_(Ledger!ledgerVars)
<1> SUFFICES ASSUME IInv, [Next]_vars
             PROVE  Ledger!LedgerNext \/ UNCHANGED <<status, Keeper>>
  BY DEF Ledger!ledgerVars
<1> USE ConstantsAssumption DEF IInv, TypeOK
<1>1. ASSUME NEW r \in Runs, StartInsert(r) PROVE Ledger!LedgerNext
  <2>1. PICK i \in Ids : /\ IsNextId(i)
                        /\ status' = [status EXCEPT ![i] = "running"]
                        /\ occupant' = [occupant EXCEPT ![i] = r]
    BY <1>1 DEF StartInsert
  <2>2. status[i] = "free"
    BY <2>1 DEF IsNextId, Ids
  <2>3. \A j \in Ids : occupant[j] # r
    BY <1>1 DEF StartInsert, RowsInv, RunTypes, Ids
  <2>4. \A q \in Runs \ {r} : Held(q)' <=> Held(q)
    BY <1>1 DEF StartInsert, Held, LockFree
  <2>5. Held(r)'
    BY <1>1 DEF StartInsert, Held
  <2>6. Keeper' = [Keeper EXCEPT ![i] = r]
    BY <2>1, <2>3, <2>4, <2>5 DEF Keeper, RowTypes
  <2>7. \A j \in Ids : Keeper[j] # r
    BY <2>3 DEF Keeper
  <2> QED
    BY <2>1, <2>2, <2>6, <2>7 DEF Ledger!Open, Ledger!LedgerNext, Ledger!Ids, Ids
<1>2. ASSUME NEW r \in Runs, StartFail(r) PROVE Ledger!LedgerNext
  <2>1. Held(r) /\ ~Held(r)' /\ \A q \in Runs \ {r} : Held(q)' <=> Held(q)
    BY <1>2 DEF StartFail, Held, Pending, LifeInv, RunTypes
  <2>2. UNCHANGED occupant /\ (SetStatus(rid[r], "error") \/ UNCHANGED status)
    BY <1>2 DEF StartFail, FinishOrStrand
  <2>3. CASE SetStatus(rid[r], "error")
    BY <2>1, <2>2, <2>3, LedgerSettle
    DEF Ledger!LedgerNext, Ledger!Ids, Ids, Ledger!Settled, Settled
  <2>4. CASE UNCHANGED status
    BY <2>1, <2>2, <2>4, LedgerLose DEF Ledger!LedgerNext, Ledger!Ids, Ids
  <2> QED
    BY <2>2, <2>3, <2>4
<1>3. ASSUME NEW r \in Runs, ReaderCancelled(r) PROVE Ledger!LedgerNext
  <2>1. Held(r) /\ ~Held(r)' /\ \A q \in Runs \ {r} : Held(q)' <=> Held(q)
    BY <1>3 DEF ReaderCancelled, Held, Pending, LifeInv, RunTypes
  <2>2. SetStatus(rid[r], "cancelled") /\ UNCHANGED occupant
    BY <1>3 DEF ReaderCancelled
  <2> QED
    BY <2>1, <2>2, LedgerSettle DEF Ledger!LedgerNext, Ledger!Ids, Ids, Ledger!Settled, Settled
<1>4. ASSUME NEW r \in Runs, ReaderError(r) PROVE Ledger!LedgerNext
  <2>1. Held(r) /\ ~Held(r)' /\ \A q \in Runs \ {r} : Held(q)' <=> Held(q)
    BY <1>4 DEF ReaderError, Held, Pending, LifeInv, RunTypes
  <2>2. SetStatus(rid[r], "error") /\ UNCHANGED occupant
    BY <1>4 DEF ReaderError
  <2> QED
    BY <2>1, <2>2, LedgerSettle DEF Ledger!LedgerNext, Ledger!Ids, Ids, Ledger!Settled, Settled
<1>5. ASSUME NEW r \in Runs, ReaderDone(r) PROVE Ledger!LedgerNext
  <2>1. Held(r) /\ ~Held(r)' /\ \A q \in Runs \ {r} : Held(q)' <=> Held(q)
    BY <1>5 DEF ReaderDone, Held, Pending, LifeInv, RunTypes
  <2>2. SetStatus(rid[r], "done") /\ UNCHANGED occupant
    BY <1>5 DEF ReaderDone
  <2> QED
    BY <2>1, <2>2, LedgerSettle DEF Ledger!LedgerNext, Ledger!Ids, Ids, Ledger!Settled, Settled
<1>6. ASSUME NEW r \in Runs, ReaderFail(r) PROVE Ledger!LedgerNext
  <2>1. Held(r) /\ ~Held(r)' /\ \A q \in Runs \ {r} : Held(q)' <=> Held(q)
    BY <1>6 DEF ReaderFail, Held, Pending, LifeInv, RunTypes
  <2>2. UNCHANGED occupant /\ (SetStatus(rid[r], "error") \/ UNCHANGED status)
    BY <1>6 DEF ReaderFail, FinishOrStrand
  <2>3. CASE SetStatus(rid[r], "error")
    BY <2>1, <2>2, <2>3, LedgerSettle
    DEF Ledger!LedgerNext, Ledger!Ids, Ids, Ledger!Settled, Settled
  <2>4. CASE UNCHANGED status
    BY <2>1, <2>2, <2>4, LedgerLose DEF Ledger!LedgerNext, Ledger!Ids, Ids
  <2> QED
    BY <2>2, <2>3, <2>4
<1>7. ASSUME NEW r \in Runs, StartLaunch(r) PROVE UNCHANGED <<status, Keeper>>
  BY <1>7, LedgerStutter DEF StartLaunch, Held, Pending, RunTypes, dbVars
<1>8. ASSUME NEW r \in Runs, RunnerBoot(r) PROVE UNCHANGED <<status, Keeper>>
  BY <1>8, LedgerStutter DEF RunnerBoot, Held, Pending, RunTypes, dbVars
<1>9. ASSUME NEW r \in Runs, RunnerWrite(r) PROVE UNCHANGED <<status, Keeper>>
  BY <1>9, LedgerStutter DEF RunnerWrite, Held, Pending, RunTypes, dbVars
<1>10. ASSUME NEW r \in Runs, RunnerExit(r) PROVE UNCHANGED <<status, Keeper>>
  BY <1>10, LedgerStutter DEF RunnerExit, Held, Pending, RunTypes, dbVars
<1>11. ASSUME NEW r \in Runs, RunnerDie(r) PROVE UNCHANGED <<status, Keeper>>
  BY <1>11, LedgerStutter DEF RunnerDie, Held, Pending, RunTypes, dbVars
<1>12. ASSUME NEW r \in Runs, ReaderProgress(r) PROVE UNCHANGED <<status, Keeper>>
  BY <1>12, LedgerStutter DEF ReaderProgress, Held, Pending, RunTypes, dbVars
<1>13. ASSUME NEW r \in Runs, ReaderWait(r) PROVE UNCHANGED <<status, Keeper>>
  BY <1>13, LedgerStutter DEF ReaderWait, Held, Pending, RunTypes, dbVars
<1>14. ASSUME NEW r \in Runs, ReaderVerdict(r) PROVE UNCHANGED <<status, Keeper>>
  BY <1>14, LedgerStutter DEF ReaderVerdict, Held, Pending, RunTypes, dbVars
<1>15. ASSUME NEW r \in Runs, ReaderCleanup(r) PROVE UNCHANGED <<status, Keeper>>
  BY <1>15, LedgerStutter DEF ReaderCleanup, Held, Pending, RunTypes, dbVars
<1>16. ASSUME NEW r \in Runs, ReaderUnlink(r) PROVE UNCHANGED <<status, Keeper>>
  BY <1>16, LedgerStutter DEF ReaderUnlink, Held, Pending, RunTypes, dbVars
<1>17. ASSUME NEW r \in Runs, ReaderClose(r) PROVE UNCHANGED <<status, Keeper>>
  BY <1>17, LedgerStutter DEF ReaderClose, Held, Pending, RunTypes, dbVars
<1>18. ASSUME NEW i \in Ids, DeleteCheck(i) PROVE UNCHANGED <<status, Keeper>>
  BY <1>18, LedgerStutter DEF DeleteCheck, Held, dbVars
<1>19. ASSUME NEW i \in Ids, MintRead(i) PROVE UNCHANGED <<status, Keeper>>
  BY <1>19, LedgerStutter DEF MintRead, Held, dbVars
<1>20. ASSUME NEW i \in Ids, ConsumeKey(i) PROVE UNCHANGED <<status, Keeper>>
  BY <1>20, LedgerStutter DEF ConsumeKey, Held, dbVars
<1>21. ASSUME Cancel PROVE UNCHANGED <<status, Keeper>>
  BY <1>21, LedgerStutter DEF Cancel, Held, dbVars
<1>22. ASSUME DeleteDir PROVE UNCHANGED <<status, Keeper>>
  BY <1>22, LedgerStutter DEF DeleteDir, Held, dbVars
<1>23. ASSUME MintKey PROVE UNCHANGED <<status, Keeper>>
  BY <1>23, LedgerStutter DEF MintKey, Held, dbVars
<1>24. CASE DeleteRow
  <2>1. \A q \in Runs : Held(q)' <=> Held(q)
    BY <1>24 DEF DeleteRow, Held
  <2>2. CASE status[deleteId] \in Settled
    <3>1. deleteId \in Ids
      BY <1>24 DEF DeleteRow, RequestTypes, Ids
    <3>2. Keeper[deleteId] = None
      BY <2>2, <3>1 DEF Keeper, HeldRowIsOwn, RowsInv, RowTypes, Settled
    <3>3. Keeper' = Keeper
      BY <1>24, <2>1, <2>2, <3>1, <3>2 DEF DeleteRow, Keeper, RowTypes
    <3> QED
      BY <1>24, <2>2, <3>1, <3>3
      DEF DeleteRow, Ledger!Remove, Ledger!LedgerNext, Ledger!Ids, Ids, Ledger!Settled, Settled
  <2>3. CASE status[deleteId] \notin Settled
    BY <1>24, <2>1, <2>3, LedgerStutter DEF DeleteRow, dbVars
  <2> QED
    BY <2>2, <2>3
<1>25. CASE Crash
  <2>1. \A q \in Runs : ~Held(q)'
    BY <1>25 DEF Crash, Held, Pending
  <2>2. Keeper' = [i \in Ids |-> None]
    BY <1>25, <2>1 DEF Crash, dbVars, Keeper, RowTypes
  <2> QED
    BY <1>25, <2>2 DEF Crash, dbVars, Ledger!Abandon, Ledger!LedgerNext, Ledger!Ids, Ids
<1>26. CASE Boot
  <2>1. \A q \in Runs : ~Held(q) /\ ~Held(q)'
    BY <1>26 DEF Boot, DownInv, Held, Pending
  <2>2. Keeper' = Keeper /\ \A i \in Ids : Keeper[i] = None
    BY <1>26, <2>1 DEF Boot, Keeper, RowTypes
  <2> QED
    BY <1>26, <2>2 DEF Boot, Ledger!Sweep, Ledger!LedgerNext, Ledger!Ids, Ids
<1>27. CASE UNCHANGED vars
  BY <1>27, LedgerStutter DEF vars, dbVars, Held
<1> QED
  BY <1>1, <1>2, <1>3, <1>4, <1>5, <1>6, <1>7, <1>8, <1>9, <1>10,
      <1>11, <1>12, <1>13, <1>14, <1>15, <1>16, <1>17, <1>18, <1>19, <1>20,
      <1>21, <1>22, <1>23, <1>24, <1>25, <1>26, <1>27
  DEF Next, StartStep, RequestStep, RunnerStep, ReaderStep

(* backtests.py: whatever crashes, cancels, deletes, failed writes and      *)
(* reused rowids come between, rows and runners belong together ...         *)
THEOREM RowsStayTracked == Spec => []RowsAreTracked
BY HeldRowsAreOwn, RunningRowsAreHeld, StrandedRunsAreOver, LiveRunsAreCancellable, PTL
DEF RowsAreTracked

(* ... and what a settled row says is true of its own run.                  *)
THEOREM FatesStayHonest == Spec => []FatesAreHonest
BY CancelledRunsWereAsked, DoneRowsAreOwn, PTL DEF FatesAreHonest

(* The manager implements RunLedger: a row is settled once, by the run     *)
(* that opened it or by the sweep after that run lost it.                  *)
THEOREM ImplementsLedger == Spec => LedgerOf
<1>1. Init => Ledger!LedgerInit
  BY DEF Init, Ledger!LedgerInit, Keeper, Ledger!Ids, Ids
<1> QED
  BY <1>1, LedgerStep, InvariantHolds, PTL DEF Spec, LedgerOf, Ledger!LedgerSpec

-----------------------------------------------------------------------------
(* The ledger: sums over sequences first, by the least counterexample.       *)

(* The partial sums of a sequence, which SumOf takes the last of.            *)
Sums(f, s) == f = [n \in 0 .. Len(s) |-> IF n = 0 THEN 0 ELSE f[n - 1] + s[n]]

(* A partial sum is the one before it and a number more.                     *)
LEMMA SumsStep ==
  ASSUME NEW s \in Seq(Int), NEW f, Sums(f, s)
  PROVE  f[0] = 0 /\ \A n \in 1 .. Len(s) : f[n] = f[n - 1] + s[n] /\ s[n] \in Int
<1>1. Len(s) \in Nat /\ \A n \in 1 .. Len(s) : s[n] \in Int
  OBVIOUS
<1>2. \A n \in 0 .. Len(s) : f[n] = IF n = 0 THEN 0 ELSE f[n - 1] + s[n]
  BY DEF Sums
<1> QED BY <1>1, <1>2

(* So every one of them is a number.                                         *)
LEMMA SumsAreNumbers ==
  ASSUME NEW s \in Seq(Int), NEW f, Sums(f, s), NEW m \in 0 .. Len(s)
  PROVE  f[m] \in Int
<1> DEFINE bad == {n \in 0 .. Len(s) : f[n] \notin Int}
<1>1. f[0] = 0 /\ \A n \in 1 .. Len(s) : f[n] = f[n - 1] + s[n] /\ s[n] \in Int
  BY SumsStep
<1>2. Len(s) \in Nat
  OBVIOUS
<1>3. bad = {}
  <2> SUFFICES ASSUME bad # {} PROVE FALSE
    OBVIOUS
  <2>1. PICK n \in bad : \A o \in bad : n <= o
    <3>1. bad \subseteq Nat
      BY <1>2
    <3> HIDE DEF bad
    <3> QED BY <3>1, Least
  <2>2. n # 0
    BY <1>1
  <2>3. n \in 1 .. Len(s) /\ n - 1 \in 0 .. Len(s) /\ ~(n <= n - 1)
    BY <1>2, <2>2
  <2>4. f[n - 1] \in Int
    BY <2>1, <2>3
  <2>5. f[n] = f[n - 1] + s[n] /\ s[n] \in Int
    BY <1>1, <2>3
  <2>6. f[n] \notin Int
    OBVIOUS
  <2> QED BY <2>4, <2>5, <2>6
<1> QED BY <1>3

(* They exist for every sequence: the definition of SumOf has a meaning.     *)
LEMMA SumsExist ==
  ASSUME NEW s \in Seq(Int)
  PROVE  \E f : Sums(f, s) /\ SumOf(s) = f[Len(s)]
<1> DEFINE rule == [n \in 1 .. Len(s) |-> [v \in Int |-> v + s[n]]]
<1>1. Len(s) \in Nat /\ \A n \in 1 .. Len(s) : s[n] \in Int
  OBVIOUS
<1>2. rule \in [1 .. Len(s) -> [Int -> Int]]
  BY <1>1
<1>3. PICK f \in [0 .. Len(s) -> Int] : f[0] = 0 /\ \A n \in 1 .. Len(s) : f[n] = rule[n][f[n - 1]]
  <2> HIDE DEF rule
  <2>1. PICK L \in Nat : L = Len(s)
    BY <1>1
  <2>2. rule \in [1 .. L -> [Int -> Int]]
    BY <1>2, <2>1
  <2>3. 0 \in Int
    OBVIOUS
  <2>4. \E f \in [0 .. L -> Int] : f[0] = 0 /\ \A n \in 1 .. L : f[n] = rule[n][f[n - 1]]
    <3>1. PICK st \in [1 .. L -> [Int -> Int]] : st = rule
      BY <2>2
    <3>2. PICK V : V = Int
      OBVIOUS
    <3>3. st \in [1 .. L -> [V -> V]] /\ 0 \in V
      BY <3>1, <3>2
    <3>4. \E f \in [0 .. L -> V] : Follows(f, 0, L, st)
      BY <3>3, Recursion
    <3> QED BY <3>1, <3>2, <3>4 DEF Follows
  <2> QED BY <2>1, <2>4
<1>4. ASSUME NEW n \in 1 .. Len(s) PROVE f[n] = f[n - 1] + s[n]
  <2>1. n - 1 \in 0 .. Len(s) /\ f[n - 1] \in Int
    BY <1>1
  <2> QED BY <1>3, <2>1
<1> HIDE DEF rule
<1>5. ASSUME NEW n \in 0 .. Len(s) PROVE f[n] = IF n = 0 THEN 0 ELSE f[n - 1] + s[n]
  <2>1. n # 0 => n \in 1 .. Len(s)
    BY <1>1
  <2> QED BY <1>3, <1>4, <2>1
<1>6. f = [n \in 0 .. Len(s) |-> f[n]]
  OBVIOUS
<1>7. Sums(f, s)
  BY <1>5, <1>6 DEF Sums
<1>8. \E g : Sums(g, s)
  BY <1>7
<1>9. SumOf(s) = (CHOOSE g : Sums(g, s))[Len(s)]
  BY DEF SumOf, Sums
<1> QED BY <1>8, <1>9

(* The sum of two sequences, one after the other.                            *)
LEMMA SumOfConcat ==
  ASSUME NEW s \in Seq(Int), NEW t \in Seq(Int)
  PROVE  SumOf(s \o t) = SumOf(s) + SumOf(t)
<1>0. PICK r \in Seq(Int) : r = s \o t /\ Len(r) = Len(s) + Len(t)
  BY ConcatProperties
<1>1. PICK f : Sums(f, r) /\ SumOf(r) = f[Len(r)]
  BY SumsExist
<1>2. PICK g : Sums(g, s) /\ SumOf(s) = g[Len(s)]
  BY SumsExist
<1>3. PICK h : Sums(h, t) /\ SumOf(t) = h[Len(t)]
  BY SumsExist
<1>4. PICK k \in Nat, l \in Nat : k = Len(s) /\ l = Len(t)
  OBVIOUS
<1>5. Len(r) = k + l
  BY <1>0, <1>4
<1>6. /\ \A n \in 1 .. k : r[n] = s[n]
      /\ \A n \in 1 .. l : r[k + n] = t[n]
  <2>1. \A i \in 1 .. k + l : r[i] = IF i <= k THEN s[i] ELSE t[i - k]
    BY <1>0, <1>4, ConcatProperties
  <2>2. ASSUME NEW n \in 1 .. l PROVE r[k + n] = t[n]
    <3>1. k + n \in 1 .. k + l /\ ~(k + n <= k) /\ (k + n) - k = n
      BY <1>4
    <3> QED BY <2>1, <3>1
  <2>3. ASSUME NEW n \in 1 .. k PROVE r[n] = s[n]
    <3>1. n \in 1 .. k + l /\ n <= k
      BY <1>4
    <3> QED BY <2>1, <3>1
  <2> QED BY <2>2, <2>3
<1>7. f[0] = 0 /\ \A n \in 1 .. k + l : f[n] = f[n - 1] + r[n] /\ r[n] \in Int
  BY <1>1, <1>5, SumsStep
<1>8. g[0] = 0 /\ \A n \in 1 .. k : g[n] = g[n - 1] + s[n] /\ s[n] \in Int
  BY <1>2, <1>4, SumsStep
<1>9. h[0] = 0 /\ \A n \in 1 .. l : h[n] = h[n - 1] + t[n] /\ t[n] \in Int
  BY <1>3, <1>4, SumsStep
<1>10. (\A n \in 0 .. k : g[n] \in Int) /\ (\A n \in 0 .. l : h[n] \in Int)
  BY <1>2, <1>3, <1>4, SumsAreNumbers
<1>11. \A n \in 0 .. k : f[n] = g[n]
  <2> DEFINE bad == {n \in 0 .. k : f[n] # g[n]}
  <2>1. bad = {}
    <3> SUFFICES ASSUME bad # {} PROVE FALSE
      OBVIOUS
    <3>1. PICK n \in bad : \A o \in bad : n <= o
      <4>1. bad \subseteq Nat
        OBVIOUS
      <4> HIDE DEF bad
      <4> QED BY <4>1, Least
    <3>2. n # 0
      BY <1>7, <1>8
    <3>3. n \in 1 .. k /\ n - 1 \in 0 .. k /\ ~(n <= n - 1) /\ n \in 1 .. k + l
      BY <3>2
    <3>4. f[n - 1] = g[n - 1]
      BY <3>1, <3>3
    <3> QED BY <1>6, <1>7, <1>8, <3>1, <3>3, <3>4
  <2> QED BY <2>1
<1>12. \A n \in 0 .. l : f[k + n] = g[k] + h[n]
  <2> DEFINE bad == {n \in 0 .. l : f[k + n] # g[k] + h[n]}
  <2>1. bad = {}
    <3> SUFFICES ASSUME bad # {} PROVE FALSE
      OBVIOUS
    <3>1. PICK n \in bad : \A o \in bad : n <= o
      <4>1. bad \subseteq Nat
        OBVIOUS
      <4> HIDE DEF bad
      <4> QED BY <4>1, Least
    <3>0. n \in 0 .. l /\ f[k + n] # g[k] + h[n]
      OBVIOUS
    <3>2. n # 0
      BY <1>9, <1>10, <1>11, <3>0
    <3>3. n \in 1 .. l /\ n - 1 \in 0 .. l /\ ~(n <= n - 1) /\ k + n \in 1 .. k + l /\ (k + n) - 1 = k + (n - 1)
      BY <3>0, <3>2
    <3>4. f[k + (n - 1)] = g[k] + h[n - 1]
      BY <3>1, <3>3
    <3>5. f[k + n] = f[(k + n) - 1] + r[k + n]
      BY <1>7, <3>3
    <3>6. r[k + n] = t[n] /\ t[n] \in Int /\ h[n] = h[n - 1] + t[n]
      BY <1>6, <1>9, <3>3
    <3>7. g[k] \in Int /\ h[n - 1] \in Int
      BY <1>10, <3>3
    <3>8. f[(k + n) - 1] = g[k] + h[n - 1]
      BY <3>3, <3>4
    <3>9. f[k + n] = (g[k] + h[n - 1]) + t[n]
      BY <3>5, <3>6, <3>8
    <3> QED BY <3>0, <3>6, <3>7, <3>9
  <2> QED BY <2>1
<1> QED BY <1>0, <1>1, <1>2, <1>3, <1>4, <1>5, <1>12

(* The sums of short sequences; and every sum is a number.                   *)
LEMMA SumOfOne ==
  /\ SumOf(<<>>) = 0
  /\ \A x \in Int : SumOf(<<x>>) = x
  /\ \A s \in Seq(Int) : SumOf(s) \in Int
<1>1. SumOf(<<>>) = 0
  <2>1. PICK s \in Seq(Int) : s = <<>> /\ Len(s) = 0
    BY EmptySeq
  <2>2. PICK f : Sums(f, s) /\ SumOf(s) = f[Len(s)]
    BY SumsExist
  <2>3. f[0] = 0
    BY <2>2, SumsStep
  <2> QED BY <2>1, <2>2, <2>3
<1>2. ASSUME NEW x \in Int PROVE SumOf(<<x>>) = x
  <2>0. <<x>> \in Seq(Int)
    OBVIOUS
  <2>1. PICK s \in Seq(Int) : s = <<x>> /\ Len(s) = 1 /\ s[1] = x
    <3>1. Len(<<x>>) = 1 /\ <<x>>[1] = x
      OBVIOUS
    <3> QED BY <2>0, <3>1
  <2>2. PICK f : Sums(f, s) /\ SumOf(s) = f[1]
    BY <2>1, SumsExist
  <2>3. f[0] = 0 /\ \A n \in 1 .. 1 : f[n] = f[n - 1] + s[n] /\ s[n] \in Int
    BY <2>1, <2>2, SumsStep
  <2>4. 1 \in 1 .. 1 /\ 1 - 1 = 0
    OBVIOUS
  <2>5. f[1] = f[0] + s[1]
    BY <2>3, <2>4
  <2> QED BY <2>1, <2>2, <2>3, <2>5
<1>3. ASSUME NEW s \in Seq(Int) PROVE SumOf(s) \in Int
  <2>1. PICK f : Sums(f, s) /\ SumOf(s) = f[Len(s)]
    BY SumsExist
  <2>2. Len(s) \in 0 .. Len(s)
    OBVIOUS
  <2> QED BY <2>1, <2>2, SumsAreNumbers
<1> QED BY <1>1, <1>2, <1>3

(* The holdings picked by their expirations are holdings with these.         *)
Holding == [exp : Exps, qty : {-1, 1}]

(* The holdings picked so far, which Expiring takes the last of.             *)
Picks(f, s, S) ==
  f = [n \in 0 .. Len(s) |->
         IF n = 0 THEN <<>> ELSE IF s[n].exp \in S THEN Append(f[n - 1], s[n]) ELSE f[n - 1]]

(* Expiring returns holdings with the expirations it was asked for.          *)
LEMMA ExpiringIs ==
  ASSUME NEW s \in Seq(Holding), NEW S
  PROVE  Expiring(s, S) \in Seq({h \in Holding : h.exp \in S})
<1> DEFINE H == {h \in Holding : h.exp \in S}
           rule == [n \in 1 .. Len(s) |-> [v \in Seq(H) |-> IF s[n].exp \in S THEN Append(v, s[n]) ELSE v]]
<1>1. Len(s) \in Nat /\ \A n \in 1 .. Len(s) : s[n] \in Holding
  OBVIOUS
<1>2. rule \in [1 .. Len(s) -> [Seq(H) -> Seq(H)]]
  <2>1. ASSUME NEW n \in 1 .. Len(s), NEW v \in Seq(H)
        PROVE  (IF s[n].exp \in S THEN Append(v, s[n]) ELSE v) \in Seq(H)
    <3>1. s[n].exp \in S => s[n] \in H
      BY <1>1
    <3> HIDE DEF H
    <3> QED BY <3>1
  <2> HIDE DEF H
  <2> QED BY <2>1
<1>3. PICK f \in [0 .. Len(s) -> Seq(H)] : Follows(f, <<>>, Len(s), rule)
  <2> HIDE DEF rule, H
  <2>1. PICK L \in Nat : L = Len(s)
    BY <1>1
  <2>0. PICK V, st : V = Seq(H) /\ st = rule
    OBVIOUS
  <2>2. st \in [1 .. L -> [V -> V]] /\ <<>> \in V
    BY <1>2, <2>0, <2>1
  <2>3. PICK e \in V : e = <<>>
    BY <2>2
  <2>4. \E f \in [0 .. L -> V] : Follows(f, e, L, st)
    BY <2>2, Recursion
  <2> QED BY <2>0, <2>1, <2>3, <2>4
<1>4. ASSUME NEW n \in 0 .. Len(s)
      PROVE  f[n] = IF n = 0 THEN <<>> ELSE IF s[n].exp \in S THEN Append(f[n - 1], s[n]) ELSE f[n - 1]
  <2>1. n # 0 => n \in 1 .. Len(s) /\ n - 1 \in 0 .. Len(s)
    BY <1>1
  <2>2. n # 0 => f[n - 1] \in Seq(H)
    <3> HIDE DEF H
    <3> QED BY <2>1
  <2> HIDE DEF H
  <2>3. n # 0 => rule[n][f[n - 1]] = IF s[n].exp \in S THEN Append(f[n - 1], s[n]) ELSE f[n - 1]
    BY <2>1, <2>2
  <2> HIDE DEF rule
  <2> QED BY <1>3, <2>1, <2>3 DEF Follows
<1> HIDE DEF rule
<1>5. f = [n \in 0 .. Len(s) |-> f[n]]
  OBVIOUS
<1>6. Picks(f, s, S)
  BY <1>4, <1>5 DEF Picks
<1>7. PICK g : Picks(g, s, S) /\ Expiring(s, S) = g[Len(s)]
  <2>1. Expiring(s, S) = (CHOOSE g : Picks(g, s, S))[Len(s)]
    BY DEF Expiring, Picks
  <2> QED BY <1>6, <2>1
<1> DEFINE bad == {n \in 0 .. Len(s) : g[n] \notin Seq(H)}
<1>8. bad = {}
  <2> SUFFICES ASSUME bad # {} PROVE FALSE
    OBVIOUS
  <2>1. PICK n \in bad : \A o \in bad : n <= o
    <3>1. bad \subseteq Nat
      BY <1>1
    <3> HIDE DEF bad
    <3> QED BY <3>1, Least
  <2>2. n \in 0 .. Len(s) /\ g[n] \notin Seq(H)
    OBVIOUS
  <2>3. g[n] = IF n = 0 THEN <<>> ELSE IF s[n].exp \in S THEN Append(g[n - 1], s[n]) ELSE g[n - 1]
    BY <1>7, <2>2 DEF Picks
  <2>4. n # 0
    <3>1. <<>> \in Seq(H)
      OBVIOUS
    <3> QED BY <2>2, <2>3, <3>1
  <2>5. n \in 1 .. Len(s) /\ n - 1 \in 0 .. Len(s) /\ ~(n <= n - 1)
    BY <1>1, <2>2, <2>4
  <2>6. g[n - 1] \in Seq(H)
    BY <2>1, <2>5
  <2>7. s[n].exp \in S => s[n] \in H
    BY <1>1, <2>5
  <2> HIDE DEF H, bad
  <2> QED BY <2>2, <2>3, <2>4, <2>6, <2>7
<1>9. Len(s) \in 0 .. Len(s)
  BY <1>1
<1> QED BY <1>7, <1>8, <1>9

(* A function of the items of a sequence is a sequence of the same length.   *)
LEMMA NumbersAreSeq ==
  ASSUME NEW S, NEW s \in Seq(S), NEW f, DOMAIN f = DOMAIN s, f = [i \in DOMAIN s |-> f[i]],
         \A i \in DOMAIN s : f[i] \in Int
  PROVE  f \in Seq(Int) /\ Len(f) = Len(s)
<1>1. Len(s) \in Nat /\ DOMAIN s = 1 .. Len(s)
  OBVIOUS
<1>2. f \in [1 .. Len(s) -> Int]
  BY <1>1
<1> QED BY <1>1, <1>2, SeqDef

(* The total over two sequences, one after the other.                        *)
LEMMA TotalOfConcat ==
  ASSUME NEW S, NEW F \in [S -> Int], NEW a \in Seq(S), NEW b \in Seq(S)
  PROVE  LET T(s) == SumOf([i \in DOMAIN s |-> F[s[i]]])
         IN  T(a) \in Int /\ T(b) \in Int /\ T(a \o b) = T(a) + T(b)
<1> DEFINE M(s) == [i \in DOMAIN s |-> F[s[i]]]
<1>1. ASSUME NEW s \in Seq(S) PROVE M(s) \in Seq(Int) /\ Len(M(s)) = Len(s)
  <2>1. \A i \in DOMAIN s : s[i] \in S /\ F[s[i]] \in Int
    BY LenProperties
  <2> QED BY <2>1, NumbersAreSeq
<1>2. PICK c \in Seq(S) : c = a \o b /\ Len(c) = Len(a) + Len(b)
  BY ConcatProperties
<1>3. PICK p \in Seq(Int), q \in Seq(Int), r \in Seq(Int) :
        /\ p = M(a) /\ q = M(b) /\ r = M(c)
        /\ Len(p) = Len(a) /\ Len(q) = Len(b) /\ Len(r) = Len(c)
  BY <1>1
<1>4. r = p \o q
  <2>0. Len(p \o q) = Len(p) + Len(q) /\ p \o q \in Seq(Int)
    BY ConcatProperties
  <2>1. PICK t \in Seq(Int) : t = p \o q /\ Len(t) = Len(a) + Len(b)
    BY <1>3, <2>0
  <2>2. ASSUME NEW i \in 1 .. Len(a) + Len(b) PROVE r[i] = t[i]
    <3>1. /\ t[i] = IF i <= Len(a) THEN p[i] ELSE q[i - Len(a)]
          /\ c[i] = IF i <= Len(a) THEN a[i] ELSE b[i - Len(a)]
      <4>1. \A k \in 1 .. Len(p) + Len(q) : (p \o q)[k] = IF k <= Len(p) THEN p[k] ELSE q[k - Len(p)]
        BY ConcatProperties
      <4>2. \A k \in 1 .. Len(a) + Len(b) : (a \o b)[k] = IF k <= Len(a) THEN a[k] ELSE b[k - Len(a)]
        BY ConcatProperties
      <4> HIDE DEF M
      <4> QED BY <1>2, <1>3, <2>1, <4>1, <4>2
    <3>2. r[i] = F[c[i]]
      BY <1>2, <1>3
    <3>3. Len(a) \in Nat /\ Len(b) \in Nat /\ DOMAIN a = 1 .. Len(a) /\ DOMAIN b = 1 .. Len(b)
      OBVIOUS
    <3>4. CASE i <= Len(a)
      <4>1. i \in DOMAIN a
        BY <3>3, <3>4
      <4> QED BY <1>3, <3>1, <3>2, <3>4, <4>1
    <3>5. CASE ~(i <= Len(a))
      <4>1. i - Len(a) \in DOMAIN b
        BY <3>3, <3>5
      <4> QED BY <1>3, <3>1, <3>2, <3>5, <4>1
    <3> QED BY <3>4, <3>5
  <2> HIDE DEF M
  <2>3. Len(r) = Len(t) /\ \A i \in 1 .. Len(r) : r[i] = t[i]
    BY <1>2, <1>3, <2>1, <2>2
  <2> QED BY <2>1, <2>3, SeqEqual
<1>5. SumOf(r) = SumOf(p) + SumOf(q) /\ SumOf(p) \in Int /\ SumOf(q) \in Int
  BY <1>4, SumOfConcat, SumOfOne
<1> QED BY <1>2, <1>3, <1>5

(* The total over a single item.                                             *)
LEMMA TotalOfOne ==
  ASSUME NEW S, NEW F \in [S -> Int], NEW x \in S, NEW s, s = <<x>>
  PROVE  SumOf([i \in DOMAIN s |-> F[s[i]]]) = F[x]
<1>1. DOMAIN s = {1} /\ s[1] = x /\ DOMAIN <<F[x]>> = {1} /\ <<F[x]>>[1] = F[x]
  OBVIOUS
<1>2. [i \in DOMAIN s |-> F[s[i]]] = <<F[x]>>
  BY <1>1
<1>3. F[x] \in Int
  OBVIOUS
<1> QED BY <1>2, <1>3, SumOfOne

(* What an open position is made of.                                         *)
Position ==
  [id : Nat, opened : Nat, contracts : Sizes, holdings : Seq(Holding) \ {<<>>}, openMv : Int, fees : Int]

(* What the ledger counts with are numbers.                                  *)
LEMMA Numbers ==
  /\ Exps \subseteq Nat /\ Sizes \subseteq Nat /\ MULT \in Nat /\ Capital \in Nat
  /\ OpenFee \in Nat /\ SellFee \in Nat /\ ClearFee \in Nat /\ AssignFee \in Nat /\ Slip \in Nat
  /\ Strike \in Nat /\ LimitPct \in Nat
<1>1. ASSUME NEW d \in ToSet(TradingDays), NEW s \in Strategies, NEW l \in ToSet(s.legs)
      PROVE  d + l.tenor \in Nat
  <2>1. d \in Nat /\ l \in [side : {-1, 1}, tenor : Nat]
    <3>1. PICK i \in DOMAIN TradingDays, j \in DOMAIN s.legs : d = TradingDays[i] /\ l = s.legs[j]
      BY DEF ToSet
    <3>2. TradingDays \in Seq(Nat) /\ s.legs \in Seq([side : {-1, 1}, tenor : Nat])
      BY LedgerAssumption
    <3>3. TradingDays[i] \in Nat
      BY <3>2
    <3>4. PICK wanted \in Seq([side : {-1, 1}, tenor : Nat]) : wanted = s.legs
      BY <3>2
    <3>5. wanted[j] \in [side : {-1, 1}, tenor : Nat]
      BY <3>1, <3>4, LenProperties
    <3> QED BY <3>1, <3>3, <3>4, <3>5
  <2> QED BY <2>1
<1>2. Exps \subseteq Nat
  BY <1>1 DEF Exps
<1> QED BY <1>2, LedgerAssumption

(* So is what a position has cost.                                           *)
LEMMA CostIsNumber ==
  ASSUME NEW p \in Position
  PROVE  Cost(p) \in Int
<1>1. PICK mv \in Int, c \in Nat, f \in Int, m \in Nat : mv = p.openMv /\ c = p.contracts /\ f = p.fees /\ m = MULT
  BY Numbers DEF Position
<1>2. mv * c * m + f \in Int
  OBVIOUS
<1> QED BY <1>1, <1>2 DEF Cost

(* What positions cost, altogether.                                         *)
Costs(s) == Total(Cost, s)

(* It adds up over two sequences,                                            *)
LEMMA CostsOfConcat ==
  ASSUME NEW a \in Seq(Position), NEW b \in Seq(Position)
  PROVE  Costs(a) \in Int /\ Costs(b) \in Int /\ Costs(a \o b) = Costs(a) + Costs(b)
<1> DEFINE F == [p \in Position |-> Cost(p)]
<1>1. F \in [Position -> Int]
  BY CostIsNumber
<1>2. ASSUME NEW s \in Seq(Position) PROVE Costs(s) = SumOf([i \in DOMAIN s |-> F[s[i]]])
  <2>1. \A i \in DOMAIN s : s[i] \in Position
    BY LenProperties
  <2>2. [i \in DOMAIN s |-> F[s[i]]] = [i \in DOMAIN s |-> Cost(s[i])]
    BY <2>1
  <2> QED BY <2>2 DEF Costs, Total
<1>3. PICK c \in Seq(Position) : c = a \o b
  BY ConcatProperties
<1> HIDE DEF F
<1>4. /\ SumOf([i \in DOMAIN a |-> F[a[i]]]) \in Int /\ SumOf([i \in DOMAIN b |-> F[b[i]]]) \in Int
      /\ SumOf([i \in DOMAIN (a \o b) |-> F[(a \o b)[i]]])
           = SumOf([i \in DOMAIN a |-> F[a[i]]]) + SumOf([i \in DOMAIN b |-> F[b[i]]])
  <2>0. PICK P : P = Position
    OBVIOUS
  <2>1. PICK G \in [P -> Int] : G = F
    BY <1>1, <2>0
  <2>2. G \in [P -> Int] /\ a \in Seq(P) /\ b \in Seq(P)
    BY <2>0, <2>1
  <2>3. /\ SumOf([i \in DOMAIN a |-> G[a[i]]]) \in Int /\ SumOf([i \in DOMAIN b |-> G[b[i]]]) \in Int
        /\ SumOf([i \in DOMAIN (a \o b) |-> G[(a \o b)[i]]])
             = SumOf([i \in DOMAIN a |-> G[a[i]]]) + SumOf([i \in DOMAIN b |-> G[b[i]]])
    BY <2>2, TotalOfConcat
  <2> QED BY <2>1, <2>3
<1> QED BY <1>2, <1>3, <1>4

(* it is what a single position has cost,                                    *)
LEMMA CostsOfOne ==
  ASSUME NEW p \in Position
  PROVE  Costs(<<p>>) = Cost(p) /\ Costs(<<>>) = 0
<1> DEFINE F == [q \in Position |-> Cost(q)]
<1>1. F \in [Position -> Int]
  BY CostIsNumber
<1>2. PICK s : s = <<p>>
  OBVIOUS
<1>3. DOMAIN s = {1} /\ s[1] = p
  BY <1>2
<1>4. [i \in DOMAIN s |-> F[s[i]]] = [i \in DOMAIN s |-> Cost(s[i])]
  BY <1>3
<1>5. SumOf([i \in DOMAIN s |-> F[s[i]]]) = F[p]
  <2> HIDE DEF F
  <2> QED BY <1>1, <1>2, TotalOfOne
<1>6. Costs(s) = Cost(p)
  BY <1>4, <1>5 DEF Costs, Total
<1>7. Costs(<<>>) = 0
  <2>1. [i \in DOMAIN <<>> |-> Cost(<<>>[i])] = <<>>
    OBVIOUS
  <2> QED BY <2>1, SumOfOne DEF Costs, Total
<1> QED BY <1>2, <1>6, <1>7

(* The costs of a pass, as its head is visited.                              *)
LEMMA CostsOfHead ==
  ASSUME NEW s \in Seq(Position), s # <<>>
  PROVE  /\ Head(s) \in Position /\ Tail(s) \in Seq(Position)
         /\ Costs(Tail(s)) \in Int /\ Costs(s) = Cost(Head(s)) + Costs(Tail(s))
<1>0. PICK h \in Position, t \in Seq(Position), n \in Nat :
        /\ h = Head(s) /\ t = Tail(s) /\ n = Len(s) /\ n >= 1 /\ Len(t) = n - 1 /\ s[1] = h
        /\ \A i \in 1 .. n - 1 : t[i] = s[i + 1]
  <2>1. /\ Head(s) \in Position /\ Tail(s) \in Seq(Position) /\ Len(Tail(s)) = Len(s) - 1
        /\ \A i \in 1 .. Len(Tail(s)) : Tail(s)[i] = s[i + 1]
    BY HeadTailProperties
  <2>2. Head(s) = s[1] /\ Len(s) \in Nat /\ Len(s) >= 1
    BY EmptySeq
  <2> QED BY <2>1, <2>2
<1>2. <<h>> \in Seq(Position) /\ Len(<<h>>) = 1 /\ <<h>>[1] = h
  OBVIOUS
<1>1. h = Head(s) /\ t = Tail(s) /\ s = <<h>> \o t
  <2>1. PICK r \in Seq(Position) :
          /\ r = <<h>> \o t /\ Len(r) = 1 + Len(t)
          /\ \A i \in 1 .. 1 + Len(t) : r[i] = IF i <= 1 THEN <<h>>[i] ELSE t[i - 1]
    <3>1. PICK o \in Seq(Position) : o = <<h>> /\ Len(o) = 1
      BY <1>2
    <3>2. /\ o \o t \in Seq(Position) /\ Len(o \o t) = Len(o) + Len(t)
          /\ \A i \in 1 .. Len(o) + Len(t) : (o \o t)[i] = IF i <= Len(o) THEN o[i] ELSE t[i - Len(o)]
      BY ConcatProperties
    <3> QED BY <3>1, <3>2
  <2>2. ASSUME NEW i \in 1 .. n PROVE s[i] = r[i]
    <3>1. i \in 1 .. 1 + Len(t)
      BY <1>0
    <3>2. CASE i = 1
      BY <1>0, <1>2, <2>1, <3>1, <3>2
    <3>3. CASE i # 1
      <4>1. i - 1 \in 1 .. n - 1 /\ (i - 1) + 1 = i /\ ~(i <= 1)
        BY <1>0, <3>3
      <4> QED BY <1>0, <2>1, <3>1, <4>1
    <3> QED BY <3>2, <3>3
  <2>3. Len(r) = Len(s)
    BY <1>0, <2>1
  <2>4. s = r
    BY <1>0, <2>2, <2>3, SeqEqual
  <2> QED BY <1>0, <2>1, <2>4
<1>3. Costs(<<h>> \o t) = Costs(<<h>>) + Costs(t) /\ Costs(t) \in Int
  BY <1>2, CostsOfConcat
<1> QED BY <1>1, <1>3, CostsOfOne

(* and a position that is kept adds to it.                                   *)
LEMMA CostsOfAppend ==
  ASSUME NEW s \in Seq(Position), NEW p \in Position
  PROVE  Append(s, p) \in Seq(Position) /\ Costs(s) \in Int /\ Costs(Append(s, p)) = Costs(s) + Cost(p)
<1>1. <<p>> \in Seq(Position) /\ Append(s, p) \in Seq(Position)
  OBVIOUS
<1>2. Append(s, p) = s \o <<p>>
  BY AppendIsConcat
<1>3. Costs(s \o <<p>>) = Costs(s) + Costs(<<p>>) /\ Costs(s) \in Int
  BY <1>1, CostsOfConcat
<1> QED BY <1>1, <1>2, <1>3, CostsOfOne

(* Positions by name *)

(* The positions of a sequence, their numbers, and that no number is twice.  *)
Of(s) == {s[i] : i \in DOMAIN s}
IdsOf(s) == {p.id : p \in Of(s)}
Distinct(s) == \A i, j \in DOMAIN s : s[i].id = s[j].id => i = j

(* A visit takes a position out of the ones to visit,                        *)
LEMMA HeadIs ==
  ASSUME NEW s \in Seq(Position), s # <<>>
  PROVE  /\ Of(s) = {Head(s)} \cup Of(Tail(s)) /\ Of(s) \subseteq Position
         /\ Distinct(s) => Distinct(Tail(s)) /\ Head(s).id \notin IdsOf(Tail(s))
<1>1. PICK n \in Nat : n = Len(s) /\ n >= 1
  BY EmptySeq
<1>2. PICK h \in Position, t \in Seq(Position) :
        /\ h = Head(s) /\ t = Tail(s) /\ Len(t) = n - 1 /\ s[1] = h
        /\ \A i \in 1 .. n - 1 : t[i] = s[i + 1]
  <2>1. /\ Head(s) \in Position /\ Tail(s) \in Seq(Position) /\ Len(Tail(s)) = Len(s) - 1
        /\ \A i \in 1 .. Len(Tail(s)) : Tail(s)[i] = s[i + 1]
    BY HeadTailProperties
  <2>2. Head(s) = s[1]
    OBVIOUS
  <2> QED BY <1>1, <2>1, <2>2
<1>3. DOMAIN s = 1 .. n /\ DOMAIN t = 1 .. n - 1 /\ \A i \in 1 .. n : s[i] \in Position
  BY <1>1, <1>2
<1>4. ASSUME NEW i \in 1 .. n, i # 1 PROVE i - 1 \in 1 .. n - 1 /\ t[i - 1] = s[i]
  <2>1. i - 1 \in 1 .. n - 1 /\ (i - 1) + 1 = i
    BY <1>1, <1>4
  <2> QED BY <1>2, <2>1
<1>5. \A i \in 1 .. n - 1 : i + 1 \in 1 .. n /\ i + 1 # 1 /\ t[i] = s[i + 1]
  BY <1>1, <1>2
<1>6. 1 \in 1 .. n
  BY <1>1
<1>7. Of(s) = {h} \cup Of(t)
  <2>1. ASSUME NEW i \in 1 .. n PROVE s[i] = h \/ \E j \in 1 .. n - 1 : s[i] = t[j]
    BY <1>2, <1>4
  <2>2. ASSUME NEW j \in 1 .. n - 1 PROVE \E i \in 1 .. n : t[j] = s[i]
    BY <1>5
  <2>3. Of(s) = {s[i] : i \in 1 .. n} /\ Of(t) = {t[i] : i \in 1 .. n - 1}
    BY <1>3 DEF Of
  <2> QED BY <1>2, <1>6, <2>1, <2>2, <2>3
<1>8. ASSUME Distinct(s) PROVE Distinct(t) /\ h.id \notin IdsOf(t)
  <2>1. ASSUME NEW i \in 1 .. n - 1, NEW j \in 1 .. n - 1, t[i].id = t[j].id PROVE i = j
    <3>1. /\ i + 1 \in DOMAIN s /\ j + 1 \in DOMAIN s
          /\ s[i + 1].id = s[j + 1].id
      BY <1>3, <1>5, <2>1
    <3>2. i + 1 = j + 1
      BY <1>8, <3>1 DEF Distinct
    <3> QED BY <3>2
  <2>2. ASSUME NEW i \in 1 .. n - 1, t[i].id = h.id PROVE FALSE
    BY <1>2, <1>3, <1>5, <1>6, <1>8, <2>2 DEF Distinct
  <2> QED BY <1>3, <2>1, <2>2 DEF Distinct, IdsOf, Of
<1>9. Of(s) \subseteq Position
  BY <1>3 DEF Of
<1>10. Of(s) = {Head(s)} \cup Of(Tail(s))
  BY <1>2, <1>7
<1>11. Distinct(s) => Distinct(Tail(s)) /\ Head(s).id \notin IdsOf(Tail(s))
  BY <1>2, <1>8
<1> QED BY <1>9, <1>10, <1>11

(* and a position that is kept is one more of the kept ones.                 *)
LEMMA AppendIs ==
  ASSUME NEW s \in Seq(Position), NEW p \in Position
  PROVE  /\ Of(Append(s, p)) = Of(s) \cup {p} /\ Of(s) \subseteq Position
         /\ Distinct(s) /\ p.id \notin IdsOf(s) => Distinct(Append(s, p))
<1>1. PICK n \in Nat, r \in Seq(Position) :
        /\ n = Len(s) /\ r = Append(s, p) /\ Len(r) = n + 1 /\ r[n + 1] = p /\ \A i \in 1 .. n : r[i] = s[i]
  <2>1. /\ Append(s, p) \in Seq(Position) /\ Len(Append(s, p)) = Len(s) + 1
        /\ \A i \in 1 .. Len(s) : Append(s, p)[i] = s[i]
        /\ Append(s, p)[Len(s) + 1] = p
    BY AppendProperties
  <2>2. Len(s) \in Nat
    OBVIOUS
  <2> QED BY <2>1, <2>2
<1>2. DOMAIN s = 1 .. n /\ DOMAIN r = 1 .. n + 1 /\ \A i \in 1 .. n : s[i] \in Position
  BY <1>1
<1>3. n + 1 \in 1 .. n + 1 /\ \A i \in 1 .. n + 1 : i = n + 1 \/ i \in 1 .. n
  BY <1>1
<1>3a. \A i \in 1 .. n : i \in 1 .. n + 1
  OBVIOUS
<1>4. Of(r) = Of(s) \cup {p}
  BY <1>1, <1>2, <1>3, <1>3a DEF Of
<1>5. ASSUME Distinct(s), p.id \notin IdsOf(s) PROVE Distinct(r)
  <2>1. \A i \in 1 .. n : s[i].id # p.id
    BY <1>2, <1>5 DEF IdsOf, Of
  <2> QED BY <1>1, <1>2, <1>3, <1>5, <2>1 DEF Distinct
<1> QED BY <1>1, <1>2, <1>4, <1>5 DEF Of

(* What the loop holds, and at which step of the day.                        *)
LedgerTypes ==
  /\ strat \in Strategies
  /\ day \in 0 .. Len(TradingDays) /\ step \in {"settled", "exits", "expiry", "entries"}
  /\ kept \in Seq(Position) /\ todo \in Seq(Position)
  /\ cash \in Int /\ realized \in Int /\ nextId \in Nat \ {0}
  /\ quote \in [Exps -> Marks \cup {Unlisted}] /\ spot \in Intrinsics \cup {NoSpot}
  /\ step \notin {"exits", "expiry"} => todo = <<>>
  /\ step # "settled" => day # 0
  /\ day = 0 => kept = <<>>

(* What the positions cost is what the cash lacks.                           *)
Balanced == cash = Capital + realized - (Costs(kept) + Costs(todo))

(* Every position has its own number, and is in one place.                   *)
Numbered ==
  /\ Distinct(kept) /\ Distinct(todo)
  /\ IdsOf(kept) \cap IdsOf(todo) = {} /\ (IdsOf(kept) \cup IdsOf(todo)) \cap trades = {}
  /\ IdsOf(kept) \cup IdsOf(todo) \cup trades = 1 .. nextId - 1

(* A pass over expirations leaves behind it what expires later.              *)
Expired ==
  /\ \A p \in Of(kept) \cup Of(todo) : p.opened <= Date
  /\ step = "expiry" => \A p \in Of(kept) : FirstExp(p) > Date
  /\ step \in {"entries", "settled"} => \A p \in Of(kept) : p.opened < Date => FirstExp(p) > Date

(* The strengthening of LedgerIsSound.                                       *)
LedgerInv == LedgerTypes /\ Balanced /\ Numbered /\ Expired

(* What a position is worth is a number.                                     *)
LEMMA HoldingsSum ==
  ASSUME NEW s \in Seq(Holding), NEW f, DOMAIN f = DOMAIN s, f = [i \in DOMAIN s |-> f[i]],
         \A i \in DOMAIN s : f[i] \in Int
  PROVE  SumOf(f) \in Int
<1>1. f \in Seq(Int)
  BY NumbersAreSeq
<1> QED BY <1>1, SumOfOne

(* So is every amount a holding is closed or settled at,                     *)
LEMMA HoldingIs ==
  ASSUME LedgerTypes, NEW s \in Seq(Holding), NEW i \in DOMAIN s
  PROVE  /\ s[i].exp \in Exps /\ s[i].qty \in {-1, 1} /\ quote[s[i].exp] \in Int
         /\ Intrinsic(s[i]) \in Int
         /\ ClosePx(s[i]) \in Int
<1>1. s[i] \in Holding
  BY LenProperties
<1>2. Marks \cup {Unlisted} \subseteq Int /\ Intrinsics \cup {NoSpot} \subseteq Int /\ Slip \in Nat
  BY LedgerAssumption DEF Unlisted, NoSpot
<1>3. s[i].exp \in Exps /\ s[i].qty \in {-1, 1} /\ quote[s[i].exp] \in Int
  BY <1>1, <1>2 DEF LedgerTypes, Holding
<1>4. Intrinsic(s[i]) \in Int
  BY <1>2 DEF LedgerTypes, Intrinsic
<1>5. FillPrice(s[i].exp, s[i].qty > 0) \in Int
  BY <1>2, <1>3 DEF FillPrice
<1> QED BY <1>3, <1>4, <1>5 DEF ClosePx

(* every fee,                                                                *)
LEMMA FeeIs ==
  ASSUME NEW q \in Int, NEW opening \in BOOLEAN, NEW selling \in BOOLEAN
  PROVE  OptionFee(q, opening, selling) \in Int
BY Numbers DEF OptionFee

(* what a close brings and costs,                                            *)
LEMMA CloseNumbers ==
  ASSUME LedgerTypes, NEW p \in Position
  PROVE  /\ Total(LAMBDA h : h.qty * ClosePx(h), p.holdings) \in Int
         /\ Total(LAMBDA h : CloseFee(p, h), p.holdings) \in Int
<1>1. PICK s \in Seq(Holding) : s = p.holdings
  BY DEF Position
<1> DEFINE f == [i \in DOMAIN s |-> s[i].qty * ClosePx(s[i])]
           g == [i \in DOMAIN s |-> CloseFee(p, s[i])]
<1>2. \A i \in DOMAIN s : f[i] \in Int
  BY HoldingIs
<1>3. ASSUME NEW i \in DOMAIN s PROVE CloseFee(p, s[i]) \in Int
  <2>1. s[i].qty \in {-1, 1} /\ p.contracts \in Nat
    BY HoldingIs, Numbers DEF Position
  <2>2. Abs(s[i].qty) * p.contracts \in Int /\ (s[i].qty > 0) \in BOOLEAN /\ FALSE \in BOOLEAN
    BY <2>1 DEF Abs
  <2> QED BY <2>2, FeeIs DEF CloseFee
<1>4. SumOf(f) \in Int
  <2>1. f = [i \in DOMAIN s |-> f[i]] /\ DOMAIN f = DOMAIN s
    OBVIOUS
  <2> HIDE DEF f
  <2> QED BY <1>2, <2>1, HoldingsSum
<1>5. SumOf(g) \in Int
  <2>1. g = [i \in DOMAIN s |-> g[i]] /\ DOMAIN g = DOMAIN s /\ \A i \in DOMAIN s : g[i] \in Int
    BY <1>3
  <2> HIDE DEF g
  <2> QED BY <2>1, HoldingsSum
<1> QED BY <1>1, <1>4, <1>5 DEF Total

(* and what an expiration does.                                              *)
LEMMA SettleNumbers ==
  ASSUME LedgerTypes, NEW p \in Position, NEW s \in Seq(Holding)
  PROVE  /\ Total(LAMBDA h : h.qty * Intrinsic(h), s) \in Int
         /\ Total(LAMBDA h : AssignmentFee(p, h), s) \in Int
<1> DEFINE f == [i \in DOMAIN s |-> s[i].qty * Intrinsic(s[i])]
           g == [i \in DOMAIN s |-> AssignmentFee(p, s[i])]
<1>2. \A i \in DOMAIN s : f[i] \in Int
  BY HoldingIs
<1>3. ASSUME NEW i \in DOMAIN s PROVE AssignmentFee(p, s[i]) \in Int
  <2>1. s[i].qty \in {-1, 1} /\ p.contracts \in Nat /\ AssignFee \in Nat
    BY HoldingIs, Numbers DEF Position
  <2>2. AssignFee * Abs(s[i].qty) * p.contracts \in Int
    BY <2>1 DEF Abs
  <2> QED BY <2>2 DEF AssignmentFee
<1>4. SumOf(f) \in Int
  <2>1. f = [i \in DOMAIN s |-> f[i]] /\ DOMAIN f = DOMAIN s
    OBVIOUS
  <2> HIDE DEF f
  <2> QED BY <1>2, <2>1, HoldingsSum
<1>5. SumOf(g) \in Int
  <2>1. g = [i \in DOMAIN s |-> g[i]] /\ DOMAIN g = DOMAIN s /\ \A i \in DOMAIN s : g[i] \in Int
    BY <1>3
  <2> HIDE DEF g
  <2> QED BY <2>1, HoldingsSum
<1> QED BY <1>4, <1>5 DEF Total

(* A position expires first with one of its holdings.                        *)
LEMMA FirstExpIs ==
  ASSUME NEW p \in Position
  PROVE  \E i \in DOMAIN p.holdings : FirstExp(p) = p.holdings[i].exp
<1>1. PICK s \in Seq(Holding) : s = p.holdings /\ s # <<>>
  BY DEF Position
<1> DEFINE E == {s[i].exp : i \in DOMAIN s}
<1>2. E \subseteq Nat
  <2>1. ASSUME NEW i \in DOMAIN s PROVE s[i].exp \in Nat
    <3>1. s[i] \in Holding
      BY LenProperties
    <3> QED BY <3>1, Numbers DEF Holding
  <2> QED BY <2>1
<1>3. E # {}
  <2>1. 1 \in DOMAIN s
    BY <1>1, EmptySeq
  <2> QED BY <2>1
<1>4. \E x \in E : \A y \in E : x <= y
  <2> HIDE DEF E
  <2> QED BY <1>2, <1>3, Least
<1>5. Earliest(E) \in E
  <2> HIDE DEF E
  <2> QED BY <1>4 DEF Earliest
<1> QED BY <1>1, <1>5 DEF FirstExp

(* A position that is visited and kept: nothing of it changes but its cost.  *)
LEMMA KeepStep ==
  ASSUME LedgerInv, todo # <<>>, step \in {"exits", "expiry"}, NEW p \in Position, p = Head(todo),
         NEW q \in Position, q.id = p.id, q.opened = p.opened,
         step = "expiry" => FirstExp(q) > Date,
         Keep(q), cash' \in Int, cash' + Cost(q) = cash + Cost(p)
  PROVE  LedgerInv'
<1>0. /\ kept' = Append(kept, q) /\ todo' = Tail(todo)
      /\ UNCHANGED <<strat, day, step, realized, trades, nextId, quote, spot, closedToday, openedToday>>
  BY DEF Keep
<1>1. PICK k \in Seq(Position), t \in Seq(Position) : k = kept /\ t = todo /\ t # <<>> /\ Head(t) = p
  BY DEF LedgerInv, LedgerTypes
<1>2. PICK r \in Seq(Position), u \in Seq(Position) : r = Append(k, q) /\ u = Tail(t) /\ r = kept' /\ u = todo'
  BY <1>0, <1>1, CostsOfAppend, CostsOfHead
<1>3. /\ Costs(r) = Costs(k) + Cost(q) /\ Costs(t) = Cost(p) + Costs(u)
      /\ Costs(k) \in Int /\ Costs(u) \in Int /\ Cost(p) \in Int /\ Cost(q) \in Int
  <2>1. Costs(r) = Costs(k) + Cost(q) /\ Costs(k) \in Int
    BY <1>2, CostsOfAppend
  <2>2. Costs(t) = Cost(p) + Costs(u) /\ Costs(u) \in Int
    BY <1>1, <1>2, CostsOfHead
  <2>3. Cost(p) \in Int /\ Cost(q) \in Int
    BY CostIsNumber
  <2> QED BY <2>1, <2>2, <2>3
<1>4. /\ Of(r) = Of(k) \cup {q} /\ Of(t) = {p} \cup Of(u) /\ Of(k) \subseteq Position /\ Of(t) \subseteq Position
      /\ Distinct(k) /\ q.id \notin IdsOf(k) => Distinct(r)
      /\ Distinct(t) => Distinct(u) /\ p.id \notin IdsOf(u)
  <2>1. /\ Of(r) = Of(k) \cup {q} /\ Of(k) \subseteq Position
        /\ Distinct(k) /\ q.id \notin IdsOf(k) => Distinct(r)
    BY <1>2, AppendIs
  <2>2. /\ Of(t) = {p} \cup Of(u) /\ Of(t) \subseteq Position
        /\ Distinct(t) => Distinct(u) /\ p.id \notin IdsOf(u)
    BY <1>1, <1>2, HeadIs
  <2> QED BY <2>1, <2>2
<1>5. IdsOf(r) = IdsOf(k) \cup {p.id} /\ IdsOf(t) = {p.id} \cup IdsOf(u)
  BY <1>4 DEF IdsOf
<1>6. LedgerTypes'
  BY <1>0, <1>2 DEF LedgerInv, LedgerTypes
<1>7. Balanced'
  <2>1. Capital \in Int /\ realized \in Int /\ cash \in Int
    BY Numbers DEF LedgerInv, LedgerTypes
  <2>2. cash = Capital + realized - (Costs(k) + Costs(t))
    BY <1>1 DEF LedgerInv, Balanced
  <2>3. cash' = Capital + realized - (Costs(r) + Costs(u))
    <3>1. PICK ck \in Int, cu \in Int, cp \in Int, cq \in Int, a \in Int, b \in Int, C \in Int, x \in Int :
            /\ ck = Costs(k) /\ cu = Costs(u) /\ cp = Cost(p) /\ cq = Cost(q)
            /\ a = cash /\ b = realized /\ C = Capital /\ x = cash'
      BY <1>3, <2>1
    <3>2. a = C + b - (ck + (cp + cu)) /\ x + cq = a + cp
      BY <1>3, <2>2, <3>1
    <3>3. x = C + b - ((ck + cq) + cu)
      BY <3>2
    <3> QED BY <1>3, <3>1, <3>3
  <2>4. Costs(kept)' = Costs(kept') /\ Costs(todo)' = Costs(todo')
    BY DEF Costs, Total, Cost
  <2> QED BY <1>0, <1>2, <2>3, <2>4 DEF Balanced
<1>8. Numbered'
  <2>1. /\ Distinct(k) /\ Distinct(t) /\ IdsOf(k) \cap IdsOf(t) = {} /\ (IdsOf(k) \cup IdsOf(t)) \cap trades = {}
        /\ IdsOf(k) \cup IdsOf(t) \cup trades = 1 .. nextId - 1
    BY <1>1 DEF LedgerInv, Numbered
  <2>2. /\ Distinct(r) /\ Distinct(u) /\ IdsOf(r) \cap IdsOf(u) = {} /\ (IdsOf(r) \cup IdsOf(u)) \cap trades = {}
        /\ IdsOf(r) \cup IdsOf(u) \cup trades = 1 .. nextId - 1
    BY <1>4, <1>5, <2>1
  <2>3. (Distinct(kept)' <=> Distinct(r)) /\ IdsOf(kept)' = IdsOf(r)
    BY <1>2 DEF Distinct, IdsOf, Of
  <2>4. (Distinct(todo)' <=> Distinct(u)) /\ IdsOf(todo)' = IdsOf(u)
    BY <1>2 DEF Distinct, IdsOf, Of
  <2> QED BY <1>0, <2>2, <2>3, <2>4 DEF Numbered
<1>9. Expired'
  <2>1. Date' = Date /\ \A o : FirstExp(o)' = FirstExp(o)
    BY <1>0 DEF Date, FirstExp
  <2>2. \A o \in Of(k) \cup Of(t) : o.opened <= Date
    BY <1>1 DEF LedgerInv, Expired
  <2>3. \A o \in Of(r) \cup Of(u) : o.opened <= Date
    BY <1>4, <2>2
  <2>4. step = "expiry" => \A o \in Of(r) : FirstExp(o) > Date
    BY <1>1, <1>4 DEF LedgerInv, Expired
  <2>5. Of(kept)' = Of(r) /\ Of(todo)' = Of(u)
    BY <1>2 DEF Of
  <2> QED BY <1>0, <2>1, <2>3, <2>4, <2>5 DEF Expired
<1> QED BY <1>6, <1>7, <1>8, <1>9 DEF LedgerInv

(* A position that becomes a trade.                                          *)
LEMMA RecordStep ==
  ASSUME LedgerInv, todo # <<>>, step \in {"exits", "expiry"}, NEW p \in Position, p = Head(todo),
         NEW mv \in Int, NEW fees \in Int, NEW flow, flow = mv * p.contracts * MULT - fees,
         Record(p, mv, flow, fees)
  PROVE  LedgerInv'
<1>0. /\ kept' = kept /\ todo' = Tail(todo) /\ trades' = trades \cup {p.id}
      /\ UNCHANGED <<strat, day, step, nextId, quote, spot, openedToday>>
      /\ cash' = cash + flow
      /\ realized' = realized + ((mv - p.openMv) * p.contracts * MULT - (p.fees + fees))
  BY DEF Record
<1>1. PICK k \in Seq(Position), t \in Seq(Position) : k = kept /\ t = todo /\ t # <<>> /\ Head(t) = p
  BY DEF LedgerInv, LedgerTypes
<1>2. PICK u \in Seq(Position) : u = Tail(t) /\ u = todo' /\ k = kept'
  BY <1>0, <1>1, CostsOfHead
<1>3. /\ Costs(t) = Cost(p) + Costs(u) /\ Costs(k) \in Int /\ Costs(u) \in Int
  BY <1>1, <1>2, CostsOfConcat, CostsOfHead
<1>4. /\ Of(t) = {p} \cup Of(u) /\ Of(k) \subseteq Position /\ Of(t) \subseteq Position
      /\ Distinct(t) => Distinct(u) /\ p.id \notin IdsOf(u)
  BY <1>1, <1>2, AppendIs, HeadIs
<1>5. IdsOf(t) = {p.id} \cup IdsOf(u)
  BY <1>4 DEF IdsOf
<1>6. PICK o \in Int, c \in Nat, f \in Int, m \in Nat :
        o = p.openMv /\ c = p.contracts /\ f = p.fees /\ m = MULT
  BY Numbers DEF Position
<1>7. Capital \in Int /\ realized \in Int /\ cash \in Int
  BY Numbers DEF LedgerInv, LedgerTypes
<1>8. cash' \in Int /\ realized' \in Int
  <2>1. flow = mv * c * m - fees /\ realized' = realized + ((mv - o) * c * m - (f + fees))
    BY <1>0, <1>6
  <2> QED BY <1>0, <1>7, <2>1
<1>9. LedgerTypes'
  BY <1>0, <1>2, <1>8 DEF LedgerInv, LedgerTypes
<1>10. Balanced'
  <2>1. cash = Capital + realized - (Costs(k) + Costs(t))
    BY <1>1 DEF LedgerInv, Balanced
  <2>2. PICK n \in Int : n = c * m
    OBVIOUS
  <2>3. mv * c * m = mv * n /\ (mv - o) * c * m = mv * n - o * n /\ o * c * m = o * n
    BY <2>2
  <2>4. Cost(p) = o * n + f
    BY <1>6, <2>3 DEF Cost
  <2>5. flow = mv * n - fees /\ realized' = realized + ((mv * n - o * n) - (f + fees))
    BY <1>0, <1>6, <2>3
  <2>6. PICK a \in Int, b \in Int : a = mv * n /\ b = o * n
    OBVIOUS
  <2>7. cash' = Capital + realized' - (Costs(k) + Costs(u))
    <3>1. PICK ck \in Int, cu \in Int, x \in Int, y \in Int, z \in Int :
            ck = Costs(k) /\ cu = Costs(u) /\ x = cash /\ y = realized /\ z = Capital
      BY <1>3, <1>7
    <3>2. x = z + y - (ck + ((b + f) + cu))
      BY <1>3, <2>1, <2>4, <2>6, <3>1
    <3>3. cash' = x + (a - fees) /\ realized' = y + ((a - b) - (f + fees))
      BY <1>0, <2>5, <2>6, <3>1
    <3>4. x + (a - fees) = z + (y + ((a - b) - (f + fees))) - (ck + cu)
      BY <3>2
    <3> QED BY <3>1, <3>3, <3>4
  <2>8. Costs(kept)' = Costs(kept') /\ Costs(todo)' = Costs(todo')
    BY DEF Costs, Total, Cost
  <2> QED BY <1>2, <2>7, <2>8 DEF Balanced
<1>11. Numbered'
  <2>1. /\ Distinct(k) /\ Distinct(t) /\ IdsOf(k) \cap IdsOf(t) = {} /\ (IdsOf(k) \cup IdsOf(t)) \cap trades = {}
        /\ IdsOf(k) \cup IdsOf(t) \cup trades = 1 .. nextId - 1
    BY <1>1 DEF LedgerInv, Numbered
  <2>2. /\ Distinct(k) /\ Distinct(u) /\ IdsOf(k) \cap IdsOf(u) = {} /\ (IdsOf(k) \cup IdsOf(u)) \cap trades' = {}
        /\ IdsOf(k) \cup IdsOf(u) \cup trades' = 1 .. nextId - 1
    BY <1>0, <1>4, <1>5, <2>1
  <2>3. (Distinct(kept)' <=> Distinct(k)) /\ IdsOf(kept)' = IdsOf(k)
    BY <1>2 DEF Distinct, IdsOf, Of
  <2>4. (Distinct(todo)' <=> Distinct(u)) /\ IdsOf(todo)' = IdsOf(u)
    BY <1>2 DEF Distinct, IdsOf, Of
  <2> QED BY <1>0, <2>2, <2>3, <2>4 DEF Numbered
<1>12. Expired'
  <2>1. Date' = Date /\ \A x : FirstExp(x)' = FirstExp(x)
    BY <1>0 DEF Date, FirstExp
  <2>2. \A x \in Of(k) \cup Of(t) : x.opened <= Date
    BY <1>1 DEF LedgerInv, Expired
  <2>3. step = "expiry" => \A x \in Of(k) : FirstExp(x) > Date
    BY <1>1 DEF LedgerInv, Expired
  <2>4. Of(kept)' = Of(k) /\ Of(todo)' = Of(u)
    BY <1>2 DEF Of
  <2> QED BY <1>0, <1>4, <2>1, <2>2, <2>3, <2>4 DEF Expired
<1> QED BY <1>9, <1>10, <1>11, <1>12 DEF LedgerInv

(* A visit keeps the position as it is, keeps what is left of it, or records it. *)
LEMMA VisitStep ==
  ASSUME LedgerInv, VisitExit \/ VisitExpiry
  PROVE  LedgerInv'
<1>1. todo # <<>> /\ step \in {"exits", "expiry"} /\ todo \in Seq(Position) /\ LedgerTypes /\ cash \in Int
  BY DEF VisitExit, VisitExpiry, LedgerInv, LedgerTypes
<1>2. PICK p \in Position : p = Head(todo)
  <2>1. PICK t \in Seq(Position) : t = todo
    BY <1>1
  <2>2. Head(t) \in Position
    BY <1>1, <2>1, CostsOfHead
  <2> QED BY <2>1, <2>2
<1>3. Cost(p) \in Int
  BY CostIsNumber
<1>4. ASSUME Keep(p), cash' = cash, step = "expiry" => FirstExp(p) > Date PROVE LedgerInv'
  BY <1>1, <1>2, <1>3, <1>4, KeepStep
<1>5. ASSUME Close(p) PROVE LedgerInv'
  <2>1. PICK mv \in Int, fees \in Int :
          /\ mv = Total(LAMBDA h : h.qty * ClosePx(h), p.holdings)
          /\ fees = Total(LAMBDA h : CloseFee(p, h), p.holdings)
    BY <1>1, CloseNumbers
  <2>2. PICK flow : flow = mv * p.contracts * MULT - fees
    OBVIOUS
  <2>3. Record(p, mv, flow, fees)
    BY <1>5, <2>1, <2>2 DEF Close
  <2> QED BY <1>1, <1>2, <2>2, <2>3, RecordStep
<1>6. ASSUME SettleExpiry(p) PROVE LedgerInv'
  <2>0. PICK s \in Seq(Holding) : s = p.holdings
    BY DEF Position
  <2>1. PICK expiring \in Seq(Holding) : expiring = Expiring(p.holdings, {e \in Exps : e <= Date})
    <3>1. Expiring(s, {e \in Exps : e <= Date}) \in Seq({h \in Holding : h.exp \in {e \in Exps : e <= Date}})
      BY ExpiringIs
    <3>2. Expiring(s, {e \in Exps : e <= Date}) \in Seq(Holding)
      <4>1. {h \in Holding : h.exp \in {e \in Exps : e <= Date}} \subseteq Holding
        OBVIOUS
      <4> QED BY <3>1, <4>1, SeqMonotonic
    <3> QED BY <2>0, <3>2
  <2> DEFINE Later == {h \in Holding : h.exp \in {e \in Exps : e > Date}}
  <2>2. PICK remaining \in Seq(Later) : remaining = Expiring(p.holdings, {e \in Exps : e > Date})
    <3>1. Expiring(s, {e \in Exps : e > Date}) \in Seq(Later)
      BY ExpiringIs
    <3> QED BY <2>0, <3>1
  <2>3. remaining \in Seq(Holding)
    <3>1. Later \subseteq Holding
      OBVIOUS
    <3> HIDE DEF Later
    <3> QED BY <3>1, SeqMonotonic
  <2>4. PICK mv \in Int, fees \in Int :
          /\ mv = Total(LAMBDA h : h.qty * Intrinsic(h), expiring)
          /\ fees = Total(LAMBDA h : AssignmentFee(p, h), expiring)
    BY <1>1, SettleNumbers
  <2>5. PICK flow : flow = mv * p.contracts * MULT - fees
    OBVIOUS
  <2>6. IF remaining = <<>> THEN Record(p, mv, flow, fees)
        ELSE Keep(Residue(p, remaining, mv, fees)) /\ cash' = cash + flow
    BY <1>6, <2>1, <2>2, <2>4, <2>5 DEF SettleExpiry
  <2>7. CASE remaining = <<>>
    BY <1>1, <1>2, <2>5, <2>6, <2>7, RecordStep
  <2>8. CASE remaining # <<>>
    <3>1. PICK o \in Int, c \in Sizes, f \in Int, m \in Nat :
            o = p.openMv /\ c = p.contracts /\ f = p.fees /\ m = MULT /\ c \in Nat
      BY Numbers DEF Position
    <3> DEFINE y == [p EXCEPT !.holdings = remaining, !.openMv = @ - mv, !.fees = @ + fees]
    <3>2. y \in Position
      <4>1. PICK om \in Int, fs \in Int, hs \in Seq(Holding) \ {<<>>} :
              om = p.openMv - mv /\ fs = p.fees + fees /\ hs = remaining
        BY <2>3, <2>8, <3>1
      <4>2. y = [p EXCEPT !.holdings = hs, !.openMv = om, !.fees = fs]
        BY <4>1
      <4>3. [p EXCEPT !.holdings = hs, !.openMv = om, !.fees = fs] \in Position
        BY DEF Position
      <4> QED BY <4>2, <4>3
    <3>3. /\ y.id = p.id /\ y.opened = p.opened /\ y.contracts = c /\ y.holdings = remaining
          /\ y.openMv = o - mv /\ y.fees = f + fees
      BY <3>1 DEF Position
    <3>4. Residue(p, remaining, mv, fees) = y
      BY DEF Residue
    <3> HIDE DEF y
    <3>5. PICK q \in Position : q = y
      BY <3>2
    <3>6. PICK n \in Int : n = c * m
      BY <3>1
    <3>7. mv * c * m = mv * n /\ (o - mv) * c * m = o * n - mv * n /\ o * c * m = o * n
      <4>1. PICK b \in Int : b = c
        BY <3>1
      <4>2. n = b * m
        BY <3>6, <4>1
      <4>3. mv * b * m = mv * (b * m) /\ (o - mv) * b * m = o * (b * m) - mv * (b * m) /\ o * b * m = o * (b * m)
        OBVIOUS
      <4> QED BY <4>1, <4>2, <4>3
    <3>8. Cost(p) = o * n + f /\ Cost(q) = (o * n - mv * n) + (f + fees) /\ flow = mv * n - fees
      BY <2>5, <3>1, <3>3, <3>5, <3>7 DEF Cost
    <3>9. cash' \in Int /\ cash' + Cost(q) = cash + Cost(p)
      <4>1. PICK a \in Int, b \in Int, x \in Int : a = mv * n /\ b = o * n /\ x = cash
        BY <1>1
      <4>2. cash' = x + (a - fees) /\ Cost(q) = (b - a) + (f + fees) /\ Cost(p) = b + f
        BY <2>6, <2>8, <3>8, <4>1
      <4>3. (x + (a - fees)) + ((b - a) + (f + fees)) = x + (b + f)
        OBVIOUS
      <4> QED BY <4>1, <4>2, <4>3
    <3>10. FirstExp(q) > Date
      <4>1. PICK i \in DOMAIN q.holdings : FirstExp(q) = q.holdings[i].exp
        BY FirstExpIs
      <4>2. i \in DOMAIN remaining /\ FirstExp(q) = remaining[i].exp
        BY <3>3, <3>5, <4>1
      <4>3. remaining[i] \in Later
        <5> HIDE DEF Later
        <5> QED BY <4>2, LenProperties
      <4> QED BY <4>2, <4>3
    <3>11. Keep(q) /\ q.id = p.id /\ q.opened = p.opened
      BY <2>6, <2>8, <3>3, <3>4, <3>5
    <3> QED BY <1>1, <1>2, <3>9, <3>10, <3>11, KeepStep
  <2> QED BY <2>7, <2>8
<1>7. CASE VisitExit
  BY <1>2, <1>4, <1>5, <1>7 DEF VisitExit
<1>8. CASE VisitExpiry
  <2>1. FirstExp(p) \in Nat /\ Date \in Nat
    <3>1. PICK s \in Seq(Holding) : s = p.holdings
      BY DEF Position
    <3>2. PICK i \in DOMAIN s : FirstExp(p) = s[i].exp
      BY <3>1, FirstExpIs
    <3>3. s[i] \in Holding
      BY LenProperties
    <3>4. FirstExp(p) \in Nat
      BY <3>2, <3>3, Numbers DEF Holding
    <3>5. day \in 1 .. Len(TradingDays) /\ TradingDays \in Seq(Nat)
      BY <1>1, LedgerAssumption DEF LedgerTypes
    <3> QED BY <3>4, <3>5 DEF Date
  <2> QED BY <1>2, <1>4, <1>5, <1>6, <1>8 DEF VisitExpiry
<1> QED BY <1>7, <1>8

(* What is opened is a position, with a number of its own.                   *)
LEMMA OpenedIs ==
  ASSUME LedgerInv, step = "entries", NEW n \in Sizes
  PROVE  Opened(n) \in Position /\ Opened(n).id = nextId /\ Opened(n).opened = Date /\ Opened(n).contracts = n
<1>0. LedgerTypes /\ n \in Nat /\ day \in 1 .. Len(TradingDays) /\ TradingDays \in Seq(Nat)
  BY Numbers, LedgerAssumption DEF LedgerInv, LedgerTypes
<1>1. Date \in Nat /\ Date \in ToSet(TradingDays) /\ nextId \in Nat /\ strat \in Strategies
  BY <1>0 DEF Date, ToSet, LedgerTypes
<1>2. PICK wanted \in Seq([side : {-1, 1}, tenor : Nat]) : wanted = strat.legs /\ wanted # <<>>
  BY <1>1, LedgerAssumption
<1>3. ASSUME NEW i \in DOMAIN wanted
      PROVE  /\ wanted[i].side \in {-1, 1} /\ Date + wanted[i].tenor \in Exps
             /\ OpenPx(wanted[i]) \in Int
  <2>1. wanted[i] \in [side : {-1, 1}, tenor : Nat] /\ wanted[i] \in ToSet(strat.legs)
    BY <1>2, LenProperties DEF ToSet
  <2>2. Date + wanted[i].tenor \in Exps
    <3>1. Date + wanted[i].tenor \in {Date + l.tenor : l \in ToSet(strat.legs)}
      BY <1>2, <2>1
    <3>2. PICK d \in ToSet(TradingDays), s \in Strategies : d = Date /\ s = strat
      BY <1>1
    <3>3. PICK S : S = {d + l.tenor : l \in ToSet(s.legs)}
      OBVIOUS
    <3>4. S \in {{a + l.tenor : l \in ToSet(t.legs)} : a \in ToSet(TradingDays), t \in Strategies}
      BY <3>3
    <3>5. Date + wanted[i].tenor \in S
      BY <3>1, <3>2, <3>3
    <3> QED BY <3>4, <3>5 DEF Exps
  <2>3. quote[Date + wanted[i].tenor] \in Int /\ Slip \in Nat
    <3>1. Marks \cup {Unlisted} \subseteq Int /\ Slip \in Nat
      BY LedgerAssumption DEF Unlisted
    <3> QED BY <1>0, <2>2, <3>1 DEF LedgerTypes
  <2>4. OpenPx(wanted[i]) \in Int
    BY <2>3 DEF OpenPx, FillPrice
  <2> QED BY <2>1, <2>2, <2>4
<1> DEFINE hs == [i \in DOMAIN wanted |-> [exp |-> Date + wanted[i].tenor, qty |-> wanted[i].side]]
           f == [i \in DOMAIN wanted |-> wanted[i].side * OpenPx(wanted[i])]
           g == [i \in DOMAIN wanted |-> OptionFee(n, TRUE, wanted[i].side < 0)]
<1>4. hs \in Seq(Holding) \ {<<>>}
  <2>1. PICK k \in Nat : k = Len(wanted) /\ k >= 1 /\ DOMAIN wanted = 1 .. k
    BY <1>2, EmptySeq
  <2>2. hs \in [1 .. k -> Holding]
    BY <1>3, <2>1 DEF Holding
  <2>3. DOMAIN hs = 1 .. k
    BY <2>1
  <2> HIDE DEF hs
  <2>4. hs \in Seq(Holding)
    BY <2>1, <2>2, SeqDef
  <2>5. hs # <<>>
    BY <2>1, <2>3
  <2> QED BY <2>4, <2>5
<1>5. SumOf(f) \in Int
  <2>1. \A i \in DOMAIN wanted : f[i] \in Int
    <3>1. ASSUME NEW i \in DOMAIN wanted PROVE wanted[i].side * OpenPx(wanted[i]) \in Int
      BY <1>3
    <3> QED BY <3>1
  <2>2. f = [i \in DOMAIN wanted |-> f[i]] /\ DOMAIN f = DOMAIN wanted
    OBVIOUS
  <2> HIDE DEF f
  <2>3. f \in Seq(Int)
    BY <2>1, <2>2, NumbersAreSeq
  <2> QED BY <2>3, SumOfOne
<1>6. SumOf(g) \in Int
  <2>1. \A i \in DOMAIN wanted : g[i] \in Int
    <3>1. ASSUME NEW i \in DOMAIN wanted PROVE OptionFee(n, TRUE, wanted[i].side < 0) \in Int
      <4>1. n \in Int /\ (wanted[i].side < 0) \in BOOLEAN /\ TRUE \in BOOLEAN
        BY <1>0
      <4> QED BY <4>1, FeeIs
    <3> QED BY <3>1
  <2>2. g = [i \in DOMAIN wanted |-> g[i]] /\ DOMAIN g = DOMAIN wanted
    OBVIOUS
  <2> HIDE DEF g
  <2>3. g \in Seq(Int)
    BY <2>1, <2>2, NumbersAreSeq
  <2> QED BY <2>3, SumOfOne
<1>7. /\ SumOf(f) = Total(LAMBDA l : l.side * OpenPx(l), strat.legs)
      /\ SumOf(g) = Total(LAMBDA l : OptionFee(n, TRUE, l.side < 0), strat.legs)
      /\ hs = [i \in DOMAIN strat.legs |-> [exp |-> Date + strat.legs[i].tenor, qty |-> strat.legs[i].side]]
  BY <1>2 DEF Total
<1> HIDE DEF hs, f, g
<1>8. PICK mv \in Int, fees \in Int, h \in Seq(Holding) \ {<<>>} : mv = SumOf(f) /\ fees = SumOf(g) /\ h = hs
  BY <1>4, <1>5, <1>6
<1>9. Opened(n) = [id |-> nextId, opened |-> Date, contracts |-> n, holdings |-> h, openMv |-> mv, fees |-> fees]
  BY <1>7, <1>8 DEF Opened
<1> QED BY <1>1, <1>8, <1>9 DEF Position

(* An entry adds its position, and takes what it costs off the cash.         *)
LEMMA EnterStep ==
  ASSUME LedgerInv, NEW n \in Sizes, Enter(n)
  PROVE  LedgerInv'
<1>0. /\ step = "entries" /\ kept' = Append(kept, Opened(n)) /\ nextId' = nextId + 1
      /\ cash' = cash - Opened(n).openMv * n * MULT - Opened(n).fees
      /\ UNCHANGED <<strat, day, step, todo, realized, trades, quote, spot, closedToday>>
  BY DEF Enter
<1>1. PICK p \in Position : p = Opened(n) /\ p.id = nextId /\ p.opened = Date /\ p.contracts = n
  BY <1>0, OpenedIs
<1>2. PICK k \in Seq(Position) : k = kept /\ todo = <<>>
  BY <1>0 DEF LedgerInv, LedgerTypes
<1>3. PICK r \in Seq(Position) : /\ r = Append(k, p) /\ r = kept'
                               /\ Costs(r) = Costs(k) + Cost(p) /\ Costs(k) \in Int
  BY <1>0, <1>1, <1>2, CostsOfAppend
<1>4. /\ Of(r) = Of(k) \cup {p} /\ Of(k) \subseteq Position
      /\ Distinct(k) /\ p.id \notin IdsOf(k) => Distinct(r)
  BY <1>3, AppendIs
<1>5. PICK o \in Int, f \in Int, m \in Nat, c \in Nat : o = p.openMv /\ f = p.fees /\ m = MULT /\ c = n
  BY Numbers DEF Position
<1>6. PICK a \in Int : a = o * c * m
  BY <1>5
<1>7. cash' = cash - a - f /\ Cost(p) = a + f /\ Cost(p) \in Int
  BY <1>0, <1>1, <1>5, <1>6 DEF Cost
<1>8. Capital \in Int /\ realized \in Int /\ cash \in Int /\ nextId \in Nat /\ nextId >= 1
  BY Numbers DEF LedgerInv, LedgerTypes
<1>9. LedgerTypes'
  <2>1. cash' \in Int /\ nextId' \in Nat \ {0}
    BY <1>0, <1>7, <1>8
  <2>2. day # 0
    BY <1>0 DEF LedgerInv, LedgerTypes
  <2> QED BY <1>0, <1>3, <2>1, <2>2 DEF LedgerInv, LedgerTypes
<1>10. Balanced'
  <2>1. Costs(todo) = 0
    BY <1>1, <1>2, CostsOfOne
  <2>2. PICK ck \in Int, x \in Int, y \in Int, C \in Int : ck = Costs(k) /\ x = cash /\ y = realized /\ C = Capital
    BY <1>3, <1>8
  <2>3. x = C + y - (ck + 0)
    BY <1>2, <2>1, <2>2 DEF LedgerInv, Balanced
  <2>4. x - a - f = C + y - ((ck + (a + f)) + 0)
    BY <2>3
  <2>5. Costs(kept)' = Costs(kept') /\ Costs(todo)' = Costs(todo')
    BY DEF Costs, Total, Cost
  <2>6. cash' = x - a - f /\ realized' = y /\ Costs(kept') = ck + (a + f) /\ Costs(todo') = 0
    BY <1>0, <1>3, <1>7, <2>1, <2>2
  <2> QED BY <2>2, <2>4, <2>5, <2>6 DEF Balanced
<1>11. Numbered'
  <2>1. /\ Distinct(k) /\ (IdsOf(k) \cup IdsOf(todo)) \cap trades = {} /\ IdsOf(todo) = {} /\ Distinct(todo)
        /\ IdsOf(k) \cup trades = 1 .. nextId - 1
    BY <1>2 DEF LedgerInv, Numbered, IdsOf, Of
  <2>2. nextId \notin 1 .. nextId - 1 /\ 1 .. (nextId + 1) - 1 = (1 .. nextId - 1) \cup {nextId}
    BY <1>8
  <2>3. IdsOf(r) = IdsOf(k) \cup {nextId}
    BY <1>1, <1>4 DEF IdsOf
  <2>4. Distinct(r) /\ IdsOf(r) \cap trades = {} /\ IdsOf(r) \cup trades = 1 .. nextId' - 1
    BY <1>0, <1>1, <1>4, <2>1, <2>2, <2>3
  <2>5. (Distinct(kept)' <=> Distinct(r)) /\ IdsOf(kept)' = IdsOf(r)
    BY <1>3 DEF Distinct, IdsOf, Of
  <2>6. (Distinct(todo)' <=> Distinct(todo)) /\ IdsOf(todo)' = IdsOf(todo)
    BY <1>0 DEF Distinct, IdsOf, Of
  <2> QED BY <1>0, <2>1, <2>4, <2>5, <2>6 DEF Numbered
<1>12. Expired'
  <2>0. Date \in Nat
    BY <1>1 DEF Position
  <2>1. Date' = Date /\ \A x : FirstExp(x)' = FirstExp(x)
    BY <1>0 DEF Date, FirstExp
  <2>2. \A x \in Of(k) \cup Of(todo) : x.opened <= Date
    BY <1>2 DEF LedgerInv, Expired
  <2>3. \A x \in Of(k) : x.opened < Date => FirstExp(x) > Date
    BY <1>0, <1>2 DEF LedgerInv, Expired
  <2>4. Of(kept)' = Of(r) /\ Of(todo)' = Of(todo)
    BY <1>0, <1>3 DEF Of
  <2>5. p.opened <= Date /\ ~(p.opened < Date)
    BY <1>1, <2>0
  <2> QED BY <1>0, <1>4, <2>1, <2>2, <2>3, <2>4, <2>5 DEF Expired
<1> QED BY <1>9, <1>10, <1>11, <1>12 DEF LedgerInv

(* One sequence of positions after the other has what they have.             *)
LEMMA ConcatIs ==
  ASSUME NEW a \in Seq(Position), NEW b \in Seq(Position)
  PROVE  a \o b \in Seq(Position) /\ Of(a \o b) = Of(a) \cup Of(b) /\ Of(a) \subseteq Position
<1>1. PICK k \in Nat, l \in Nat : k = Len(a) /\ l = Len(b) /\ DOMAIN a = 1 .. k /\ DOMAIN b = 1 .. l
  OBVIOUS
<1>2. PICK r \in Seq(Position) : r = a \o b /\ Len(r) = Len(a) + Len(b)
  BY ConcatProperties
<1>3. DOMAIN r = 1 .. k + l
  BY <1>1, <1>2
<1>4. \A i \in 1 .. k + l : r[i] = IF i <= k THEN a[i] ELSE b[i - k]
  BY <1>1, <1>2, ConcatProperties
<1>5. Of(r) \subseteq Of(a) \cup Of(b)
  <2>1. ASSUME NEW i \in 1 .. k + l PROVE r[i] \in Of(a) \cup Of(b)
    <3>1. CASE i <= k
      <4>1. i \in DOMAIN a /\ r[i] = a[i]
        BY <1>1, <1>4, <3>1
      <4> QED BY <4>1 DEF Of
    <3>2. CASE ~(i <= k)
      <4>1. i - k \in DOMAIN b /\ r[i] = b[i - k]
        BY <1>1, <1>4, <3>2
      <4> QED BY <4>1 DEF Of
    <3> QED BY <3>1, <3>2
  <2> QED BY <1>3, <2>1 DEF Of
<1>6. Of(a) \subseteq Of(r)
  <2>1. ASSUME NEW i \in DOMAIN a PROVE a[i] \in Of(r)
    <3>1. i \in 1 .. k + l /\ i <= k
      BY <1>1
    <3> QED BY <1>3, <1>4, <3>1 DEF Of
  <2> QED BY <2>1 DEF Of
<1>7. Of(b) \subseteq Of(r)
  <2>1. ASSUME NEW i \in DOMAIN b PROVE b[i] \in Of(r)
    <3>1. k + i \in 1 .. k + l /\ ~(k + i <= k) /\ (k + i) - k = i
      BY <1>1
    <3> QED BY <1>3, <1>4, <3>1 DEF Of
  <2> QED BY <2>1 DEF Of
<1>8. Of(a) \subseteq Position
  BY LenProperties DEF Of
<1> QED BY <1>2, <1>5, <1>6, <1>7, <1>8

(* The next day is a later one, and what was kept is up for a visit.         *)
LEMMA NewDayStep ==
  ASSUME LedgerInv, NewDay
  PROVE  LedgerInv'
<1>0. /\ step = "settled" /\ day < Len(TradingDays) /\ day' = day + 1 /\ step' = "exits"
      /\ todo' = kept /\ kept' = <<>> /\ todo = <<>>
      /\ UNCHANGED <<strat, cash, realized, trades, nextId, closedToday, openedToday>>
  BY DEF NewDay, LedgerInv, LedgerTypes
<1>1. PICK k \in Seq(Position) : k = kept /\ k = todo' /\ Of(k) \subseteq Position
  <2>1. PICK k \in Seq(Position) : k = kept /\ k = todo'
    BY <1>0 DEF LedgerInv, LedgerTypes
  <2> QED BY <2>1, ConcatIs
<1>2. <<>> \in Seq(Position) /\ DOMAIN <<>> = {} /\ Of(<<>>) = {} /\ IdsOf(<<>>) = {} /\ Distinct(<<>>)
  BY EmptySeq DEF Of, IdsOf, Distinct
<1>3. day \in 0 .. Len(TradingDays) /\ TradingDays \in Seq(Nat)
  BY LedgerAssumption DEF LedgerInv, LedgerTypes
<1>4. PICK L \in Nat : L = Len(TradingDays)
  BY <1>3
<1>5. day + 1 \in 1 .. L /\ day + 1 # 0 /\ day \in Nat
  BY <1>0, <1>3, <1>4
<1>6. day # 0 => Date \in Nat /\ Date' \in Nat /\ Date < Date'
  <2> SUFFICES ASSUME day # 0 PROVE Date \in Nat /\ Date' \in Nat /\ Date < Date'
    OBVIOUS
  <2>1. day \in 1 .. L - 1 /\ day \in 1 .. L
    BY <1>4, <1>5
  <2>2. TradingDays[day] \in Nat /\ TradingDays[day + 1] \in Nat
    BY <1>3, <1>4, <1>5, <2>1
  <2>3. TradingDays[day] < TradingDays[day + 1]
    BY <1>4, <2>1, LedgerAssumption
  <2>4. Date = TradingDays[day] /\ Date' = TradingDays[day + 1]
    BY <1>0 DEF Date
  <2> QED BY <2>2, <2>3, <2>4
<1>7. quote' \in [Exps -> Marks \cup {Unlisted}] /\ spot' \in Intrinsics \cup {NoSpot}
  BY DEF NewDay, LedgerInv, LedgerTypes
<1>8. LedgerTypes'
  BY <1>0, <1>1, <1>2, <1>4, <1>5, <1>7 DEF LedgerInv, LedgerTypes
<1>9. Balanced'
  <2>1. Costs(<<>>) = 0 /\ Costs(k) \in Int
    <3>1. Costs(k) \in Int
      BY ConcatIs, CostsOfConcat
    <3>2. CASE k = <<>>
      BY <3>2, SumOfOne DEF Costs, Total
    <3>3. CASE k # <<>>
      <4>1. Head(k) \in Position
        BY <3>3, CostsOfHead
      <4> QED BY <3>1, <4>1, CostsOfOne
    <3> QED BY <3>1, <3>2, <3>3
  <2>2. cash = Capital + realized - (Costs(k) + 0)
    BY <1>0, <1>1, <2>1 DEF LedgerInv, Balanced
  <2>3. cash' = Capital + realized' - (0 + Costs(k))
    BY <1>0, <2>1, <2>2
  <2>4. Costs(kept)' = Costs(kept') /\ Costs(todo)' = Costs(todo')
    BY DEF Costs, Total, Cost
  <2> QED BY <1>0, <1>1, <2>1, <2>3, <2>4 DEF Balanced
<1>10. Numbered'
  <2>1. /\ Distinct(k) /\ IdsOf(k) \cap trades = {} /\ IdsOf(k) \cup trades = 1 .. nextId - 1
    BY <1>0, <1>1, <1>2 DEF LedgerInv, Numbered
  <2>2. (Distinct(kept)' <=> Distinct(<<>>)) /\ IdsOf(kept)' = IdsOf(<<>>)
    BY <1>0 DEF Distinct, IdsOf, Of
  <2>3. (Distinct(todo)' <=> Distinct(k)) /\ IdsOf(todo)' = IdsOf(k)
    BY <1>1 DEF Distinct, IdsOf, Of
  <2> QED BY <1>0, <1>2, <2>1, <2>2, <2>3 DEF Numbered
<1>11. Expired'
  <2>1. Of(kept)' = {} /\ Of(todo)' = Of(k)
    BY <1>0, <1>1, <1>2 DEF Of
  <2>2. \A p \in Of(k) : p.opened <= Date /\ p.opened \in Nat
    BY <1>1 DEF LedgerInv, Expired, Position
  <2>3. day = 0 => Of(k) = {}
    BY <1>1, <1>2 DEF LedgerInv, LedgerTypes
  <2>4. \A p \in Of(k) : p.opened <= Date'
    <3>1. CASE day = 0
      BY <2>3, <3>1
    <3>2. CASE day # 0
      BY <1>6, <2>2, <3>2
    <3> QED BY <3>1, <3>2
  <2> QED BY <1>0, <2>1, <2>4 DEF Expired
<1> QED BY <1>8, <1>9, <1>10, <1>11 DEF LedgerInv

(* Between two passes, the positions change hands.                           *)
LEMMA PassStep ==
  ASSUME LedgerInv, PassEnds \/ EntriesEnd \/ UNCHANGED ledgerVars
  PROVE  LedgerInv'
<1>1. PICK k \in Seq(Position), t \in Seq(Position) :
        k = kept /\ t = todo /\ Of(k) \subseteq Position /\ Costs(k) \in Int
  <2>1. PICK k \in Seq(Position), t \in Seq(Position) : k = kept /\ t = todo
    BY DEF LedgerInv, LedgerTypes
  <2> QED BY <2>1, ConcatIs, CostsOfConcat
<1>2. <<>> \in Seq(Position) /\ Of(<<>>) = {} /\ IdsOf(<<>>) = {} /\ Distinct(<<>>)
  BY EmptySeq DEF Of, IdsOf, Distinct
<1>3. UNCHANGED <<strat, day, cash, realized, trades, nextId>>
  BY DEF PassEnds, EntriesEnd, ledgerVars
<1>4. Date' = Date /\ \A x : FirstExp(x)' = FirstExp(x)
  BY <1>3 DEF Date, FirstExp
<1>5. Costs(kept)' = Costs(kept') /\ Costs(todo)' = Costs(todo')
  BY DEF Costs, Total, Cost
<1>6. /\ Of(kept)' = Of(kept') /\ IdsOf(kept)' = IdsOf(kept') /\ (Distinct(kept)' <=> Distinct(kept'))
      /\ Of(todo)' = Of(todo') /\ IdsOf(todo)' = IdsOf(todo') /\ (Distinct(todo)' <=> Distinct(todo'))
  BY DEF Of, IdsOf, Distinct
<1>7. ASSUME UNCHANGED <<todo, kept, spot>>, quote' \in [Exps -> Marks \cup {Unlisted}],
             \/ step' = step
             \/ step = "expiry" /\ step' = "entries" /\ todo = <<>>
             \/ step = "entries" /\ step' = "settled" /\ todo = <<>>
      PROVE  LedgerInv'
  <2>1. LedgerTypes'
    BY <1>3, <1>7 DEF LedgerInv, LedgerTypes
  <2>2. Balanced'
    BY <1>3, <1>5, <1>7 DEF LedgerInv, Balanced
  <2>3. Numbered'
    BY <1>3, <1>6, <1>7 DEF LedgerInv, Numbered
  <2>4. Expired'
    <3>1. \A p \in Of(kept) \cup Of(todo) : p.opened <= Date
      BY DEF LedgerInv, Expired
    <3>2. step' = "expiry" => \A p \in Of(kept) : FirstExp(p) > Date
      BY <1>7 DEF LedgerInv, Expired
    <3>3. step' \in {"entries", "settled"} => \A p \in Of(kept) : p.opened < Date => FirstExp(p) > Date
      BY <1>7 DEF LedgerInv, Expired
    <3> QED BY <1>4, <1>6, <1>7, <3>1, <3>2, <3>3 DEF Expired
  <2> QED BY <2>1, <2>2, <2>3, <2>4 DEF LedgerInv
<1>8. CASE PassEnds /\ step = "exits"
  <2>0. /\ step' = "expiry" /\ todo' = k /\ kept' = <<>> /\ t = <<>>
        /\ UNCHANGED <<quote, spot>>
    BY <1>1, <1>8 DEF PassEnds
  <2>1. LedgerTypes'
    BY <1>2, <1>3, <1>8, <2>0 DEF LedgerInv, LedgerTypes
  <2>2. Balanced'
    <3>1. cash = Capital + realized - (Costs(k) + Costs(<<>>)) /\ Costs(<<>>) \in Int
      <4>1. Costs(<<>>) \in Int
        BY <1>2, CostsOfConcat
      <4> QED BY <1>1, <2>0, <4>1 DEF LedgerInv, Balanced
    <3>2. Costs(k) + Costs(<<>>) = Costs(<<>>) + Costs(k)
      BY <1>1, <3>1
    <3> QED BY <1>3, <1>5, <2>0, <3>1, <3>2 DEF Balanced
  <2>3. Numbered'
    BY <1>1, <1>2, <1>3, <1>6, <2>0 DEF LedgerInv, Numbered
  <2>4. Expired'
    <3>1. \A p \in Of(k) : p.opened <= Date
      BY <1>1 DEF LedgerInv, Expired
    <3> QED BY <1>2, <1>4, <1>6, <2>0, <3>1 DEF Expired
  <2> QED BY <2>1, <2>2, <2>3, <2>4 DEF LedgerInv
<1>9. CASE PassEnds /\ step # "exits"
  <2>1. /\ UNCHANGED <<todo, kept, spot>> /\ quote' \in [Exps -> Marks \cup {Unlisted}]
        /\ step = "expiry" /\ step' = "entries" /\ todo = <<>>
    BY <1>9 DEF PassEnds, LedgerInv, LedgerTypes
  <2> QED BY <1>7, <2>1
<1>10. CASE EntriesEnd
  <2>1. /\ UNCHANGED <<todo, kept, spot>> /\ quote' \in [Exps -> Marks \cup {Unlisted}]
        /\ step = "entries" /\ step' = "settled" /\ todo = <<>>
    BY <1>10 DEF EntriesEnd, LedgerInv, LedgerTypes
  <2> QED BY <1>7, <2>1
<1>11. CASE UNCHANGED ledgerVars
  <2>1. UNCHANGED <<todo, kept, spot>> /\ quote' \in [Exps -> Marks \cup {Unlisted}] /\ step' = step
    BY <1>11 DEF ledgerVars, LedgerInv, LedgerTypes
  <2> QED BY <1>7, <2>1
<1> QED BY <1>8, <1>9, <1>10, <1>11

(* The strengthening holds at the start                                      *)
LEMMA LoopStart == LedgerInit => LedgerInv
<1> SUFFICES ASSUME LedgerInit PROVE LedgerInv
  OBVIOUS
<1>1. <<>> \in Seq(Position) /\ Of(<<>>) = {} /\ IdsOf(<<>>) = {} /\ Distinct(<<>>)
  BY EmptySeq DEF Of, IdsOf, Distinct
<1>2. Costs(<<>>) = 0
  <2>1. [i \in DOMAIN <<>> |-> Cost(<<>>[i])] = <<>>
    BY EmptySeq
  <2> QED BY <2>1, SumOfOne DEF Costs, Total
<1>3. LedgerTypes
  <2>1. Capital \in Int /\ 0 \in 0 .. Len(TradingDays)
    BY Numbers, LedgerAssumption
  <2> QED BY <1>1, <2>1 DEF LedgerInit, LedgerTypes
<1>4. Balanced
  BY <1>2, Numbers DEF LedgerInit, Balanced
<1>5. Numbered
  BY <1>1 DEF LedgerInit, Numbered
<1>6. Expired
  BY <1>1 DEF LedgerInit, Expired
<1> QED BY <1>3, <1>4, <1>5, <1>6 DEF LedgerInv

(* and is inductive.                                                         *)
LEMMA LoopStep == LedgerInv /\ [LedgerNext]_ledgerVars => LedgerInv'
<1>1. ASSUME LedgerInv, [LedgerNext]_ledgerVars PROVE LedgerInv'
  BY <1>1, NewDayStep, VisitStep, PassStep, EnterStep DEF LedgerNext
<1> QED BY <1>1

(* The books balance, every position is open or one trade, and none is held past its expiration. *)
THEOREM LedgerStaysSound == LedgerSpec => []LedgerIsSound
<1>1. LedgerInv => LedgerIsSound
  <2> SUFFICES ASSUME LedgerInv PROVE LedgerIsSound
    OBVIOUS
  <2>1. PICK k \in Seq(Position), t \in Seq(Position), o \in Seq(Position) :
          k = kept /\ t = todo /\ o = k \o t /\ Of(o) = Of(k) \cup Of(t)
    <3>1. PICK k \in Seq(Position), t \in Seq(Position) : k = kept /\ t = todo
      BY DEF LedgerInv, LedgerTypes
    <3>2. k \o t \in Seq(Position) /\ Of(k \o t) = Of(k) \cup Of(t)
      BY ConcatIs
    <3> QED BY <3>1, <3>2
  <2>2. OpenPositions = o
    BY <2>1 DEF OpenPositions
  <2>3. \A i \in DOMAIN o : o[i] \in Position /\ o[i] \in Of(k) \cup Of(t)
    <3>1. \A i \in DOMAIN o : o[i] \in Position
      BY LenProperties
    <3> QED BY <2>1, <3>1 DEF Of
  <2>4. LedgerTypeOK
    BY <2>2, <2>3 DEF LedgerInv, LedgerTypes, LedgerTypeOK, Position
  <2>5. BooksBalance
    <3>1. Costs(o) = Costs(k) + Costs(t)
      BY <2>1, CostsOfConcat
    <3> QED BY <2>1, <2>2, <3>1 DEF LedgerInv, Balanced, BooksBalance, Costs
  <2>6. EveryPositionSettles
    <3>1. {o[i].id : i \in DOMAIN o} = IdsOf(k) \cup IdsOf(t)
      <4>1. IdsOf(o) = IdsOf(k) \cup IdsOf(t)
        BY <2>1 DEF IdsOf
      <4> QED BY <4>1 DEF IdsOf, Of
    <3>2. IdsOf(k) \cup IdsOf(t) \cup trades = 1 .. nextId - 1 /\ (IdsOf(k) \cup IdsOf(t)) \cap trades = {}
      BY <2>1 DEF LedgerInv, Numbered
    <3>3. \A i \in DOMAIN o : o[i].id \notin trades
      BY <3>1, <3>2
    <3>4. step \in {"entries", "settled"} => \A i \in DOMAIN o : o[i].opened < Date => FirstExp(o[i]) > Date
      <4>1. step \in {"entries", "settled"} => t = <<>>
        BY <2>1 DEF LedgerInv, LedgerTypes
      <4>2. Of(<<>>) = {}
        BY DEF Of
      <4> QED BY <2>1, <2>3, <4>1, <4>2 DEF LedgerInv, Expired
    <3> QED BY <2>2, <3>1, <3>2, <3>3, <3>4 DEF EveryPositionSettles
  <2> QED BY <2>4, <2>5, <2>6 DEF LedgerIsSound
<1> QED BY <1>1, LoopStart, LoopStep, PTL DEF LedgerSpec

(* What a position ties up is a number.                                      *)
LEMMA BuyingPowerIs ==
  ASSUME NEW p \in Position
  PROVE  BuyingPower(p) \in Int
<1>1. PICK s \in Seq(Holding) : s = p.holdings
  BY DEF Position
<1>2. p.contracts \in Nat /\ p.openMv \in Int /\ MULT \in Nat /\ Strike \in Nat
  BY Numbers DEF Position
<1> DEFINE f == [i \in DOMAIN s |-> IF s[i].qty < 0 THEN -s[i].qty ELSE 0]
<1>3. Shorts(p) \in Int
  <2>1. \A i \in DOMAIN s : s[i] \in Holding
    BY LenProperties
  <2>2. f = [i \in DOMAIN s |-> f[i]] /\ DOMAIN f = DOMAIN s /\ \A i \in DOMAIN s : f[i] \in Int
    BY <2>1 DEF Holding
  <2>3. Shorts(p) = SumOf(f)
    BY <1>1 DEF Shorts, Total
  <2> HIDE DEF f
  <2> QED BY <2>2, <2>3, HoldingsSum
<1>4. Premium(p) \in Int /\ (Shorts(p) * Strike) \div 5 \in Int
  <2>1. PICK n \in Int : n = Shorts(p) * Strike
    BY <1>2, <1>3
  <2> QED BY <1>2, <2>1 DEF Premium
<1>5. PICK w \in Int : w = IF Naked(p) THEN (Shorts(p) * Strike) \div 5 ELSE Premium(p)
  BY <1>4
<1>6. BuyingPower(p) = p.contracts * MULT * w
  BY <1>5 DEF BuyingPower
<1> QED BY <1>2, <1>6

(* An entry never takes the book past the buying power the strategy allows.  *)
THEOREM LimitStaysKept == LedgerSpec => LimitIsKept
<1> DEFINE Keeps == nextId' # nextId /\ strat.limit =>
                      100 * Total(BuyingPower, kept') <= LimitPct * NetLiq
<1>1. LedgerInv /\ [LedgerNext]_ledgerVars => [Keeps]_ledgerVars
  <2> SUFFICES ASSUME LedgerInv, LedgerNext, nextId' # nextId, strat.limit
               PROVE  100 * Total(BuyingPower, kept') <= LimitPct * NetLiq
    BY DEF ledgerVars
  <2>1. PICK n \in Sizes : Enter(n)
    <3>1. CASE NewDay \/ PassEnds \/ EntriesEnd
      BY <3>1 DEF NewDay, PassEnds, EntriesEnd
    <3>2. CASE VisitExit \/ VisitExpiry
      BY <3>2 DEF VisitExit, VisitExpiry, Close, SettleExpiry, Record, Keep
    <3> QED BY <3>1, <3>2 DEF LedgerNext
  <2>2. PICK p \in Position : p = Opened(n) /\ WithinLimit(p) /\ kept' = Append(kept, p)
    BY <2>1, OpenedIs DEF Enter
  <2>3. PICK k \in Seq(Position) : k = kept
    BY DEF LedgerInv, LedgerTypes
  <2> DEFINE F == [q \in Position |-> BuyingPower(q)]
             T(s) == SumOf([i \in DOMAIN s |-> F[s[i]]])
  <2>4. F \in [Position -> Int]
    BY BuyingPowerIs
  <2>5. ASSUME NEW s \in Seq(Position) PROVE Total(BuyingPower, s) = T(s)
    <3>1. \A i \in DOMAIN s : s[i] \in Position
      BY LenProperties
    <3>2. [i \in DOMAIN s |-> BuyingPower(s[i])] = [i \in DOMAIN s |-> F[s[i]]]
      BY <3>1
    <3> QED BY <3>2 DEF Total
  <2>6. F[p] = BuyingPower(p)
    OBVIOUS
  <2>7. PICK one \in Seq(Position), r \in Seq(Position) : one = <<p>> /\ r = k \o one /\ r = kept'
    <3>0. <<p>> \in Seq(Position)
      OBVIOUS
    <3>1. PICK one \in Seq(Position) : one = <<p>>
      BY <3>0
    <3>2. kept' = k \o one
      BY <2>2, <2>3, <3>1, AppendIsConcat
    <3>3. k \o one \in Seq(Position)
      BY ConcatIs
    <3> QED BY <3>1, <3>2, <3>3
  <2>8. T(k) \in Int /\ T(k \o one) = T(k) + T(one) /\ T(one) = F[p]
    <3> HIDE DEF F
    <3>1. PICK G \in [Position -> Int] : G = F
      BY <2>4
    <3>2. /\ SumOf([i \in DOMAIN k |-> G[k[i]]]) \in Int
          /\ SumOf([i \in DOMAIN (k \o one) |-> G[(k \o one)[i]]])
               = SumOf([i \in DOMAIN k |-> G[k[i]]]) + SumOf([i \in DOMAIN one |-> G[one[i]]])
      BY TotalOfConcat
    <3>3. SumOf([i \in DOMAIN one |-> G[one[i]]]) = G[p]
      BY <2>7, TotalOfOne
    <3> QED BY <3>1, <3>2, <3>3
  <2> HIDE DEF F
  <2>9. Total(BuyingPower, kept') = T(k) + BuyingPower(p)
    BY <2>5, <2>6, <2>7, <2>8
  <2>10. BpUsed = T(k)
    BY <2>3, <2>5 DEF BpUsed
  <2> HIDE DEF T
  <2>11. PICK a \in Int, b \in Int : a = T(k) /\ b = BuyingPower(p)
    BY <2>8, BuyingPowerIs
  <2>12. a * 100 + b * 100 <= LimitPct * NetLiq
    BY <2>2, <2>10, <2>11 DEF WithinLimit
  <2>13. 100 * (a + b) = a * 100 + b * 100
    OBVIOUS
  <2> QED BY <2>9, <2>11, <2>12, <2>13
<1>2. LedgerSpec => []LedgerInv
  BY LoopStart, LoopStep, PTL DEF LedgerSpec
<1>3. LedgerSpec => [][Keeps]_ledgerVars
  BY <1>1, <1>2, PTL DEF LedgerSpec
<1> QED BY <1>3 DEF LimitIsKept

-----------------------------------------------------------------------------
(* The price cache.                                                          *)

(* A chain in memory is one of the runner's own store, with its spot or none. *)
Spots == {<<>>} \cup {Seen(u, n) : u \in Underlyings, n \in Snapshots}
Own == {c \in [day : StoreDays, n : Snapshots, spot : Spots, checked : BOOLEAN] :
          c.n = optRows[runner][c.day] /\ c.spot \in {<<>>, Seen(runner, c.n)}}

(* What the cache holds is of the kind it is read as.                        *)
Shape ==
  /\ phase \in {"idle", "spots", "levels", "days"}
  /\ \A f \in {mem, disk, unsaved} : DOMAIN f = Tables
  /\ mem = [t \in Tables |-> mem[t]] /\ disk = [t \in Tables |-> disk[t]]
  /\ unsaved = [t \in Tables |-> unsaved[t]]
  /\ chains \in Seq(Own)
  /\ phase = "idle" => chains = <<>> /\ unsaved = [t \in Tables |-> {}]
  /\ phase # "idle" => runner \in Underlyings /\ window \subseteq AllDates(runner)

(* What was committed is the last snapshot's.                               *)
DiskIsFinal ==
  \A t \in Tables : \A d \in DOMAIN disk[t], u \in Underlyings :
    optRows[u][d] = Final /\ disk[t][d] = Seen(u, Final)

(* What is in memory is the store's.                                        *)
MemoryIsOwn ==
  phase # "idle" => \A t \in Tables : \A d \in DOMAIN mem[t] :
     d \in StoreDays /\ optRows[runner][d] # 0 /\ mem[t][d] = Seen(runner, optRows[runner][d])

(* What is about to be committed is a number.                               *)
UnsavedIsShown == \A t \in Tables : \A d \in unsaved[t] : d \in DOMAIN mem[t] /\ mem[t][d] # Nan

(* Each pass has asked for the days behind it, and the first one's answers   *)
(* are committed when the next one starts.                                  *)
PassesAreDone ==
  /\ phase = "spots" => window \ ahead \subseteq DOMAIN mem["spot"] /\ unsaved["vix"] = {}
  /\ phase \in {"levels", "days"} => window \subseteq DOMAIN mem["spot"] /\ unsaved["spot"] = {}
  /\ phase = "levels" => (window \ ahead) \ CsvDays \subseteq DOMAIN mem["vix"]
  /\ phase = "days" => window \ CsvDays \subseteq DOMAIN mem["vix"]

(* The strengthening: the properties, and what the code leaves between them. *)
PricesInv ==
  PricesTypeOK /\ Shape /\ DiskIsFinal /\ MemoryIsOwn /\ UnsavedIsShown /\ PassesAreDone

USE DEF Tables

-----------------------------------------------------------------------------
(* A set of days with anything in it has a first one.                        *)
LEMMA NextDay ==
  ASSUME NEW S, S \subseteq StoreDays, S # {}
  PROVE  Smallest(S) \in S
<1>1. S \subseteq Nat
  BY PricesAssumption
<1>2. \E x \in S : \A y \in S : x <= y
  BY <1>1, Least
<1> QED BY <1>2 DEF Smallest

(* What an eviction leaves are chains of the same kind, one fewer.           *)
LEMMA EvictedIs ==
  ASSUME NEW S, NEW s \in Seq(S), Len(s) <= CacheSize + 1
  PROVE  Evicted(s) \in Seq(S) /\ Len(Evicted(s)) <= CacheSize
<1>1. CacheSize \in Nat /\ CacheSize > 0 /\ Len(s) \in Nat
  BY PricesAssumption
<1>2. CASE Len(s) > CacheSize
  <2>1. s # <<>>
    BY <1>1, <1>2
  <2>2. Tail(s) \in Seq(S) /\ Len(Tail(s)) = Len(s) - 1
    BY <2>1
  <2> QED BY <1>1, <1>2, <2>2 DEF Evicted
<1>3. CASE ~(Len(s) > CacheSize)
  BY <1>1, <1>3 DEF Evicted
<1> QED BY <1>2, <1>3

(* So does the removal of the chain that is used again.                      *)
LEMMA RemovedIs ==
  ASSUME NEW S, NEW s \in Seq(S), NEW i \in 1 .. Len(s)
  PROVE  RemoveAt(s, i) \in Seq(S) /\ Len(RemoveAt(s, i)) = Len(s) - 1
<1>1. PICK n \in Nat : n = Len(s)
  OBVIOUS
<1>0. i \in Int /\ 1 <= i /\ i <= n /\ \A k \in 1 .. n : s[k] \in S
  BY <1>1
<1>2. PICK p \in Seq(S) : p = SubSeq(s, 1, i - 1) /\ Len(p) = i - 1
  <2>1. SubSeq(s, 1, i - 1) \in Seq(S) /\ Len(SubSeq(s, 1, i - 1)) = IF 1 <= i - 1 THEN i - 1 - 1 + 1 ELSE 0
    BY <1>0, <1>1, SubSeqProperties
  <2>2. (IF 1 <= i - 1 THEN i - 1 - 1 + 1 ELSE 0) = i - 1
    BY <1>0
  <2> QED BY <2>1, <2>2
<1>3. PICK q \in Seq(S) : q = SubSeq(s, i + 1, Len(s)) /\ Len(q) = n - i
  <2>1. /\ SubSeq(s, i + 1, n) \in Seq(S)
        /\ Len(SubSeq(s, i + 1, n)) = IF i + 1 <= n THEN n - (i + 1) + 1 ELSE 0
    BY <1>0, <1>1, SubSeqProperties
  <2>2. (IF i + 1 <= n THEN n - (i + 1) + 1 ELSE 0) = n - i
    BY <1>0, <1>1
  <2> QED BY <1>1, <2>1, <2>2
<1>4. RemoveAt(s, i) = p \o q
  BY <1>2, <1>3 DEF RemoveAt
<1>5. p \o q \in Seq(S) /\ Len(p \o q) = Len(p) + Len(q)
  OBVIOUS
<1>6. (i - 1) + (n - i) = n - 1
  BY <1>0, <1>1
<1> QED BY <1>1, <1>2, <1>3, <1>4, <1>5, <1>6

(* Using a chain keeps the cache small and the chains the runner's own.     *)
LEMMA UsedIs ==
  ASSUME NEW S, chains \in Seq(S), Len(chains) <= CacheSize, NEW c \in S, Use(c)
  PROVE  chains' \in Seq(S) /\ Len(chains') <= CacheSize
<1> DEFINE others == IF Cached(c.day) THEN RemoveAt(chains, PlaceOf(c.day)) ELSE chains
<1>1. PICK s \in Seq(S) : s = chains
  OBVIOUS
<1>2. others \in Seq(S) /\ Len(others) <= Len(s)
  <2>1. CASE Cached(c.day)
    <3>1. PICK i \in 1 .. Len(s) : i = PlaceOf(c.day)
      BY <1>1, <2>1 DEF Cached, PlaceOf
    <3>2. RemoveAt(s, i) \in Seq(S) /\ Len(RemoveAt(s, i)) = Len(s) - 1
      BY RemovedIs
    <3>3. others = RemoveAt(s, i)
      BY <1>1, <2>1, <3>1
    <3>4. Len(s) \in Nat
      OBVIOUS
    <3> HIDE DEF others
    <3> QED BY <3>2, <3>3, <3>4
  <2>2. CASE ~Cached(c.day)
    BY <1>1, <2>2
  <2> QED BY <2>1, <2>2
<1>3. chains' = Evicted(Append(others, c))
  BY DEF Use
<1> HIDE DEF others
<1>4. PICK o \in Seq(S) : o = others
  BY <1>2
<1>5. Append(o, c) \in Seq(S) /\ Len(Append(o, c)) <= CacheSize + 1
  <2>1. CacheSize \in Nat /\ Len(o) \in Nat /\ Len(s) \in Nat
    BY PricesAssumption
  <2> QED BY <1>1, <1>2, <1>4, <2>1
<1>6. Evicted(Append(o, c)) \in Seq(S) /\ Len(Evicted(Append(o, c))) <= CacheSize
  BY <1>5, EvictedIs
<1> QED BY <1>3, <1>4, <1>6

(* The chain of a day is the store's, and so is the spot computed from it.   *)
LEMMA ChainIs ==
  ASSUME PricesInv, Resync = FALSE, phase # "idle", NEW d \in window
  PROVE  /\ d \in StoreDays /\ optRows[runner][d] \in Snapshots
         /\ ChainOf(d) \in Own /\ ChainOf(d).n = optRows[runner][d]
         /\ WithSpot(ChainOf(d)) \in Own
         /\ WithSpot(ChainOf(d)).spot = Seen(runner, optRows[runner][d])
<1>1. d \in StoreDays /\ runner \in Underlyings /\ optRows[runner][d] \in Snapshots
  BY DEF PricesInv, PricesTypeOK, Shape, AllDates
<1>2. Fresh(d) \in Own /\ Fresh(d).n = optRows[runner][d]
  <2>1. d \in DOMAIN mem["spot"] => mem["spot"][d] = Seen(runner, optRows[runner][d])
    BY DEF PricesInv, MemoryIsOwn
  <2>2. PICK s \in Spots : /\ s = IF d \in DOMAIN mem["spot"] THEN mem["spot"][d] ELSE <<>>
                           /\ s \in {<<>>, Seen(runner, optRows[runner][d])}
    BY <1>1, <2>1 DEF Spots
  <2>3. Fresh(d) = [day |-> d, n |-> optRows[runner][d], spot |-> s, checked |-> FALSE]
    BY <2>2 DEF Fresh
  <2> QED BY <1>1, <2>2, <2>3 DEF Own
<1>3. ChainOf(d) \in Own /\ ChainOf(d).n = optRows[runner][d]
  <2>1. CASE Cached(d)
    <3>1. PICK s \in Seq(Own) : s = chains
      BY DEF PricesInv, Shape
    <3>2. PICK i \in 1 .. Len(s) : i = PlaceOf(d) /\ s[i].day = d
      BY <2>1, <3>1 DEF Cached, PlaceOf
    <3>3. s[i] \in Own /\ ChainOf(d) = s[i]
      BY <2>1, <3>1, <3>2 DEF ChainOf
    <3> QED BY <3>2, <3>3 DEF Own
  <2>2. CASE ~Cached(d)
    BY <1>2, <2>2 DEF ChainOf
  <2> QED BY <2>1, <2>2
<1>4. PICK c \in Own : c = ChainOf(d) /\ c.n = optRows[runner][d]
  BY <1>3
<1>5. WithSpot(c) \in Own /\ WithSpot(c).spot = Seen(runner, optRows[runner][d])
  <2>1. CASE c.spot # <<>>
    BY <1>4, <2>1 DEF WithSpot, Own
  <2>2. CASE c.spot = <<>>
    <3> DEFINE s == Seen(runner, c.n)
               y == [c EXCEPT !.spot = s, !.checked = s # Nan]
    <3>1. WithSpot(c) = y
      BY <2>2 DEF WithSpot
    <3>2. s \in Spots /\ (s # Nan) \in BOOLEAN
      BY <1>1, <1>4 DEF Spots
    <3> HIDE DEF s
    <3>3. y \in [day : StoreDays, n : Snapshots, spot : Spots, checked : BOOLEAN]
      BY <3>2 DEF Own
    <3>4. y.spot = s /\ y.n = c.n /\ y.day = c.day
      BY DEF Own
    <3> HIDE DEF y
    <3>5. y \in Own
      BY <3>3, <3>4 DEF Own, s
    <3> QED BY <1>4, <3>1, <3>4, <3>5 DEF s
  <2> QED BY <2>1, <2>2
<1> QED BY <1>1, <1>3, <1>4, <1>5

(* Remembering what the store shows of a day.                               *)
LEMMA RememberIs ==
  ASSUME PricesInv, phase # "idle", NEW t \in Tables, NEW d \in window, NEW v,
         v = Seen(runner, optRows[runner][d]), Remember(t, d, v),
         UNCHANGED <<optRows, runner, phase, window>>
  PROVE  /\ DOMAIN mem' = Tables /\ mem' = [k \in Tables |-> mem'[k]]
         /\ DOMAIN unsaved' = Tables /\ unsaved' = [k \in Tables |-> unsaved'[k]]
         /\ \A k \in Tables : DOMAIN mem'[k] = DOMAIN mem[k] \cup (IF k = t THEN {d} ELSE {})
         /\ \A k \in Tables \ {t} : unsaved'[k] = unsaved[k]
         /\ MemoryIsOwn' /\ UnsavedIsShown'
<1>1. d \in StoreDays /\ optRows[runner][d] # 0
  BY DEF PricesInv, Shape, AllDates
<1>2. /\ mem = [k \in Tables |-> mem[k]] /\ unsaved = [k \in Tables |-> unsaved[k]]
  BY DEF PricesInv, Shape
<1>3. mem' = [k \in Tables |-> IF k = t THEN [x \in DOMAIN mem[t] \cup {d} |-> IF x = d THEN v ELSE mem[t][x]]
                               ELSE mem[k]]
  BY <1>2 DEF Remember
<1>4. unsaved' = [k \in Tables |-> IF k = t /\ Persists(v) THEN unsaved[k] \cup {d} ELSE unsaved[k]]
  BY <1>2 DEF Remember
<1>5. MemoryIsOwn'
  BY <1>1, <1>3 DEF PricesInv, MemoryIsOwn, Seen
<1>6. UnsavedIsShown'
  <2>1. d \in DOMAIN mem[t] => mem[t][d] = v
    BY DEF PricesInv, MemoryIsOwn
  <2> QED BY <1>3, <1>4, <2>1 DEF PricesInv, UnsavedIsShown, Persists
<1> QED BY <1>3, <1>4, <1>5, <1>6

(* What a run commits is what the store will go on showing.                 *)
LEMMA CommittedIs ==
  ASSUME PricesInv, Resync = FALSE, \A u, v \in Underlyings : u = v, phase # "idle", NEW t \in Tables
  PROVE  /\ DOMAIN Committed(t) \subseteq StoreDays
         /\ \A d \in DOMAIN Committed(t), u \in Underlyings :
              optRows[u][d] = Final /\ Committed(t)[d] = Seen(u, Final)
<1>1. /\ \A d \in DOMAIN disk[t], u \in Underlyings : optRows[u][d] = Final /\ disk[t][d] = Seen(u, Final)
      /\ DOMAIN disk[t] \subseteq StoreDays
  BY DEF PricesInv, DiskIsFinal, PricesTypeOK
<1>2. ASSUME NEW d \in unsaved[t], NEW u \in Underlyings
      PROVE  d \in StoreDays /\ optRows[u][d] = Final /\ mem[t][d] = Seen(u, Final)
  <2>1. runner \in Underlyings /\ u = runner
    BY DEF PricesInv, Shape
  <2>2. d \in DOMAIN mem[t] /\ mem[t][d] # Nan
    BY DEF PricesInv, UnsavedIsShown
  <2>3. d \in StoreDays /\ optRows[runner][d] # 0 /\ mem[t][d] = Seen(runner, optRows[runner][d])
    BY <2>2 DEF PricesInv, MemoryIsOwn
  <2>4. optRows[runner][d] \in 0 .. 2
    BY <2>1, <2>3 DEF PricesInv, PricesTypeOK, Snapshots
  <2>5. optRows[runner][d] # Thin
    BY <2>2, <2>3 DEF Seen
  <2> QED BY <2>1, <2>3, <2>4, <2>5 DEF Thin, Final
<1>3. runner \in Underlyings
  BY DEF PricesInv, Shape
<1>4. ASSUME NEW d \in unsaved[t] PROVE d \in StoreDays
  BY <1>2, <1>3
<1> QED BY <1>1, <1>2, <1>4 DEF Committed

(* The strengthening is inductive for a run on its own underlying.           *)
LEMMA PricesStep ==
  ASSUME PricesInv, Resync = FALSE, \A u, v \in Underlyings : u = v, [PricesNext]_pricesVars
  PROVE  PricesInv'
<1> USE DEF PricesInv
<1>d. StoreDays \subseteq Nat /\ CacheSize \in Nat /\ CacheSize > 0 /\ Snapshots = {1, 2}
  BY PricesAssumption DEF Snapshots
<1>n. chains = <<>> => chains \in Seq(Own)
  OBVIOUS
<1>o. UNCHANGED <<optRows, runner>> => Own' = Own
  BY DEF Own, Seen
<1>1. ASSUME NEW u \in Underlyings, StartRunner(u) PROVE PricesInv'
  <2>1. /\ phase = "idle" /\ phase' = "spots" /\ runner' = u /\ mem' = disk /\ chains' = <<>>
        /\ window' \subseteq AllDates(u) /\ ahead' = window'
        /\ UNCHANGED <<optRows, disk, unsaved>>
    BY <1>1 DEF StartRunner
  <2>2. unsaved = [t \in Tables |-> {}] /\ AllDates(u) \subseteq StoreDays /\ AllDates(u)' = AllDates(u)
    BY <2>1 DEF Shape, AllDates
  <2>3. PricesTypeOK'
    BY <1>d, <2>1, <2>2 DEF PricesTypeOK
  <2>4. Shape'
    BY <2>1, <2>2 DEF Shape
  <2>5. DiskIsFinal'
    BY <2>1 DEF DiskIsFinal
  <2>6. MemoryIsOwn'
    <3>1. \A t \in Tables : \A d \in DOMAIN disk[t] :
            d \in StoreDays /\ optRows[u][d] = Final /\ disk[t][d] = Seen(u, Final)
      BY DEF DiskIsFinal, PricesTypeOK
    <3> QED BY <2>1, <3>1 DEF MemoryIsOwn, Seen, Final
  <2>7. UnsavedIsShown' /\ PassesAreDone'
    BY <2>1, <2>2 DEF UnsavedIsShown, PassesAreDone
  <2> QED BY <2>3, <2>4, <2>5, <2>6, <2>7
<1>2. ASSUME NEW u \in Underlyings, NEW d \in StoreDays, Snapshot(u, d) PROVE PricesInv'
  <2>1. /\ phase = "idle" /\ chains = <<>> /\ optRows[u][d] # Final
        /\ optRows' \in [Underlyings -> [StoreDays -> Snapshots \cup {0}]]
        /\ \A v \in Underlyings, e \in StoreDays : v # u \/ e # d => optRows'[v][e] = optRows[v][e]
        /\ UNCHANGED <<disk, runner, phase, ahead, window, mem, unsaved, chains, runs>>
    BY <1>2, <1>d DEF Snapshot, Shape, PricesTypeOK, Final
  <2>2. \A t \in Tables : \A e \in DOMAIN disk[t], v \in Underlyings : e \in StoreDays /\ e # d
    BY <2>1 DEF DiskIsFinal, PricesTypeOK
  <2>3. DiskIsFinal'
    BY <2>1, <2>2 DEF DiskIsFinal, Seen
  <2>4. PricesTypeOK'
    BY <2>1 DEF PricesTypeOK
  <2>5. Shape'
    BY <2>1 DEF Shape
  <2>6. MemoryIsOwn' /\ UnsavedIsShown' /\ PassesAreDone'
    BY <2>1 DEF MemoryIsOwn, UnsavedIsShown, PassesAreDone
  <2> QED BY <2>3, <2>4, <2>5, <2>6
<1>3. CASE AskSpot
  <2>1. PICK d \in ahead : d = Smallest(ahead)
    BY <1>3, NextDay DEF AskSpot, PricesTypeOK
  <2>2. /\ phase = "spots" /\ d \in window /\ ahead' = ahead \ {d}
        /\ UNCHANGED <<optRows, disk, runner, phase, window, runs>>
    BY <1>3, <2>1 DEF AskSpot, PricesTypeOK
  <2>3. CASE d \in DOMAIN mem["spot"]
    <3>1. UNCHANGED <<mem, unsaved, chains>>
      BY <1>3, <2>1, <2>3 DEF AskSpot
    <3>2. PricesTypeOK' /\ PassesAreDone'
      BY <2>2, <2>3, <3>1 DEF PricesTypeOK, PassesAreDone
    <3>3. Shape'
      BY <1>o, <2>2, <3>1 DEF Shape, AllDates
    <3>4. DiskIsFinal' /\ MemoryIsOwn' /\ UnsavedIsShown'
      BY <2>2, <3>1 DEF DiskIsFinal, MemoryIsOwn, UnsavedIsShown, Seen
    <3> QED BY <3>2, <3>3, <3>4
  <2>4. CASE d \notin DOMAIN mem["spot"]
    <3>1. PICK c \in Own : c = WithSpot(ChainOf(d)) /\ c.spot = Seen(runner, optRows[runner][d])
      BY <2>2, ChainIs
    <3>2. Use(c) /\ Remember("spot", d, c.spot)
      BY <1>3, <2>1, <2>4, <3>1 DEF AskSpot
    <3>3. chains' \in Seq(Own) /\ Len(chains') <= CacheSize
      BY <3>2, UsedIs DEF Shape, PricesTypeOK
    <3>4. PICK v : v = c.spot /\ v = Seen(runner, optRows[runner][d])
      BY <3>1
    <3>5. /\ DOMAIN mem' = Tables /\ mem' = [k \in Tables |-> mem'[k]]
          /\ DOMAIN unsaved' = Tables /\ unsaved' = [k \in Tables |-> unsaved'[k]]
          /\ DOMAIN mem'["spot"] = DOMAIN mem["spot"] \cup {d}
          /\ unsaved'["vix"] = unsaved["vix"]
          /\ MemoryIsOwn' /\ UnsavedIsShown'
      <4>1. Remember("spot", d, v)
        BY <3>2, <3>4
      <4> QED BY <2>2, <3>4, <4>1, RememberIs
    <3>6. PricesTypeOK'
      BY <2>2, <3>3, <3>5 DEF PricesTypeOK, UnsavedIsShown
    <3>7. Shape'
      BY <1>o, <2>2, <3>3, <3>5 DEF Shape, AllDates
    <3>8. DiskIsFinal' /\ PassesAreDone'
      BY <2>2, <3>5 DEF DiskIsFinal, PassesAreDone, Seen
    <3> QED BY <3>5, <3>6, <3>7, <3>8
  <2> QED BY <2>3, <2>4
<1>4. CASE SpotsDone
  <2>1. /\ phase = "spots" /\ ahead = {} /\ phase' = "levels" /\ ahead' = window
        /\ DOMAIN disk' = Tables /\ disk' = [k \in Tables |-> disk'[k]]
        /\ disk'["spot"] = Committed("spot") /\ disk'["vix"] = disk["vix"]
        /\ DOMAIN unsaved' = Tables /\ unsaved' = [k \in Tables |-> unsaved'[k]]
        /\ unsaved'["spot"] = {} /\ unsaved'["vix"] = unsaved["vix"]
        /\ UNCHANGED <<optRows, runner, window, mem, chains, runs>>
    BY <1>4 DEF SpotsDone, Shape
  <2>2. /\ DOMAIN Committed("spot") \subseteq StoreDays
        /\ \A d \in DOMAIN Committed("spot"), u \in Underlyings :
              optRows[u][d] = Final /\ Committed("spot")[d] = Seen(u, Final)
    BY <2>1, CommittedIs
  <2>3. PricesTypeOK'
    BY <2>1, <2>2 DEF PricesTypeOK
  <2>4. Shape'
    BY <1>o, <2>1 DEF Shape, AllDates
  <2>5. DiskIsFinal'
    BY <2>1, <2>2 DEF DiskIsFinal, Seen
  <2>6. MemoryIsOwn' /\ UnsavedIsShown' /\ PassesAreDone'
    BY <2>1 DEF MemoryIsOwn, UnsavedIsShown, PassesAreDone, Seen
  <2> QED BY <2>3, <2>4, <2>5, <2>6
<1>5. CASE AskLevel
  <2>1. PICK d \in ahead : d = Smallest(ahead)
    BY <1>5, NextDay DEF AskLevel, PricesTypeOK
  <2>2. /\ phase = "levels" /\ d \in window /\ ahead' = ahead \ {d}
        /\ UNCHANGED <<optRows, disk, runner, phase, window, runs>>
    BY <1>5, <2>1 DEF AskLevel, PricesTypeOK
  <2>3. CASE d \in CsvDays \cup DOMAIN mem["vix"]
    <3>1. UNCHANGED <<mem, unsaved, chains>>
      BY <1>5, <2>1, <2>3 DEF AskLevel
    <3>2. PricesTypeOK' /\ PassesAreDone'
      BY <2>2, <2>3, <3>1 DEF PricesTypeOK, PassesAreDone
    <3>3. Shape'
      BY <1>o, <2>2, <3>1 DEF Shape, AllDates
    <3>4. DiskIsFinal' /\ MemoryIsOwn' /\ UnsavedIsShown'
      BY <2>2, <3>1 DEF DiskIsFinal, MemoryIsOwn, UnsavedIsShown, Seen
    <3> QED BY <3>2, <3>3, <3>4
  <2>4. CASE d \notin CsvDays \cup DOMAIN mem["vix"]
    <3>1. PICK c \in Own : c = ChainOf(d) /\ c.n = optRows[runner][d]
      BY <2>2, ChainIs
    <3>2. Use(c) /\ Remember("vix", d, Seen(runner, c.n))
      BY <1>5, <2>1, <2>4, <3>1 DEF AskLevel
    <3>3. chains' \in Seq(Own) /\ Len(chains') <= CacheSize
      BY <3>2, UsedIs DEF Shape, PricesTypeOK
    <3>4. PICK v : v = Seen(runner, optRows[runner][d])
      OBVIOUS
    <3>5. /\ DOMAIN mem' = Tables /\ mem' = [k \in Tables |-> mem'[k]]
          /\ DOMAIN unsaved' = Tables /\ unsaved' = [k \in Tables |-> unsaved'[k]]
          /\ DOMAIN mem'["spot"] = DOMAIN mem["spot"] /\ DOMAIN mem'["vix"] = DOMAIN mem["vix"] \cup {d}
          /\ unsaved'["spot"] = unsaved["spot"]
          /\ MemoryIsOwn' /\ UnsavedIsShown'
      <4>1. Remember("vix", d, v)
        BY <3>1, <3>2, <3>4
      <4>2. /\ \A k \in Tables : DOMAIN mem'[k] = DOMAIN mem[k] \cup (IF k = "vix" THEN {d} ELSE {})
            /\ \A k \in Tables \ {"vix"} : unsaved'[k] = unsaved[k]
        BY <2>2, <3>4, <4>1, RememberIs
      <4> QED BY <2>2, <3>4, <4>1, <4>2, RememberIs
    <3>6. PricesTypeOK'
      BY <2>2, <3>3, <3>5 DEF PricesTypeOK, UnsavedIsShown
    <3>7. Shape'
      BY <1>o, <2>2, <3>3, <3>5 DEF Shape, AllDates
    <3>8. DiskIsFinal' /\ PassesAreDone'
      BY <2>2, <3>5 DEF DiskIsFinal, PassesAreDone, Seen
    <3> QED BY <3>5, <3>6, <3>7, <3>8
  <2> QED BY <2>3, <2>4
<1>6. CASE LevelsDone
  <2>1. /\ phase = "levels" /\ phase' = "days" /\ ahead = {} /\ ahead' = window
        /\ UNCHANGED <<optRows, disk, runner, window, mem, unsaved, chains, runs>>
    BY <1>6 DEF LevelsDone
  <2>2. PricesTypeOK' /\ PassesAreDone'
    BY <2>1 DEF PricesTypeOK, PassesAreDone
  <2>3. Shape'
    BY <1>o, <2>1 DEF Shape, AllDates
  <2>4. DiskIsFinal' /\ MemoryIsOwn' /\ UnsavedIsShown'
    BY <2>1 DEF DiskIsFinal, MemoryIsOwn, UnsavedIsShown, Seen
  <2> QED BY <2>2, <2>3, <2>4
<1>7. CASE TradeDay
  <2>1. PICK d \in ahead : d = Smallest(ahead)
    BY <1>7, NextDay DEF TradeDay, PricesTypeOK
  <2>2. /\ phase = "days" /\ d \in window /\ ahead' = ahead \ {d} /\ Use(ChainOf(d))
        /\ UNCHANGED <<optRows, disk, runner, phase, window, mem, unsaved, runs>>
    BY <1>7, <2>1 DEF TradeDay, PricesTypeOK
  <2>3. PICK c \in Own : c = ChainOf(d)
    BY <2>2, ChainIs
  <2>4. chains' \in Seq(Own) /\ Len(chains') <= CacheSize
    BY <2>2, <2>3, UsedIs DEF Shape, PricesTypeOK
  <2>5. PricesTypeOK' /\ PassesAreDone'
    BY <2>2, <2>4 DEF PricesTypeOK, PassesAreDone
  <2>6. Shape'
    BY <1>o, <2>2, <2>4 DEF Shape, AllDates
  <2>7. DiskIsFinal' /\ MemoryIsOwn' /\ UnsavedIsShown'
    BY <2>2 DEF DiskIsFinal, MemoryIsOwn, UnsavedIsShown, Seen
  <2> QED BY <2>5, <2>6, <2>7
<1>8. CASE RunDone
  <2>1. /\ phase = "days" /\ ahead = {} /\ disk' = [t \in Tables |-> Committed(t)]
        /\ unsaved' = [t \in Tables |-> {}] /\ optRows' = optRows
    BY <1>8 DEF RunDone
  <2>2. \A t \in Tables : /\ DOMAIN Committed(t) \subseteq StoreDays
                          /\ \A d \in DOMAIN Committed(t), u \in Underlyings :
                               optRows[u][d] = Final /\ Committed(t)[d] = Seen(u, Final)
    BY <2>1, CommittedIs
  <2>3. DiskIsFinal'
    BY <2>1, <2>2 DEF DiskIsFinal, Seen
  <2>4. CASE phase' = "idle" /\ window' = {} /\ ahead' = {} /\ chains' = <<>> /\ mem' = [t \in Tables |-> Nothing]
    <3>1. PricesTypeOK' /\ Shape'
      BY <1>d, <2>1, <2>2, <2>4 DEF PricesTypeOK, Shape
    <3>2. MemoryIsOwn' /\ UnsavedIsShown' /\ PassesAreDone'
      BY <2>1, <2>4 DEF MemoryIsOwn, UnsavedIsShown, PassesAreDone
    <3> QED BY <2>3, <3>1, <3>2
  <2>5. CASE /\ phase' = "spots" /\ window' \subseteq AllDates(runner) /\ ahead' = window'
             /\ UNCHANGED <<runner, mem, chains>>
    <3>1. AllDates(runner) \subseteq StoreDays
      BY DEF AllDates
    <3>2. PricesTypeOK'
      BY <2>1, <2>2, <2>5, <3>1 DEF PricesTypeOK
    <3>3. Shape'
      BY <1>o, <2>1, <2>5 DEF Shape, AllDates
    <3>4. MemoryIsOwn' /\ UnsavedIsShown' /\ PassesAreDone'
      BY <2>1, <2>5 DEF MemoryIsOwn, UnsavedIsShown, PassesAreDone, Seen
    <3> QED BY <2>3, <3>2, <3>3, <3>4
  <2> QED BY <1>8, <2>4, <2>5 DEF RunDone
<1>9. CASE RunnerDies
  <2>1. /\ phase' = "idle" /\ window' = {} /\ ahead' = {} /\ chains' = <<>>
        /\ mem' = [t \in Tables |-> Nothing] /\ unsaved' = [t \in Tables |-> {}]
        /\ UNCHANGED <<optRows, disk, runs>>
    BY <1>9 DEF RunnerDies
  <2>2. PricesTypeOK' /\ Shape'
    BY <1>d, <2>1 DEF PricesTypeOK, Shape
  <2>3. DiskIsFinal' /\ MemoryIsOwn' /\ UnsavedIsShown' /\ PassesAreDone'
    BY <2>1 DEF DiskIsFinal, MemoryIsOwn, UnsavedIsShown, PassesAreDone, Seen
  <2> QED BY <2>2, <2>3
<1>10. CASE UNCHANGED pricesVars
  <2>1. PricesTypeOK' /\ PassesAreDone'
    BY <1>10 DEF PricesTypeOK, PassesAreDone, pricesVars
  <2>2. Shape'
    BY <1>o, <1>10 DEF Shape, AllDates, pricesVars
  <2>3. DiskIsFinal' /\ MemoryIsOwn' /\ UnsavedIsShown'
    BY <1>10 DEF DiskIsFinal, MemoryIsOwn, UnsavedIsShown, Seen, pricesVars
  <2> QED BY <2>1, <2>2, <2>3
<1> QED BY <1>1, <1>2, <1>3, <1>4, <1>5, <1>6, <1>7, <1>8, <1>9, <1>10 DEF PricesNext

(* bt/data.py, bt/vix.py: where the cache serves one underlying, and no day  *)
(* is recorded again after its last snapshot, a run computes with its own    *)
(* store's prices, whatever runs and deaths went before.                     *)
THEOREM CacheServesItsRun ==
  ASSUME Resync = FALSE, \A u, v \in Underlyings : u = v
  PROVE  PricesSpec => []CacheIsSound
<1>1. PricesInit => PricesInv
  <2> SUFFICES ASSUME PricesInit PROVE PricesInv
    OBVIOUS
  <2>1. CacheSize \in Nat /\ CacheSize > 0
    BY PricesAssumption
  <2>2. PricesTypeOK /\ Shape
    BY <2>1 DEF PricesInit, PricesTypeOK, Shape, Nothing
  <2>3. DiskIsFinal /\ MemoryIsOwn /\ UnsavedIsShown /\ PassesAreDone
    BY DEF PricesInit, DiskIsFinal, MemoryIsOwn, UnsavedIsShown, PassesAreDone, Nothing
  <2> QED BY <2>2, <2>3 DEF PricesInv
<1>2. PricesInv /\ [PricesNext]_pricesVars => PricesInv'
  BY PricesStep
<1>3. PricesInv => CacheIsSound
  BY DEF PricesInv, CacheIsSound, PricesAreOwn, OneTransaction, PassesAreDone, MemoryIsOwn, Shape
<1> QED BY <1>1, <1>2, <1>3, PTL DEF PricesSpec
(* What is known of a strategy that was loaded: every rule compiled at its   *)
(* place, and the legs and exits are what the document says.                 *)
RulesInv ==
  /\ raw \in Documents
  /\ loaded = "loaded" => /\ \A p \in RulePlaces : Given(p) => Compiles(raw.rule[p], Allowed(p))
                          /\ legs = Inherited /\ exits = ExitRules
  /\ verdict.fate = "RuleError" => verdict.place # "exit" /\ "dte_of" \in raw.rule[verdict.place].calls

SugarRule == [names |-> POSITION_VARS, calls |-> {}, keywords |-> FALSE]

(* _parse_exits: the exits are the document's and the shorthand, a higher    *)
(* priority first.                                                           *)
LEMMA ExitsAre ==
  ASSUME raw \in Documents
  PROVE  /\ \A i \in DOMAIN ExitRules : ExitRules[i].rule = SugarRule \/ (Given("exit") /\ ExitRules[i].rule = raw.rule["exit"])
         /\ \A i, j \in DOMAIN ExitRules : i < j => ExitRules[i].priority >= ExitRules[j].priority
<1>1. PICK doc : doc = raw.rule["exit"]
  OBVIOUS
<1>2. PICK p1 \in 0 .. 1, p2 \in 0 .. 1 : p1 = raw.priorities[1] /\ p2 = raw.priorities[2]
  BY DEF Documents
<1>3. PICK mine : mine = {r \in {SugarRule, doc} : r = doc => Given("exit") \/ doc = SugarRule}
  OBVIOUS
<1>4. PICK X : X = [rule : mine, priority : 0 .. 1]
  OBVIOUS
<1>5. SugarRule \in mine /\ (Given("exit") => doc \in mine)
  BY <1>3
<1>6. PICK listed : listed = IF Given("exit") THEN <<[rule |-> doc, priority |-> p1], [rule |-> doc, priority |-> p2]>> ELSE <<>>
  OBVIOUS
<1>7. listed \in Seq(X)
  <2>1. CASE Given("exit")
    <3>1. PICK a, b : a = [rule |-> doc, priority |-> p1] /\ b = [rule |-> doc, priority |-> p2]
      OBVIOUS
    <3>2. a \in X /\ b \in X
      BY <1>2, <1>4, <1>5, <2>1, <3>1
    <3> QED BY <1>6, <2>1, <3>1, <3>2
  <2>2. CASE ~Given("exit")
    BY <1>6, <2>2
  <2> QED BY <2>1, <2>2
<1>8. PICK all : all = IF raw.shorthand THEN <<[rule |-> SugarRule, priority |-> 0]>> \o listed ELSE listed
  OBVIOUS
<1>9. all \in Seq(X)
  <2>1. <<[rule |-> SugarRule, priority |-> 0]>> \in Seq(X)
    BY <1>4, <1>5
  <2> QED BY <1>7, <1>8, <2>1
<1>10. PICK first, last : /\ first = Only(all, {e \in ToSet(all) : e.priority = 1})
                          /\ last = Only(all, {e \in ToSet(all) : e.priority = 0})
  OBVIOUS
<1>11. ExitRules = first \o last
  BY <1>1, <1>2, <1>6, <1>8, <1>10 DEF ExitRules, SugarRule
<1>12. first \in Seq(X) /\ \A i \in 1 .. Len(first) : first[i].priority = 1
  <2>1. PICK S : S = {e \in ToSet(all) : e.priority = 1}
    OBVIOUS
  <2>2. Only(all, S) \in Seq(X) /\ \A i \in 1 .. Len(Only(all, S)) : Only(all, S)[i] \in S
    BY <1>9, OnlyIs
  <2> QED BY <1>10, <2>1, <2>2
<1>13. last \in Seq(X) /\ \A i \in 1 .. Len(last) : last[i].priority = 0
  <2>1. PICK S : S = {e \in ToSet(all) : e.priority = 0}
    OBVIOUS
  <2>2. Only(all, S) \in Seq(X) /\ \A i \in 1 .. Len(Only(all, S)) : Only(all, S)[i] \in S
    BY <1>9, OnlyIs
  <2> QED BY <1>10, <2>1, <2>2
<1>14. PICK both : both = first \o last
  OBVIOUS
<1>15. both \in Seq(X) /\ DOMAIN both = 1 .. Len(first) + Len(last)
  BY <1>12, <1>13, <1>14
<1>16. \A i \in DOMAIN both : IF i <= Len(first) THEN both[i].priority = 1 ELSE both[i].priority = 0
  BY <1>12, <1>13, <1>14
<1>17. \A i, j \in DOMAIN both : i < j => both[i].priority >= both[j].priority
  BY <1>12, <1>15, <1>16
<1>18. \A i \in DOMAIN both : both[i].rule = SugarRule \/ (Given("exit") /\ both[i].rule = doc)
  <2>1. \A i \in DOMAIN both : both[i].rule \in mine
    <3>1. \A i \in DOMAIN both : both[i] \in X
      BY <1>15
    <3>2. \A x \in X : x.rule \in mine
      BY <1>4
    <3> QED BY <3>1, <3>2
  <2> QED BY <1>3, <2>1
<1> QED BY <1>1, <1>11, <1>14, <1>17, <1>18

(* What the loader allows at a place is what the engine supplies there.      *)
LEMMA AllowedIsSupplied ==
  ASSUME NEW place \in RulePlaces, NEW r, Compiles(r, Allowed(place))
  PROVE  Fate(r, Env(place)) = "RuleError" => place # "exit" /\ "dte_of" \in r.calls
<1>1. r.names \subseteq Env(place) \cup CONSTANT_NAMES
  BY DEF Compiles, Allowed, Env, MarketEnv, PositionEnv, EXIT_NAMES, ENTRY_NAMES
<1>2. r.calls \subseteq FUNCTIONS \cup SERIES \cup {"dte_of"} /\ SERIES \subseteq Env(place)
  BY DEF Compiles, CONTEXT_FUNCTIONS, Env, MarketEnv
<1>3. place = "exit" => "dte_of" \in Env(place)
  BY DEF Env, PositionEnv
<1> QED BY <1>1, <1>2, <1>3 DEF Fate

LEMMA RulesBegin == RulesInit => RulesInv
  BY DEF RulesInit, RulesInv

LEMMA RulesStep == RulesInv /\ [RulesNext]_rulesVars => RulesInv'
<1> SUFFICES ASSUME RulesInv, [RulesNext]_rulesVars PROVE RulesInv'
  OBVIOUS
<1>1. CASE Load
  <2>1. raw' = raw /\ verdict' = verdict
    BY <1>1 DEF Load
  <2>2. loaded' = "loaded" =>
          /\ \A p \in RulePlaces : Given(p) => Compiles(raw.rule[p], Allowed(p))
          /\ legs' = Inherited /\ exits' = ExitRules
    BY <1>1 DEF Load
  <2>3. Inherited' = Inherited /\ ExitRules' = ExitRules
    BY <2>1 DEF Inherited, ExitRules, Given
  <2>4. \A p \in RulePlaces : (Given(p) <=> Given(p)') /\ (Compiles(raw.rule[p], Allowed(p)) <=> Compiles(raw.rule[p], Allowed(p))')
    BY <2>1 DEF Given, Compiles, Allowed
  <2> QED BY <2>1, <2>2, <2>3, <2>4 DEF RulesInv
<1>2. ASSUME NEW place \in RulePlaces, Evaluate(place) PROVE RulesInv'
  <2>1. UNCHANGED <<raw, loaded, legs, exits>> /\ loaded = "loaded"
    BY <1>2 DEF Evaluate
  <2>2. verdict'.fate = "RuleError" => verdict'.place # "exit" /\ "dte_of" \in raw.rule[verdict'.place].calls
    <3>1. CASE place = "exit"
      <4>1. PICK e \in ToSet(exits) : verdict' = [place |-> place, fate |-> Fate(e.rule, Env("exit"))]
        BY <1>2, <3>1 DEF Evaluate
      <4>2. raw \in Documents /\ exits = ExitRules
        BY <2>1 DEF RulesInv
      <4>3. e.rule = SugarRule \/ (Given("exit") /\ e.rule = raw.rule["exit"])
        BY <4>2, ExitsAre DEF ToSet
      <4>4. Compiles(e.rule, Allowed("exit"))
        <5>1. Compiles(SugarRule, Allowed("exit"))
          BY DEF SugarRule, Compiles, Allowed, EXIT_NAMES
        <5>2. Given("exit") => Compiles(raw.rule["exit"], Allowed("exit"))
          BY <2>1 DEF RulesInv, RulePlaces
        <5> QED BY <4>3, <5>1, <5>2
      <4>5. Fate(e.rule, Env("exit")) # "RuleError"
        <5>1. "exit" \in RulePlaces
          BY DEF RulePlaces
        <5> QED BY <4>4, <5>1, AllowedIsSupplied
      <4> QED BY <3>1, <4>1, <4>5
    <3>2. CASE place # "exit"
      <4>1. Given(place) /\ verdict' = [place |-> place, fate |-> Fate(raw.rule[place], Env(place))]
        BY <1>2, <3>2 DEF Evaluate
      <4>2. Compiles(raw.rule[place], Allowed(place))
        BY <2>1, <4>1 DEF RulesInv
      <4>3. PICK r : r = raw.rule[place]
        OBVIOUS
      <4>4. Fate(r, Env(place)) = "RuleError" => "dte_of" \in r.calls
        BY <4>2, <4>3, AllowedIsSupplied
      <4> QED BY <3>2, <4>1, <4>3, <4>4
    <3> QED BY <3>1, <3>2
  <2>3. Inherited' = Inherited /\ ExitRules' = ExitRules
    BY <2>1 DEF Inherited, ExitRules, Given
  <2>4. \A p \in RulePlaces : (Given(p) <=> Given(p)') /\ (Compiles(raw.rule[p], Allowed(p)) <=> Compiles(raw.rule[p], Allowed(p))')
    BY <2>1 DEF Given, Compiles, Allowed
  <2> QED BY <2>1, <2>2, <2>3, <2>4 DEF RulesInv
<1>3. CASE UNCHANGED rulesVars
  <2>1. Inherited' = Inherited /\ ExitRules' = ExitRules
    BY <1>3 DEF Inherited, ExitRules, Given, rulesVars
  <2>2. \A p \in RulePlaces : (Given(p) <=> Given(p)') /\ (Compiles(raw.rule[p], Allowed(p)) <=> Compiles(raw.rule[p], Allowed(p))')
    BY <1>3 DEF Given, Compiles, Allowed, rulesVars
  <2> QED BY <1>3, <2>1, <2>2 DEF RulesInv, rulesVars
<1> QED BY <1>1, <1>2, <1>3 DEF RulesNext

LEMMA RulesFollow == RulesInv => LoadedRulesResolve
<1> SUFFICES ASSUME RulesInv, loaded = "loaded" PROVE LoadedRulesResolve
  BY DEF LoadedRulesResolve
<1>1. raw \in Documents /\ exits = ExitRules /\ legs = Inherited
  BY DEF RulesInv
<1>2. \A i, j \in DOMAIN exits : i < j => exits[i].priority >= exits[j].priority
  BY <1>1, ExitsAre
<1>3. (\E i \in DOMAIN legs : legs[i] = "nothing") => \A i \in DOMAIN legs : legs[i] # "own"
  BY <1>1 DEF Inherited
<1> QED BY <1>2, <1>3 DEF LoadedRulesResolve, RulesInv

(* A strategy that loads runs its rules: at every place each of them has     *)
(* what it names, but dte_of, which only exits are given; the exits are      *)
(* tested by priority, and no leg is left without a tenor that could have    *)
(* one.                                                                      *)
THEOREM LoadedRulesAreSupplied == RulesInit /\ [][RulesNext]_rulesVars => []LoadedRulesResolve
  BY RulesBegin, RulesStep, RulesFollow, PTL

(* A quotient and a remainder are the only ones.                             *)
LEMMA DivisionIs ==
  ASSUME NEW b \in Nat \ {0}, NEW q \in Nat, NEW r \in 0 .. b - 1
  PROVE  (q * b + r) \div b = q /\ (q * b + r) % b = r /\ q * b + r \in Nat
<1>1. PICK a \in Nat : a = q * b + r
  <2>1. q * b \in Nat
    OBVIOUS
  <2> QED BY <2>1
<1>2. PICK d \in Nat, m \in 0 .. b - 1 : d = a \div b /\ m = a % b /\ a = d * b + m
  <2>1. a \div b \in Nat /\ a % b \in 0 .. b - 1 /\ a = (a \div b) * b + (a % b)
    BY <1>1, SMTT(30)
  <2> QED BY <2>1
<1>3. ~(d < q)
  <2> SUFFICES ASSUME d < q PROVE FALSE
    OBVIOUS
  <2>1. d + 1 <= q
    OBVIOUS
  <2>2. PICK e \in Nat : q = d + 1 + e
    BY <2>1
  <2>3. e * b \in Nat
    OBVIOUS
  <2>4. q * b = d * b + b + e * b
    BY <2>2
  <2> QED BY <1>1, <1>2, <2>3, <2>4
<1>4. ~(q < d)
  <2> SUFFICES ASSUME q < d PROVE FALSE
    OBVIOUS
  <2>1. PICK e \in Nat : d = q + 1 + e
    <3>1. d - q - 1 \in Nat /\ d = q + 1 + (d - q - 1)
      OBVIOUS
    <3> QED BY <3>1
  <2>3. e * b \in Nat
    OBVIOUS
  <2>4. d * b = q * b + b + e * b
    BY <2>1
  <2> QED BY <1>1, <1>2, <2>3, <2>4
<1>5. d = q
  BY <1>3, <1>4
<1> QED BY <1>1, <1>2, <1>5

LEMMA SmallRemainder ==
  ASSUME NEW b \in Nat \ {0}, NEW a \in Nat, a < b
  PROVE  a % b = a
<1>1. a \in 0 .. b - 1
  OBVIOUS
<1>2. (0 * b + a) % b = a
  BY <1>1, DivisionIs
<1>3. 0 * b + a = a
  OBVIOUS
<1> QED BY <1>2, <1>3

LEMMA DivisionGives ==
  ASSUME NEW b \in Nat \ {0}, NEW a \in Nat
  PROVE  \E q \in Nat, r \in 0 .. b - 1 : a = q * b + r /\ q = a \div b /\ r = a % b
<1>1. a \div b \in Nat /\ a % b \in 0 .. b - 1 /\ a = (a \div b) * b + (a % b)
  BY SMTT(30)
<1> QED BY <1>1

LEMMA ProductsCommute ==
  ASSUME NEW e \in Nat, NEW q \in Nat, NEW v \in Nat, NEW a \in Nat
  PROVE  e * (q * (v * a)) = (e * q) * a * v
BY SMTT(30)

LEMMA SumsDistribute ==
  ASSUME NEW x \in Nat, NEW u \in Nat, NEW s \in Nat, NEW v \in Nat, NEW a \in Nat, NEW r \in Nat
  PROVE  x * a * v + (u * a + s) * v + r = ((x + u) * a + s) * v + r
BY SMTT(30)

(* The weights of the digits of a number of several bases:                   *)
AreWeights(W, L, n) ==
  /\ n \in Nat /\ L \in [1 .. n -> Nat \ {0}] /\ W \in [0 .. n -> Nat \ {0}]
  /\ W[n] = 1 /\ \A k \in 1 .. n : W[k - 1] = W[k] * L[k]
Digit(W, L, i, k) == (i \div W[k]) % L[k]

LEMMA WeightsAre ==
  ASSUME NEW n, NEW W, NEW L, AreWeights(W, L, n), NEW k \in 1 .. n
  PROVE  /\ W[k - 1] = W[k] * L[k]
         /\ W[k] \in Nat \ {0} /\ L[k] \in Nat \ {0} /\ W[k - 1] \in Nat \ {0}
<1>1. n \in Nat /\ k \in 0 .. n /\ k - 1 \in 0 .. n
  BY DEF AreWeights
<1>2. W[k] \in Nat \ {0} /\ W[k - 1] \in Nat \ {0}
  BY <1>1 DEF AreWeights
<1>3. L[k] \in Nat \ {0}
  BY DEF AreWeights
<1>4. W[k - 1] = W[k] * L[k]
  BY Zenon DEF AreWeights
<1> QED BY <1>2, <1>3, <1>4

(* a weight divides those before it,                                         *)
LEMMA WeightsDivide ==
  ASSUME NEW n, NEW W, NEW L, AreWeights(W, L, n), NEW k \in 1 .. n
  PROVE  \A m \in 0 .. k - 1 : \E q \in Nat : W[m] = q * W[k - 1]
<1> DEFINE bad == {x \in 0 .. k - 1 : ~\E q \in Nat : W[k - 1 - x] = q * W[k - 1]}
<1>0. n \in Nat /\ k \in Nat /\ k >= 1
  BY DEF AreWeights
<1>1. bad = {}
  <2> SUFFICES ASSUME bad # {} PROVE FALSE
    OBVIOUS
  <2>1. PICK x \in bad : \A o \in bad : x <= o
    <3>1. bad \subseteq Nat
      BY <1>0
    <3> HIDE DEF bad
    <3> QED BY <3>1, Least
  <2>2. x # 0
    <3> SUFFICES ASSUME x = 0 PROVE FALSE
      OBVIOUS
    <3>1. k - 1 - 0 = k - 1 /\ k - 1 \in 0 .. n
      BY <1>0
    <3>2. W[k - 1] \in Nat
      BY <3>1 DEF AreWeights
    <3>3. W[k - 1] = 1 * W[k - 1]
      BY <3>2
    <3> QED BY <2>1, <3>1, <3>3
  <2>3. x - 1 \in 0 .. k - 1 /\ ~(x <= x - 1)
    BY <1>0, <2>1, <2>2
  <2>4. PICK q \in Nat : W[k - 1 - (x - 1)] = q * W[k - 1]
    BY <2>1, <2>3
  <2>5. PICK j \in 1 .. n : j = k - x
    BY <1>0, <2>1, <2>2
  <2>6. k - 1 - (x - 1) = j /\ k - 1 - x = j - 1
    BY <1>0, <2>1, <2>5
  <2>7. W[j - 1] = W[j] * L[j] /\ W[j] \in Nat /\ L[j] \in Nat
    BY <2>5, WeightsAre
  <2>8. PICK w \in Nat : w = W[k - 1]
    BY WeightsAre
  <2>9. PICK l \in Nat : l = L[j]
    BY <2>7
  <2>10. W[j - 1] = (q * l) * w /\ q * l \in Nat
    BY <2>4, <2>6, <2>7, <2>8, <2>9
  <2> QED BY <2>1, <2>6, <2>8, <2>10
<1>2. ASSUME NEW m \in 0 .. k - 1 PROVE \E q \in Nat : W[m] = q * W[k - 1]
  <2>1. k - 1 - m \in 0 .. k - 1 /\ k - 1 - (k - 1 - m) = m
    BY <1>0
  <2>2. k - 1 - m \notin bad
    BY <1>1
  <2> HIDE DEF AreWeights
  <2> QED BY <2>1, <2>2
<1> QED BY <1>2

(* every sequence of digits is some number's,                                *)
LEMMA DigitsAreSomeones ==
  ASSUME NEW n, NEW W, NEW L, AreWeights(W, L, n),
         NEW d \in [1 .. n -> Nat], \A k \in 1 .. n : d[k] < L[k]
  PROVE  \E i \in Nat : i < W[0] /\ \A k \in 1 .. n : Digit(W, L, i, k) = d[k]
<1> DEFINE Good(x, i) == i \in Nat /\ i < W[n - x] /\ \A k \in n - x + 1 .. n : Digit(W, L, i, k) = d[k]
           bad == {x \in 0 .. n : ~\E i : Good(x, i)}
<1>0. n \in Nat
  BY DEF AreWeights
<1>1. bad = {}
  <2> SUFFICES ASSUME bad # {} PROVE FALSE
    OBVIOUS
  <2>1. PICK x \in bad : \A o \in bad : x <= o
    <3>1. bad \subseteq Nat
      BY <1>0
    <3> HIDE DEF bad
    <3> QED BY <3>1, Least
  <2>2. x # 0
    <3> SUFFICES ASSUME x = 0 PROVE FALSE
      OBVIOUS
    <3>1. W[n - 0] = 1 /\ n - 0 = n
      BY <1>0 DEF AreWeights
    <3>2. Good(0, 0)
      BY <1>0, <3>1
    <3> HIDE DEF Good
    <3> QED BY <2>1, <3>2
  <2>3. x - 1 \in 0 .. n /\ ~(x <= x - 1)
    BY <1>0, <2>1, <2>2
  <2>4. PICK j : Good(x - 1, j)
    <3> HIDE DEF Good
    <3> QED BY <2>1, <2>3
  <2>5. PICK m \in 1 .. n : m = n - x + 1
    BY <1>0, <2>1, <2>2
  <2>6. n - (x - 1) = m /\ n - x = m - 1 /\ n - (x - 1) + 1 = m + 1 /\ n - x + 1 = m
    BY <1>0, <2>1, <2>5
  <2>7. j \in Nat /\ j < W[m] /\ \A k \in m + 1 .. n : Digit(W, L, j, k) = d[k]
    BY <2>4, <2>6
  <2>8. PICK w \in Nat \ {0}, l \in Nat \ {0}, e \in Nat : w = W[m] /\ l = L[m] /\ e = d[m] /\ e < l
    BY <2>5, WeightsAre
  <2>9. PICK i \in Nat : i = e * w + j
    <3>1. e * w \in Nat
      OBVIOUS
    <3> QED BY <2>7, <3>1
  <2>10. W[m - 1] = w * l
    BY <2>5, <2>8, WeightsAre
  <2>11. i < w * l
    <3>1. PICK f \in Nat : l = e + 1 + f
      <4>1. l - e - 1 \in Nat /\ l = e + 1 + (l - e - 1)
        BY <2>8
      <4> QED BY <4>1
    <3>2. w * l = e * w + w + f * w /\ f * w \in Nat
      BY <3>1
    <3>3. PICK p \in Nat, ew \in Nat, fw \in Nat : p = w * l /\ ew = e * w /\ fw = f * w
      <4>1. w * l \in Nat /\ e * w \in Nat
        OBVIOUS
      <4> QED BY <3>2, <4>1
    <3>4. p = ew + w + fw /\ i = ew + j /\ j < w /\ j \in Nat
      BY <2>7, <2>8, <2>9, <3>2, <3>3
    <3>5. i < p
      BY <3>4
    <3> QED BY <3>3, <3>5
  <2>12. Digit(W, L, i, m) = d[m]
    <3>1. j \in 0 .. w - 1
      BY <2>7, <2>8
    <3>2. i \div w = e
      BY <2>9, <3>1, DivisionIs
    <3>3. e % l = e
      BY <2>8, SmallRemainder
    <3> QED BY <2>8, <3>2, <3>3 DEF Digit
  <2>13. ASSUME NEW k \in m + 1 .. n PROVE Digit(W, L, i, k) = d[k]
    <3>1. k \in 1 .. n /\ m \in 0 .. k - 1 /\ k \in 0 .. n
      BY <1>0, <2>5
    <3>2. PICK q \in Nat : W[m] = q * W[k - 1]
      BY <3>1, WeightsDivide
    <3>3. PICK v \in Nat \ {0}, a \in Nat \ {0} : v = W[k] /\ a = L[k]
      BY <3>1, WeightsAre
    <3>4. W[k - 1] = v * a
      BY <3>1, <3>3, WeightsAre
    <3>5. PICK t \in Nat, r \in 0 .. v - 1 : j = t * v + r /\ t = j \div v
      BY <2>7, DivisionGives
    <3>6. PICK u \in Nat, s \in 0 .. a - 1 : t = u * a + s /\ s = t % a
      BY DivisionGives
    <3>8. PICK c \in Nat : c = e * q + u
      <4>1. e * q \in Nat
        OBVIOUS
      <4> QED BY <4>1
    <3>7. i = (c * a + s) * v + r
      <4>1. w = q * (v * a)
        BY <2>8, <3>2, <3>4
      <4>2. e * (q * (v * a)) = (e * q) * a * v
        BY ProductsCommute
      <4>3. i = (e * q) * a * v + (u * a + s) * v + r
        <5>1. e * w = (e * q) * a * v
          BY <4>1, <4>2
        <5>2. PICK g \in Nat, h \in Nat : g = e * w /\ h = (u * a + s) * v
          <6>1. e * w \in Nat /\ (u * a + s) * v \in Nat
            OBVIOUS
          <6> QED BY <6>1
        <5>3. j = h + r
          BY <3>5, <3>6, <5>2
        <5>4. i = g + h + r
          BY <2>9, <5>2, <5>3
        <5> QED BY <5>1, <5>2, <5>4
      <4>4. PICK eq \in Nat : eq = e * q
        BY <3>8
      <4>5. eq * a * v + (u * a + s) * v + r = ((eq + u) * a + s) * v + r
        BY SumsDistribute
      <4> QED BY <3>8, <4>3, <4>4, <4>5
    <3>9. (c * a + s) % a = s /\ c * a + s \in Nat
      BY DivisionIs
    <3>10. PICK y \in Nat : y = c * a + s
      BY <3>9
    <3>11. (y * v + r) \div v = y
      BY DivisionIs
    <3>12. i \div v = y /\ y % a = s
      BY <3>7, <3>9, <3>10, <3>11
    <3>13. Digit(W, L, i, k) = s /\ Digit(W, L, j, k) = s
      BY <3>3, <3>5, <3>6, <3>12 DEF Digit
    <3> QED BY <2>7, <3>13
  <2>14. Good(x, i)
    <3>1. \A k \in m .. n : k = m \/ k \in m + 1 .. n
      BY <1>0, <2>5
    <3>2. \A k \in m .. n : Digit(W, L, i, k) = d[k]
      BY <2>12, <2>13, <3>1
    <3> QED BY <2>6, <2>10, <2>11, <3>2
  <2> HIDE DEF Good
  <2> QED BY <2>1, <2>14
<1>2. n \in 0 .. n /\ n - n = 0 /\ n - n + 1 = 1
  BY <1>0
<1>3. PICK i : Good(n, i)
  <2> HIDE DEF Good
  <2> QED BY <1>1, <1>2
<1> QED BY <1>2, <1>3

(* and only one's.                                                           *)
LEMMA DigitsAreOnes ==
  ASSUME NEW n, NEW W, NEW L, AreWeights(W, L, n),
         NEW i \in Nat, NEW j \in Nat, i < W[0], j < W[0],
         \A k \in 1 .. n : Digit(W, L, i, k) = Digit(W, L, j, k)
  PROVE  i = j
<1> DEFINE bad == {x \in 0 .. n : ~(i % W[n - x] = j % W[n - x])}
<1>0. n \in Nat
  BY DEF AreWeights
<1>1. bad = {}
  <2> SUFFICES ASSUME bad # {} PROVE FALSE
    OBVIOUS
  <2>1. PICK x \in bad : \A o \in bad : x <= o
    <3>1. bad \subseteq Nat
      BY <1>0
    <3> HIDE DEF bad
    <3> QED BY <3>1, Least
  <2>2. x # 0
    <3>1. W[n - 0] = 1 /\ n - 0 = n
      BY <1>0 DEF AreWeights
    <3>2. i % 1 = 0 /\ j % 1 = 0
      OBVIOUS
    <3> QED BY <2>1, <3>1, <3>2
  <2>3. x - 1 \in 0 .. n /\ ~(x <= x - 1)
    BY <1>0, <2>1, <2>2
  <2>5. PICK m \in 1 .. n : m = n - x + 1
    BY <1>0, <2>1, <2>2
  <2>6. n - (x - 1) = m /\ n - x = m - 1
    BY <1>0, <2>1, <2>5
  <2>7. i % W[m] = j % W[m]
    BY <2>1, <2>3, <2>6
  <2>8. PICK w \in Nat \ {0}, l \in Nat \ {0} : w = W[m] /\ l = L[m]
    BY <2>5, WeightsAre
  <2>9. W[m - 1] = w * l
    BY <2>5, <2>8, WeightsAre
  <2> DEFINE Both(v, c) == v * w + c
  <2>10. ASSUME NEW a \in Nat PROVE a % (w * l) = Both((a \div w) % l, a % w)
    <3>1. PICK t \in Nat, r \in 0 .. w - 1 : a = t * w + r /\ t = a \div w /\ r = a % w
      BY DivisionGives
    <3>2. PICK u \in Nat, s \in 0 .. l - 1 : t = u * l + s /\ u = t \div l /\ s = t % l
      BY DivisionGives
    <3>3. PICK b \in Nat \ {0} : b = w * l
      <4>1. w * l \in Nat /\ w * l # 0
        BY SMTT(30)
      <4> QED BY <4>1
    <3>4. PICK z \in Nat : z = s * w + r
      <4>1. s * w \in Nat
        OBVIOUS
      <4> QED BY <4>1
    <3>5. z < b
      <4>1. PICK f \in Nat : l = s + 1 + f
        <5>1. l - s - 1 \in Nat /\ l = s + 1 + (l - s - 1)
          OBVIOUS
        <5> QED BY <5>1
      <4>2. w * l = s * w + w + f * w /\ f * w \in Nat
        BY <4>1
      <4> QED BY <3>3, <3>4, <4>2
    <3>6. a = u * b + z
      <4>1. (u * l + s) * w + r = u * (w * l) + (s * w + r)
        BY SMTT(30)
      <4> QED BY <3>1, <3>2, <3>3, <3>4, <4>1
    <3>7. z \in 0 .. b - 1
      BY <3>5
    <3>8. (u * b + z) % b = z
      BY <3>7, DivisionIs
    <3>9. a % b = z
      BY <3>6, <3>8
    <3>10. s = (a \div w) % l /\ r = a % w
      BY <3>1, <3>2
    <3>11. z = Both(s, r)
      BY <3>4
    <3> HIDE DEF Both
    <3> QED BY <3>3, <3>9, <3>10, <3>11
  <2>11. (i \div w) % l = (j \div w) % l
    BY <2>5, <2>8 DEF Digit
  <2>12. i % (w * l) = j % (w * l)
    <3> HIDE DEF Both
    <3>1. i % (w * l) = Both((i \div w) % l, i % w)
      BY <2>10
    <3>2. j % (w * l) = Both((j \div w) % l, j % w)
      BY <2>10
    <3>3. i % w = j % w
      BY <2>7, <2>8
    <3> QED BY <2>11, <3>1, <3>2, <3>3
  <2> QED BY <2>1, <2>6, <2>9, <2>12
<1>2. n \in 0 .. n /\ n - n = 0
  BY <1>0
<1>3. i % W[0] = j % W[0]
  BY <1>1, <1>2
<1>4. PICK b \in Nat \ {0} : b = W[0]
  BY <1>0 DEF AreWeights
<1>5. ASSUME NEW a \in Nat, a < b PROVE a % b = a
  BY <1>5, SmallRemainder
<1> QED BY <1>3, <1>4, <1>5

(* A range's values: as many as there are steps to take before it is passed, *)
(* the last of which leaves less than a step.                                *)
Stepped(c, start, stop, pace) ==
  /\ RangeValues(start, stop, pace) = [k \in 1 .. c |-> start + (k - 1) * pace]
  /\ c < RangeCap /\ c # 0 =>
       LET gap == stop - (start + (c - 1) * pace)
       IN IF pace > 0 THEN gap >= 0 /\ gap < pace ELSE gap <= 0 /\ gap > pace

LEMMA RangeIs ==
  ASSUME NEW start \in Int, NEW stop \in Int, NEW pace \in Int, pace # 0, RangeCap \in Nat
  PROVE  \E c \in 0 .. RangeCap : Stepped(c, start, stop, pace)
<1> DEFINE Fits(k) == IF pace > 0 THEN start + k * pace <= stop ELSE start + k * pace >= stop
           reach == {k \in 0 .. RangeCap - 1 : Fits(k)}
           off == {k \in 0 .. RangeCap : k = RangeCap \/ ~Fits(k)}
<1>1. PICK c \in off : \A o \in off : c <= o
  <2>1. off \subseteq Nat /\ off # {}
    <3>1. RangeCap \in off /\ off \subseteq Nat
      OBVIOUS
    <3> HIDE DEF off
    <3> QED BY <3>1
  <2> HIDE DEF off
  <2> QED BY <2>1, Least
<1>2. c \in 0 .. RangeCap /\ c \in Nat
  BY <1>1
<1>3. ASSUME NEW k \in 0 .. RangeCap - 1, Fits(k) PROVE k < c
  <2> SUFFICES ASSUME ~(k < c) PROVE FALSE
    OBVIOUS
  <2>1. c # RangeCap /\ ~Fits(c)
    BY <1>1, <1>2
  <2>2. PICK d \in Nat : k = c + d
    <3>1. k - c \in Nat /\ k = c + (k - c)
      BY <1>2
    <3> QED BY <3>1
  <2>3. CASE pace > 0
    <3>1. PICK e \in Nat : e = pace
      BY <2>3
    <3>2. d * e \in Nat
      BY <3>1
    <3>3. k * pace = c * pace + d * e
      BY <1>2, <2>2, <3>1
    <3>4. PICK x \in Int, y \in Int : x = k * pace /\ y = c * pace
      BY <1>2
    <3> QED BY <1>3, <2>1, <2>3, <3>2, <3>3, <3>4
  <2>4. CASE ~(pace > 0)
    <3>1. PICK e \in Nat : e = -pace
      BY <2>4
    <3>2. d * e \in Nat
      BY <3>1
    <3>3. k * pace = c * pace - d * e
      BY <1>2, <2>2, <3>1
    <3>4. PICK x \in Int, y \in Int : x = k * pace /\ y = c * pace
      BY <1>2
    <3> QED BY <1>3, <2>1, <2>4, <3>2, <3>3, <3>4
  <2> QED BY <2>3, <2>4
<1>4. ASSUME NEW k \in 0 .. c - 1 PROVE k \in 0 .. RangeCap - 1 /\ Fits(k)
  <2>1. k \in 0 .. RangeCap /\ ~(c <= k) /\ k # RangeCap
    BY <1>2
  <2>2. k \notin off
    <3> HIDE DEF off
    <3> QED BY <1>1, <2>1
  <2> HIDE DEF Fits
  <2> QED BY <2>1, <2>2
<1>5. reach = 0 .. c - 1
  <2> HIDE DEF Fits
  <2>1. \A k \in reach : k \in 0 .. c - 1
    BY <1>2, <1>3
  <2>2. \A k \in 0 .. c - 1 : k \in reach
    BY <1>4
  <2> QED BY <2>1, <2>2
<1>6. Cardinality(0 .. c - 1) = c
  <2>1. c - 1 \in Int /\ 0 \in Int
    BY <1>2
  <2>2. Cardinality(0 .. c - 1) = IF 0 > c - 1 THEN 0 ELSE (c - 1) - 0 + 1
    BY <2>1, FS_Interval
  <2> QED BY <1>2, <2>2
<1>7. RangeValues(start, stop, pace) = [k \in 1 .. Cardinality(reach) |-> start + (k - 1) * pace]
  BY DEF RangeValues
<1>8. RangeValues(start, stop, pace) = [k \in 1 .. c |-> start + (k - 1) * pace]
  BY <1>5, <1>6, <1>7
<1>9. ASSUME c < RangeCap, c # 0
      PROVE LET gap == stop - (start + (c - 1) * pace)
            IN IF pace > 0 THEN gap >= 0 /\ gap < pace ELSE gap <= 0 /\ gap > pace
  <2>1. c - 1 \in 0 .. c - 1
    BY <1>2, <1>9
  <2>2. Fits(c - 1)
    <3> HIDE DEF Fits
    <3> QED BY <1>4, <2>1
  <2>3. ~Fits(c)
    BY <1>1, <1>2, <1>9
  <2>4. PICK x \in Int, y \in Int : x = (c - 1) * pace /\ y = c * pace /\ y = x + pace
    BY <1>2
  <2> QED BY <2>2, <2>3, <2>4
<1> QED BY <1>2, <1>8, <1>9 DEF Stepped

(* What an axis takes has a length.                                          *)
LEMMA AxisIs ==
  ASSUME SweepAssumption, NEW s \in Sweeps, NEW k \in DOMAIN s
  PROVE  /\ Len(ParseParam(s[k])) \in Nat
         /\ DOMAIN ParseParam(s[k]) = 1 .. Len(ParseParam(s[k]))
         /\ ParseParam(s[k]) # <<>> => Len(ParseParam(s[k])) # 0
<1>1. CASE s[k].range = <<>>
  BY <1>1 DEF ParseParam, SweepAssumption
<1>2. CASE s[k].range # <<>>
  <2>1. PICK r \in [1 .. 3 -> Int] : r = s[k].range
    BY <1>2 DEF SweepAssumption
  <2>2. r[1] \in Int /\ r[2] \in Int /\ r[3] \in Int
    BY <2>1
  <2>3. CASE r[3] = 0
    BY <1>2, <2>1, <2>3 DEF ParseParam
  <2>4. CASE r[3] # 0
    <3>1. ParseParam(s[k]) = RangeValues(r[1], r[2], r[3])
      BY <1>2, <2>1, <2>4 DEF ParseParam
    <3>2. PICK c \in 0 .. RangeCap : RangeValues(r[1], r[2], r[3]) = [j \in 1 .. c |-> r[1] + (j - 1) * r[3]]
      <4>1. RangeCap \in Nat
        BY DEF SweepAssumption
      <4>2. PICK x \in Int, y \in Int, z \in Int : x = r[1] /\ y = r[2] /\ z = r[3] /\ z # 0
        BY <2>2, <2>4
      <4>3. \E c \in 0 .. RangeCap : Stepped(c, x, y, z)
        BY <4>1, <4>2, RangeIs
      <4> QED BY <4>2, <4>3 DEF Stepped
    <3>3. c \in Nat
      BY <3>2 DEF SweepAssumption
    <3>4. Len([j \in 1 .. c |-> r[1] + (j - 1) * r[3]]) = c
      BY <3>3
    <3> QED BY <3>1, <3>2, <3>3, <3>4
  <2> QED BY <2>3, <2>4
<1> QED BY <1>1, <1>2

(* How many cells the axes beyond each one make.                             *)
Lengths(s) == [k \in 1 .. Len(s) |-> Len(ParseParam(s[k]))]
Weights(s) == [k \in 0 .. Len(s) |-> Below(s, k)]

LEMMA BelowIs ==
  ASSUME SweepAssumption, NEW s \in Sweeps, \A k \in DOMAIN s : ParseParam(s[k]) # <<>>
  PROVE  AreWeights(Weights(s), Lengths(s), Len(s))
<1>1. PICK n \in Nat : n = Len(s) /\ DOMAIN s = 1 .. n
  BY DEF SweepAssumption
<1>2. ASSUME NEW k \in 1 .. n PROVE Len(ParseParam(s[k])) \in Nat \ {0}
  <2>1. k \in DOMAIN s
    BY <1>1
  <2>2. ParseParam(s[k]) # <<>>
    BY <2>1
  <2> QED BY <2>1, <2>2, AxisIs
<1>3. Lengths(s) \in [1 .. n -> Nat \ {0}]
  BY <1>1, <1>2 DEF Lengths
<1> DEFINE Lst(i) == Len(ParseParam(s[n - i + 1]))
           Built(g) == g = [i \in 0 .. n |-> IF i = 0 THEN 1 ELSE g[i - 1] * Lst(i)]
<1>4. PICK f : f = CHOOSE g : Built(g)
  OBVIOUS
<1>5. ASSUME NEW i \in 1 .. n PROVE Lst(i) \in Nat \ {0}
  <2>1. n - i + 1 \in 1 .. n
    BY <1>1
  <2> QED BY <1>2, <2>1
<1>6. Built(f)
  <2> DEFINE P == Nat \ {0}
             rule == [i \in 1 .. n |-> [v \in P |-> v * Lst(i)]]
  <2>1. ASSUME NEW i \in 1 .. n, NEW v \in P PROVE v * Lst(i) \in P
    <3>1. PICK l \in Nat \ {0} : l = Lst(i)
      BY <1>5
    <3>2. v * l \in Nat /\ v * l # 0
      BY SMTT(30)
    <3> QED BY <3>1, <3>2
  <2>2. rule \in [1 .. n -> [P -> P]]
    <3> HIDE DEF Lst
    <3> QED BY <2>1
  <2>3. 1 \in P
    OBVIOUS
  <2>4. PICK g \in [0 .. n -> P] : Follows(g, 1, n, rule)
    <3> HIDE DEF rule, P
    <3> QED BY <1>1, <2>2, <2>3, Recursion
  <2>5. ASSUME NEW i \in 0 .. n PROVE g[i] = IF i = 0 THEN 1 ELSE g[i - 1] * Lst(i)
    <3>1. CASE i = 0
      BY <2>4, <3>1 DEF Follows
    <3>2. CASE i # 0
      <4>1. i \in 1 .. n /\ i - 1 \in 0 .. n
        BY <1>1, <3>2
      <4>2. g[i] = rule[i][g[i - 1]]
        BY <2>4, <4>1 DEF Follows
      <4>3. g[i - 1] \in P
        BY <2>4, <4>1
      <4> HIDE DEF Lst, P
      <4> QED BY <3>2, <4>1, <4>2, <4>3
    <3> QED BY <3>1, <3>2
  <2>6. Built(g)
    <3> HIDE DEF Lst, P
    <3> QED BY <2>4, <2>5
  <2> HIDE DEF Built
  <2> QED BY <1>4, <2>6
<1>7. f[0] = 1 /\ \A i \in 1 .. n : f[i] = f[i - 1] * Lst(i)
  <2> HIDE DEF Lst
  <2>1. ASSUME NEW i \in 1 .. n PROVE f[i] = f[i - 1] * Lst(i)
    <3>1. i \in 0 .. n /\ i # 0
      BY <1>1
    <3>2. f[i] = IF i = 0 THEN 1 ELSE f[i - 1] * Lst(i)
      BY <1>6, <3>1
    <3> QED BY <3>1, <3>2
  <2>2. f[0] = 1
    BY <1>1, <1>6
  <2> QED BY <2>1, <2>2
<1>8. \A i \in 0 .. n : f[i] \in Nat \ {0}
  <2> DEFINE bad == {i \in 0 .. n : f[i] \notin Nat \ {0}}
  <2> SUFFICES ASSUME bad # {} PROVE FALSE
    OBVIOUS
  <2>1. PICK m \in bad : \A o \in bad : m <= o
    <3>1. bad \subseteq Nat
      BY <1>1
    <3> HIDE DEF bad
    <3> QED BY <3>1, Least
  <2>2. m # 0
    BY <1>7, <2>1
  <2>3. m \in 1 .. n /\ m - 1 \in 0 .. n /\ ~(m <= m - 1)
    BY <1>1, <2>1, <2>2
  <2>4. f[m - 1] \in Nat \ {0}
    BY <2>1, <2>3
  <2>5. PICK x \in Nat \ {0}, l \in Nat \ {0} : x = f[m - 1] /\ l = Lst(m)
    BY <1>5, <2>3, <2>4
  <2>6. x * l \in Nat /\ x * l # 0
    BY SMTT(30)
  <2>7. f[m] = x * l
    <3> HIDE DEF Lst
    <3> QED BY <1>7, <2>3, <2>5
  <2> QED BY <2>1, <2>6, <2>7
<1>9. ASSUME NEW k \in 0 .. n PROVE Below(s, k) = f[n - k]
  <2>1. Below(s, k) = (CHOOSE g : g = [i \in 0 .. Len(s) |-> IF i = 0 THEN 1
                          ELSE g[i - 1] * Len(ParseParam(s[Len(s) - i + 1]))])[Len(s) - k]
    BY DEF Below
  <2> QED BY <1>1, <1>4, <2>1
<1>10. Weights(s) \in [0 .. n -> Nat \ {0}] /\ Weights(s)[n] = 1
  <2>1. ASSUME NEW k \in 0 .. n PROVE Below(s, k) \in Nat \ {0}
    <3>1. n - k \in 0 .. n
      BY <1>1
    <3> QED BY <1>8, <1>9, <3>1
  <2>2. Below(s, n) = f[0]
    <3>1. n \in 0 .. n /\ n - n = 0
      BY <1>1
    <3> QED BY <1>9, <3>1
  <2>3. n \in 0 .. n
    BY <1>1
  <2> QED BY <1>1, <1>7, <2>1, <2>2, <2>3 DEF Weights
<1>11. ASSUME NEW k \in 1 .. n PROVE Weights(s)[k - 1] = Weights(s)[k] * Lengths(s)[k]
  <2>1. k \in 0 .. n /\ k - 1 \in 0 .. n /\ n - (k - 1) \in 1 .. n
    BY <1>1
  <2>2. n - (k - 1) - 1 = n - k /\ n - (n - (k - 1)) + 1 = k
    BY <1>1
  <2>3. f[n - (k - 1)] = f[n - k] * Len(ParseParam(s[k]))
    BY <1>7, <2>1, <2>2
  <2>4. Weights(s)[k - 1] = f[n - (k - 1)] /\ Weights(s)[k] = f[n - k]
    BY <1>1, <1>9, <2>1 DEF Weights
  <2>5. Lengths(s)[k] = Len(ParseParam(s[k]))
    BY <1>1 DEF Lengths
  <2> QED BY <2>3, <2>4, <2>5
<1> QED BY <1>1, <1>3, <1>10, <1>11 DEF AreWeights

(* What a sweep's cell is.                                                   *)
CellOf(s, i) ==
  LET c == RunCell(s, i) IN
  /\ c.index = i /\ c.error # "SweepError"
  /\ c.overrides = Expand(s)[i]
  /\ \A a \in DOMAIN BaseFile : c.ran[a] = BaseFile[a] \/ \E k \in DOMAIN s : Leaf(s[k]) = a
  /\ \A k \in DOMAIN s : (\A j \in DOMAIN s : Leaf(s[j]) = Leaf(s[k]) => j <= k) =>
       c.ran[Leaf(s[k])] = c.overrides[k]
  /\ c.error # "" => Has(c.ran, Uncompilable \cup Failing)

LEMMA CellIs ==
  ASSUME SweepAssumption, NEW s \in Sweeps, Validate(s), NEW i
  PROVE  CellOf(s, i)
<1>1. PICK n \in Nat : n = Len(s) /\ DOMAIN s = 1 .. n
  BY DEF SweepAssumption
<1>2. PICK o, r, c : o = Expand(s)[i] /\ r = Apply(s, o) /\ c = RunCell(s, i)
  OBVIOUS
<1>3. \A k \in DOMAIN s : Leaf(s[k]) \in DOMAIN BaseFile
  BY DEF Validate
<1>4. /\ c.index = i /\ c.overrides = o /\ c.ran = r
      /\ c.error = CASE \E k \in DOMAIN s : Leaf(s[k]) \notin DOMAIN BaseFile -> "SweepError"
                     [] Has(r, Uncompilable) -> "SpecError"
                     [] Has(r, Failing) -> "ValueError"
                     [] OTHER -> ""
  BY <1>2 DEF RunCell
<1>5. c.error # "SweepError" /\ (c.error # "" => Has(r, Uncompilable) \/ Has(r, Failing))
  <2> HIDE DEF Has
  <2>1. PICK bad : bad <=> Has(r, Uncompilable)
    OBVIOUS
  <2> QED BY <1>3, <1>4
<1>6. c.error # "" => Has(r, Uncompilable \cup Failing)
  BY <1>5 DEF Has
<1> DEFINE here(a) == {k \in 1 .. n : Leaf(s[k]) = a}
<1>7. r = [a \in DOMAIN BaseFile |-> IF here(a) = {} THEN BaseFile[a] ELSE o[Max(here(a))]]
  BY <1>1, <1>2 DEF Apply, After
<1>8. ASSUME NEW a \in DOMAIN BaseFile PROVE r[a] = BaseFile[a] \/ \E k \in DOMAIN s : Leaf(s[k]) = a
  <2>1. CASE here(a) = {}
    BY <1>7, <2>1
  <2>2. CASE here(a) # {}
    BY <1>1, <2>2
  <2> QED BY <2>1, <2>2
<1>9. ASSUME NEW k \in DOMAIN s, \A j \in DOMAIN s : Leaf(s[j]) = Leaf(s[k]) => j <= k
      PROVE r[Leaf(s[k])] = o[k]
  <2>1. PICK a \in DOMAIN BaseFile : a = Leaf(s[k])
    BY <1>3
  <2>2. k \in here(a) /\ \A j \in here(a) : j <= k
    BY <1>1, <1>9, <2>1
  <2>3. Max(here(a)) = k
    <3>1. here(a) \subseteq Nat
      BY <1>1
    <3> HIDE DEF here
    <3>2. \A x \in here(a) : (\A y \in here(a) : x >= y) => x = k
      BY <2>2, <3>1
    <3>3. \A y \in here(a) : k >= y
      BY <2>2, <3>1
    <3> QED BY <2>2, <3>2, <3>3 DEF Max
  <2>4. here(a) # {}
    BY <2>2
  <2>5. r[a] = IF here(a) = {} THEN BaseFile[a] ELSE o[Max(here(a))]
    BY <1>7
  <2> HIDE DEF here
  <2> QED BY <2>1, <2>3, <2>4, <2>5
<1> HIDE DEF here
<1> QED BY <1>2, <1>4, <1>5, <1>6, <1>8, <1>9 DEF CellOf

(* What stands in it: the digits of its place.                               *)
LEMMA CellsDigits ==
  ASSUME SweepAssumption, NEW s \in Sweeps, Validate(s), NEW i \in 1 .. Below(s, 0)
  PROVE  /\ DOMAIN Expand(s)[i] = DOMAIN s /\ Expand(s)[i] = [k \in DOMAIN s |-> Expand(s)[i][k]]
         /\ \A k \in DOMAIN s :
              Expand(s)[i][k] = ParseParam(s[k])[Digit(Weights(s), Lengths(s), i - 1, k) + 1]
<1>1. Expand(s)[i] = [k \in DOMAIN s |-> ParseParam(s[k])[(((i - 1) \div Below(s, k)) % Len(ParseParam(s[k]))) + 1]]
  BY DEF Expand
<1>2. ASSUME NEW k \in DOMAIN s PROVE Weights(s)[k] = Below(s, k) /\ Lengths(s)[k] = Len(ParseParam(s[k]))
  <2>1. k \in 1 .. Len(s) /\ k \in 0 .. Len(s)
    BY DEF SweepAssumption
  <2> QED BY <2>1 DEF Weights, Lengths
<1>3. ASSUME NEW k \in DOMAIN s
      PROVE Expand(s)[i][k] = ParseParam(s[k])[Digit(Weights(s), Lengths(s), i - 1, k) + 1]
  <2>1. Expand(s)[i][k] = ParseParam(s[k])[(((i - 1) \div Below(s, k)) % Len(ParseParam(s[k]))) + 1]
    BY <1>1
  <2> QED BY <1>2, <2>1 DEF Digit
<1>4. DOMAIN Expand(s)[i] = DOMAIN s /\ Expand(s)[i] = [k \in DOMAIN s |-> Expand(s)[i][k]]
  BY <1>1
<1> QED BY <1>3, <1>4

(* The grid has its cells.                                                   *)
LEMMA GridIs ==
  ASSUME SweepAssumption, NEW s \in Sweeps, Validate(s)
  PROVE  /\ AreWeights(Weights(s), Lengths(s), Len(s)) /\ Weights(s)[0] = Below(s, 0)
         /\ Below(s, 0) \in Nat \ {0} /\ Len(s) \in Nat /\ DOMAIN s = 1 .. Len(s)
         /\ \A k \in DOMAIN s : Lengths(s)[k] = Len(ParseParam(s[k]))
<1>1. AreWeights(Weights(s), Lengths(s), Len(s))
  BY BelowIs DEF Validate
<1>2. Len(s) \in Nat /\ DOMAIN s = 1 .. Len(s)
  BY DEF SweepAssumption
<1>3. 0 \in 0 .. Len(s)
  BY <1>2
<1>4. Weights(s)[0] = Below(s, 0)
  BY <1>3 DEF Weights
<1>5. Weights(s)[0] \in Nat \ {0}
  BY <1>1, <1>3 DEF AreWeights
<1> QED BY <1>1, <1>2, <1>4, <1>5 DEF Lengths

(* Every choice of values is a cell,                                         *)
LEMMA EveryChoice ==
  ASSUME SweepAssumption, NEW s \in Sweeps, Validate(s),
         NEW choice, choice = [k \in DOMAIN s |-> choice[k]],
         \A k \in DOMAIN s : choice[k] \in ToSet(ParseParam(s[k]))
  PROVE  \E i \in 1 .. Below(s, 0) : Expand(s)[i] = choice
<1>1. PICK n, L, W : n = Len(s) /\ L = Lengths(s) /\ W = Weights(s)
  OBVIOUS
<1>2. AreWeights(W, L, n) /\ W[0] = Below(s, 0) /\ n \in Nat /\ DOMAIN s = 1 .. n /\ Below(s, 0) \in Nat
  BY <1>1, GridIs
<1>3. ASSUME NEW k \in 1 .. n PROVE \E j \in Nat : j < L[k] /\ choice[k] = ParseParam(s[k])[j + 1]
  <2>1. k \in DOMAIN s
    BY <1>2
  <2>2. PICK v : v = ParseParam(s[k])
    OBVIOUS
  <2>3. Len(v) \in Nat /\ DOMAIN v = 1 .. Len(v) /\ L[k] = Len(v)
    BY <1>1, <2>1, <2>2, AxisIs, GridIs
  <2>4. PICK m \in 1 .. Len(v) : choice[k] = v[m]
    BY <2>1, <2>2, <2>3 DEF ToSet
  <2>5. m - 1 \in Nat /\ m - 1 < L[k] /\ m - 1 + 1 = m
    BY <2>3
  <2> QED BY <2>2, <2>4, <2>5
<1> DEFINE d == [k \in 1 .. n |-> CHOOSE j \in Nat : j < L[k] /\ choice[k] = ParseParam(s[k])[j + 1]]
<1>4. ASSUME NEW k \in 1 .. n PROVE d[k] \in Nat /\ d[k] < L[k] /\ choice[k] = ParseParam(s[k])[d[k] + 1]
  BY <1>3
<1>5. d \in [1 .. n -> Nat]
  BY <1>4
<1> HIDE DEF d
<1>6. PICK x \in Nat : x < W[0] /\ \A k \in 1 .. n : Digit(W, L, x, k) = d[k]
  <2>1. \A k \in 1 .. n : d[k] < L[k]
    BY <1>4
  <2> QED BY <1>2, <1>5, <2>1, DigitsAreSomeones
<1>7. PICK i \in 1 .. Below(s, 0) : i = x + 1 /\ i - 1 = x
  <2>1. x + 1 \in 1 .. Below(s, 0) /\ x + 1 - 1 = x
    BY <1>2, <1>6
  <2> QED BY <2>1
<1>8. ASSUME NEW k \in DOMAIN s PROVE Expand(s)[i][k] = choice[k]
  <2>1. Expand(s)[i][k] = ParseParam(s[k])[Digit(W, L, x, k) + 1]
    <3>1. \A m \in DOMAIN s :
            Expand(s)[i][m] = ParseParam(s[m])[Digit(Weights(s), Lengths(s), i - 1, m) + 1]
      BY CellsDigits
    <3> QED BY <1>1, <1>7, <3>1
  <2>2. k \in 1 .. n
    BY <1>2
  <2> QED BY <1>4, <1>6, <2>1, <2>2
<1>9. Expand(s)[i] = [k \in DOMAIN s |-> Expand(s)[i][k]]
  BY CellsDigits
<1>10. PICK e : e = Expand(s)[i] /\ e = [k \in DOMAIN s |-> e[k]] /\ \A k \in DOMAIN s : e[k] = choice[k]
  BY <1>8, <1>9
<1>11. e = choice
  BY <1>10
<1> QED BY <1>10, <1>11

(* and of two cells that say the same there is one, where no value is given twice. *)
LEMMA OneCell ==
  ASSUME SweepAssumption, NEW s \in Sweeps, Validate(s), \A k \in DOMAIN s : IsInjective(ParseParam(s[k])),
         NEW i \in 1 .. Below(s, 0), NEW j \in 1 .. Below(s, 0), Expand(s)[i] = Expand(s)[j]
  PROVE  i = j
<1>1. PICK n, L, W : n = Len(s) /\ L = Lengths(s) /\ W = Weights(s)
  OBVIOUS
<1>2. AreWeights(W, L, n) /\ W[0] = Below(s, 0) /\ n \in Nat /\ DOMAIN s = 1 .. n /\ Below(s, 0) \in Nat
  BY <1>1, GridIs
<1>3. PICK x \in Nat, y \in Nat : x = i - 1 /\ y = j - 1 /\ x < W[0] /\ y < W[0]
  <2>1. i - 1 \in Nat /\ j - 1 \in Nat /\ i - 1 < W[0] /\ j - 1 < W[0]
    BY <1>2
  <2> QED BY <2>1
<1>4. ASSUME NEW k \in 1 .. n PROVE Digit(W, L, x, k) = Digit(W, L, y, k)
  <2>1. k \in DOMAIN s
    BY <1>2
  <2>2. PICK v, l : v = ParseParam(s[k]) /\ l = Len(v) /\ l \in Nat /\ DOMAIN v = 1 .. l /\ L[k] = l
    <3>1. Len(ParseParam(s[k])) \in Nat /\ DOMAIN ParseParam(s[k]) = 1 .. Len(ParseParam(s[k]))
      BY <2>1, AxisIs
    <3>2. L[k] = Len(ParseParam(s[k]))
      BY <1>1, <2>1, GridIs
    <3> QED BY <3>1, <3>2
  <2>3. PICK w \in Nat \ {0} : w = W[k] /\ l # 0
    <3>1. W[k] \in Nat \ {0} /\ L[k] \in Nat \ {0}
      BY <1>2, WeightsAre
    <3> QED BY <2>2, <3>1
  <2>4. Expand(s)[i][k] = v[Digit(W, L, x, k) + 1]
    <3>1. \A m \in DOMAIN s :
            Expand(s)[i][m] = ParseParam(s[m])[Digit(Weights(s), Lengths(s), i - 1, m) + 1]
      BY CellsDigits
    <3> QED BY <1>1, <1>3, <2>1, <2>2, <3>1
  <2>5. Expand(s)[j][k] = v[Digit(W, L, y, k) + 1]
    <3>1. \A m \in DOMAIN s :
            Expand(s)[j][m] = ParseParam(s[m])[Digit(Weights(s), Lengths(s), j - 1, m) + 1]
      BY CellsDigits
    <3> QED BY <1>1, <1>3, <2>1, <2>2, <3>1
  <2>6. ASSUME NEW z \in Nat PROVE Digit(W, L, z, k) \in 0 .. l - 1
    <3>1. PICK q \in Nat : q = z \div w
      BY <2>3, DivisionGives
    <3>2. q % l \in 0 .. l - 1
      <4>1. PICK c \in Nat \ {0} : c = l
        BY <2>2, <2>3
      <4>2. q % c \in 0 .. c - 1
        BY DivisionGives
      <4> QED BY <4>1, <4>2
    <3> QED BY <2>2, <2>3, <3>1, <3>2 DEF Digit
  <2>7. PICK a \in 0 .. l - 1, b \in 0 .. l - 1 : a = Digit(W, L, x, k) /\ b = Digit(W, L, y, k)
    BY <2>6
  <2>8. v[a + 1] = v[b + 1] /\ a + 1 \in DOMAIN v /\ b + 1 \in DOMAIN v
    <3>1. a + 1 \in 1 .. l /\ b + 1 \in 1 .. l
      BY <2>2
    <3>2. PICK p, q : p = a + 1 /\ q = b + 1
      OBVIOUS
    <3>3. Expand(s)[i][k] = v[p] /\ Expand(s)[j][k] = v[q]
      BY <2>4, <2>5, <2>7, <3>2
    <3> QED BY <2>2, <3>1, <3>2, <3>3
  <2>9. a + 1 = b + 1
    BY <2>1, <2>2, <2>8 DEF IsInjective
  <2> QED BY <2>7, <2>9
<1>5. x = y
  BY <1>2, <1>3, <1>4, DigitsAreOnes
<1> QED BY <1>3, <1>5

(* The pool: what is handed over, finished or taken is the cell of its place,*)
(* of a sweep that was let through.                                          *)
SweepInv ==
  /\ axes \in Sweeps /\ taken \in Nat
  /\ cells \in Seq({RunCell(axes, i) : i \in Nat}) /\ Len(cells) <= taken
  /\ stage \in {"asked", "refused"} => taken = 0
  /\ stage \notin {"asked", "refused"} =>
       Validate(axes) /\ Below(axes, 0) <= GridLimit /\ taken <= Below(axes, 0)
  /\ \A c \in ready : \E i \in 1 .. taken : c = RunCell(axes, i)
  /\ \A n \in 1 .. Len(cells) : cells[n] = RunCell(axes, n)
  /\ stage = "done" => Len(cells) = Below(axes, 0)

SweepSpec == SweepInit /\ [][SweepNext]_sweepVars

LEMMA SweepStep ==
  SweepAssumption /\ SweepInv /\ [SweepNext]_sweepVars => SweepInv'
<1> SUFFICES ASSUME SweepAssumption, SweepInv, [SweepNext]_sweepVars PROVE SweepInv'
  OBVIOUS
<1>1. CASE UNCHANGED sweepVars
  <2>1. axes' = axes /\ stage' = stage /\ taken' = taken /\ ready' = ready /\ cells' = cells
    BY <1>1 DEF sweepVars
  <2> QED BY <2>1 DEF SweepInv
<1>2. CASE Start
  <2>1. axes' = axes /\ taken' = taken /\ ready' = ready /\ cells' = cells /\ taken = 0
    BY <1>2 DEF Start, SweepInv
  <2>2. /\ stage' \in {"running", "refused"}
        /\ stage' = "running" => Validate(axes) /\ Below(axes, 0) <= GridLimit
    BY <1>2 DEF Start
  <2>3. stage' = "running" => taken <= Below(axes, 0)
    <3>1. ASSUME stage' = "running" PROVE 0 <= Below(axes, 0)
      <4>1. PICK s \in Sweeps : s = axes
        BY DEF SweepInv
      <4>2. Validate(s)
        BY <2>2, <3>1, <4>1
      <4>3. Below(s, 0) \in Nat
        BY <4>2, GridIs
      <4> QED BY <4>1, <4>3
    <3> QED BY <2>1, <3>1
  <2> QED BY <2>1, <2>2, <2>3 DEF SweepInv
<1>3. CASE Take
  <2>1. /\ axes' = axes /\ stage' = stage /\ ready' = ready /\ cells' = cells
        /\ taken' = taken + 1 /\ stage = "running" /\ taken < Below(axes, 0)
    BY <1>3 DEF Take
  <2>2. taken' \in Nat /\ taken <= taken' /\ Len(cells) \in Nat
    BY <2>1 DEF SweepInv
  <2>3. taken' <= Below(axes, 0)
    <3>1. PICK s \in Sweeps : s = axes
      BY DEF SweepInv
    <3>2. Validate(s)
      BY <2>1, <3>1 DEF SweepInv
    <3>3. Below(s, 0) \in Nat
      BY <3>2, GridIs
    <3> QED BY <2>1, <3>1, <3>3 DEF SweepInv
  <2>4. ASSUME NEW c \in ready PROVE \E i \in 1 .. taken' : c = RunCell(axes, i)
    <3>1. PICK i \in 1 .. taken : c = RunCell(axes, i)
      BY DEF SweepInv
    <3>2. i \in 1 .. taken'
      BY <2>1, <3>1 DEF SweepInv
    <3> QED BY <3>1, <3>2
  <2> QED BY <2>1, <2>2, <2>3, <2>4 DEF SweepInv
<1>4. ASSUME NEW i \in InWork, Finish(i) PROVE SweepInv'
  <2>1. /\ axes' = axes /\ stage' = stage /\ taken' = taken /\ cells' = cells
        /\ ready' = ready \cup {RunCell(axes, i)}
    BY <1>4 DEF Finish
  <2>2. i \in 1 .. taken
    BY DEF InWork
  <2>3. \A c \in ready' : \E j \in 1 .. taken : c = RunCell(axes, j)
    BY <2>1, <2>2 DEF SweepInv
  <2>4. /\ axes \in Sweeps /\ taken \in Nat /\ stage = "running"
        /\ cells \in Seq({RunCell(axes, j) : j \in Nat}) /\ Len(cells) <= taken
        /\ Validate(axes) /\ Below(axes, 0) <= GridLimit /\ taken <= Below(axes, 0)
        /\ \A n \in 1 .. Len(cells) : cells[n] = RunCell(axes, n)
    BY <1>4 DEF Finish, SweepInv
  <2>5. PICK all : all = {RunCell(axes, j) : j \in Nat}
    OBVIOUS
  <2>6. axes' = axes /\ cells' \in Seq(all) /\ {RunCell(axes', j) : j \in Nat} = all
    BY <2>1, <2>4, <2>5
  <2> QED BY <2>1, <2>3, <2>4, <2>6 DEF SweepInv
<1>5. CASE Deliver
  <2>1. PICK c \in ready : c.index = Len(cells) + 1 /\ cells' = Append(cells, c) /\ ready' = ready \ {c}
    BY <1>5 DEF Deliver
  <2>2. /\ axes' = axes /\ taken' = taken /\ stage = "running"
        /\ stage' = IF Len(cells') = Below(axes, 0) THEN "done" ELSE stage
    BY <1>5 DEF Deliver
  <2>3. PICK i \in 1 .. taken : c = RunCell(axes, i)
    BY DEF SweepInv
  <2>4. i = Len(cells) + 1 /\ taken \in Nat /\ i \in Nat
    <3>1. c.index = i
      BY <2>3 DEF RunCell
    <3> QED BY <2>1, <3>1 DEF SweepInv
  <2>5. PICK all : all = {RunCell(axes, j) : j \in Nat}
    OBVIOUS
  <2>6. c \in all /\ cells \in Seq(all)
    BY <2>3, <2>4, <2>5 DEF SweepInv
  <2>7. cells' \in Seq(all) /\ Len(cells') = Len(cells) + 1 /\ Len(cells) \in Nat
    BY <2>1, <2>6
  <2>8. ASSUME NEW n \in 1 .. Len(cells') PROVE cells'[n] = RunCell(axes, n)
    <3>1. CASE n = Len(cells) + 1
      <4>1. cells'[n] = c
        BY <2>1, <2>6, <3>1
      <4> QED BY <2>3, <2>4, <3>1, <4>1
    <3>2. CASE n # Len(cells) + 1
      <4>1. n \in 1 .. Len(cells)
        BY <2>7, <3>2
      <4>2. cells'[n] = cells[n]
        BY <2>1, <2>6, <4>1
      <4>3. cells[n] = RunCell(axes, n)
        BY <4>1 DEF SweepInv
      <4> QED BY <4>2, <4>3
    <3> QED BY <3>1, <3>2
  <2>9. Len(cells') <= taken
    BY <2>3, <2>4, <2>7
  <2>10. \A d \in ready' : \E j \in 1 .. taken : d = RunCell(axes, j)
    BY <2>1 DEF SweepInv
  <2>11. /\ stage' \notin {"asked", "refused"} /\ (stage' = "done" => Len(cells') = Below(axes, 0))
    BY <2>2
  <2>12. axes \in Sweeps /\ taken \in Nat /\ Validate(axes) /\ Below(axes, 0) <= GridLimit /\ taken <= Below(axes, 0)
    BY <2>2 DEF SweepInv
  <2> QED BY <2>2, <2>5, <2>7, <2>8, <2>9, <2>10, <2>11, <2>12 DEF SweepInv
<1>6. CASE WorkerDies
  <2>1. /\ axes' = axes /\ taken' = taken /\ ready' = ready /\ cells' = cells
        /\ stage = "running" /\ stage' = "lost"
    BY <1>6 DEF WorkerDies
  <2> QED BY <2>1 DEF SweepInv
<1> QED BY <1>1, <1>2, <1>3, <1>4, <1>5, <1>6 DEF SweepNext

LEMMA SweepBegins == SweepInit => SweepInv
<1> SUFFICES ASSUME SweepInit PROVE SweepInv
  OBVIOUS
<1>1. axes \in Sweeps /\ stage = "asked" /\ taken = 0 /\ ready = {} /\ cells = <<>>
  BY DEF SweepInit
<1>2. cells \in Seq({RunCell(axes, i) : i \in Nat}) /\ Len(cells) = 0 /\ 1 .. Len(cells) = {}
  BY <1>1
<1> QED BY <1>1, <1>2 DEF SweepInv

LEMMA SweepHolds == SweepSpec => []SweepInv
  BY SweepAssumption, SweepBegins, SweepStep, PTL DEF SweepSpec

LEMMA GridFollows ==
  ASSUME SweepAssumption, SweepInv
  PROVE  GridIsWhole
<1>1. PICK s \in Sweeps : s = axes
  BY DEF SweepInv
<1>2. DOMAIN cells = 1 .. Len(cells) /\ Len(cells) \in Nat /\ taken \in Nat /\ Len(cells) <= taken
  BY DEF SweepInv
<1>3. ASSUME NEW n \in DOMAIN cells
      PROVE  /\ cells[n].index = n
             /\ \A a \in DOMAIN BaseFile : cells[n].ran[a] = BaseFile[a] \/ \E k \in DOMAIN axes : Leaf(axes[k]) = a
             /\ \A k \in DOMAIN axes : (\A j \in DOMAIN axes : Leaf(axes[j]) = Leaf(axes[k]) => j <= k) =>
                  cells[n].ran[Leaf(axes[k])] = cells[n].overrides[k]
             /\ cells[n].error # "" => Has(cells[n].ran, Uncompilable \cup Failing)
  <2>1. Validate(s)
    BY <1>1, <1>2 DEF SweepInv
  <2>2. CellOf(s, n)
    BY <2>1, CellIs
  <2>3. cells[n] = RunCell(s, n)
    BY <1>1, <1>2 DEF SweepInv
  <2> QED BY <1>1, <2>2, <2>3 DEF CellOf
<1>4. ASSUME stage = "done",
             NEW choice \in [DOMAIN axes -> UNION {ToSet(ParseParam(axes[k])) : k \in DOMAIN axes}],
             \A k \in DOMAIN axes : choice[k] \in ToSet(ParseParam(axes[k]))
      PROVE \E n \in DOMAIN cells : cells[n].overrides = choice
  <2>1. Validate(s) /\ Len(cells) = Below(s, 0)
    BY <1>1, <1>4 DEF SweepInv
  <2>2. PICK ch : ch = choice
    OBVIOUS
  <2>3. ch = [k \in DOMAIN s |-> ch[k]]
    BY <1>1, <2>2
  <2>4. \A k \in DOMAIN s : ch[k] \in ToSet(ParseParam(s[k]))
    BY <1>1, <1>4, <2>2
  <2>5. PICK i \in 1 .. Below(s, 0) : Expand(s)[i] = ch
    BY <2>1, <2>3, <2>4, EveryChoice
  <2>6. i \in DOMAIN cells
    BY <1>2, <2>1
  <2>7. cells[i] = RunCell(s, i)
    BY <1>1, <1>2, <2>6 DEF SweepInv
  <2>8. CellOf(s, i)
    BY <2>1, CellIs
  <2>9. cells[i].overrides = choice
    BY <2>2, <2>5, <2>7, <2>8 DEF CellOf
  <2> QED BY <2>6, <2>9
<1>5. ASSUME stage = "done", \A k \in DOMAIN axes : IsInjective(ParseParam(axes[k])),
             NEW n \in DOMAIN cells, NEW m \in DOMAIN cells, cells[n].overrides = cells[m].overrides
      PROVE n = m
  <2>1. Validate(s) /\ Len(cells) = Below(s, 0)
    BY <1>1, <1>5 DEF SweepInv
  <2>2. n \in 1 .. Below(s, 0) /\ m \in 1 .. Below(s, 0)
    BY <1>2, <2>1
  <2>3. PICK i \in 1 .. Below(s, 0), j \in 1 .. Below(s, 0) : i = n /\ j = m
    BY <2>2
  <2>4. cells[n] = RunCell(s, i) /\ cells[m] = RunCell(s, j)
    BY <1>1, <1>2, <2>3 DEF SweepInv
  <2>5. CellOf(s, i) /\ CellOf(s, j)
    <3>1. CellOf(s, i)
      BY <2>1, CellIs
    <3>2. CellOf(s, j)
      BY <2>1, CellIs
    <3> QED BY <3>1, <3>2
  <2>6. Expand(s)[i] = Expand(s)[j]
    BY <1>5, <2>4, <2>5 DEF CellOf
  <2>7. \A k \in DOMAIN s : IsInjective(ParseParam(s[k]))
    BY <1>1, <1>5
  <2>8. i = j
    BY <2>1, <2>6, <2>7, OneCell
  <2> QED BY <2>3, <2>8
<1> QED BY <1>3, <1>4, <1>5 DEF GridIsWhole

LEMMA PathsFollow ==
  ASSUME SweepAssumption, GridLimit < RangeCap, SweepInv
  PROVE  PathsAreSettledFirst
<1>1. PICK s \in Sweeps : s = axes
  BY DEF SweepInv
<1>2. DOMAIN cells = 1 .. Len(cells) /\ Len(cells) \in Nat /\ taken \in Nat /\ Len(cells) <= taken
  BY DEF SweepInv
<1>3. ASSUME NEW n \in DOMAIN cells PROVE cells[n].error # "SweepError"
  <2>1. Validate(s)
    BY <1>1, <1>2 DEF SweepInv
  <2>2. CellOf(s, n)
    BY <2>1, CellIs
  <2>3. cells[n] = RunCell(s, n)
    BY <1>1, <1>2 DEF SweepInv
  <2> QED BY <2>2, <2>3 DEF CellOf
<1>4. ASSUME stage = "running", NEW k \in DOMAIN axes, axes[k].range # <<>>
      PROVE \E j \in DOMAIN ParseParam(axes[k]) :
              LET gap == axes[k].range[2] - ParseParam(axes[k])[j]
                  pace == axes[k].range[3]
              IN IF pace > 0 THEN gap >= 0 /\ gap < pace ELSE gap <= 0 /\ gap > pace
  <2>1. Validate(s) /\ Below(s, 0) <= GridLimit /\ {GridLimit, RangeCap} \subseteq Nat
    BY <1>1, <1>4 DEF SweepInv, SweepAssumption
  <2>2. PICK v, l : v = ParseParam(s[k]) /\ l = Len(v) /\ l \in Nat /\ DOMAIN v = 1 .. l
    BY <1>1, AxisIs
  <2>3. v # <<>>
    BY <1>1, <2>1, <2>2 DEF Validate
  <2>4. l # 0
    BY <1>1, <2>2, <2>3, AxisIs
  <2>5. l <= Below(s, 0) /\ Below(s, 0) \in Nat
    <3>1. PICK n, L, W : n = Len(s) /\ L = Lengths(s) /\ W = Weights(s)
      OBVIOUS
    <3>2. AreWeights(W, L, n) /\ W[0] = Below(s, 0) /\ n \in Nat /\ DOMAIN s = 1 .. n /\ Below(s, 0) \in Nat \ {0}
      BY <2>1, <3>1, GridIs
    <3>3. PICK i \in 1 .. n : i = k
      BY <1>1, <3>2
    <3>4. L[i] = l
      BY <1>1, <2>1, <2>2, <3>1, <3>3, GridIs
    <3>5. PICK w \in Nat \ {0} : w = W[i] /\ W[i - 1] = w * l
      BY <3>2, <3>4, WeightsAre
    <3>6. PICK q \in Nat : W[0] = q * W[i - 1]
      <4>1. 0 \in 0 .. i - 1
        OBVIOUS
      <4> QED BY <3>2, <4>1, WeightsDivide
    <3>7. w * l >= l /\ w * l \in Nat
      BY <2>2, SMTT(30)
    <3>8. PICK z \in Nat : z = w * l
      BY <3>7
    <3>9. Below(s, 0) = q * z /\ q # 0
      BY <3>2, <3>5, <3>6, <3>8
    <3>10. q * z >= z
      BY <3>9, SMTT(30)
    <3> QED BY <2>2, <3>2, <3>7, <3>8, <3>9, <3>10
  <2>6. PICK a \in Int, b \in Int, pace \in Int : a = s[k].range[1] /\ b = s[k].range[2] /\ pace = s[k].range[3]
    BY <1>1, <1>4 DEF SweepAssumption
  <2>7. pace # 0 /\ v = RangeValues(a, b, pace)
    BY <1>1, <1>4, <2>2, <2>3, <2>6 DEF ParseParam
  <2>8. PICK c \in 0 .. RangeCap : Stepped(c, a, b, pace)
    BY <2>1, <2>7, RangeIs
  <2>9. v = [j \in 1 .. c |-> a + (j - 1) * pace]
    BY <2>7, <2>8 DEF Stepped
  <2>10. c = l
    <3>1. c \in Nat /\ Len([j \in 1 .. c |-> a + (j - 1) * pace]) = c
      BY <2>1
    <3> QED BY <2>2, <2>9, <3>1
  <2>11. c < RangeCap /\ c # 0 /\ c \in Nat
    BY <2>1, <2>2, <2>4, <2>5, <2>10
  <2>12. c \in 1 .. c /\ v[c] = a + (c - 1) * pace
    BY <2>9, <2>11
  <2>13. LET gap == b - v[c] IN IF pace > 0 THEN gap >= 0 /\ gap < pace ELSE gap <= 0 /\ gap > pace
    BY <2>8, <2>11, <2>12 DEF Stepped
  <2>14. c \in DOMAIN ParseParam(axes[k])
    BY <1>1, <2>2, <2>10, <2>12
  <2> QED BY <1>1, <2>2, <2>6, <2>13, <2>14
<1> QED BY <1>3, <1>4 DEF PathsAreSettledFirst

(* A finished sweep has the whole grid, each cell in its place over an       *)
(* untouched base, whatever order the workers finish in (run_sweep).         *)
THEOREM SweepsAreWhole == SweepSpec => []GridIsWhole
<1>1. SweepInv => GridIsWhole
  BY SweepAssumption, GridFollows
<1> QED BY <1>1, SweepHolds, PTL

(* No cell fails on a path and no range is cut short, while a sweep may not  *)
(* have as many cells as a range has values at most (validate, expand).      *)
THEOREM SweepsAreSettledFirst ==
  ASSUME GridLimit < RangeCap
  PROVE  SweepSpec => []PathsAreSettledFirst
<1>1. SweepInv => PathsAreSettledFirst
  BY SweepAssumption, PathsFollow
<1> QED BY <1>1, SweepHolds, PTL

(* What is so at nought, and at a number if at the one before, is so up to   *)
(* a bound.                                                                  *)
LEMMA Upward ==
  ASSUME NEW L \in Nat, NEW S, 0 \in S, \A k \in 1 .. L : k - 1 \in S => k \in S
  PROVE  \A k \in 0 .. L : k \in S
<1> DEFINE bad == {k \in 0 .. L : k \notin S}
<1> SUFFICES ASSUME bad # {} PROVE FALSE
  OBVIOUS
<1>1. PICK m \in bad : \A o \in bad : m <= o
  <2>1. bad \subseteq Nat
    OBVIOUS
  <2> HIDE DEF bad
  <2> QED BY <2>1, Least
<1>2. m \in 1 .. L /\ m - 1 \in 0 .. L /\ ~(m <= m - 1)
  BY <1>1
<1>3. m - 1 \in S
  BY <1>1, <1>2
<1> QED BY <1>1, <1>2, <1>3

(* A sum over a part is what the sums over the whole say,                    *)
PartOf(f, s) == TotalOf([j \in s |-> f[j]])

LEMMA PartIs ==
  ASSUME NEW D, IsFiniteSet(D), NEW f \in [D -> Int], NEW g, AddsUp(g, f, D), NEW s \in SUBSET D
  PROVE  PartOf(f, s) = g[s]
<1>1. PICK h : h = [j \in s |-> f[j]]
  OBVIOUS
<1>2. h \in [s -> Int] /\ IsFiniteSet(s)
  BY <1>1, FS_Subset
<1>3. PICK k : AddsUp(k, h, s) /\ TotalOf(h) = k[s]
  BY <1>2, TotalAddsUp
<1>4. g[{}] = 0 /\ \A t \in SUBSET D : \A x \in t : g[t] = f[x] + g[t \ {x}]
  BY DEF AddsUp
<1>5. k[{}] = 0 /\ \A t \in SUBSET s : \A x \in t : k[t] = h[x] + k[t \ {x}]
  BY <1>3 DEF AddsUp
<1> DEFINE G == {t \in SUBSET s : k[t] = g[t]}
<1>6. {} \in G
  BY <1>4, <1>5
<1>7. ASSUME NEW t \in SUBSET s, NEW x \in t, t \ {x} \in G PROVE t \in G
  <2>1. g[t] = f[x] + g[t \ {x}] /\ k[t] = h[x] + k[t \ {x}] /\ h[x] = f[x]
    BY <1>1, <1>4, <1>5
  <2> QED BY <1>7, <2>1
<1>8. s \in G
  <2> HIDE DEF G
  <2>1. \A t \in SUBSET s : t \in G
    BY <1>2, <1>6, <1>7, EachSubset
  <2> QED BY <2>1
<1> QED BY <1>1, <1>3, <1>8 DEF PartOf

(* and the sums over a part and over the rest make the whole.                *)
LEMMA PartsJoin ==
  ASSUME NEW D, IsFiniteSet(D), NEW f \in [D -> Int], NEW A \in SUBSET D
  PROVE  /\ PartOf(f, D) = PartOf(f, A) + PartOf(f, D \ A)
         /\ PartOf(f, A) \in Int /\ PartOf(f, D \ A) \in Int
<1>1. PICK g : AddsUp(g, f, D)
  BY TotalAddsUp
<1>2. /\ g[{}] = 0
      /\ \A s \in SUBSET D : g[s] \in Int
      /\ \A s \in SUBSET D : \A x \in s : g[s] = f[x] + g[s \ {x}]
  BY <1>1 DEF AddsUp
<1> DEFINE G == {s \in SUBSET D : g[s] = g[s \cap A] + g[s \ A]}
<1>3. {} \in G
  <2>1. {} \cap A = {} /\ {} \ A = {}
    OBVIOUS
  <2> QED BY <1>2, <2>1
<1>4. ASSUME NEW s \in SUBSET D, NEW x \in s, s \ {x} \in G PROVE s \in G
  <2>1. PICK a \in SUBSET D, b \in SUBSET D, r \in SUBSET D : a = s \cap A /\ b = s \ A /\ r = s \ {x}
    OBVIOUS
  <2>2. g[r] = g[r \cap A] + g[r \ A] /\ g[s] = f[x] + g[r]
    BY <1>2, <1>4, <2>1
  <2>3. CASE x \in A
    <3>1. r \cap A = a \ {x} /\ r \ A = b /\ x \in a
      BY <2>1, <2>3
    <3>2. g[a] = f[x] + g[a \ {x}]
      BY <1>2, <3>1
    <3>3. PICK p \in Int, q \in Int, z \in Int : p = f[x] /\ q = g[a \ {x}] /\ z = g[b]
      BY <1>2
    <3>4. g[a] = p + q /\ g[s] = p + (q + z)
      BY <2>2, <3>1, <3>2, <3>3
    <3>5. g[s] = g[a] + g[b]
      BY <3>3, <3>4
    <3> QED BY <2>1, <3>5
  <2>4. CASE x \notin A
    <3>1. r \cap A = a /\ r \ A = b \ {x} /\ x \in b
      BY <2>1, <2>4
    <3>2. g[b] = f[x] + g[b \ {x}]
      BY <1>2, <3>1
    <3>3. PICK p \in Int, q \in Int, z \in Int : p = f[x] /\ q = g[b \ {x}] /\ z = g[a]
      BY <1>2
    <3>4. g[b] = p + q /\ g[s] = p + (z + q)
      BY <2>2, <3>1, <3>2, <3>3
    <3>5. g[s] = g[a] + g[b]
      BY <3>3, <3>4
    <3> QED BY <2>1, <3>5
  <2> QED BY <2>3, <2>4
<1>5. D \in G
  <2> HIDE DEF G
  <2>1. \A s \in SUBSET D : s \in G
    BY <1>3, <1>4, EachSubset
  <2> QED BY <2>1
<1>6. PICK b \in SUBSET D : b = D \ A
  OBVIOUS
<1>7. D \cap A = A /\ D \in SUBSET D
  OBVIOUS
<1>8. PartOf(f, D) = g[D] /\ PartOf(f, A) = g[A] /\ PartOf(f, b) = g[b]
  <2>1. PartOf(f, A) = g[A]
    BY <1>1, PartIs
  <2>2. PartOf(f, b) = g[b]
    BY <1>1, PartIs
  <2>3. PartOf(f, D) = g[D]
    BY <1>1, <1>7, PartIs
  <2> QED BY <2>1, <2>2, <2>3
<1> QED BY <1>2, <1>5, <1>6, <1>7, <1>8

-----------------------------------------------------------------------------
(* A series of m closes,                                                     *)
IsSeries(x, m) == m \in Nat \ {0} /\ x \in [0 .. m - 1 -> Closes \cup {Missing}]

LEMMA SeriesIs ==
  ASSUME IndicatorsAssumption, NEW m, NEW x, IsSeries(x, m)
  PROVE  /\ m \in Nat \ {0} /\ DOMAIN x = 0 .. m - 1 /\ Length(x) = m /\ x \in [0 .. m - 1 -> Int]
         /\ \A i \in 0 .. m - 1 : x[i] # Missing => x[i] \in Nat \ {0}
<1>1. m \in Nat \ {0} /\ DOMAIN x = 0 .. m - 1
  BY DEF IsSeries
<1>2. Cardinality(0 .. m - 1) = m
  BY <1>1, FS_Interval
<1>3. \A i \in 0 .. m - 1 : x[i] \in Closes \cup {Missing}
  BY DEF IsSeries
<1>4. Missing \in Int /\ Closes \subseteq Nat \ {0}
  BY DEF Missing, IndicatorsAssumption
<1>5. x \in [0 .. m - 1 -> Int]
  <2>1. Closes \cup {Missing} \subseteq Int
    BY <1>4
  <2> QED BY <1>1, <2>1 DEF IsSeries
<1> QED BY <1>1, <1>2, <1>3, <1>4, <1>5 DEF Length

(* and what of it there is on day i.                                         *)
UpTo(x, i) == [j \in 0 .. i |-> x[j]]

LEMMA UpToIs ==
  ASSUME NEW m, NEW x, IsSeries(x, m), NEW i \in 0 .. m - 1
  PROVE  IsSeries(UpTo(x, i), i + 1) /\ \A j \in 0 .. i : UpTo(x, i)[j] = x[j]
<1>1. m \in Nat /\ i \in Nat /\ \A j \in 0 .. i : j \in 0 .. m - 1 /\ x[j] \in Closes \cup {Missing}
  BY DEF IsSeries
<1>2. i + 1 \in Nat \ {0} /\ i + 1 - 1 = i
  BY <1>1
<1> QED BY <1>1, <1>2 DEF IsSeries, UpTo

(* Two series that agree over S have the same present in it, and sums.       *)
LEMMA Alike ==
  ASSUME NEW x, NEW y, NEW S, \A j \in S : x[j] = y[j]
  PROVE  Present(x, S) = Present(y, S) /\ Adds(x, S) = Adds(y, S)
<1>1. [j \in S |-> x[j]] = [j \in S |-> y[j]]
  OBVIOUS
<1> QED BY <1>1 DEF Present, Adds

LEMMA RollingAlike ==
  ASSUME IndicatorsAssumption, NEW m, NEW x, IsSeries(x, m), NEW i \in 0 .. m - 1, NEW n \in Nat \ {0}
  PROVE  RollingMean(UpTo(x, i), n)[i] = RollingMean(x, n)[i]
<1>1. PICK y : y = UpTo(x, i)
  OBVIOUS
<1>2. /\ m \in Nat /\ DOMAIN x = 0 .. m - 1 /\ DOMAIN y = 0 .. i /\ i \in Nat
      /\ \A j \in 0 .. i : y[j] = x[j]
  BY <1>1, SeriesIs, UpToIs DEF UpTo
<1>3. ASSUME NEW k, k \in Nat, k <= i + 1 PROVE RunSum(y, k) = RunSum(x, k) /\ RunSeen(y, k) = RunSeen(x, k)
  <2>1. \A j \in 0 .. k - 1 : y[j] = x[j]
    BY <1>2, <1>3
  <2>2. Present(y, 0 .. k - 1) = Present(x, 0 .. k - 1)
    BY <2>1, Alike
  <2>3. PICK S : S = Present(x, 0 .. k - 1)
    OBVIOUS
  <2>4. \A j \in S : y[j] = x[j]
    BY <2>1, <2>3 DEF Present
  <2>5. Adds(y, S) = Adds(x, S)
    BY <2>4, Alike
  <2> QED BY <2>2, <2>3, <2>5 DEF RunSum, RunSeen
<1>4. CASE i < n - 1
  BY <1>1, <1>2, <1>4 DEF RollingMean
<1>5. CASE ~(i < n - 1)
  <2>1. i + 1 \in Nat /\ i + 1 - n \in Nat /\ i + 1 - n <= i + 1
    BY <1>2, <1>5
  <2>2. /\ RunSum(y, i + 1) = RunSum(x, i + 1) /\ RunSeen(y, i + 1) = RunSeen(x, i + 1)
        /\ RunSum(y, i + 1 - n) = RunSum(x, i + 1 - n) /\ RunSeen(y, i + 1 - n) = RunSeen(x, i + 1 - n)
    BY <1>2, <1>3, <2>1
  <2>3. i \in DOMAIN x /\ i \in DOMAIN y
    BY <1>2
  <2> QED BY <1>1, <2>2, <2>3 DEF RollingMean
<1> QED BY <1>4, <1>5

(* The average of the running sums is that of the window.                    *)
LEMMA RollingIs ==
  ASSUME IndicatorsAssumption, NEW m, NEW x, IsSeries(x, m), NEW i \in 0 .. m - 1, NEW n \in Nat \ {0},
         NEW w, w = i - n + 1 .. i
  PROVE  RollingMean(x, n)[i] = IF i < n - 1 \/ Present(x, w) # w THEN <<>> ELSE <<Adds(x, w), n>>
<1>1. /\ m \in Nat /\ DOMAIN x = 0 .. m - 1 /\ i \in Nat /\ i \in DOMAIN x
      /\ x \in [0 .. m - 1 -> Int]
  BY SeriesIs
<1>2. CASE i < n - 1
  BY <1>1, <1>2 DEF RollingMean
<1>3. CASE ~(i < n - 1)
  <2>1. PICK b \in Nat : b = i + 1 - n /\ b <= i
    <3>1. i + 1 - n \in Nat /\ i + 1 - n <= i
      BY <1>1, <1>3
    <3> QED BY <3>1
  <2>2. w = b .. i /\ 0 .. i + 1 - 1 = 0 .. i /\ 0 .. i + 1 - n - 1 = 0 .. b - 1
    BY <1>1, <2>1
  <2>3. PICK P, Q, V : P = Present(x, 0 .. i) /\ Q = Present(x, 0 .. b - 1) /\ V = Present(x, w)
    OBVIOUS
  <2>4. Q \subseteq P /\ P \ Q = V /\ V \subseteq w /\ P \cap Q = Q /\ P \subseteq 0 .. i
    BY <1>1, <2>1, <2>2, <2>3 DEF Present
  <2>5. IsFiniteSet(P) /\ IsFiniteSet(Q) /\ IsFiniteSet(w) /\ Cardinality(w) = n
    <3>1. IsFiniteSet(0 .. i) /\ IsFiniteSet(w) /\ Cardinality(w) = n
      BY <1>1, <1>3, <2>1, <2>2, FS_Interval
    <3>2. IsFiniteSet(P)
      BY <2>4, <3>1, FS_Subset
    <3> QED BY <2>4, <3>1, <3>2, FS_Subset
  <2>6. Cardinality(V) = Cardinality(P) - Cardinality(Q)
    BY <2>4, <2>5, FS_Difference
  <2>7. V = w <=> Cardinality(P) - Cardinality(Q) = n
    BY <2>4, <2>5, <2>6, FS_Subset
  <2>8. RunSeen(x, i + 1) = Cardinality(P) /\ RunSeen(x, i + 1 - n) = Cardinality(Q)
    BY <2>2, <2>3 DEF RunSeen
  <2>9. RunSum(x, i + 1) = Adds(x, P) /\ RunSum(x, i + 1 - n) = Adds(x, Q)
    BY <2>2, <2>3 DEF RunSum
  <2>10. Adds(x, P) - Adds(x, Q) = Adds(x, V)
    <3>1. PICK f : f = [j \in P |-> x[j]]
      OBVIOUS
    <3>2. f \in [P -> Int]
      BY <1>1, <2>4, <3>1
    <3>3. /\ PartOf(f, P) = PartOf(f, Q) + PartOf(f, P \ Q)
          /\ PartOf(f, Q) \in Int /\ PartOf(f, P \ Q) \in Int
      BY <2>4, <2>5, <3>2, PartsJoin
    <3>4. ASSUME NEW S \in SUBSET P PROVE PartOf(f, S) = Adds(x, S)
      <4>1. [j \in S |-> f[j]] = [j \in S |-> x[j]]
        BY <3>1
      <4> QED BY <4>1 DEF PartOf, Adds
    <3>5. PartOf(f, P) = Adds(x, P) /\ PartOf(f, Q) = Adds(x, Q) /\ PartOf(f, V) = Adds(x, V)
      BY <2>4, <3>4
    <3>6. PICK q \in Int, v \in Int : q = PartOf(f, Q) /\ v = PartOf(f, V) /\ PartOf(f, P) = q + v
      BY <2>4, <3>3
    <3> QED BY <3>5, <3>6
  <2>11. RollingMean(x, n)[i] = IF RunSeen(x, i + 1) - RunSeen(x, i + 1 - n) # n THEN <<>>
                                ELSE <<RunSum(x, i + 1) - RunSum(x, i + 1 - n), n>>
    BY <1>1, <1>3 DEF RollingMean
  <2> QED BY <1>3, <2>3, <2>7, <2>8, <2>9, <2>10, <2>11
<1> QED BY <1>2, <1>3

-----------------------------------------------------------------------------
(* The average that a close moves,                                           *)
EmaStep(x, n, k, v) ==
  IF x[k - 1] = Missing THEN v
  ELSE IF v = <<>> THEN <<x[k - 1], 1>>
  ELSE <<(n - 1) * v[1] + 2 * x[k - 1] * v[2], (n + 1) * v[2]>>
EmaRuns(x, n, m, r) ==
  /\ r[0] = <<>> /\ \A k \in 1 .. m : r[k] = EmaStep(x, n, k, r[k - 1])
  /\ \A i \in 0 .. m - 1 : Ema(x, n)[i] = IF i < n - 1 \/ x[i] = Missing THEN <<>> ELSE r[i + 1]

LEMMA EmaIs ==
  ASSUME IndicatorsAssumption, NEW m, NEW x, IsSeries(x, m), NEW n \in Nat \ {0}
  PROVE  \E r : EmaRuns(x, n, m, r)
<1>1. m \in Nat \ {0} /\ DOMAIN x = 0 .. m - 1 /\ Length(x) = m /\ x \in [0 .. m - 1 -> Int]
  BY SeriesIs
<1> DEFINE V == {<<>>} \cup (Int \X Int)
           rule == [k \in 1 .. m |-> [v \in V |-> EmaStep(x, n, k, v)]]
           Built(g) == g = [k \in 0 .. m |-> IF k = 0 THEN <<>> ELSE EmaStep(x, n, k, g[k - 1])]
<1>2. ASSUME NEW k \in 1 .. m, NEW v \in V PROVE EmaStep(x, n, k, v) \in V
  <2>1. k - 1 \in 0 .. m - 1
    BY <1>1
  <2>2. PICK c \in Int : c = x[k - 1]
    BY <1>1, <2>1
  <2>3. CASE v = <<>>
    BY <2>2, <2>3 DEF EmaStep
  <2>4. CASE v # <<>>
    <3>1. PICK a \in Int, b \in Int : v = <<a, b>>
      BY <2>4
    <3>2. (n - 1) * a + 2 * c * b \in Int /\ (n + 1) * b \in Int
      OBVIOUS
    <3>3. EmaStep(x, n, k, v) = IF c = Missing THEN v ELSE <<(n - 1) * a + 2 * c * b, (n + 1) * b>>
      BY <2>2, <2>4, <3>1 DEF EmaStep
    <3> QED BY <3>2, <3>3
  <2> QED BY <2>3, <2>4
<1>3. PICK g \in [0 .. m -> V] : Follows(g, <<>>, m, rule)
  <2>1. rule \in [1 .. m -> [V -> V]]
    <3> HIDE DEF V
    <3> QED BY <1>2
  <2>2. <<>> \in V
    OBVIOUS
  <2> HIDE DEF V, rule
  <2> QED BY <1>1, <2>1, <2>2, Recursion
<1>4. Built(g)
  <2>1. ASSUME NEW k \in 0 .. m PROVE g[k] = IF k = 0 THEN <<>> ELSE EmaStep(x, n, k, g[k - 1])
    <3>1. CASE k = 0
      BY <1>3, <3>1 DEF Follows
    <3>2. CASE k # 0
      <4>1. k \in 1 .. m /\ k - 1 \in 0 .. m
        BY <1>1, <3>2
      <4>2. g[k] = rule[k][g[k - 1]] /\ g[k - 1] \in V
        BY <1>3, <4>1 DEF Follows
      <4> HIDE DEF V
      <4> QED BY <3>2, <4>1, <4>2
    <3> QED BY <3>1, <3>2
  <2> HIDE DEF V
  <2> QED BY <1>3, <2>1
<1>5. PICK r : r = CHOOSE h : Built(h)
  OBVIOUS
<1>6. Built(r)
  <2> HIDE DEF Built
  <2> QED BY <1>4, <1>5
<1>7. r[0] = <<>> /\ \A k \in 1 .. m : r[k] = EmaStep(x, n, k, r[k - 1])
  <2>1. ASSUME NEW k \in 1 .. m PROVE r[k] = EmaStep(x, n, k, r[k - 1])
    <3>1. k \in 0 .. m /\ k # 0
      BY <1>1
    <3> QED BY <1>6, <3>1
  <2>2. 0 \in 0 .. m
    BY <1>1
  <2> QED BY <1>6, <2>1, <2>2
<1>8. ASSUME NEW i \in 0 .. m - 1
      PROVE Ema(x, n)[i] = IF i < n - 1 \/ x[i] = Missing THEN <<>> ELSE r[i + 1]
  <2>1. Ema(x, n)[i]
          = IF i < n - 1 \/ x[i] = Missing THEN <<>>
            ELSE (CHOOSE h : h = [k \in 0 .. Length(x) |-> IF k = 0 THEN <<>>
                               ELSE IF x[k - 1] = Missing THEN h[k - 1]
                               ELSE IF h[k - 1] = <<>> THEN <<x[k - 1], 1>>
                               ELSE <<(n - 1) * h[k - 1][1] + 2 * x[k - 1] * h[k - 1][2], (n + 1) * h[k - 1][2]>>])[i + 1]
    BY <1>1 DEF Ema
  <2>2. r = CHOOSE h : h = [k \in 0 .. m |-> IF k = 0 THEN <<>>
                               ELSE IF x[k - 1] = Missing THEN h[k - 1]
                               ELSE IF h[k - 1] = <<>> THEN <<x[k - 1], 1>>
                               ELSE <<(n - 1) * h[k - 1][1] + 2 * x[k - 1] * h[k - 1][2], (n + 1) * h[k - 1][2]>>]
    BY <1>5 DEF EmaStep
  <2> QED BY <1>1, <2>1, <2>2
<1> QED BY <1>7, <1>8 DEF EmaRuns

LEMMA EmaAlike ==
  ASSUME IndicatorsAssumption, NEW m, NEW x, IsSeries(x, m), NEW i \in 0 .. m - 1, NEW n \in Nat \ {0}
  PROVE  Ema(UpTo(x, i), n)[i] = Ema(x, n)[i]
<1>1. PICK y : y = UpTo(x, i)
  OBVIOUS
<1>2. IsSeries(y, i + 1) /\ m \in Nat /\ i \in Nat /\ \A j \in 0 .. i : y[j] = x[j]
  BY <1>1, SeriesIs, UpToIs
<1>3. PICK r : EmaRuns(x, n, m, r)
  BY EmaIs
<1>4. PICK s : EmaRuns(y, n, i + 1, s)
  BY <1>2, EmaIs
<1> DEFINE S == {k \in 0 .. i + 1 : s[k] = r[k]}
<1>5. 0 \in S
  BY <1>2, <1>3, <1>4 DEF EmaRuns
<1>6. ASSUME NEW k \in 1 .. i + 1, k - 1 \in S PROVE k \in S
  <2>1. k \in 1 .. m /\ k - 1 \in 0 .. i /\ k \in 0 .. i + 1
    BY <1>2
  <2>2. s[k] = EmaStep(y, n, k, s[k - 1]) /\ r[k] = EmaStep(x, n, k, r[k - 1])
    BY <1>3, <1>4, <2>1 DEF EmaRuns
  <2>3. s[k - 1] = r[k - 1] /\ y[k - 1] = x[k - 1]
    BY <1>2, <1>6, <2>1
  <2> QED BY <2>1, <2>2, <2>3 DEF EmaStep
<1>7. i + 1 \in S
  <2> HIDE DEF S
  <2>1. i + 1 \in Nat /\ i + 1 \in 0 .. i + 1
    BY <1>2
  <2>2. \A k \in 0 .. i + 1 : k \in S
    BY <1>5, <1>6, <2>1, Upward
  <2> QED BY <2>1, <2>2
<1>8. Ema(x, n)[i] = IF i < n - 1 \/ x[i] = Missing THEN <<>> ELSE r[i + 1]
  BY <1>3 DEF EmaRuns
<1>9. Ema(y, n)[i] = IF i < n - 1 \/ y[i] = Missing THEN <<>> ELSE s[i + 1]
  <2>1. i \in 0 .. i + 1 - 1
    BY <1>2
  <2> QED BY <1>4, <2>1 DEF EmaRuns
<1>10. y[i] = x[i]
  BY <1>2
<1> QED BY <1>1, <1>7, <1>8, <1>9, <1>10

-----------------------------------------------------------------------------
(* The moves of c days, and their averages, which are not less than nothing. *)
AreMoves(f, c) == c \in Nat /\ f \in [0 .. c - 1 -> Nat]
WilderStep(f, n, k, v) == <<v[1] * (n - 1) + n * v[2] * f[n + k - 1], v[2] * n>>
WilderRuns(f, n, c, r) ==
  /\ r[0] = <<Adds(f, 0 .. n - 1), 1>>
  /\ \A k \in 1 .. c - n : r[k] = WilderStep(f, n, k, r[k - 1])
  /\ \A k \in 0 .. c - n : r[k] \in Nat \X Nat

LEMMA WilderIs ==
  ASSUME NEW c, NEW f, AreMoves(f, c), NEW n \in 1 .. c
  PROVE  WilderRuns(f, n, c, Wilder(f, n))
<1>1. c \in Nat /\ n \in Nat \ {0} /\ DOMAIN f = 0 .. c - 1 /\ c - n \in Nat
  BY DEF AreMoves
<1>2. Length(f) = c
  <2>1. Cardinality(0 .. c - 1) = c
    BY <1>1, FS_Interval
  <2> QED BY <1>1, <2>1 DEF Length
<1> DEFINE V == Nat \X Nat
           base == <<Adds(f, 0 .. n - 1), 1>>
           rule == [k \in 1 .. c - n |-> [v \in V |-> WilderStep(f, n, k, v)]]
           Built(g) == g = [k \in 0 .. c - n |-> IF k = 0 THEN base ELSE WilderStep(f, n, k, g[k - 1])]
<1>3. ASSUME NEW k \in 1 .. c - n, NEW v \in V PROVE WilderStep(f, n, k, v) \in V
  <2>1. PICK a \in Nat, b \in Nat : v = <<a, b>>
    OBVIOUS
  <2>2. PICK d \in Nat : d = f[n + k - 1]
    <3>1. n + k - 1 \in 0 .. c - 1
      BY <1>1
    <3> QED BY <3>1 DEF AreMoves
  <2>3. n - 1 \in Nat /\ a * (n - 1) + n * b * d \in Nat /\ b * n \in Nat
    <3>1. PICK p \in Nat : p = n - 1
      BY <1>1
    <3>2. a * p \in Nat /\ n * b \in Nat /\ b * n \in Nat
      BY <1>1
    <3>3. PICK q \in Nat : q = n * b
      BY <3>2
    <3>4. q * d \in Nat
      OBVIOUS
    <3> QED BY <3>1, <3>2, <3>3, <3>4
  <2> QED BY <2>1, <2>2, <2>3 DEF WilderStep
<1>4. base \in V
  <2>1. PICK h : h = [j \in 0 .. n - 1 |-> f[j]]
    OBVIOUS
  <2>2. h \in [0 .. n - 1 -> Nat] /\ IsFiniteSet(0 .. n - 1)
    <3>1. \A j \in 0 .. n - 1 : f[j] \in Nat
      BY <1>1 DEF AreMoves
    <3>2. IsFiniteSet(0 .. n - 1)
      BY <1>1, FS_Interval
    <3> QED BY <2>1, <3>1, <3>2
  <2>3. TotalOf(h) \in Nat
    BY <2>2, TotalIsNat
  <2> QED BY <2>1, <2>3 DEF Adds
<1>5. PICK g \in [0 .. c - n -> V] : Follows(g, base, c - n, rule)
  <2>1. rule \in [1 .. c - n -> [V -> V]]
    <3> HIDE DEF V
    <3> QED BY <1>3
  <2>2. PICK l \in Nat : l = c - n
    BY <1>1
  <2>3. PICK e, u : e = base /\ u = rule
    OBVIOUS
  <2> HIDE DEF V, rule, base
  <2>4. e \in V /\ u \in [1 .. l -> [V -> V]]
    BY <1>4, <2>1, <2>2, <2>3
  <2>5. \E h \in [0 .. l -> V] : Follows(h, e, l, u)
    BY <2>4, Recursion
  <2> QED BY <2>2, <2>3, <2>5
<1>6. Built(g)
  <2>1. ASSUME NEW k \in 0 .. c - n PROVE g[k] = IF k = 0 THEN base ELSE WilderStep(f, n, k, g[k - 1])
    <3> HIDE DEF base
    <3>1. CASE k = 0
      BY <1>5, <3>1 DEF Follows
    <3>2. CASE k # 0
      <4>1. k \in 1 .. c - n /\ k - 1 \in 0 .. c - n
        BY <1>1, <3>2
      <4>2. g[k] = rule[k][g[k - 1]] /\ g[k - 1] \in V
        BY <1>5, <4>1 DEF Follows
      <4> HIDE DEF V
      <4> QED BY <3>2, <4>1, <4>2
    <3> QED BY <3>1, <3>2
  <2> HIDE DEF V, base
  <2> QED BY <1>5, <2>1
<1>7. Wilder(f, n) = CHOOSE h : Built(h)
  <2>1. Wilder(f, n) = CHOOSE h : h = [k \in 0 .. Length(f) - n |-> IF k = 0 THEN <<Adds(f, 0 .. n - 1), 1>>
                          ELSE <<h[k - 1][1] * (n - 1) + n * h[k - 1][2] * f[n + k - 1], h[k - 1][2] * n>>]
    BY DEF Wilder
  <2> QED BY <1>2, <2>1 DEF WilderStep
<1>8. PICK r : r = Wilder(f, n)
  OBVIOUS
<1>9. Built(r)
  <2> HIDE DEF Built
  <2> QED BY <1>6, <1>7, <1>8
<1>10. r[0] = base /\ \A k \in 1 .. c - n : r[k] = WilderStep(f, n, k, r[k - 1])
  <2> HIDE DEF base
  <2>1. ASSUME NEW k \in 1 .. c - n PROVE r[k] = WilderStep(f, n, k, r[k - 1])
    <3>1. k \in 0 .. c - n /\ k # 0
      BY <1>1
    <3> QED BY <1>9, <3>1
  <2>2. 0 \in 0 .. c - n
    BY <1>1
  <2> QED BY <1>9, <2>1, <2>2
<1>11. \A k \in 0 .. c - n : r[k] \in V
  <2> DEFINE S == {k \in 0 .. c - n : r[k] \in V}
  <2> HIDE DEF V, base
  <2>1. 0 \in S
    BY <1>1, <1>4, <1>10
  <2>2. \A k \in 1 .. c - n : k - 1 \in S => k \in S
    BY <1>1, <1>3, <1>10
  <2> HIDE DEF S
  <2>3. \A k \in 0 .. c - n : k \in S
    <3>1. PICK l \in Nat : l = c - n
      BY <1>1
    <3>2. \A k \in 1 .. l : k - 1 \in S => k \in S
      BY <2>2, <3>1
    <3>3. \A k \in 0 .. l : k \in S
      BY <2>1, <3>2, Upward
    <3> QED BY <3>1, <3>3
  <2> QED BY <2>3 DEF S
<1> QED BY <1>8, <1>10, <1>11 DEF WilderRuns

(* The same for the first of them.                                           *)
LEMMA WilderAlike ==
  ASSUME NEW c, NEW f, AreMoves(f, c), NEW b \in 0 .. c, NEW g, AreMoves(g, b), \A j \in 0 .. b - 1 : g[j] = f[j],
         NEW n \in 1 .. b
  PROVE  Wilder(g, n)[b - n] = Wilder(f, n)[b - n]
<1>1. c \in Nat /\ b \in Nat /\ n \in Nat /\ n \in 1 .. c /\ b - n \in Nat
  BY DEF AreMoves
<1>2. PICK r, s : r = Wilder(f, n) /\ s = Wilder(g, n)
  OBVIOUS
<1>3. WilderRuns(f, n, c, r)
  BY <1>1, <1>2, WilderIs
<1>4. WilderRuns(g, n, b, s)
  BY <1>2, WilderIs
<1>5. PICK l \in Nat : l = b - n
  BY <1>1
<1> DEFINE S == {k \in 0 .. l : s[k] = r[k]}
<1>6. 0 \in S
  <2>1. \A j \in 0 .. n - 1 : g[j] = f[j]
    BY <1>1
  <2>2. Adds(g, 0 .. n - 1) = Adds(f, 0 .. n - 1)
    BY <2>1, Alike
  <2> QED BY <1>3, <1>4, <2>2 DEF WilderRuns
<1>7. ASSUME NEW k \in 1 .. l, k - 1 \in S PROVE k \in S
  <2>1. k \in 1 .. b - n /\ k \in 1 .. c - n /\ n + k - 1 \in 0 .. b - 1
    BY <1>1, <1>5
  <2>2. s[k] = WilderStep(g, n, k, s[k - 1]) /\ r[k] = WilderStep(f, n, k, r[k - 1])
    BY <1>3, <1>4, <2>1 DEF WilderRuns
  <2>3. s[k - 1] = r[k - 1] /\ g[n + k - 1] = f[n + k - 1]
    BY <1>7, <2>1
  <2>4. s[k] = r[k]
    BY <2>2, <2>3 DEF WilderStep
  <2> QED BY <2>4
<1>8. \A k \in 0 .. l : k \in S
  <2> HIDE DEF S
  <2> QED BY <1>6, <1>7, Upward
<1>9. l \in 0 .. l
  OBVIOUS
<1> QED BY <1>2, <1>5, <1>8, <1>9

(* The moves of a series.                                                    *)
LEMMA MovesAre ==
  ASSUME IndicatorsAssumption, NEW m, NEW x, IsSeries(x, m)
  PROVE  AreMoves(Gain(x), m - 1) /\ AreMoves(Loss(x), m - 1)
<1>1. m \in Nat \ {0} /\ DOMAIN x = 0 .. m - 1 /\ Length(x) = m /\ x \in [0 .. m - 1 -> Int]
  BY SeriesIs
<1>2. m - 2 = m - 1 - 1 /\ m - 1 \in Nat
  BY <1>1
<1>3. ASSUME NEW j \in 0 .. m - 1 - 1 PROVE Change(x, j) \in Int
  <2>1. j \in 0 .. m - 1 /\ j + 1 \in 0 .. m - 1
    BY <1>1
  <2> QED BY <1>1, <2>1 DEF Change
<1>4. ASSUME NEW j \in 0 .. m - 1 - 1
      PROVE /\ (IF Change(x, j) > 0 THEN Change(x, j) ELSE 0) \in Nat
            /\ (IF Change(x, j) < 0 THEN -Change(x, j) ELSE 0) \in Nat
  <2>1. PICK d \in Int : d = Change(x, j)
    BY <1>3
  <2> QED BY <2>1
<1> QED BY <1>1, <1>2, <1>4 DEF AreMoves, Gain, Loss

LEMMA MovesAlike ==
  ASSUME IndicatorsAssumption, NEW m, NEW x, IsSeries(x, m), NEW i \in 0 .. m - 1, NEW y, y = UpTo(x, i)
  PROVE  /\ AreMoves(Gain(y), i) /\ AreMoves(Loss(y), i)
         /\ \A j \in 0 .. i - 1 : Gain(y)[j] = Gain(x)[j] /\ Loss(y)[j] = Loss(x)[j]
<1>1. m \in Nat \ {0} /\ Length(x) = m /\ i \in Nat
  BY SeriesIs
<1>2. IsSeries(y, i + 1) /\ \A j \in 0 .. i : y[j] = x[j]
  BY UpToIs
<1>3. AreMoves(Gain(y), i) /\ AreMoves(Loss(y), i)
  <2>1. PICK k : k = i + 1
    OBVIOUS
  <2>2. AreMoves(Gain(y), k - 1) /\ AreMoves(Loss(y), k - 1)
    BY <1>2, <2>1, MovesAre
  <2> QED BY <1>1, <2>1, <2>2
<1>4. Length(y) = i + 1
  BY <1>2, SeriesIs
<1>5. ASSUME NEW j \in 0 .. i - 1 PROVE Gain(y)[j] = Gain(x)[j] /\ Loss(y)[j] = Loss(x)[j]
  <2>1. y[j] = x[j] /\ y[j + 1] = x[j + 1]
    BY <1>1, <1>2
  <2>2. Change(y, j) = Change(x, j)
    BY <2>1 DEF Change
  <2>3. j \in 0 .. m - 2 /\ j \in 0 .. i + 1 - 2
    BY <1>1
  <2> QED BY <1>1, <1>4, <2>2, <2>3 DEF Gain, Loss
<1> QED BY <1>3, <1>5

LEMMA RsiAlike ==
  ASSUME IndicatorsAssumption, NEW m, NEW x, IsSeries(x, m), NEW i \in 0 .. m - 1, NEW n \in Nat \ {0}
  PROVE  Rsi(UpTo(x, i), n)[i] = Rsi(x, n)[i]
<1>1. PICK y : y = UpTo(x, i)
  OBVIOUS
<1>2. m \in Nat \ {0} /\ Length(x) = m /\ DOMAIN x = 0 .. m - 1 /\ i \in Nat
  BY SeriesIs
<1>3. DOMAIN y = 0 .. i /\ Length(y) = i + 1
  <2>1. IsSeries(y, i + 1)
    BY <1>1, UpToIs
  <2> QED BY <1>1, <2>1, SeriesIs DEF UpTo
<1>4. i \in DOMAIN x /\ i \in DOMAIN y
  BY <1>2, <1>3
<1>5. CASE i < n
  BY <1>1, <1>2, <1>3, <1>4, <1>5 DEF Rsi
<1>6. CASE ~(i < n)
  <2>1. ~(Length(x) - 1 < n) /\ ~(Length(y) - 1 < n)
    BY <1>2, <1>3, <1>6
  <2>2. PICK f, h, a, b, c : f = Gain(x) /\ h = Loss(x) /\ a = Gain(y) /\ b = Loss(y) /\ c = m - 1
    OBVIOUS
  <2>3. AreMoves(f, c) /\ AreMoves(h, c) /\ i \in 0 .. c /\ n \in 1 .. i
    BY <1>2, <1>6, <2>2, MovesAre
  <2>4. AreMoves(a, i) /\ AreMoves(b, i) /\ \A j \in 0 .. i - 1 : a[j] = f[j] /\ b[j] = h[j]
    BY <1>1, <2>2, MovesAlike
  <2>5. Wilder(a, n)[i - n] = Wilder(f, n)[i - n]
    BY <2>3, <2>4, WilderAlike
  <2>6. Wilder(b, n)[i - n] = Wilder(h, n)[i - n]
    BY <2>3, <2>4, WilderAlike
  <2>7. Rsi(x, n)[i] = LET rise == Wilder(f, n)[i - n][1]  fall == Wilder(h, n)[i - n][1]
                       IN IF fall = 0 THEN <<100, 1>> ELSE <<100 * rise, rise + fall>>
    BY <1>4, <1>6, <2>1, <2>2 DEF Rsi
  <2>8. Rsi(y, n)[i] = LET rise == Wilder(a, n)[i - n][1]  fall == Wilder(b, n)[i - n][1]
                       IN IF fall = 0 THEN <<100, 1>> ELSE <<100 * rise, rise + fall>>
    BY <1>4, <1>6, <2>1, <2>2 DEF Rsi
  <2> QED BY <1>1, <2>5, <2>6, <2>7, <2>8
<1> QED BY <1>5, <1>6

LEMMA RsiIs ==
  ASSUME IndicatorsAssumption, NEW m, NEW x, IsSeries(x, m), NEW i \in 0 .. m - 1, NEW n \in Nat \ {0},
         Rsi(x, n)[i] # <<>>
  PROVE  0 <= Rsi(x, n)[i][1] /\ Rsi(x, n)[i][1] <= 100 * Rsi(x, n)[i][2]
<1>1. m \in Nat \ {0} /\ Length(x) = m /\ DOMAIN x = 0 .. m - 1 /\ i \in Nat /\ i \in DOMAIN x
  BY SeriesIs
<1>2. ~(m - 1 < n) /\ ~(i < n)
  BY <1>1 DEF Rsi
<1>3. PICK f, h, c : f = Gain(x) /\ h = Loss(x) /\ c = m - 1
  OBVIOUS
<1>4. AreMoves(f, c) /\ AreMoves(h, c) /\ n \in 1 .. c /\ i - n \in 0 .. c - n
  BY <1>1, <1>2, <1>3, MovesAre
<1>5. WilderRuns(f, n, c, Wilder(f, n))
  BY <1>4, WilderIs
<1>6. WilderRuns(h, n, c, Wilder(h, n))
  BY <1>4, WilderIs
<1>7. PICK rise \in Nat, fall \in Nat : rise = Wilder(f, n)[i - n][1] /\ fall = Wilder(h, n)[i - n][1]
  <2>1. Wilder(f, n)[i - n] \in Nat \X Nat /\ Wilder(h, n)[i - n] \in Nat \X Nat
    BY <1>4, <1>5, <1>6 DEF WilderRuns
  <2> QED BY <2>1
<1>8. Rsi(x, n)[i] = IF fall = 0 THEN <<100, 1>> ELSE <<100 * rise, rise + fall>>
  BY <1>1, <1>2, <1>3, <1>7 DEF Rsi
<1>9. PICK p \in Nat, q \in Nat : Rsi(x, n)[i] = <<p, q>> /\ p <= 100 * q
  <2>1. CASE fall = 0
    BY <1>8, <2>1
  <2>2. CASE fall # 0
    <3>1. 100 * rise \in Nat /\ rise + fall \in Nat /\ 100 * rise <= 100 * (rise + fall)
      OBVIOUS
    <3> QED BY <1>8, <2>2, <3>1
  <2> QED BY <2>1, <2>2
<1> QED BY <1>9

-----------------------------------------------------------------------------
(* A window that ends on a day holds that day and none after it.             *)
LEMMA WindowIs ==
  ASSUME NEW i \in Nat, NEW n \in Nat \ {0}
  PROVE  Window(0, i, n) \subseteq 0 .. i /\ i \in Window(0, i, n) /\ IsFiniteSet(Window(0, i, n))
<1>1. PICK b \in Int : b = i - n + 1 /\ b <= i
  <2>1. i - n + 1 \in Int /\ i - n + 1 <= i
    OBVIOUS
  <2> QED BY <2>1
<1>2. PICK a \in Nat : a = Max({0, b}) /\ a <= i
  <2>1. CASE b >= 0
    <3>1. \A z \in {0, b} : (\A y \in {0, b} : z >= y) => z = b
      BY <2>1
    <3>2. \A y \in {0, b} : b >= y
      BY <2>1
    <3>3. Max({0, b}) = b
      BY <3>1, <3>2 DEF Max
    <3> QED BY <1>1, <2>1, <3>3
  <2>2. CASE ~(b >= 0)
    <3>1. \A z \in {0, b} : (\A y \in {0, b} : z >= y) => z = 0
      BY <2>2
    <3>2. \A y \in {0, b} : 0 >= y
      BY <2>2
    <3>3. Max({0, b}) = 0
      BY <3>1, <3>2 DEF Max
    <3> QED BY <3>3
  <2> QED BY <2>1, <2>2
<1>3. Window(0, i, n) = a .. i
  BY <1>1, <1>2 DEF Window
<1>4. IsFiniteSet(a .. i)
  BY FS_Interval
<1> QED BY <1>2, <1>3, <1>4

LEMMA WindowAlike ==
  ASSUME NEW x, NEW y, NEW i, NEW n, \A j \in Window(0, i, n) : y[j] = x[j], i \in Window(0, i, n)
  PROVE  /\ Window(y, i, n) = Window(0, i, n) /\ Window(x, i, n) = Window(0, i, n)
         /\ Present(y, Window(y, i, n)) = Present(x, Window(x, i, n))
         /\ Values(y, i, n) = Values(x, i, n) /\ Enough(y, i, n) = Enough(x, i, n) /\ y[i] = x[i]
         /\ {j \in Present(y, Window(y, i, n)) : y[j] < y[i]} = {j \in Present(x, Window(x, i, n)) : x[j] < x[i]}
<1>1. PICK W : W = Window(0, i, n)
  OBVIOUS
<1>2. Window(y, i, n) = W /\ Window(x, i, n) = W
  BY <1>1 DEF Window
<1>3. Present(y, W) = Present(x, W)
  BY <1>1, Alike
<1>4. PICK P : P = Present(x, W)
  OBVIOUS
<1>5. \A j \in P : y[j] = x[j]
  BY <1>1, <1>4 DEF Present
<1>6. {y[j] : j \in P} = {x[j] : j \in P}
  BY <1>5
<1>7. y[i] = x[i]
  BY <1>1
<1>8. {j \in P : y[j] < y[i]} = {j \in P : x[j] < x[i]}
  BY <1>5, <1>7
<1>9. Values(y, i, n) = Values(x, i, n)
  BY <1>2, <1>3, <1>4, <1>6 DEF Values
<1>10. Enough(y, i, n) = Enough(x, i, n)
  BY <1>2, <1>3, <1>7 DEF Enough
<1> QED BY <1>1, <1>2, <1>3, <1>4, <1>7, <1>8, <1>9, <1>10

LEMMA WindowsAlike ==
  ASSUME IndicatorsAssumption, NEW m, NEW x, IsSeries(x, m), NEW i \in 0 .. m - 1, NEW n \in Nat \ {0}
  PROVE  /\ Rank(UpTo(x, i), n)[i] = Rank(x, n)[i]
         /\ Percentile(UpTo(x, i), n)[i] = Percentile(x, n)[i]
         /\ Roll(UpTo(x, i), n, Max)[i] = Roll(x, n, Max)[i]
         /\ Roll(UpTo(x, i), n, Min)[i] = Roll(x, n, Min)[i]
         /\ Ret(UpTo(x, i), n)[i] = Ret(x, n)[i]
<1>1. PICK y : y = UpTo(x, i)
  OBVIOUS
<1>2. /\ m \in Nat /\ DOMAIN x = 0 .. m - 1 /\ DOMAIN y = 0 .. i /\ i \in Nat
      /\ \A j \in 0 .. i : y[j] = x[j]
  BY <1>1, SeriesIs, UpToIs DEF UpTo
<1>3. i \in DOMAIN x /\ i \in DOMAIN y
  BY <1>2
<1>4. Window(0, i, n) \subseteq 0 .. i /\ i \in Window(0, i, n)
  BY <1>2, WindowIs
<1>5. \A j \in Window(0, i, n) : y[j] = x[j]
  BY <1>2, <1>4
<1>6. /\ Present(y, Window(y, i, n)) = Present(x, Window(x, i, n))
      /\ Values(y, i, n) = Values(x, i, n) /\ Enough(y, i, n) = Enough(x, i, n) /\ y[i] = x[i]
      /\ {j \in Present(y, Window(y, i, n)) : y[j] < y[i]} = {j \in Present(x, Window(x, i, n)) : x[j] < x[i]}
  BY <1>4, <1>5, WindowAlike
<1>7. Rank(y, n)[i] = Rank(x, n)[i]
  <2>1. Rank(x, n)[i] = IF ~Enough(x, i, n) THEN <<>>
                        ELSE LET lo == Min(Values(x, i, n))  hi == Max(Values(x, i, n))
                             IN IF hi > lo THEN <<100 * (x[i] - lo), hi - lo>> ELSE <<50, 1>>
    BY <1>3 DEF Rank
  <2>2. Rank(y, n)[i] = IF ~Enough(y, i, n) THEN <<>>
                        ELSE LET lo == Min(Values(y, i, n))  hi == Max(Values(y, i, n))
                             IN IF hi > lo THEN <<100 * (y[i] - lo), hi - lo>> ELSE <<50, 1>>
    BY <1>3 DEF Rank
  <2> QED BY <1>6, <2>1, <2>2
<1>8. Percentile(y, n)[i] = Percentile(x, n)[i]
  <2>1. Percentile(x, n)[i]
          = IF ~Enough(x, i, n) THEN <<>>
            ELSE <<100 * Cardinality({j \in Present(x, Window(x, i, n)) : x[j] < x[i]}),
                   Cardinality(Present(x, Window(x, i, n)))>>
    BY <1>3 DEF Percentile
  <2>2. Percentile(y, n)[i]
          = IF ~Enough(y, i, n) THEN <<>>
            ELSE <<100 * Cardinality({j \in Present(y, Window(y, i, n)) : y[j] < y[i]}),
                   Cardinality(Present(y, Window(y, i, n)))>>
    BY <1>3 DEF Percentile
  <2> QED BY <1>6, <2>1, <2>2
<1>9. Roll(y, n, Max)[i] = Roll(x, n, Max)[i] /\ Roll(y, n, Min)[i] = Roll(x, n, Min)[i]
  <2>1. Roll(x, n, Max)[i] = IF Present(x, Window(x, i, n)) = {} THEN <<>> ELSE <<Max(Values(x, i, n)), 1>>
    BY <1>3 DEF Roll
  <2>2. Roll(y, n, Max)[i] = IF Present(y, Window(y, i, n)) = {} THEN <<>> ELSE <<Max(Values(y, i, n)), 1>>
    BY <1>3 DEF Roll
  <2>3. Roll(x, n, Min)[i] = IF Present(x, Window(x, i, n)) = {} THEN <<>> ELSE <<Min(Values(x, i, n)), 1>>
    BY <1>3 DEF Roll
  <2>4. Roll(y, n, Min)[i] = IF Present(y, Window(y, i, n)) = {} THEN <<>> ELSE <<Min(Values(y, i, n)), 1>>
    BY <1>3 DEF Roll
  <2> QED BY <1>6, <2>1, <2>2, <2>3, <2>4
<1>10. Ret(y, n)[i] = Ret(x, n)[i]
  <2>1. CASE i < n
    BY <1>3, <2>1 DEF Ret
  <2>2. CASE ~(i < n)
    <3>1. i - n \in 0 .. i
      BY <1>2, <2>2
    <3>2. y[i - n] = x[i - n] /\ y[i] = x[i]
      BY <1>2, <1>6, <3>1
    <3> QED BY <1>3, <2>2, <3>2 DEF Ret
  <2> QED BY <2>1, <2>2
<1> QED BY <1>1, <1>7, <1>8, <1>9, <1>10

(* Finitely many naturals are all at most some natural.                      *)
LEMMA ValuesAreBounded ==
  ASSUME NEW P, IsFiniteSet(P), NEW x, \A j \in P : x[j] \in Nat
  PROVE  \E b \in Nat : \A j \in P : x[j] <= b
<1> DEFINE G == {s \in SUBSET P : \E b \in Nat : \A j \in s : x[j] <= b}
<1>1. {} \in G
  <2>1. {} \in SUBSET P /\ 0 \in Nat
    OBVIOUS
  <2> QED BY <2>1
<1>2. ASSUME NEW s \in SUBSET P, NEW z \in s, s \ {z} \in G PROVE s \in G
  <2>1. PICK b \in Nat : \A j \in s \ {z} : x[j] <= b
    BY <1>2
  <2>2. PICK c \in Nat : c = x[z]
    BY <1>2
  <2>3. PICK d \in Nat : b <= d /\ c <= d
    BY <2>1
  <2>4. \A j \in s : x[j] <= d
    <3>1. ASSUME NEW j \in s PROVE x[j] <= d
      <4>1. CASE j = z
        BY <2>2, <2>3, <4>1
      <4>2. CASE j # z
        <5>1. x[j] \in Nat /\ x[j] <= b
          BY <2>1, <3>1, <4>2, <1>2
        <5> QED BY <2>3, <5>1
      <4> QED BY <4>1, <4>2
    <3> QED BY <3>1
  <2> QED BY <2>4
<1> HIDE DEF G
<1>3. \A s \in SUBSET P : s \in G
  BY <1>1, <1>2, EachSubset
<1>4. P \in G
  BY <1>3
<1> QED BY <1>4 DEF G

(* A rank and a percentile lie between none and all.                         *)
LEMMA RanksAre ==
  ASSUME IndicatorsAssumption, NEW m, NEW x, IsSeries(x, m), NEW i \in 0 .. m - 1, NEW n \in Nat \ {0}
  PROVE  /\ Rank(x, n)[i] # <<>> => 0 <= Rank(x, n)[i][1] /\ Rank(x, n)[i][1] <= 100 * Rank(x, n)[i][2]
         /\ Percentile(x, n)[i] # <<>> =>
              0 <= Percentile(x, n)[i][1] /\ Percentile(x, n)[i][1] <= 100 * Percentile(x, n)[i][2]
<1>1. /\ m \in Nat \ {0} /\ DOMAIN x = 0 .. m - 1 /\ i \in Nat /\ i \in DOMAIN x
      /\ \A j \in 0 .. m - 1 : x[j] # Missing => x[j] \in Nat
  BY SeriesIs
<1>2. PICK W : W = Window(x, i, n)
  OBVIOUS
<1>3. W \subseteq 0 .. i /\ i \in W /\ IsFiniteSet(W)
  <2>1. W = Window(0, i, n)
    BY <1>2 DEF Window
  <2> QED BY <1>1, <2>1, WindowIs
<1>4. PICK P : P = Present(x, W)
  OBVIOUS
<1>5. P \subseteq W /\ IsFiniteSet(P) /\ (x[i] # Missing => i \in P) /\ \A j \in P : x[j] \in Nat
  <2>1. P \subseteq W /\ (x[i] # Missing => i \in P)
    BY <1>3, <1>4 DEF Present
  <2>2. \A j \in P : j \in 0 .. m - 1 /\ x[j] # Missing
    BY <1>1, <1>3, <1>4 DEF Present
  <2> QED BY <1>1, <1>3, <2>1, <2>2, FS_Subset
<1>6. ASSUME Enough(x, i, n) PROVE i \in P
  BY <1>5, <1>6 DEF Enough
<1>7. ASSUME Rank(x, n)[i] # <<>>
      PROVE 0 <= Rank(x, n)[i][1] /\ Rank(x, n)[i][1] <= 100 * Rank(x, n)[i][2]
  <2>1. Enough(x, i, n)
    BY <1>1, <1>7 DEF Rank
  <2>2. PICK V : V = Values(x, i, n)
    OBVIOUS
  <2>3. V = {x[j] : j \in P}
    BY <1>2, <1>4, <2>2 DEF Values
  <2>4. x[i] \in V /\ V \subseteq Nat /\ V # {}
    BY <1>5, <1>6, <2>1, <2>3
  <2>5. PICK lo \in V : \A v \in V : lo <= v
    BY <2>4, Least
  <2>6. Min(V) = lo
    <3>1. \A z \in V : (\A v \in V : z <= v) => z = lo
      BY <2>4, <2>5
    <3> QED BY <2>5, <3>1 DEF Min
  <2>7. PICK hi \in V : \A v \in V : v <= hi
    <3>1. PICK b \in Nat : \A j \in P : x[j] <= b
      BY <1>5, ValuesAreBounded
    <3>2. \A v \in V : v <= b
      BY <2>3, <3>1
    <3>3. V \subseteq 0 .. b
      BY <2>4, <3>2
    <3> QED BY <2>4, <3>3, Greatest
  <2>8. Max(V) = hi
    <3>1. \A z \in V : (\A v \in V : z >= v) => z = hi
      BY <2>4, <2>7
    <3>2. \A v \in V : hi >= v
      BY <2>4, <2>7
    <3> QED BY <2>7, <3>1, <3>2 DEF Max
  <2>9. Rank(x, n)[i] = IF hi > lo THEN <<100 * (x[i] - lo), hi - lo>> ELSE <<50, 1>>
    BY <1>1, <2>1, <2>2, <2>6, <2>8 DEF Rank
  <2>10. PICK c \in Nat, d \in Nat, e \in Nat : c = x[i] /\ d = lo /\ e = hi /\ d <= c /\ c <= e
    BY <2>4, <2>5, <2>7
  <2> QED BY <2>9, <2>10
<1>8. ASSUME Percentile(x, n)[i] # <<>>
      PROVE 0 <= Percentile(x, n)[i][1] /\ Percentile(x, n)[i][1] <= 100 * Percentile(x, n)[i][2]
  <2>1. Enough(x, i, n)
    BY <1>1, <1>8 DEF Percentile
  <2>2. PICK Q \in SUBSET P : Q = {j \in P : x[j] < x[i]}
    OBVIOUS
  <2>3. PICK p \in Nat, q \in Nat : p = Cardinality(P) /\ q = Cardinality(Q) /\ q <= p
    BY <1>5, FS_Subset, FS_CardinalityType
  <2>4. Percentile(x, n)[i] = <<100 * q, p>>
    BY <1>1, <1>2, <1>4, <2>1, <2>2, <2>3 DEF Percentile
  <2> QED BY <2>3, <2>4
<1> QED BY <1>7, <1>8

-----------------------------------------------------------------------------
(* The closes there are.                                                     *)
SeriesInv == lookback \in Periods /\ \E m : IsSeries(closes, m)

SeriesSpec == SeriesInit /\ [][SeriesNext]_seriesVars

LEMMA SeriesStep == SeriesInv /\ [SeriesNext]_seriesVars => SeriesInv'
<1> SUFFICES ASSUME SeriesInv, [SeriesNext]_seriesVars PROVE SeriesInv'
  OBVIOUS
<1>1. CASE UNCHANGED seriesVars
  BY <1>1 DEF SeriesInv, seriesVars
<1>2. CASE SeriesNext
  <2>1. PICK x, m : x = closes /\ IsSeries(x, m)
    BY DEF SeriesInv
  <2>2. m \in Nat \ {0} /\ DOMAIN x = 0 .. m - 1 /\ Length(x) = m
    BY <2>1, SeriesIs, IndicatorsAssumption
  <2>3. PICK c \in Closes \cup {Missing} : closes' = [i \in 0 .. m |-> IF i \in DOMAIN x THEN x[i] ELSE c]
    BY <1>2, <2>1, <2>2 DEF SeriesNext, Length
  <2>4. closes' \in [0 .. m + 1 - 1 -> Closes \cup {Missing}]
    <3>1. m + 1 - 1 = m
      BY <2>2
    <3> QED BY <2>1, <2>3, <3>1 DEF IsSeries
  <2>5. IsSeries(closes', m + 1)
    BY <2>2, <2>4 DEF IsSeries
  <2>6. lookback' = lookback
    BY <1>2 DEF SeriesNext
  <2> QED BY <2>5, <2>6 DEF SeriesInv
<1> QED BY <1>1, <1>2

LEMMA SeriesBegins == SeriesInit => SeriesInv
<1> SUFFICES ASSUME SeriesInit PROVE SeriesInv
  OBVIOUS
<1>1. PICK m \in 1 .. Days : closes \in [0 .. m - 1 -> Closes \cup {Missing}]
  BY DEF SeriesInit, Series
<1>2. m \in Nat \ {0}
  BY IndicatorsAssumption DEF IndicatorsAssumption
<1> QED BY <1>1, <1>2 DEF SeriesInit, SeriesInv, IsSeries

LEMMA SeriesFollow ==
  ASSUME SeriesInv
  PROVE  NoLookAhead /\ SeriesAreWhatTheySay
<1>1. PICK x, m, n : x = closes /\ IsSeries(x, m) /\ n = lookback
  BY DEF SeriesInv
<1>2. n \in Nat \ {0} /\ DOMAIN x = 0 .. m - 1
  BY <1>1, SeriesIs, IndicatorsAssumption DEF SeriesInv, IndicatorsAssumption
<1>3. ASSUME NEW i \in 0 .. m - 1, NEW k \in 1 .. 8 PROVE All(UpTo(x, i), n)[k][i] = All(x, n)[k][i]
  <2>1. RollingMean(UpTo(x, i), n)[i] = RollingMean(x, n)[i]
    BY <1>1, <1>2, RollingAlike, IndicatorsAssumption
  <2>2. Ema(UpTo(x, i), n)[i] = Ema(x, n)[i]
    BY <1>1, <1>2, EmaAlike, IndicatorsAssumption
  <2>3. Rsi(UpTo(x, i), n)[i] = Rsi(x, n)[i]
    BY <1>1, <1>2, RsiAlike, IndicatorsAssumption
  <2>4. /\ Rank(UpTo(x, i), n)[i] = Rank(x, n)[i]
        /\ Percentile(UpTo(x, i), n)[i] = Percentile(x, n)[i]
        /\ Roll(UpTo(x, i), n, Max)[i] = Roll(x, n, Max)[i]
        /\ Roll(UpTo(x, i), n, Min)[i] = Roll(x, n, Min)[i]
        /\ Ret(UpTo(x, i), n)[i] = Ret(x, n)[i]
    BY <1>1, <1>2, WindowsAlike, IndicatorsAssumption
  <2>5. k \in {1, 2, 3, 4, 5, 6, 7, 8}
    OBVIOUS
  <2> QED BY <2>1, <2>2, <2>3, <2>4, <2>5 DEF All
<1>4. NoLookAhead
  <2>1. ASSUME NEW i \in DOMAIN closes
        PROVE LET today == All(Restrict(closes, 0 .. i), lookback)
              IN \A k \in DOMAIN today : today[k][i] = All(closes, lookback)[k][i]
    <3>1. Restrict(closes, 0 .. i) = UpTo(x, i)
      BY <1>1 DEF Restrict, UpTo
    <3>2. \A y : DOMAIN All(y, n) = 1 .. 8
      BY DEF All
    <3> QED BY <1>1, <1>2, <1>3, <3>1, <3>2
  <2> QED BY <2>1 DEF NoLookAhead
<1>5. SeriesAreWhatTheySay
  <2>1. ASSUME NEW i \in DOMAIN closes
        PROVE LET w == i - lookback + 1 .. i  all == All(closes, lookback)
              IN /\ RollingMean(closes, lookback)[i] =
                      IF i < lookback - 1 \/ Present(closes, w) # w THEN <<>> ELSE <<Adds(closes, w), lookback>>
                 /\ \A k \in 3 .. 5 : all[k][i] # <<>> => 0 <= all[k][i][1] /\ all[k][i][1] <= 100 * all[k][i][2]
    <3>1. i \in 0 .. m - 1
      BY <1>1, <1>2
    <3>2. PICK w : w = i - n + 1 .. i
      OBVIOUS
    <3>3. RollingMean(x, n)[i] = IF i < n - 1 \/ Present(x, w) # w THEN <<>> ELSE <<Adds(x, w), n>>
      BY <1>1, <1>2, <3>1, <3>2, RollingIs, IndicatorsAssumption
    <3>4. Rsi(x, n)[i] # <<>> => 0 <= Rsi(x, n)[i][1] /\ Rsi(x, n)[i][1] <= 100 * Rsi(x, n)[i][2]
      BY <1>1, <1>2, <3>1, RsiIs, IndicatorsAssumption
    <3>5. /\ Rank(x, n)[i] # <<>> => 0 <= Rank(x, n)[i][1] /\ Rank(x, n)[i][1] <= 100 * Rank(x, n)[i][2]
          /\ Percentile(x, n)[i] # <<>> =>
               0 <= Percentile(x, n)[i][1] /\ Percentile(x, n)[i][1] <= 100 * Percentile(x, n)[i][2]
      BY <1>1, <1>2, <3>1, RanksAre, IndicatorsAssumption
    <3>6. All(x, n)[3] = Rsi(x, n) /\ All(x, n)[4] = Rank(x, n) /\ All(x, n)[5] = Percentile(x, n)
      BY DEF All
    <3>7. \A k \in 3 .. 5 : k = 3 \/ k = 4 \/ k = 5
      OBVIOUS
    <3> QED BY <1>1, <3>2, <3>3, <3>4, <3>5, <3>6, <3>7
  <2> QED BY <2>1 DEF SeriesAreWhatTheySay
<1> QED BY <1>4, <1>5

(* What a rule is given for a day is what it would be given if that day were *)
(* the last, and the running sums, the RSI, the ranks and the percentiles    *)
(* say what they should (MarketContext.series).                              *)
THEOREM SeriesStayHonest == SeriesSpec => [](NoLookAhead /\ SeriesAreWhatTheySay)
<1>1. SeriesInv => NoLookAhead /\ SeriesAreWhatTheySay
  BY SeriesFollow
<1> QED BY <1>1, SeriesBegins, SeriesStep, PTL DEF SeriesSpec

-----------------------------------------------------------------------------
(* The contract of the lowest strike among those nearest to a target is one  *)
(* of those to choose from, and no other is nearer on the side rounded to.   *)
LEMMA NearestIs ==
  ASSUME Listed \subseteq Contracts, NEW S \in SUBSET Listed, S # {}, NEW of \in [Listed -> Nat], NEW t \in Int, NEW round
  PROVE  /\ Nearest(S, of, t, round) \in S
         /\ \A s \in S : \/ Dist(of[Nearest(S, of, t, round)], t) <= Dist(of[s], t)
                         \/ round = "up" /\ of[s] < t /\ t <= of[Nearest(S, of, t, round)]
                         \/ round = "down" /\ of[Nearest(S, of, t, round)] <= t /\ t < of[s]
<1>1. PICK side : side = CASE round = "up" -> {c \in S : of[c] >= t}
                           [] round = "down" -> {c \in S : of[c] <= t}
                           [] OTHER -> S
  OBVIOUS
<1>2. PICK pool : pool = IF side # {} THEN side ELSE S
  OBVIOUS
<1>3. PICK near : near = {c \in pool : \A d \in pool : Dist(of[c], t) <= Dist(of[d], t)}
  OBVIOUS
<1>4. Nearest(S, of, t, round) = CHOOSE c \in near : \A d \in near : c.strike <= d.strike
  BY <1>1, <1>2, <1>3 DEF Nearest
<1>5. side \subseteq S
  <2>1. CASE round = "up"
    BY <1>1, <2>1
  <2>2. CASE round # "up" /\ round = "down"
    BY <1>1, <2>2
  <2>3. CASE round # "up" /\ round # "down"
    BY <1>1, <2>3
  <2> QED BY <2>1, <2>2, <2>3
<1>6. pool \subseteq S /\ pool # {}
  BY <1>2, <1>5
<1>7. \A c \in pool : of[c] \in Nat /\ Dist(of[c], t) \in Nat /\ c.strike \in Nat
  <2>1. \A c \in pool : of[c] \in Nat /\ c.strike \in Nat
    BY <1>6 DEF Contracts
  <2> QED BY <2>1 DEF Dist
<1>8. PICK e \in pool : \A d \in pool : Dist(of[e], t) <= Dist(of[d], t)
  <2>1. PICK R : R = {Dist(of[c], t) : c \in pool}
    OBVIOUS
  <2>2. R \subseteq Nat /\ R # {}
    BY <1>6, <1>7, <2>1
  <2>3. PICK r \in R : \A q \in R : r <= q
    BY <2>2, Least
  <2> QED BY <2>1, <2>3
<1>9. PICK b \in near : \A d \in near : b.strike <= d.strike
  <2>1. PICK R : R = {c.strike : c \in near}
    OBVIOUS
  <2>2. e \in near /\ near \subseteq pool
    BY <1>3, <1>8
  <2>3. R \subseteq Nat /\ R # {}
    BY <1>7, <2>1, <2>2
  <2>4. PICK r \in R : \A q \in R : r <= q
    BY <2>3, Least
  <2> QED BY <2>1, <2>4
<1>10. PICK n : n = Nearest(S, of, t, round)
  OBVIOUS
<1>11. n \in near
  BY <1>4, <1>9, <1>10
<1>12. n \in S /\ n \in pool /\ \A d \in pool : Dist(of[n], t) <= Dist(of[d], t)
  BY <1>3, <1>6, <1>11
<1>13. ASSUME NEW s \in S, s \notin pool
       PROVE \/ round = "up" /\ of[s] < t /\ t <= of[n]
             \/ round = "down" /\ of[n] <= t /\ t < of[s]
  <2>1. pool = side
    BY <1>2, <1>13
  <2>2. of[s] \in Nat /\ of[n] \in Nat
    BY <1>12
  <2>3. CASE round = "up"
    BY <1>1, <1>12, <1>13, <2>1, <2>2, <2>3
  <2>4. CASE round # "up" /\ round = "down"
    BY <1>1, <1>12, <1>13, <2>1, <2>2, <2>4
  <2>5. CASE round # "up" /\ round # "down"
    BY <1>1, <1>13, <2>1, <2>5
  <2> QED BY <2>3, <2>4, <2>5
<1> QED BY <1>10, <1>12, <1>13

LEMMA CandidatesAre ==
  ASSUME NEW leg, NEW exp, Side(leg, exp) # {}
  PROVE  Candidates(leg, exp) \in SUBSET Side(leg, exp) /\ Candidates(leg, exp) # {}
<1>1. PICK u \in SUBSET Side(leg, exp) : u = {c \in Side(leg, exp) : leg.requireQuote => c \in order.live}
  OBVIOUS
<1>2. PICK m \in SUBSET Side(leg, exp) : m = {c \in Side(leg, exp) : c.mark > 0}
  OBVIOUS
<1>3. Candidates(leg, exp) = IF u # {} THEN u ELSE IF m # {} THEN m ELSE Side(leg, exp)
  BY <1>1, <1>2 DEF Candidates
<1> QED BY <1>3

(* A leg's contract is one of those it may have: of its side and of the      *)
(* expiration asked for.                                                     *)
LEMMA StrikeIs ==
  ASSUME StructureAssumption, NEW leg \in LegSpec, NEW exp, NEW chosen \in Seq(Listed),
         Side(leg, exp) # {}, Anchored(leg, chosen)
  PROVE  /\ PickStrike(leg, exp, chosen) \in Candidates(leg, exp)
         /\ PickStrike(leg, exp, chosen) \in Side(leg, exp)
<1>1. Listed \subseteq Contracts /\ Spot \in Int
  BY StructureAssumption DEF StructureAssumption
<1>2. PICK S : S = Candidates(leg, exp)
  OBVIOUS
<1>3. S \in SUBSET Side(leg, exp) /\ S # {} /\ S \in SUBSET Listed
  <2>1. S \in SUBSET Side(leg, exp) /\ S # {}
    BY <1>2, CandidatesAre
  <2> QED BY <2>1 DEF Side
<1>4. leg.target \in Int /\ leg.selector \in Selectors /\ Dist(leg.target, 0) \in Int /\ Out(leg) \in Int
  <2>1. leg.target \in Int /\ leg.selector \in Selectors
    BY DEF LegSpec
  <2>2. Outward(leg) = 1 \/ Outward(leg) = -1
    BY DEF Outward
  <2>3. PICK d \in Int : d = Dist(leg.target, 0)
    BY <2>1 DEF Dist
  <2>4. Out(leg) = d \/ Out(leg) = -d
    BY <2>2, <2>3 DEF Out
  <2> QED BY <2>1, <2>3, <2>4
<1>5. Strikes \in [Listed -> Nat] /\ Deltas \in [Listed -> Nat] /\ Premiums \in [Listed -> Nat]
  BY <1>1 DEF Strikes, Deltas, Premiums, Contracts
<1>6. ASSUME NEW T \in SUBSET S, T # {}, NEW of \in [Listed -> Nat], NEW t \in Int
      PROVE Nearest(T, of, t, leg.round) \in S /\ Nearest(T, of, t, leg.round) \in Side(leg, exp)
  <2>1. T \in SUBSET Listed
    BY <1>3
  <2>2. Nearest(T, of, t, leg.round) \in T
    BY <1>1, <1>6, <2>1, NearestIs
  <2> QED BY <1>3, <2>2
<1>7. ASSUME leg.selector \in {"offset", "width", "strike_of"} PROVE Anchor(leg, chosen).strike \in Int
  <2>1. Anchor(leg, chosen) \in Listed
    <3>1. CASE leg.anchor = Prev
      <4>1. chosen # <<>>
        BY <1>7, <3>1 DEF Anchored
      <4>2. Last(chosen) = chosen[Len(chosen)]
        BY DEF Last
      <4>3. Len(chosen) \in 1 .. Len(chosen)
        BY <4>1
      <4> QED BY <3>1, <4>2, <4>3 DEF Anchor
    <3>2. CASE leg.anchor # Prev
      <4>1. leg.anchor \in 1 .. Len(chosen)
        BY <1>7, <3>2 DEF Anchored
      <4> QED BY <3>2, <4>1 DEF Anchor
    <3> QED BY <3>1, <3>2
  <2> QED BY <1>1, <2>1 DEF Contracts
<1>8. PICK known \in SUBSET S : known = {c \in S : c.delta # 0}
  OBVIOUS
<1>9. CASE leg.selector = "delta"
  <2>1. PickStrike(leg, exp, chosen)
          = Nearest(IF known # {} THEN known ELSE S, Deltas, Dist(leg.target, 0), leg.round)
    BY <1>2, <1>8, <1>9 DEF PickStrike
  <2>2. PICK T \in SUBSET S : T # {} /\ T = IF known # {} THEN known ELSE S
    BY <1>3
  <2>8. PickStrike(leg, exp, chosen) \in S
    BY <1>4, <1>5, <1>6, <2>1, <2>2
  <2>9. PickStrike(leg, exp, chosen) \in Side(leg, exp)
    BY <1>4, <1>5, <1>6, <2>1, <2>2
  <2> QED BY <1>2, <2>8, <2>9
<1>10. CASE leg.selector = "premium"
  <2>1. PickStrike(leg, exp, chosen) = Nearest(S, Premiums, leg.target, leg.round)
    BY <1>2, <1>10 DEF PickStrike
  <2>8. PickStrike(leg, exp, chosen) \in S
    BY <1>3, <1>4, <1>5, <1>6, <2>1
  <2>9. PickStrike(leg, exp, chosen) \in Side(leg, exp)
    BY <1>3, <1>4, <1>5, <1>6, <2>1
  <2> QED BY <1>2, <2>8, <2>9
<1>11. CASE leg.selector = "strike"
  <2>1. PickStrike(leg, exp, chosen) = Nearest(S, Strikes, leg.target, leg.round)
    BY <1>2, <1>11 DEF PickStrike
  <2>8. PickStrike(leg, exp, chosen) \in S
    BY <1>3, <1>4, <1>5, <1>6, <2>1
  <2>9. PickStrike(leg, exp, chosen) \in Side(leg, exp)
    BY <1>3, <1>4, <1>5, <1>6, <2>1
  <2> QED BY <1>2, <2>8, <2>9
<1>12. CASE leg.selector = "atm"
  <2>1. PickStrike(leg, exp, chosen) = Nearest(S, Strikes, Spot + leg.target, leg.round)
    BY <1>2, <1>12 DEF PickStrike
  <2>2. Spot + leg.target \in Int
    BY <1>1, <1>4
  <2>8. PickStrike(leg, exp, chosen) \in S
    BY <1>3, <1>5, <1>6, <2>1, <2>2
  <2>9. PickStrike(leg, exp, chosen) \in Side(leg, exp)
    BY <1>3, <1>5, <1>6, <2>1, <2>2
  <2> QED BY <1>2, <2>8, <2>9
<1>13. CASE leg.selector = "otm_pct"
  <2>1. PickStrike(leg, exp, chosen) = Nearest(S, Strikes, Spot + Out(leg), leg.round)
    BY <1>2, <1>13 DEF PickStrike
  <2>2. Spot + Out(leg) \in Int
    BY <1>1, <1>4
  <2>8. PickStrike(leg, exp, chosen) \in S
    BY <1>3, <1>5, <1>6, <2>1, <2>2
  <2>9. PickStrike(leg, exp, chosen) \in Side(leg, exp)
    BY <1>3, <1>5, <1>6, <2>1, <2>2
  <2> QED BY <1>2, <2>8, <2>9
<1>14. CASE leg.selector = "strike_of"
  <2>1. PickStrike(leg, exp, chosen) = Nearest(S, Strikes, Anchor(leg, chosen).strike, leg.round)
    BY <1>2, <1>14 DEF PickStrike
  <2>2. Anchor(leg, chosen).strike \in Int
    BY <1>7, <1>14
  <2>8. PickStrike(leg, exp, chosen) \in S
    BY <1>3, <1>5, <1>6, <2>1, <2>2
  <2>9. PickStrike(leg, exp, chosen) \in Side(leg, exp)
    BY <1>3, <1>5, <1>6, <2>1, <2>2
  <2> QED BY <1>2, <2>8, <2>9
<1>15. CASE leg.selector = "offset"
  <2>1. PickStrike(leg, exp, chosen) = Nearest(S, Strikes, Anchor(leg, chosen).strike + leg.target, leg.round)
    BY <1>2, <1>15 DEF PickStrike
  <2>2. Anchor(leg, chosen).strike + leg.target \in Int
    BY <1>4, <1>7, <1>15
  <2>8. PickStrike(leg, exp, chosen) \in S
    BY <1>3, <1>5, <1>6, <2>1, <2>2
  <2>9. PickStrike(leg, exp, chosen) \in Side(leg, exp)
    BY <1>3, <1>5, <1>6, <2>1, <2>2
  <2> QED BY <1>2, <2>8, <2>9
<1>16. CASE leg.selector = "width"
  <2>1. PickStrike(leg, exp, chosen) = Nearest(S, Strikes, Anchor(leg, chosen).strike + Out(leg), leg.round)
    BY <1>2, <1>16 DEF PickStrike
  <2>2. Anchor(leg, chosen).strike + Out(leg) \in Int
    BY <1>4, <1>7, <1>16
  <2>8. PickStrike(leg, exp, chosen) \in S
    BY <1>3, <1>5, <1>6, <2>1, <2>2
  <2>9. PickStrike(leg, exp, chosen) \in Side(leg, exp)
    BY <1>3, <1>5, <1>6, <2>1, <2>2
  <2> QED BY <1>2, <2>8, <2>9
<1> QED BY <1>4, <1>9, <1>10, <1>11, <1>12, <1>13, <1>14, <1>15, <1>16 DEF Selectors

-----------------------------------------------------------------------------
(* What is chosen for a list of legs, leg by leg.                            *)
ChosenFor(wanted, n, f) ==
  /\ f[0] = <<>>
  /\ \A k \in 1 .. n :
       /\ f[k - 1] \in Seq(Listed) /\ Len(f[k - 1]) = k - 1
       /\ Side(wanted[k], PickExpiry(wanted[k], f[k - 1])) # {} /\ Anchored(wanted[k], f[k - 1])
       /\ f[k] = Append(f[k - 1], PickStrike(wanted[k], PickExpiry(wanted[k], f[k - 1]), f[k - 1]))

LEMMA RefusedIsNone ==
  ASSUME StructureAssumption
  PROVE  Refused \notin Seq(Listed)
<1>1. SUFFICES ASSUME Refused \in Seq(Listed) PROVE FALSE
  OBVIOUS
<1>2. Len(Refused) = 1 /\ Refused[1] = NoContract
  BY DEF Refused
<1>3. NoContract \in Listed
  BY <1>1, <1>2
<1>4. NoContract.dte \in Nat
  BY <1>3, StructureAssumption DEF StructureAssumption, Contracts
<1> QED BY <1>4 DEF NoContract, Unset

LEMMA ResolveIs ==
  ASSUME StructureAssumption, NEW leg \in LegSpec, NEW v \in Seq(Listed) \cup {Refused}
  PROVE  /\ Resolve(v, leg) \in Seq(Listed) \cup {Refused}
         /\ Resolve(v, leg) # Refused =>
              /\ v \in Seq(Listed) /\ v # Refused
              /\ Side(leg, PickExpiry(leg, v)) # {} /\ Anchored(leg, v)
              /\ Resolve(v, leg) = Append(v, PickStrike(leg, PickExpiry(leg, v), v))
              /\ Resolve(v, leg) \in Seq(Listed) /\ Len(Resolve(v, leg)) = Len(v) + 1
<1>1. PICK e : e = PickExpiry(leg, v)
  OBVIOUS
<1>2. CASE v = Refused \/ Side(leg, e) = {} \/ ~Anchored(leg, v)
  BY <1>1, <1>2 DEF Resolve
<1>3. CASE ~(v = Refused \/ Side(leg, e) = {} \/ ~Anchored(leg, v))
  <2>1. v \in Seq(Listed)
    BY <1>3
  <2>2. PickStrike(leg, e, v) \in Side(leg, e)
    BY <1>3, <2>1, StrikeIs
  <2>3. PICK c \in Listed : c = PickStrike(leg, e, v)
    BY <2>2 DEF Side
  <2>4. Resolve(v, leg) = Append(v, c)
    BY <1>1, <1>3, <2>3 DEF Resolve
  <2>5. Append(v, c) \in Seq(Listed) /\ Len(Append(v, c)) = Len(v) + 1
    BY <2>1
  <2> QED BY <1>1, <1>3, <2>1, <2>3, <2>4, <2>5
<1> QED BY <1>2, <1>3

LEMMA ResolvedIs ==
  ASSUME StructureAssumption, order \in Requests, NEW cs, cs = Resolved, cs # Refused
  PROVE  /\ order.legs \in Seq(LegSpec) /\ Len(order.legs) \in Nat
         /\ cs \in Seq(Listed) /\ Len(cs) = Len(order.legs)
         /\ \E f : ChosenFor(order.legs, Len(order.legs), f) /\ f[Len(order.legs)] = cs
<1>o. PICK wanted : wanted = order.legs /\ wanted \in Seq(LegSpec)
  <2>1. order.legs \in LegLists
    BY DEF Requests
  <2> QED BY <2>1, StructureAssumption DEF StructureAssumption
<1>1. PICK L \in Nat : wanted = order.legs /\ L = Len(wanted) /\ wanted \in Seq(LegSpec)
  BY <1>o
<1> DEFINE V == Seq(Listed) \cup {Refused}
           rule == [k \in 1 .. L |-> [v \in V |-> Resolve(v, wanted[k])]]
           Built(g) == g = [k \in 0 .. L |-> IF k = 0 THEN <<>> ELSE Resolve(g[k - 1], wanted[k])]
<1>2. ASSUME NEW k \in 1 .. L PROVE wanted[k] \in LegSpec
  BY <1>1
<1>3. ASSUME NEW k \in 1 .. L, NEW v \in V PROVE Resolve(v, wanted[k]) \in V
  <2>1. PICK leg \in LegSpec : leg = wanted[k]
    BY <1>2
  <2>2. Resolve(v, leg) \in V
    BY ResolveIs
  <2> QED BY <2>1, <2>2
<1>4. rule \in [1 .. L -> [V -> V]]
  <2> HIDE DEF V
  <2> QED BY <1>3
<1>5. <<>> \in V
  OBVIOUS
<1>6. PICK g \in [0 .. L -> V] : Follows(g, <<>>, L, rule)
  <2>1. PICK u : u = rule
    OBVIOUS
  <2>2. u \in [1 .. L -> [V -> V]]
    BY <1>4, <2>1
  <2> HIDE DEF V, rule
  <2>3. \E h \in [0 .. L -> V] : Follows(h, <<>>, L, u)
    BY <1>5, <2>2, Recursion
  <2> QED BY <2>1, <2>3
<1>7. Built(g)
  <2>1. ASSUME NEW k \in 0 .. L PROVE g[k] = IF k = 0 THEN <<>> ELSE Resolve(g[k - 1], wanted[k])
    <3>1. CASE k = 0
      BY <1>6, <3>1 DEF Follows
    <3>2. CASE k # 0
      <4>1. k \in 1 .. L /\ k - 1 \in 0 .. L
        BY <3>2
      <4>2. g[k] = rule[k][g[k - 1]] /\ g[k - 1] \in V
        BY <1>6, <4>1 DEF Follows
      <4> HIDE DEF V
      <4> QED BY <3>2, <4>1, <4>2
    <3> QED BY <3>1, <3>2
  <2> HIDE DEF V
  <2> QED BY <1>6, <2>1
<1>8. PICK f : f = CHOOSE h : Built(h)
  OBVIOUS
<1>9. Built(f)
  <2> HIDE DEF Built
  <2> QED BY <1>7, <1>8
<1>10. f[L] = cs
  <2>1. Resolved = LET upTo == CHOOSE h : h = [k \in 0 .. Len(order.legs) |->
                                   IF k = 0 THEN <<>> ELSE Resolve(h[k - 1], order.legs[k])]
                   IN upTo[Len(order.legs)]
    BY DEF Resolved
  <2> QED BY <1>1, <1>8, <2>1
<1>11. f[0] = <<>> /\ \A k \in 1 .. L : f[k] = Resolve(f[k - 1], wanted[k])
  <2>1. ASSUME NEW k \in 1 .. L PROVE f[k] = Resolve(f[k - 1], wanted[k])
    <3>1. k \in 0 .. L /\ k # 0
      OBVIOUS
    <3> QED BY <1>9, <3>1
  <2>2. 0 \in 0 .. L
    OBVIOUS
  <2> QED BY <1>9, <2>2, <2>1
<1> HIDE DEF Built, rule
<1>12. \A k \in 0 .. L : f[k] \in V
  <2> DEFINE S == {k \in 0 .. L : f[k] \in V}
  <2>1. 0 \in S
    <3>1. 0 \in 0 .. L
      OBVIOUS
    <3> HIDE DEF V
    <3> QED BY <1>5, <1>11, <3>1
  <2>2. ASSUME NEW k \in 1 .. L, k - 1 \in S PROVE k \in S
    <3>1. PICK v \in V : v = f[k - 1]
      BY <2>2
    <3>2. Resolve(v, wanted[k]) \in V
      BY <1>3
    <3> HIDE DEF V
    <3> QED BY <1>11, <3>1, <3>2
  <2> HIDE DEF S
  <2>3. \A k \in 0 .. L : k \in S
    BY <2>1, <2>2, Upward
  <2> QED BY <2>3 DEF S
<1>13. ASSUME NEW k \in 1 .. L, f[k] # Refused
       PROVE /\ f[k - 1] \in Seq(Listed) /\ f[k - 1] # Refused /\ f[k] \in Seq(Listed)
             /\ Side(wanted[k], PickExpiry(wanted[k], f[k - 1])) # {} /\ Anchored(wanted[k], f[k - 1])
             /\ f[k] = Append(f[k - 1], PickStrike(wanted[k], PickExpiry(wanted[k], f[k - 1]), f[k - 1]))
             /\ Len(f[k]) = Len(f[k - 1]) + 1
  <2>1. PICK v \in V, leg \in LegSpec : v = f[k - 1] /\ leg = wanted[k]
    <3>1. k - 1 \in 0 .. L
      OBVIOUS
    <3> QED BY <1>2, <1>12, <3>1
  <2>2. f[k] = Resolve(v, leg)
    BY <1>11, <2>1
  <2>3. Resolve(v, leg) # Refused =>
          /\ v \in Seq(Listed) /\ v # Refused
          /\ Side(leg, PickExpiry(leg, v)) # {} /\ Anchored(leg, v)
          /\ Resolve(v, leg) = Append(v, PickStrike(leg, PickExpiry(leg, v), v))
          /\ Resolve(v, leg) \in Seq(Listed) /\ Len(Resolve(v, leg)) = Len(v) + 1
    BY ResolveIs
  <2> HIDE DEF V
  <2> QED BY <1>13, <2>1, <2>2, <2>3
(* A refusal is for good. *)
<1>14. \A k \in 0 .. L : f[k] # Refused
  <2> DEFINE S == {d \in 0 .. L : f[L - d] # Refused}
  <2>1. 0 \in S
    BY <1>10
  <2>2. ASSUME NEW d \in 1 .. L, d - 1 \in S PROVE d \in S
    <3>1. PICK k \in 1 .. L : k = L - (d - 1) /\ k - 1 = L - d
      OBVIOUS
    <3>2. f[k] # Refused
      BY <2>2, <3>1
    <3>3. f[k - 1] # Refused
      BY <1>13, <3>2
    <3> QED BY <3>1, <3>3
  <2>3. ASSUME NEW k \in 0 .. L PROVE f[k] # Refused
    <3>1. L - k \in 0 .. L /\ L - (L - k) = k
      OBVIOUS
    <3>2. \A d \in 0 .. L : d \in S
      <4> HIDE DEF S
      <4> QED BY <2>1, <2>2, Upward
    <3>3. L - k \in S
      BY <3>1, <3>2
    <3> QED BY <3>1, <3>3
  <2> QED BY <2>3
<1>15. \A k \in 0 .. L : f[k] \in Seq(Listed)
  <2> HIDE DEF V
  <2> QED BY <1>12, <1>14 DEF V
<1>16. \A k \in 0 .. L : Len(f[k]) = k
  <2> DEFINE S == {k \in 0 .. L : Len(f[k]) = k}
  <2>1. 0 \in S
    BY <1>11
  <2>2. ASSUME NEW k \in 1 .. L, k - 1 \in S PROVE k \in S
    <3>1. Len(f[k]) = Len(f[k - 1]) + 1
      BY <1>13, <1>14
    <3> QED BY <2>2, <3>1
  <2> HIDE DEF S
  <2>3. \A k \in 0 .. L : k \in S
    BY <2>1, <2>2, Upward
  <2> QED BY <2>3 DEF S
<1>17. ChosenFor(wanted, L, f)
  <2>1. ASSUME NEW k \in 1 .. L
        PROVE /\ f[k - 1] \in Seq(Listed) /\ Len(f[k - 1]) = k - 1
              /\ Side(wanted[k], PickExpiry(wanted[k], f[k - 1])) # {} /\ Anchored(wanted[k], f[k - 1])
              /\ f[k] = Append(f[k - 1], PickStrike(wanted[k], PickExpiry(wanted[k], f[k - 1]), f[k - 1]))
    <3>1. k - 1 \in 0 .. L /\ k \in 0 .. L
      OBVIOUS
    <3>2. f[k] # Refused
      BY <1>14, <3>1
    <3> QED BY <1>13, <1>16, <3>1, <3>2
  <2> QED BY <1>11, <2>1 DEF ChosenFor
<1> QED BY <1>1, <1>10, <1>15, <1>16, <1>17

(* What is chosen stays chosen.                                              *)
LEMMA ChosenStay ==
  ASSUME StructureAssumption, NEW wanted, NEW L \in Nat, wanted \in Seq(LegSpec), Len(wanted) = L,
         NEW f, ChosenFor(wanted, L, f), NEW k \in 1 .. L
  PROVE  /\ f[k] \in Seq(Listed) /\ Len(f[k]) = k
         /\ f[k][k] = PickStrike(wanted[k], PickExpiry(wanted[k], f[k - 1]), f[k - 1])
         /\ f[k][k] \in Side(wanted[k], PickExpiry(wanted[k], f[k - 1]))
         /\ f[k][k] \in Candidates(wanted[k], PickExpiry(wanted[k], f[k - 1]))
         /\ \A j \in 1 .. k : f[L][j] = f[k][j]
<1>1. \A n \in 1 .. L :
        /\ f[n - 1] \in Seq(Listed) /\ Len(f[n - 1]) = n - 1
        /\ Side(wanted[n], PickExpiry(wanted[n], f[n - 1])) # {} /\ Anchored(wanted[n], f[n - 1])
        /\ f[n] = Append(f[n - 1], PickStrike(wanted[n], PickExpiry(wanted[n], f[n - 1]), f[n - 1]))
  BY DEF ChosenFor
<1>2. ASSUME NEW n \in 1 .. L
      PROVE /\ f[n] \in Seq(Listed) /\ Len(f[n]) = n
            /\ f[n][n] = PickStrike(wanted[n], PickExpiry(wanted[n], f[n - 1]), f[n - 1])
            /\ f[n][n] \in Side(wanted[n], PickExpiry(wanted[n], f[n - 1]))
            /\ f[n][n] \in Candidates(wanted[n], PickExpiry(wanted[n], f[n - 1]))
            /\ \A j \in 1 .. n - 1 : f[n][j] = f[n - 1][j]
  <2>1. PICK w \in Seq(Listed) : w = f[n - 1] /\ Len(w) = n - 1
    BY <1>1
  <2>2. PICK leg \in LegSpec : leg = wanted[n]
    OBVIOUS
  <2>3. PICK e : e = PickExpiry(leg, w)
    OBVIOUS
  <2>4. Side(leg, e) # {} /\ Anchored(leg, w) /\ f[n] = Append(w, PickStrike(leg, e, w))
    BY <1>1, <2>1, <2>2, <2>3
  <2>5. PickStrike(leg, e, w) \in Side(leg, e) /\ PickStrike(leg, e, w) \in Candidates(leg, e)
    BY <2>4, StrikeIs
  <2>6. PICK c \in Listed : c = PickStrike(leg, e, w) /\ f[n] = Append(w, c)
    BY <2>4, <2>5 DEF Side
  <2>7. f[n] \in Seq(Listed) /\ Len(f[n]) = n /\ f[n][n] = c /\ \A j \in 1 .. n - 1 : f[n][j] = w[j]
    BY <2>1, <2>6
  <2> QED BY <2>1, <2>2, <2>3, <2>5, <2>6, <2>7
<1>3. \A j \in 1 .. k : f[L][j] = f[k][j]
  <2> DEFINE S == {n \in 0 .. L - k : \A j \in 1 .. k : f[k + n][j] = f[k][j]}
  <2>1. 0 \in S
    OBVIOUS
  <2>2. ASSUME NEW n \in 1 .. L - k, n - 1 \in S PROVE n \in S
    <3>1. PICK m \in 1 .. L : m = k + n /\ m - 1 = k + (n - 1) /\ k <= m - 1
      OBVIOUS
    <3>2. \A j \in 1 .. m - 1 : f[m][j] = f[m - 1][j]
      BY <1>2
    <3>3. \A j \in 1 .. k : f[m][j] = f[m - 1][j]
      BY <3>1, <3>2
    <3>4. \A j \in 1 .. k : f[m - 1][j] = f[k][j]
      BY <2>2, <3>1
    <3> QED BY <3>1, <3>3, <3>4
  <2>3. PICK l \in Nat : l = L - k
    OBVIOUS
  <2>4. \A n \in 0 .. l : n \in S
    <3> HIDE DEF S
    <3> QED BY <2>1, <2>2, <2>3, Upward
  <2>5. l \in S /\ k + l = L
    BY <2>3, <2>4
  <2> QED BY <2>5
<1> QED BY <1>2, <1>3

(* A wing is further out of the money than its leg, on the same expiration.  *)
LEMMA WingIs ==
  ASSUME StructureAssumption, order \in Requests, NEW cs, cs = BuildStructure, cs # Refused,
         NEW i, Vertical(i)
  PROVE  /\ i \in Nat \ {0} /\ i + 1 \in 1 .. Len(order.legs)
         /\ cs[i + 1] \in Listed /\ cs[i] \in Listed
         /\ cs[i + 1].dte = cs[i].dte /\ cs[i].right = order.legs[i].right /\ cs[i + 1].right = order.legs[i].right
         /\ (order.legs[i].right = "P" => cs[i + 1].strike < cs[i].strike)
         /\ (order.legs[i].right = "C" => cs[i].strike < cs[i + 1].strike)
<1>1. Resolved = cs /\ IsInjective(cs)
  BY DEF BuildStructure
<1>2. PICK wanted : wanted = order.legs
  OBVIOUS
<1>3. PICK L \in Nat : L = Len(wanted) /\ wanted \in Seq(LegSpec) /\ cs \in Seq(Listed) /\ Len(cs) = L
  BY <1>1, <1>2, ResolvedIs
<1>4. PICK f : ChosenFor(wanted, L, f) /\ f[L] = cs
  BY <1>1, <1>2, <1>3, ResolvedIs
<1>5. i \in 1 .. L /\ i + 1 \in 1 .. L
  <2>1. DOMAIN wanted = 1 .. L
    BY <1>3
  <2> QED BY <1>2, <2>1 DEF Vertical, Places
<1>6. PICK leg \in LegSpec, wing \in LegSpec : leg = wanted[i] /\ wing = wanted[i + 1]
  BY <1>3, <1>5
<1>7. /\ wing.right = leg.right /\ wing.requireQuote = leg.requireQuote /\ SameExpiry(leg, wing, i)
      /\ wing.selector = "width" /\ wing.target # 0 /\ wing.anchor \in {Prev, i}
  BY <1>2, <1>6 DEF Vertical
(* What is chosen before the leg, and with it. *)
<1>8. PICK u, v : u = f[i - 1] /\ v = f[i]
  OBVIOUS
<1>9. u \in Seq(Listed) /\ Len(u) = i - 1 /\ v \in Seq(Listed) /\ Len(v) = i
  <2>1. u \in Seq(Listed) /\ Len(u) = i - 1
    BY <1>4, <1>5, <1>8 DEF ChosenFor
  <2>2. f[i] \in Seq(Listed) /\ Len(f[i]) = i
    BY <1>3, <1>4, <1>5, ChosenStay
  <2> QED BY <1>8, <2>1, <2>2
<1>10. PICK e : e = PickExpiry(leg, u)
  OBVIOUS
<1>11. PICK d : d = PickExpiry(wing, v)
  OBVIOUS
<1>12. PICK a : a = PickStrike(leg, e, u)
  OBVIOUS
<1>13. PICK b : b = PickStrike(wing, d, v)
  OBVIOUS
<1>14. cs[i] = a /\ a \in Side(leg, e) /\ a \in Candidates(leg, e) /\ a \in Listed /\ \A j \in 1 .. i : v[j] = cs[j]
  <2>1. /\ f[i][i] = PickStrike(wanted[i], PickExpiry(wanted[i], f[i - 1]), f[i - 1])
        /\ f[i][i] \in Side(wanted[i], PickExpiry(wanted[i], f[i - 1]))
        /\ f[i][i] \in Candidates(wanted[i], PickExpiry(wanted[i], f[i - 1]))
        /\ \A j \in 1 .. i : f[L][j] = f[i][j]
    BY <1>3, <1>4, <1>5, ChosenStay
  <2>2. f[i][i] = a /\ f[i][i] \in Side(leg, e) /\ f[i][i] \in Candidates(leg, e)
    BY <1>6, <1>8, <1>10, <1>12, <2>1
  <2> QED BY <1>4, <1>5, <1>8, <2>1, <2>2 DEF Side
<1>15. cs[i + 1] = b /\ b \in Side(wing, d) /\ b \in Listed
  <2>1. PICK k \in 1 .. L : k = i + 1 /\ k - 1 = i
    BY <1>5
  <2>2. /\ f[k][k] = PickStrike(wanted[k], PickExpiry(wanted[k], f[k - 1]), f[k - 1])
        /\ f[k][k] \in Side(wanted[k], PickExpiry(wanted[k], f[k - 1]))
        /\ \A j \in 1 .. k : f[L][j] = f[k][j]
    BY <1>3, <1>4, <2>1, ChosenStay
  <2>3. f[k][k] = b /\ b \in Side(wing, d)
    BY <1>6, <1>8, <1>11, <1>13, <2>1, <2>2
  <2>4. f[L][k] = f[k][k] /\ f[L] = cs /\ k = i + 1
    BY <1>4, <2>1, <2>2
  <2>5. cs[i + 1] = b
    BY <2>3, <2>4
  <2>6. b \in Listed
    BY <2>3 DEF Side
  <2> QED BY <2>3, <2>5, <2>6
<1>16. e \in Nat /\ a.dte = e /\ b.dte = d /\ a.right = leg.right /\ b.right = leg.right
  <2>1. Listed \subseteq Contracts
    BY StructureAssumption DEF StructureAssumption
  <2> QED BY <1>7, <1>14, <1>15, <2>1 DEF Side, Contracts
(* The two are asked for one expiration. *)
<1>17. d = e
  <2>1. PICK k \in Nat : k = wing.expirationOf
    BY <1>6 DEF LegSpec
  <2>2. DOMAIN u = 1 .. i - 1 /\ DOMAIN v = 1 .. i
    BY <1>5, <1>9
  <2>3. CASE k = i
    <3>1. d = v[i].dte
      BY <1>5, <1>11, <2>1, <2>2, <2>3 DEF PickExpiry
    <3> QED BY <1>5, <1>14, <1>16, <3>1
  <2>4. CASE k # i
    <3>1. leg.expirationOf = k /\ wing.dte = leg.dte /\ wing.tie = leg.tie
          /\ wing.dteMin = leg.dteMin /\ wing.dteMax = leg.dteMax
      BY <1>7, <2>1, <2>4 DEF SameExpiry
    <3>2. CASE k \in 1 .. i - 1
      <4>1. d = v[k].dte
        BY <1>5, <1>11, <2>1, <2>2, <3>2 DEF PickExpiry
      <4>2. e = u[k].dte
        BY <1>5, <1>10, <2>2, <3>1, <3>2 DEF PickExpiry
      <4>3. u[k] = v[k]
        <5>1. v = Append(u, PickStrike(wanted[i], PickExpiry(wanted[i], u), u))
          BY <1>4, <1>5, <1>8 DEF ChosenFor
        <5> QED BY <1>9, <3>2, <5>1
      <4> QED BY <4>1, <4>2, <4>3
    <3>3. CASE k \notin 1 .. i - 1
      <4>1. k \notin DOMAIN u /\ k \notin DOMAIN v
        BY <1>5, <2>2, <2>4, <3>3
      <4>2. InWindow(wing) = InWindow(leg) /\ Bounded(wing) = Bounded(leg)
        BY <3>1 DEF InWindow, Bounded
      <4>3. CASE k # 0
        BY <1>10, <1>11, <2>1, <3>1, <4>1, <4>3 DEF PickExpiry
      <4>4. CASE k = 0
        <5>1. PICK W : W = InWindow(leg)
          OBVIOUS
        <5>2. PICK near : near = {x \in W : \A y \in W : Dist(x, leg.dte) <= Dist(y, leg.dte)}
          OBVIOUS
        <5>3. e = IF W = {} \/ (leg.dte = Unset /\ ~Bounded(leg)) THEN Unset
                  ELSE IF leg.dte = Unset THEN Min(W)
                  ELSE IF leg.tie = "longer" THEN Max(near) ELSE Min(near)
          BY <1>10, <3>1, <4>4, <5>1, <5>2 DEF PickExpiry
        <5>4. d = IF W = {} \/ (leg.dte = Unset /\ ~Bounded(leg)) THEN Unset
                  ELSE IF leg.dte = Unset THEN Min(W)
                  ELSE IF leg.tie = "longer" THEN Max(near) ELSE Min(near)
          BY <1>11, <2>1, <3>1, <4>2, <4>4, <5>1, <5>2 DEF PickExpiry
        <5> QED BY <5>3, <5>4
      <4> QED BY <4>3, <4>4
    <3> QED BY <3>2, <3>3
  <2> QED BY <2>3, <2>4
(* They are chosen from the same contracts, the wing as near as can be to    *)
(* the strike a width away.                                                  *)
<1>18. PICK S : S = Candidates(wing, e)
  OBVIOUS
<1>19. S \in SUBSET Listed /\ S # {} /\ a \in S
  <2>1. Side(wing, e) = Side(leg, e)
    BY <1>7 DEF Side
  <2>2. Candidates(leg, e) = S
    BY <1>7, <1>18, <2>1 DEF Candidates
  <2>3. S \in SUBSET Side(wing, e) /\ S # {}
    BY <1>15, <1>17, <1>18, CandidatesAre
  <2> QED BY <1>14, <2>2, <2>3 DEF Side
<1>20. PICK t \in Int : t = a.strike + Out(wing) /\ (leg.right = "P" => t < a.strike) /\ (leg.right = "C" => a.strike < t)
                   /\ (leg.right = "P" => Dist(a.strike, t) = a.strike - t) /\ (leg.right = "C" => Dist(a.strike, t) = t - a.strike)
  <2>1. PICK w \in Int : w = Dist(wing.target, 0) /\ w > 0
    <3>1. wing.target \in Int /\ wing.target # 0
      BY <1>6, <1>7 DEF LegSpec
    <3> QED BY <3>1 DEF Dist
  <2>2. PICK s \in Nat : s = a.strike
    BY <1>14, StructureAssumption DEF StructureAssumption, Contracts
  <2>3. CASE leg.right = "P"
    <3>1. Out(wing) = -w
      BY <1>7, <2>1, <2>3 DEF Out, Outward
    <3> QED BY <2>1, <2>2, <2>3, <3>1 DEF Dist
  <2>4. CASE leg.right = "C"
    <3>1. Out(wing) = w
      BY <1>7, <2>1, <2>4 DEF Out, Outward
    <3> QED BY <2>1, <2>2, <2>4, <3>1 DEF Dist
  <2>5. leg.right = "P" \/ leg.right = "C"
    BY <1>6 DEF LegSpec
  <2> QED BY <2>3, <2>4, <2>5
<1>21. b = Nearest(S, Strikes, t, wing.round)
  <2>1. Anchor(wing, v) = a
    <3>1. v[i] = a /\ i # 0
      BY <1>5, <1>14
    <3>2. CASE wing.anchor = Prev
      <4>1. Last(v) = v[Len(v)]
        BY DEF Last
      <4> QED BY <1>9, <3>1, <3>2, <4>1 DEF Anchor
    <3>3. CASE wing.anchor # Prev
      BY <1>7, <3>1, <3>3 DEF Anchor
    <3> QED BY <3>2, <3>3
  <2>2. PickStrike(wing, d, v) = Nearest(Candidates(wing, d), Strikes, Anchor(wing, v).strike + Out(wing), wing.round)
    BY <1>7 DEF PickStrike
  <2> QED BY <1>13, <1>17, <1>18, <1>20, <2>1, <2>2
<1>22. Strikes \in [Listed -> Nat] /\ Strikes[a] = a.strike /\ Strikes[b] = b.strike /\ Listed \subseteq Contracts
  BY <1>14, <1>15, StructureAssumption DEF StructureAssumption, Strikes, Contracts
<1>23. /\ b \in S
       /\ \/ Dist(Strikes[b], t) <= Dist(Strikes[a], t)
          \/ wing.round = "up" /\ Strikes[a] < t /\ t <= Strikes[b]
          \/ wing.round = "down" /\ Strikes[b] <= t /\ t < Strikes[a]
  <2>1. PICK of \in [Listed -> Nat] : of = Strikes
    BY <1>22
  <2>2. PICK r : r = wing.round
    OBVIOUS
  <2>3. PICK n : n = Nearest(S, of, t, r)
    OBVIOUS
  <2>4. /\ n \in S
        /\ \A s \in S : \/ Dist(of[n], t) <= Dist(of[s], t)
                        \/ r = "up" /\ of[s] < t /\ t <= of[n]
                        \/ r = "down" /\ of[n] <= t /\ t < of[s]
    <3>1. Listed \subseteq Contracts /\ S \in SUBSET Listed /\ S # {} /\ of \in [Listed -> Nat] /\ t \in Int
      BY <1>19, <1>20, <1>22, <2>1
    <3>2. /\ Nearest(S, of, t, r) \in S
          /\ \A s \in S : \/ Dist(of[Nearest(S, of, t, r)], t) <= Dist(of[s], t)
                          \/ r = "up" /\ of[s] < t /\ t <= of[Nearest(S, of, t, r)]
                          \/ r = "down" /\ of[Nearest(S, of, t, r)] <= t /\ t < of[s]
      BY <3>1, NearestIs
    <3> QED BY <2>3, <3>2
  <2>5. n = b
    BY <1>21, <2>1, <2>2, <2>3
  <2> QED BY <1>19, <2>1, <2>2, <2>4, <2>5
<1>24. b.strike # a.strike
  <2>1. SUFFICES ASSUME b.strike = a.strike PROVE FALSE
    OBVIOUS
  <2>2. a = b
    BY <1>14, <1>15, <1>16, <1>17, <2>1, StructureAssumption DEF StructureAssumption
  <2>3. i \in DOMAIN cs /\ i + 1 \in DOMAIN cs /\ cs[i] = cs[i + 1] /\ i # i + 1
    BY <1>3, <1>5, <1>14, <1>15, <2>2
  <2> QED BY <1>1, <2>3 DEF IsInjective
<1>25. PICK x \in Nat, y \in Nat : x = a.strike /\ y = b.strike
  BY <1>14, <1>15, StructureAssumption DEF StructureAssumption, Contracts
<1>26. CASE leg.right = "P"
  <2>1. y < x
    BY <1>20, <1>22, <1>23, <1>24, <1>25, <1>26 DEF Dist
  <2> QED BY <1>2, <1>3, <1>5, <1>6, <1>14, <1>15, <1>16, <1>17, <1>25, <1>26, <2>1
<1>27. CASE leg.right = "C"
  <2>1. x < y
    BY <1>20, <1>22, <1>23, <1>24, <1>25, <1>27 DEF Dist
  <2> QED BY <1>2, <1>3, <1>5, <1>6, <1>14, <1>15, <1>16, <1>17, <1>25, <1>27, <2>1
<1> QED BY <1>6, <1>26, <1>27 DEF LegSpec

-----------------------------------------------------------------------------
(* Sums of two and of four.                                                  *)
LEMMA TotalOfTwo ==
  ASSUME NEW a, NEW b, a # b, NEW f \in [{a, b} -> Int]
  PROVE  TotalOf(f) = f[a] + f[b]
<1>o. PICK D : D = {a, b} /\ f \in [D -> Int]
  OBVIOUS
<1>1. IsFiniteSet(D)
  <2>1. IsFiniteSet({a})
    BY FS_Singleton
  <2>2. D = {a} \cup {b}
    BY <1>o
  <2> QED BY <2>1, <2>2, FS_AddElement
<1>2. PICK g : AddsUp(g, f, D) /\ TotalOf(f) = g[D]
  BY <1>o, <1>1, TotalAddsUp
<1>3. g[{}] = 0 /\ \A s \in SUBSET D : \A x \in s : g[s] = f[x] + g[s \ {x}]
  BY <1>2 DEF AddsUp
<1>4. g[D] = f[a] + g[{b}]
  <2>1. D \in SUBSET D /\ a \in D /\ D \ {a} = {b}
    BY <1>o
  <2> QED BY <1>3, <2>1
<1>5. g[{b}] = f[b] + 0
  <2>1. {b} \in SUBSET D /\ b \in {b} /\ {b} \ {b} = {}
    BY <1>o
  <2> QED BY <1>3, <2>1
<1> QED BY <1>2, <1>4, <1>5

LEMMA TotalOfFour ==
  ASSUME NEW f \in [1 .. 4 -> Int]
  PROVE  TotalOf(f) = f[1] + f[2] + f[3] + f[4]
<1>o. PICK D, A, B, C : D = {1, 2, 3, 4} /\ A = {1, 2, 3} /\ B = {1, 2} /\ C = {1}
  OBVIOUS
<1>1. D = 1 .. 4 /\ IsFiniteSet(D)
  <2>1. PICK n \in Int, m \in Int : n = 1 /\ m = 4
    OBVIOUS
  <2>2. IsFiniteSet(n .. m)
    BY FS_Interval
  <2>3. D = 1 .. 4
    BY <1>o
  <2> QED BY <2>1, <2>2, <2>3
<1>2. PICK g : AddsUp(g, f, D) /\ TotalOf(f) = g[D]
  BY <1>1, TotalAddsUp
<1>3. g[{}] = 0 /\ \A s \in SUBSET D : \A x \in s : g[s] = f[x] + g[s \ {x}]
  BY <1>2 DEF AddsUp
<1>4. g[D] = f[4] + g[A]
  <2>1. D \in SUBSET D /\ 4 \in D /\ D \ {4} = A
    BY <1>o
  <2> QED BY <1>3, <2>1
<1>5. g[A] = f[3] + g[B]
  <2>1. A \in SUBSET D /\ 3 \in A /\ A \ {3} = B
    BY <1>o
  <2> QED BY <1>3, <2>1
<1>6. g[B] = f[2] + g[C]
  <2>1. B \in SUBSET D /\ 2 \in B /\ B \ {2} = C
    BY <1>o
  <2> QED BY <1>3, <2>1
<1>7. g[C] = f[1] + 0
  <2>1. C \in SUBSET D /\ 1 \in C /\ C \ {1} = {}
    BY <1>o
  <2> QED BY <1>3, <2>1
<1> QED BY <1>2, <1>4, <1>5, <1>6, <1>7

(* The greatest and the least of a set are what they are.                    *)
LEMMA MostIs ==
  ASSUME NEW T \in SUBSET Int, NEW m \in T, \A y \in T : y <= m
  PROVE  Max(T) = m
<1>1. \A z \in T : (\A y \in T : z >= y) => z = m
  OBVIOUS
<1>2. \A y \in T : m >= y
  OBVIOUS
<1> QED BY <1>1, <1>2 DEF Max

LEMMA FewestIs ==
  ASSUME NEW T \in SUBSET Int, NEW m \in T, \A y \in T : m <= y
  PROVE  Min(T) = m
<1>1. \A z \in T : (\A y \in T : z <= y) => z = m
  OBVIOUS
<1> QED BY <1>1 DEF Min

LEMMA MaxOfTwo ==
  ASSUME NEW a \in Int, NEW b \in Int
  PROVE  Max({a, b}) = (IF a > b THEN a ELSE b) /\ Min({a, b}) = (IF a < b THEN a ELSE b)
<1>1. PICK m \in {a, b} : m = (IF a > b THEN a ELSE b) /\ \A y \in {a, b} : y <= m
  OBVIOUS
<1>2. PICK l \in {a, b} : l = (IF a < b THEN a ELSE b) /\ \A y \in {a, b} : l <= y
  OBVIOUS
<1>3. {a, b} \in SUBSET Int
  OBVIOUS
<1>4. PICK T : T = {a, b}
  OBVIOUS
<1>5. Max(T) = m /\ Min(T) = l
  BY <1>1, <1>2, <1>3, <1>4, MostIs, FewestIs
<1> QED BY <1>1, <1>2, <1>4, <1>5

-----------------------------------------------------------------------------
(* What a wing pays more than the leg it covers: nothing while that leg is   *)
(* out of the money, and never less than what is between them.               *)
LEMMA PayoffIs ==
  ASSUME NEW c \in Contracts, NEW p \in Nat
  PROVE  /\ Payoff(c, p) \in Nat
         /\ c.right = "C" => Payoff(c, p) = IF p > c.strike THEN p - c.strike ELSE 0
         /\ c.right = "P" => Payoff(c, p) = IF c.strike > p THEN c.strike - p ELSE 0
<1>1. PICK s \in Nat : s = c.strike
  BY DEF Contracts
<1>2. c.right = "C" \/ c.right = "P"
  BY DEF Contracts
<1>3. Max({p - s, 0}) = IF p - s > 0 THEN p - s ELSE 0
  BY MaxOfTwo
<1>4. Max({s - p, 0}) = IF s - p > 0 THEN s - p ELSE 0
  BY MaxOfTwo
<1>5. CASE c.right = "C"
  <2>1. Payoff(c, p) = IF p - s > 0 THEN p - s ELSE 0
    BY <1>1, <1>3, <1>5 DEF Payoff
  <2> QED BY <1>1, <1>5, <2>1
<1>6. CASE c.right = "P"
  <2>1. Payoff(c, p) = IF s - p > 0 THEN s - p ELSE 0
    BY <1>1, <1>4, <1>6 DEF Payoff
  <2> QED BY <1>1, <1>6, <2>1
<1> QED BY <1>2, <1>5, <1>6

Covers(w, c) ==
  /\ c \in Contracts /\ w \in Contracts /\ w.right = c.right
  /\ (c.right = "P" => w.strike < c.strike) /\ (c.right = "C" => c.strike < w.strike)

LEMMA VerticalPays ==
  ASSUME NEW c, NEW w, Covers(w, c), NEW d, d = Dist(w.strike, c.strike)
  PROVE  /\ d \in Nat \ {0}
         /\ \A p \in Nat :
              /\ Payoff(w, p) - Payoff(c, p) \in Int
              /\ -d <= Payoff(w, p) - Payoff(c, p)
              /\ c.right = "P" /\ c.strike <= p => Payoff(w, p) - Payoff(c, p) = 0
              /\ c.right = "C" /\ p <= c.strike => Payoff(w, p) - Payoff(c, p) = 0
              /\ c.right = "P" /\ p = 0 => Payoff(w, p) - Payoff(c, p) = -d
              /\ c.right = "C" /\ w.strike <= p => Payoff(w, p) - Payoff(c, p) = -d
<1>o. /\ c \in Contracts /\ w \in Contracts /\ w.right = c.right
      /\ (c.right = "P" => w.strike < c.strike) /\ (c.right = "C" => c.strike < w.strike)
  BY DEF Covers
<1>1. PICK s \in Nat, x \in Nat : s = c.strike /\ x = w.strike
  BY <1>o DEF Contracts
<1>2. c.right = "C" \/ c.right = "P"
  BY <1>o DEF Contracts
<1>3. d \in Nat \ {0} /\ d = IF c.right = "P" THEN s - x ELSE x - s
  BY <1>o, <1>1, <1>2 DEF Dist
<1>4. ASSUME NEW p \in Nat
      PROVE /\ Payoff(w, p) - Payoff(c, p) \in Int
            /\ -d <= Payoff(w, p) - Payoff(c, p)
            /\ c.right = "P" /\ c.strike <= p => Payoff(w, p) - Payoff(c, p) = 0
            /\ c.right = "C" /\ p <= c.strike => Payoff(w, p) - Payoff(c, p) = 0
            /\ c.right = "P" /\ p = 0 => Payoff(w, p) - Payoff(c, p) = -d
            /\ c.right = "C" /\ w.strike <= p => Payoff(w, p) - Payoff(c, p) = -d
  <2>1. PICK a \in Nat : /\ a = Payoff(c, p)
                         /\ c.right = "C" => a = IF p > s THEN p - s ELSE 0
                         /\ c.right = "P" => a = IF s > p THEN s - p ELSE 0
    BY <1>o, <1>1, PayoffIs
  <2>2. PICK b \in Nat : /\ b = Payoff(w, p)
                         /\ c.right = "C" => b = IF p > x THEN p - x ELSE 0
                         /\ c.right = "P" => b = IF x > p THEN x - p ELSE 0
    BY <1>o, <1>1, PayoffIs
  <2>3. CASE c.right = "C"
    BY <1>o, <1>1, <1>3, <2>1, <2>2, <2>3
  <2>4. CASE c.right = "P"
    BY <1>o, <1>1, <1>3, <2>1, <2>2, <2>4
  <2> QED BY <1>2, <2>3, <2>4
<1> QED BY <1>3, <1>4

(* No strike is above every price.                                           *)
LEMMA PricesReach ==
  ASSUME StructureAssumption, NEW e \in Listed
  PROVE  \E top \in Nat : Prices = 0 .. top /\ \A c \in Listed : c.strike <= top
<1>1. IsFiniteSet(Listed) /\ \A c \in Listed : c.strike \in Nat
  BY StructureAssumption DEF StructureAssumption, Contracts
<1>2. Strikes = [c \in Listed |-> c.strike]
  BY DEF Strikes
<1>3. PICK b \in Nat : \A c \in Listed : Strikes[c] <= b
  <2>1. \A c \in Listed : Strikes[c] \in Nat
    BY <1>1, <1>2
  <2> QED BY <1>1, <2>1, ValuesAreBounded
<1>4. PICK V : V = {c.strike : c \in Listed}
  OBVIOUS
<1>5. V \subseteq 0 .. b /\ V # {}
  BY <1>1, <1>2, <1>3, <1>4
<1>6. PICK m \in V : \A y \in V : y <= m
  BY <1>5, Greatest
<1>7. Max(V) = m
  BY <1>5, <1>6, MostIs
<1>8. Prices = 0 .. 2 * m
  BY <1>4, <1>7 DEF Prices
<1>9. m \in Nat /\ m <= 2 * m /\ 2 * m \in Nat
  BY <1>5, <1>6
<1>10. \A c \in Listed : c.strike \in V /\ c.strike \in Nat
  BY <1>1, <1>4
<1>11. \A c \in Listed : c.strike <= 2 * m
  BY <1>6, <1>9, <1>10
<1> QED BY <1>8, <1>9, <1>11

(* A put vertical and a call vertical around the money lose one of their     *)
(* widths at most, and do lose either at some price.                         *)
Around(a, b, c, e, top) ==
  /\ {a, b, c, e} \subseteq Contracts
  /\ a.right = "P" /\ b.right = "P" /\ c.right = "C" /\ e.right = "C"
  /\ b.strike < a.strike /\ c.strike < e.strike /\ a.strike <= c.strike
  /\ e.strike <= top

LEMMA CondorPays ==
  ASSUME NEW a, NEW b, NEW c, NEW e, NEW top \in Nat, Around(a, b, c, e, top),
         NEW x, NEW y, x = Dist(b.strike, a.strike), y = Dist(e.strike, c.strike)
  PROVE  /\ x \in Nat \ {0} /\ y \in Nat \ {0}
         /\ \A p \in 0 .. top : LET w == (Payoff(b, p) - Payoff(a, p)) + (Payoff(e, p) - Payoff(c, p))
                                IN w \in Int /\ (-x <= w \/ -y <= w)
         /\ (Payoff(b, 0) - Payoff(a, 0)) + (Payoff(e, 0) - Payoff(c, 0)) = -x
         /\ (Payoff(b, top) - Payoff(a, top)) + (Payoff(e, top) - Payoff(c, top)) = -y
<1>o. /\ a \in Contracts /\ b \in Contracts /\ c \in Contracts /\ e \in Contracts
      /\ a.right = "P" /\ b.right = "P" /\ c.right = "C" /\ e.right = "C"
      /\ b.strike < a.strike /\ c.strike < e.strike /\ a.strike <= c.strike
      /\ e.strike <= top
  BY DEF Around
<1>1. PICK ka \in Nat, kb \in Nat, kc \in Nat, ke \in Nat :
        ka = a.strike /\ kb = b.strike /\ kc = c.strike /\ ke = e.strike
  BY <1>o DEF Contracts
<1>2. /\ x \in Nat \ {0}
      /\ \A p \in Nat :
           /\ Payoff(b, p) - Payoff(a, p) \in Int
           /\ -x <= Payoff(b, p) - Payoff(a, p)
           /\ a.strike <= p => Payoff(b, p) - Payoff(a, p) = 0
           /\ p = 0 => Payoff(b, p) - Payoff(a, p) = -x
  <2>1. a.right = "P" /\ a.right # "C" /\ Covers(b, a)
    BY <1>o DEF Covers
  <2> QED BY <2>1, VerticalPays
<1>3. /\ y \in Nat \ {0}
      /\ \A p \in Nat :
           /\ Payoff(e, p) - Payoff(c, p) \in Int
           /\ -y <= Payoff(e, p) - Payoff(c, p)
           /\ p <= c.strike => Payoff(e, p) - Payoff(c, p) = 0
           /\ e.strike <= p => Payoff(e, p) - Payoff(c, p) = -y
  <2>1. c.right = "C" /\ c.right # "P" /\ Covers(e, c)
    BY <1>o DEF Covers
  <2> QED BY <2>1, VerticalPays
<1>4. ASSUME NEW p \in 0 .. top
      PROVE LET w == (Payoff(b, p) - Payoff(a, p)) + (Payoff(e, p) - Payoff(c, p))
            IN w \in Int /\ (-x <= w \/ -y <= w)
  <2>1. PICK u \in Int, v \in Int : u = Payoff(b, p) - Payoff(a, p) /\ v = Payoff(e, p) - Payoff(c, p)
    BY <1>2, <1>3
  <2>2. -x <= u /\ (ka <= p => u = 0) /\ -y <= v /\ (p <= kc => v = 0)
    BY <1>1, <1>2, <1>3, <2>1
  <2>3. u + v \in Int /\ (-x <= u + v \/ -y <= u + v)
    BY <1>o, <1>1, <1>2, <1>3, <2>2
  <2> QED BY <2>1, <2>3
<1>5. (Payoff(b, 0) - Payoff(a, 0)) + (Payoff(e, 0) - Payoff(c, 0)) = -x
  <2>1. PICK p \in Nat : p = 0 /\ p <= c.strike
    BY <1>1
  <2>2. Payoff(b, p) - Payoff(a, p) = -x /\ Payoff(e, p) - Payoff(c, p) = 0
    BY <1>2, <1>3, <2>1
  <2>3. -x + 0 = -x
    BY <1>2
  <2> QED BY <2>1, <2>2, <2>3
<1>6. (Payoff(b, top) - Payoff(a, top)) + (Payoff(e, top) - Payoff(c, top)) = -y
  <2>1. a.strike <= top
    BY <1>o, <1>1
  <2>2. Payoff(b, top) - Payoff(a, top) = 0 /\ Payoff(e, top) - Payoff(c, top) = -y
    BY <1>o, <1>2, <1>3, <2>1
  <2>3. 0 + (-y) = -y
    BY <1>3
  <2> QED BY <2>2, <2>3
<1> QED BY <1>2, <1>3, <1>4, <1>5, <1>6

-----------------------------------------------------------------------------
(* A side of the structure that is one vertical.                             *)
OneCovered(cs, key, i, j) ==
  /\ i # j /\ On(cs, key) = {i, j} /\ Signed(i) = -1 /\ Signed(j) = 1
  /\ cs[i].strike \in Nat /\ cs[j].strike \in Nat

LEMMA SideIs ==
  ASSUME NEW cs, NEW key, NEW i, NEW j, OneCovered(cs, key, i, j)
  PROVE  ~NakedSide(cs, key) /\ Spread(cs, key) = Dist(cs[j].strike, cs[i].strike)
<1>o. /\ i # j /\ On(cs, key) = {i, j} /\ Signed(i) = -1 /\ Signed(j) = 1
      /\ cs[i].strike \in Nat /\ cs[j].strike \in Nat
  BY DEF OneCovered
<1>1. PICK h : h = [k \in On(cs, key) |-> Signed(k)]
  OBVIOUS
<1>2. DOMAIN h = {i, j} /\ h[i] = -1 /\ h[j] = 1 /\ h \in [{i, j} -> Int]
  BY <1>o, <1>1
<1>3. TotalOf(h) = -1 + 1
  <2>1. TotalOf(h) = h[i] + h[j]
    BY <1>o, <1>2, TotalOfTwo
  <2> QED BY <1>2, <2>1
<1>4. ~NakedSide(cs, key)
  BY <1>1, <1>3 DEF NakedSide
<1>5. PICK a \in Nat, b \in Nat : a = cs[i].strike /\ b = cs[j].strike
  BY <1>o
<1>6. {cs[k].strike : k \in On(cs, key)} = {a, b}
  BY <1>o, <1>5
<1>7. Max({a, b}) = (IF a > b THEN a ELSE b) /\ Min({a, b}) = (IF a < b THEN a ELSE b)
  BY MaxOfTwo
<1>8. Spread(cs, key) = Max({a, b}) - Min({a, b})
  BY <1>6 DEF Spread
<1>9. Spread(cs, key) = Dist(b, a)
  BY <1>7, <1>8 DEF Dist
<1> QED BY <1>4, <1>5, <1>9

LEMMA VerticalSigns ==
  ASSUME NEW i, Vertical(i)
  PROVE  Signed(i) = -1 /\ Signed(i + 1) = 1
<1>1. Signed(i) = 1 * (-1) /\ Signed(i + 1) = 1 * 1
  BY DEF Vertical, Signed
<1> QED BY <1>1

(* What is between the strikes is what can be lost besides the premium.      *)
Loses(cs, d) ==
  ~Unbalanced(cs) /\ Width(cs) = d /\ Min({Worth(cs, p) : p \in Prices}) = -d /\ OpenMv(cs) \in Int

LEMMA OneVertical ==
  ASSUME StructureAssumption, order \in Requests, NEW cs, cs = BuildStructure, cs # Refused,
         Vertical(1), Len(order.legs) = 2
  PROVE  \E d \in Nat \ {0} : Loses(cs, d)
<1>1. PICK a \in Listed, b \in Listed :
        /\ a = cs[1] /\ b = cs[2] /\ a.dte = b.dte /\ b.right = a.right
        /\ a.right = "P" => b.strike < a.strike
        /\ a.right = "C" => a.strike < b.strike
  <2>1. PICK i \in Nat : i = 1 /\ i + 1 = 2
    OBVIOUS
  <2>2. /\ cs[i + 1] \in Listed /\ cs[i] \in Listed
        /\ cs[i + 1].dte = cs[i].dte /\ cs[i].right = order.legs[i].right /\ cs[i + 1].right = order.legs[i].right
        /\ (order.legs[i].right = "P" => cs[i + 1].strike < cs[i].strike)
        /\ (order.legs[i].right = "C" => cs[i].strike < cs[i + 1].strike)
    BY <2>1, WingIs
  <2> QED BY <2>1, <2>2
<1>2. Listed \subseteq Contracts
  BY StructureAssumption DEF StructureAssumption
<1>3. /\ a \in Contracts /\ b \in Contracts /\ a.strike \in Nat /\ b.strike \in Nat /\ a.mark \in Nat /\ b.mark \in Nat
      /\ (a.right = "P" \/ a.right = "C")
  BY <1>1, <1>2 DEF Contracts
<1>4. PICK d : d = Dist(b.strike, a.strike)
  OBVIOUS
<1>5. Places = {1, 2}
  <2>1. order.legs \in Seq(LegSpec)
    <3>1. order.legs \in LegLists
      BY DEF Requests
    <3> QED BY <3>1, StructureAssumption DEF StructureAssumption
  <2> QED BY <2>1 DEF Places
<1>6. Signed(1) = -1 /\ Signed(2) = 1
  <2>1. PICK i \in Nat : i = 1 /\ i + 1 = 2
    OBVIOUS
  <2>2. Signed(i) = -1 /\ Signed(i + 1) = 1
    BY <2>1, VerticalSigns
  <2> QED BY <2>1, <2>2
<1>7. PICK key : key = <<a.right, a.dte>>
  OBVIOUS
<1>8. Keys(cs) = {key} /\ On(cs, key) = {1, 2}
  BY <1>1, <1>5, <1>7 DEF Keys, On
<1>9. ~NakedSide(cs, key) /\ Spread(cs, key) = d
  <2>1. PICK i \in Nat, j \in Nat : i = 1 /\ j = 2
    OBVIOUS
  <2>2. OneCovered(cs, key, i, j)
    BY <1>1, <1>3, <1>6, <1>8, <2>1 DEF OneCovered
  <2>3. ~NakedSide(cs, key) /\ Spread(cs, key) = Dist(cs[j].strike, cs[i].strike)
    BY <2>2, SideIs
  <2> QED BY <1>1, <1>4, <2>1, <2>3
<1>10. /\ d \in Nat \ {0}
       /\ \A p \in Nat :
            /\ Payoff(b, p) - Payoff(a, p) \in Int
            /\ -d <= Payoff(b, p) - Payoff(a, p)
            /\ a.right = "P" /\ p = 0 => Payoff(b, p) - Payoff(a, p) = -d
            /\ a.right = "C" /\ b.strike <= p => Payoff(b, p) - Payoff(a, p) = -d
  <2>1. /\ d \in Nat \ {0}
        /\ \A p \in Nat :
             /\ Payoff(b, p) - Payoff(a, p) \in Int
             /\ -d <= Payoff(b, p) - Payoff(a, p)
             /\ a.right = "P" /\ a.strike <= p => Payoff(b, p) - Payoff(a, p) = 0
             /\ a.right = "C" /\ p <= a.strike => Payoff(b, p) - Payoff(a, p) = 0
             /\ a.right = "P" /\ p = 0 => Payoff(b, p) - Payoff(a, p) = -d
             /\ a.right = "C" /\ b.strike <= p => Payoff(b, p) - Payoff(a, p) = -d
    <3>1. Covers(b, a)
      BY <1>1, <1>3 DEF Covers
    <3> QED BY <1>4, <3>1, VerticalPays
  <2> QED BY <2>1
<1>11. ~Unbalanced(cs)
  BY <1>8, <1>9 DEF Unbalanced
<1>12. Width(cs) = d
  <2>1. {Spread(cs, k) : k \in Keys(cs)} = {d}
    BY <1>8, <1>9
  <2>2. PICK T : T = {d}
    OBVIOUS
  <2>4. T \in SUBSET Int /\ d \in T /\ \A y \in T : y <= d
    BY <1>10, <2>2
  <2>3. Max(T) = d
    BY <2>4, MostIs
  <2> QED BY <2>1, <2>2, <2>3 DEF Width
<1>13. OpenMv(cs) \in Int
  <2>1. PICK h : h = [i \in Places |-> Signed(i) * cs[i].mark]
    OBVIOUS
  <2>2. h[1] \in Int /\ h[2] \in Int /\ h \in [{1, 2} -> Int]
    <3>1. h = [i \in {1, 2} |-> Signed(i) * cs[i].mark]
      BY <1>5, <2>1
    <3>2. h[1] = (-1) * a.mark /\ h[2] = 1 * b.mark
      BY <1>1, <1>6, <3>1
    <3> QED BY <1>3, <3>1, <3>2
  <2>3. TotalOf(h) = h[1] + h[2]
    <3>1. PICK i : i = 1 /\ h \in [{i, 2} -> Int]
      BY <2>2
    <3>2. PICK j : j = 2 /\ i # j /\ h \in [{i, j} -> Int]
      BY <3>1
    <3>3. TotalOf(h) = h[i] + h[j]
      BY <3>2, TotalOfTwo
    <3> QED BY <3>3, <3>1, <3>2
  <2> QED BY <2>1, <2>2, <2>3 DEF OpenMv
<1>14. ASSUME NEW p \in Nat PROVE Worth(cs, p) = Payoff(b, p) - Payoff(a, p)
  <2>1. PICK u \in Nat, v \in Nat : u = Payoff(a, p) /\ v = Payoff(b, p)
    BY <1>3, PayoffIs
  <2>2. PICK h : h = [i \in Places |-> Signed(i) * Payoff(cs[i], p)]
    OBVIOUS
  <2>3. h = [i \in {1, 2} |-> Signed(i) * Payoff(cs[i], p)]
    BY <1>5, <2>2
  <2>4. h[1] = -u /\ h[2] = v
    <3>1. h[1] = (-1) * u /\ h[2] = 1 * v
      BY <1>1, <1>6, <2>1, <2>3
    <3> QED BY <3>1
  <2>5. h \in [{1, 2} -> Int]
    BY <2>3, <2>4
  <2>6. TotalOf(h) = -u + v
    <3>1. PICK i : i = 1 /\ h \in [{i, 2} -> Int]
      BY <2>5
    <3>2. PICK j : j = 2 /\ i # j /\ h \in [{i, j} -> Int]
      BY <3>1
    <3>3. TotalOf(h) = h[i] + h[j]
      BY <3>2, TotalOfTwo
    <3> QED BY <3>3, <2>4, <3>1, <3>2
  <2>7. Worth(cs, p) = TotalOf(h)
    BY <2>2 DEF Worth
  <2> QED BY <2>1, <2>6, <2>7
<1>15. PICK top \in Nat : Prices = 0 .. top /\ b.strike <= top
  BY <1>1, PricesReach
<1>16. PICK V : V = {Worth(cs, p) : p \in Prices}
  OBVIOUS
<1>17. V \in SUBSET Int /\ \A v \in V : -d <= v
  BY <1>10, <1>14, <1>15, <1>16
<1>18. -d \in V
  <2>1. CASE a.right = "P"
    <3>1. 0 \in Prices /\ Worth(cs, 0) = -d
      BY <1>10, <1>14, <1>15, <2>1
    <3> QED BY <1>16, <3>1
  <2>2. CASE a.right = "C"
    <3>1. top \in Prices /\ Worth(cs, top) = -d
      BY <1>10, <1>14, <1>15, <2>2
    <3> QED BY <1>16, <3>1
  <2> QED BY <1>3, <2>1, <2>2
<1>19. Min(V) = -d
  <2>1. PICK m \in V : m = -d
    BY <1>18
  <2>2. \A v \in V : m <= v
    BY <1>17, <2>1
  <2> QED BY <1>17, <2>1, <2>2, FewestIs
<1> QED BY <1>10, <1>11, <1>12, <1>13, <1>16, <1>19 DEF Loses

LEMMA LegsAre ==
  ASSUME StructureAssumption, order \in Requests
  PROVE  order.legs \in Seq(LegSpec) /\ DOMAIN order.legs = 1 .. Len(order.legs) /\ Len(order.legs) \in Nat
<1>1. order.legs \in LegLists
  BY DEF Requests
<1>2. order.legs \in Seq(LegSpec)
  BY <1>1, StructureAssumption DEF StructureAssumption
<1> QED BY <1>2

LEMMA CondorIs ==
  ASSUME StructureAssumption, order \in Requests, NEW cs, cs = BuildStructure, cs # Refused, Condor(cs)
  PROVE  \E d \in Nat \ {0} : Loses(cs, d)
<1>o. /\ Vertical(1) /\ Len(order.legs) = 4 /\ Vertical(3)
      /\ order.legs[1].right # order.legs[3].right /\ cs[1].dte = cs[3].dte
      /\ Outward(order.legs[3]) * (cs[3].strike - cs[1].strike) >= 0
  BY DEF Condor
<1>p. Listed \subseteq Contracts
  BY StructureAssumption DEF StructureAssumption
<1>1. PICK a \in Listed, b \in Listed :
        /\ a = cs[1] /\ b = cs[2] /\ a.dte = b.dte /\ a.right = order.legs[1].right /\ Covers(b, a)
  <2>1. PICK i \in Nat : i = 1 /\ i + 1 = 2
    OBVIOUS
  <2>2. /\ cs[i + 1] \in Listed /\ cs[i] \in Listed
        /\ cs[i + 1].dte = cs[i].dte /\ cs[i].right = order.legs[i].right /\ cs[i + 1].right = order.legs[i].right
        /\ (order.legs[i].right = "P" => cs[i + 1].strike < cs[i].strike)
        /\ (order.legs[i].right = "C" => cs[i].strike < cs[i + 1].strike)
    BY <1>o, <2>1, WingIs
  <2> QED BY <1>p, <2>1, <2>2 DEF Covers
<1>2. PICK c \in Listed, e \in Listed :
        /\ c = cs[3] /\ e = cs[4] /\ c.dte = e.dte /\ c.right = order.legs[3].right /\ Covers(e, c)
  <2>1. PICK i \in Nat : i = 3 /\ i + 1 = 4
    OBVIOUS
  <2>2. /\ cs[i + 1] \in Listed /\ cs[i] \in Listed
        /\ cs[i + 1].dte = cs[i].dte /\ cs[i].right = order.legs[i].right /\ cs[i + 1].right = order.legs[i].right
        /\ (order.legs[i].right = "P" => cs[i + 1].strike < cs[i].strike)
        /\ (order.legs[i].right = "C" => cs[i].strike < cs[i + 1].strike)
    BY <1>o, <2>1, WingIs
  <2> QED BY <1>p, <2>1, <2>2 DEF Covers
<1>3. /\ {a, b, c, e} \subseteq Contracts
      /\ {a.strike, b.strike, c.strike, e.strike, a.mark, b.mark, c.mark, e.mark} \subseteq Nat
      /\ b.right = a.right /\ e.right = c.right
      /\ (a.right = "P" /\ c.right = "C") \/ (a.right = "C" /\ c.right = "P")
  <2>1. a \in Contracts /\ b \in Contracts /\ c \in Contracts /\ e \in Contracts
    BY <1>p
  <2>2. b.right = a.right /\ e.right = c.right /\ a.right # c.right
    BY <1>o, <1>1, <1>2 DEF Covers
  <2> QED BY <2>1, <2>2 DEF Contracts
<1>4. PICK x, y : x = Dist(b.strike, a.strike) /\ y = Dist(e.strike, c.strike)
  OBVIOUS
<1>5. Places = {1, 2, 3, 4}
  BY <1>o, LegsAre DEF Places
<1>6. Signed(1) = -1 /\ Signed(2) = 1 /\ Signed(3) = -1 /\ Signed(4) = 1
  <2>1. PICK i \in Nat, j \in Nat : i = 1 /\ i + 1 = 2 /\ j = 3 /\ j + 1 = 4
    OBVIOUS
  <2>2. Signed(i) = -1 /\ Signed(i + 1) = 1
    BY <1>o, <2>1, VerticalSigns
  <2>3. Signed(j) = -1 /\ Signed(j + 1) = 1
    BY <1>o, <2>1, VerticalSigns
  <2> QED BY <2>1, <2>2, <2>3
<1>7. PICK near, far : near = <<a.right, a.dte>> /\ far = <<c.right, c.dte>>
  OBVIOUS
<1>8. /\ <<cs[1].right, cs[1].dte>> = near /\ <<cs[2].right, cs[2].dte>> = near
      /\ <<cs[3].right, cs[3].dte>> = far /\ <<cs[4].right, cs[4].dte>> = far
      /\ near # far
  BY <1>1, <1>2, <1>3, <1>7
<1>9. Keys(cs) = {near, far} /\ On(cs, near) = {1, 2} /\ On(cs, far) = {3, 4}
  BY <1>5, <1>8 DEF Keys, On
<1>10. ~NakedSide(cs, near) /\ Spread(cs, near) = x
  <2>1. PICK i \in Nat, j \in Nat : i = 1 /\ j = 2
    OBVIOUS
  <2>2. OneCovered(cs, near, i, j)
    BY <1>1, <1>3, <1>6, <1>9, <2>1 DEF OneCovered
  <2>3. ~NakedSide(cs, near) /\ Spread(cs, near) = Dist(cs[j].strike, cs[i].strike)
    BY <2>2, SideIs
  <2> QED BY <1>1, <1>4, <2>1, <2>3
<1>11. ~NakedSide(cs, far) /\ Spread(cs, far) = y
  <2>1. PICK i \in Nat, j \in Nat : i = 3 /\ j = 4
    OBVIOUS
  <2>2. OneCovered(cs, far, i, j)
    BY <1>2, <1>3, <1>6, <1>9, <2>1 DEF OneCovered
  <2>3. ~NakedSide(cs, far) /\ Spread(cs, far) = Dist(cs[j].strike, cs[i].strike)
    BY <2>2, SideIs
  <2> QED BY <1>2, <1>4, <2>1, <2>3
<1>12. ~Unbalanced(cs)
  BY <1>9, <1>10, <1>11 DEF Unbalanced
<1>13. OpenMv(cs) \in Int
  <2>1. PICK h : h = [i \in Places |-> Signed(i) * cs[i].mark]
    OBVIOUS
  <2>2. h = [i \in {1, 2, 3, 4} |-> Signed(i) * cs[i].mark]
    BY <1>5, <2>1
  <2>3. h[1] = (-1) * a.mark /\ h[2] = 1 * b.mark /\ h[3] = (-1) * c.mark /\ h[4] = 1 * e.mark
    BY <1>1, <1>2, <1>6, <2>2
  <2>4. h \in [1 .. 4 -> Int] /\ h[1] \in Int /\ h[2] \in Int /\ h[3] \in Int /\ h[4] \in Int
    <3>1. PICK ma \in Nat, mb \in Nat, mc \in Nat, me \in Nat :
            ma = a.mark /\ mb = b.mark /\ mc = c.mark /\ me = e.mark
      BY <1>3
    <3>a. h[1] = (-1) * ma /\ h[2] = 1 * mb /\ h[3] = (-1) * mc /\ h[4] = 1 * me
      BY <2>3, <3>1
    <3>b. (-1) * ma \in Int /\ 1 * mb \in Int /\ (-1) * mc \in Int /\ 1 * me \in Int
      BY <3>1
    <3>2. h[1] \in Int /\ h[2] \in Int /\ h[3] \in Int /\ h[4] \in Int
      BY <3>a, <3>b
    <3>3. DOMAIN h = 1 .. 4
      BY <2>2
    <3>4. \A i \in 1 .. 4 : h[i] \in Int
      BY <3>2
    <3>5. h = [i \in DOMAIN h |-> h[i]]
      BY <2>2
    <3> QED BY <3>2, <3>3, <3>4, <3>5
  <2>5. TotalOf(h) = h[1] + h[2] + h[3] + h[4]
    BY <2>4, TotalOfFour
  <2> QED BY <2>1, <2>4, <2>5 DEF OpenMv
<1>14. ASSUME NEW p \in Nat
       PROVE  /\ Worth(cs, p) = (Payoff(b, p) - Payoff(a, p)) + (Payoff(e, p) - Payoff(c, p))
              /\ Worth(cs, p) = (Payoff(e, p) - Payoff(c, p)) + (Payoff(b, p) - Payoff(a, p))
  <2>1. PICK u \in Nat, v \in Nat : u = Payoff(a, p) /\ v = Payoff(b, p)
    BY <1>3, PayoffIs
  <2>2. PICK s \in Nat, t \in Nat : s = Payoff(c, p) /\ t = Payoff(e, p)
    BY <1>3, PayoffIs
  <2>3. PICK h : h = [i \in Places |-> Signed(i) * Payoff(cs[i], p)]
    OBVIOUS
  <2>4. h = [i \in {1, 2, 3, 4} |-> Signed(i) * Payoff(cs[i], p)]
    BY <1>5, <2>3
  <2>5. h[1] = -u /\ h[2] = v /\ h[3] = -s /\ h[4] = t
    <3>1. h[1] = (-1) * u /\ h[2] = 1 * v /\ h[3] = (-1) * s /\ h[4] = 1 * t
      BY <1>1, <1>2, <1>6, <2>1, <2>2, <2>4
    <3> QED BY <3>1
  <2>6. h \in [1 .. 4 -> Int]
    BY <2>4, <2>5
  <2>7. TotalOf(h) = (v - u) + (t - s)
    <3>1. TotalOf(h) = h[1] + h[2] + h[3] + h[4]
      BY <2>6, TotalOfFour
    <3> QED BY <2>5, <3>1
  <2>8. Worth(cs, p) = TotalOf(h)
    BY <2>3 DEF Worth
  <2> QED BY <2>1, <2>2, <2>7, <2>8
<1>15. PICK top \in Nat : Prices = 0 .. top /\ b.strike <= top /\ e.strike <= top
  BY <1>1, PricesReach
<1>16. /\ x \in Nat \ {0} /\ y \in Nat \ {0}
       /\ \A p \in 0 .. top : Worth(cs, p) \in Int /\ (-x <= Worth(cs, p) \/ -y <= Worth(cs, p))
       /\ \E p, q \in 0 .. top : Worth(cs, p) = -x /\ Worth(cs, q) = -y
  <2>1. PICK ka \in Nat, kc \in Nat : ka = a.strike /\ kc = c.strike
    BY <1>3
  <2>2. CASE a.right = "P" /\ c.right = "C"
    <3>1. a.strike <= c.strike
      <4>1. Outward(order.legs[3]) = 1
        BY <1>2, <2>2 DEF Outward
      <4>2. 1 * (kc - ka) >= 0
        BY <1>o, <1>1, <1>2, <2>1, <4>1
      <4> QED BY <2>1, <4>2
    <3>2. b.strike < a.strike /\ c.strike < e.strike
      BY <1>1, <1>2, <2>2 DEF Covers
    <3>3. /\ x \in Nat \ {0} /\ y \in Nat \ {0}
          /\ \A p \in 0 .. top : LET w == (Payoff(b, p) - Payoff(a, p)) + (Payoff(e, p) - Payoff(c, p))
                                 IN w \in Int /\ (-x <= w \/ -y <= w)
          /\ (Payoff(b, 0) - Payoff(a, 0)) + (Payoff(e, 0) - Payoff(c, 0)) = -x
          /\ (Payoff(b, top) - Payoff(a, top)) + (Payoff(e, top) - Payoff(c, top)) = -y
      <4>1. Around(a, b, c, e, top)
        BY <1>3, <1>15, <2>2, <3>1, <3>2 DEF Around
      <4> QED BY <1>4, <4>1, CondorPays
    <3>4. 0 \in 0 .. top /\ top \in 0 .. top
      OBVIOUS
    <3>5. Worth(cs, 0) = -x /\ Worth(cs, top) = -y
      BY <1>14, <3>3
    <3>6. \A p \in 0 .. top : Worth(cs, p) \in Int /\ (-x <= Worth(cs, p) \/ -y <= Worth(cs, p))
      BY <1>14, <3>3
    <3> QED BY <3>3, <3>4, <3>5, <3>6
  <2>3. CASE a.right = "C" /\ c.right = "P"
    <3>1. c.strike <= a.strike
      <4>1. Outward(order.legs[3]) = -1
        BY <1>2, <2>3 DEF Outward
      <4>2. (-1) * (kc - ka) >= 0
        BY <1>o, <1>1, <1>2, <2>1, <4>1
      <4> QED BY <2>1, <4>2
    <3>2. e.strike < c.strike /\ a.strike < b.strike
      BY <1>1, <1>2, <2>3 DEF Covers
    <3>3. /\ y \in Nat \ {0} /\ x \in Nat \ {0}
          /\ \A p \in 0 .. top : LET w == (Payoff(e, p) - Payoff(c, p)) + (Payoff(b, p) - Payoff(a, p))
                                 IN w \in Int /\ (-y <= w \/ -x <= w)
          /\ (Payoff(e, 0) - Payoff(c, 0)) + (Payoff(b, 0) - Payoff(a, 0)) = -y
          /\ (Payoff(e, top) - Payoff(c, top)) + (Payoff(b, top) - Payoff(a, top)) = -x
      <4>1. Around(c, e, a, b, top)
        BY <1>3, <1>15, <2>3, <3>1, <3>2 DEF Around
      <4> QED BY <1>4, <4>1, CondorPays
    <3>4. 0 \in 0 .. top /\ top \in 0 .. top
      OBVIOUS
    <3>5. Worth(cs, 0) = -y /\ Worth(cs, top) = -x
      BY <1>14, <3>3
    <3>6. \A p \in 0 .. top : Worth(cs, p) \in Int /\ (-x <= Worth(cs, p) \/ -y <= Worth(cs, p))
      BY <1>14, <3>3
    <3> QED BY <3>3, <3>4, <3>5, <3>6
  <2> QED BY <1>3, <2>2, <2>3
<1>17. PICK m \in {x, y} : m = (IF x > y THEN x ELSE y) /\ m \in Nat \ {0} /\ -m <= -x /\ -m <= -y
  BY <1>16
<1>18. Width(cs) = m
  <2>1. {Spread(cs, k) : k \in Keys(cs)} = {x, y}
    BY <1>9, <1>10, <1>11
  <2>2. x \in Int /\ y \in Int
    BY <1>16
  <2>3. Max({x, y}) = IF x > y THEN x ELSE y
    BY <2>2, MaxOfTwo
  <2> QED BY <1>17, <2>1, <2>3 DEF Width
<1>19. PICK V : V = {Worth(cs, p) : p \in Prices}
  OBVIOUS
<1>20. V \in SUBSET Int /\ -m \in V /\ \A v \in V : -m <= v
  <2>1. V = {Worth(cs, p) : p \in 0 .. top}
    BY <1>15, <1>19
  <2>2. ASSUME NEW v \in V PROVE v \in Int /\ -m <= v
    <3>1. v \in Int /\ (-x <= v \/ -y <= v)
      BY <1>16, <2>1
    <3> QED BY <1>16, <1>17, <3>1
  <2>3. -x \in V /\ -y \in V
    BY <1>16, <2>1
  <2> QED BY <1>17, <2>2, <2>3
<1>21. Min(V) = -m
  <2>1. PICK l \in V : l = -m
    BY <1>20
  <2>2. \A v \in V : l <= v
    BY <1>20, <2>1
  <2> QED BY <1>20, <2>1, <2>2, FewestIs
<1> QED BY <1>12, <1>13, <1>17, <1>18, <1>19, <1>21 DEF Loses

-----------------------------------------------------------------------------
(* A share of a number is at most that number.                               *)
LEMMA ShareIsLess ==
  ASSUME NEW b \in Nat, NEW f \in Nat, f <= 100
  PROVE  (b * f) \div 100 <= b /\ (b * f) \div 100 \in Int
<1>1. PICK e \in Nat : f + e = 100
  <2>1. 100 - f \in Nat /\ f + (100 - f) = 100
    OBVIOUS
  <2> QED BY <2>1
<1>2. b * f \in Nat /\ b * e \in Nat
  OBVIOUS
<1>3. b * f + b * e = 100 * b
  <2>1. b * f + b * e = b * (f + e)
    BY SMTT(30)
  <2> QED BY <1>1, <2>1
<1>4. PICK p \in Nat : p = b * f /\ p <= 100 * b
  BY <1>2, <1>3
<1>5. p \div 100 <= b /\ p \div 100 \in Int
  BY <1>4
<1> QED BY <1>4, <1>5

(* As many as fit are not more than there is.                                *)
LEMMA FitIsLess ==
  ASSUME NEW n \in Int, NEW m \in Nat \ {0}, 0 < n \div m
  PROVE  n \div m \in Nat /\ (n \div m) * m <= n
<1>1. n \div m \in Int /\ n % m \in 0 .. m - 1 /\ n = (n \div m) * m + (n % m)
  BY SMTT(30)
<1>2. PICK q \in Int, r \in 0 .. m - 1 : q = n \div m /\ r = n % m /\ n = q * m + r
  BY <1>1
<1>3. q * m \in Int
  OBVIOUS
<1>4. q * m <= n
  BY <1>2, <1>3
<1> QED BY <1>2, <1>4

LEMMA ProductsGrow ==
  ASSUME NEW a \in Nat, NEW b \in Nat, NEW c \in Int, NEW d \in Nat, a <= b, c <= d
  PROVE  a * c <= b * d /\ a * c \in Int /\ b * d \in Nat
<1>1. PICK e \in Nat : b = a + e
  <2>1. b - a \in Nat /\ b = a + (b - a)
    OBVIOUS
  <2> QED BY <2>1
<1>2. PICK k \in Nat : d = c + k
  <2>1. d - c \in Nat /\ d = c + (d - c)
    OBVIOUS
  <2> QED BY <2>1
<1>3. a * c \in Int /\ a * k \in Nat /\ e * d \in Nat /\ a * d \in Nat
  OBVIOUS
<1>4. a * d = a * c + a * k
  BY <1>2, SMTT(30)
<1>5. b * d = a * d + e * d
  BY <1>1, SMTT(30)
<1> QED BY <1>3, <1>4, <1>5

(* What a sold spread is said to lose is what it can lose.                   *)
LEMMA RiskIsKnown ==
  ASSUME StructureAssumption, order \in Requests, NEW cs, cs = BuildStructure, cs # Refused, SoldSpread(cs)
  PROVE  /\ MaxLoss(cs) = Max({WorstCase(cs), 0}) /\ WorstCase(cs) \in Int
         /\ MaxLoss(cs) \in Nat /\ WorstCase(cs) <= MaxLoss(cs)
<1>o. PICK d \in Nat \ {0} : Loses(cs, d)
  <2>1. CASE Len(order.legs) = 2 /\ Vertical(1)
    BY <2>1, OneVertical
  <2>2. CASE Condor(cs)
    BY <2>2, CondorIs
  <2> QED BY <2>1, <2>2 DEF SoldSpread
<1>1. ~Unbalanced(cs) /\ Width(cs) = d /\ Min({Worth(cs, p) : p \in Prices}) = -d /\ OpenMv(cs) \in Int
  BY <1>o DEF Loses
<1>2. PICK o \in Int : o = OpenMv(cs)
  BY <1>1
<1>3. PICK w \in Int : w = o + d
  OBVIOUS
<1>4. WorstCase(cs) = w
  BY <1>1, <1>2, <1>3 DEF WorstCase
<1>5. Max({w, 0}) = IF w > 0 THEN w ELSE 0
  BY MaxOfTwo
<1>6. MaxLoss(cs) = Max({w, 0})
  <2>1. MaxLoss(cs) = Max({Width(cs) + OpenMv(cs), 0})
    BY <1>1 DEF MaxLoss
  <2>2. Width(cs) + OpenMv(cs) = w
    BY <1>1, <1>2, <1>3
  <2> QED BY <2>1, <2>2
<1> QED BY <1>4, <1>5, <1>6

(* A trade that is sized by it stays within its share.                       *)
LEMMA SizedWithin ==
  ASSUME StructureAssumption, order \in Requests, NEW cs, NEW w \in Int, NEW m \in Nat,
         m = MaxLoss(cs), w <= m, SizedByRisk
  PROVE  Size(cs) = 0 \/ 100 * Size(cs) * w <= order.netLiq * order.sizing.pct
<1>1. PICK s \in SizingSpec, l \in Int : s = order.sizing /\ l = order.netLiq
  BY StructureAssumption DEF StructureAssumption, Requests
<1>2. /\ s.mode = "risk_fraction" /\ s.factor \in Nat /\ s.factor <= 100 /\ s.least = 0
      /\ s.pct \in Nat /\ s.most \in Nat
  BY <1>1 DEF SizedByRisk, SizingSpec
<1>3. PICK n \in Int : n = l * s.pct
  BY <1>2
<1>4. PerUnit(cs) = m
  BY <1>1, <1>2 DEF PerUnit
<1>5. Base(cs) = IF m <= 0 THEN 0 ELSE (n \div 100) \div m
  BY <1>1, <1>2, <1>3, <1>4 DEF Base
<1>6. CASE Base(cs) <= 0
  BY <1>6 DEF Size
<1>7. CASE ~(Base(cs) <= 0)
  <2>1. PICK h \in Int : h = n \div 100 /\ 100 * h <= n
    BY <1>3
  <2>2. m \in Nat \ {0}
    BY <1>5, <1>7
  <2>3. PICK b \in Nat : b = h \div m /\ b = Base(cs) /\ b * m <= h /\ 1 <= b
    <3>1. Base(cs) = h \div m
      BY <1>5, <2>1, <2>2
    <3>2. h \div m \in Int
      BY <2>1, <2>2, SMTT(30)
    <3>3. 0 < h \div m
      BY <1>7, <3>1, <3>2
    <3>4. h \div m \in Nat /\ (h \div m) * m <= h
      BY <2>1, <2>2, <3>3, FitIsLess
    <3> QED BY <3>1, <3>3, <3>4
  <2>4. PICK c \in Int : c = (b * s.factor) \div 100 /\ c <= b
    <3>1. PICK f \in Nat : f = s.factor /\ f <= 100
      BY <1>2
    <3> QED BY <3>1, ShareIsLess
  <2>5. PICK z \in Int : z = Max({c, 1}) /\ 1 <= z /\ z <= b
    <3>1. Max({c, 1}) = IF c > 1 THEN c ELSE 1
      BY MaxOfTwo
    <3> QED BY <2>3, <2>4, <3>1
  <2>6. PICK t \in Int : t = s.most
    BY <1>2
  <2>7. PICK y \in Int : y = Min({z, t}) /\ y <= z
    <3>1. Min({z, t}) = IF z < t THEN z ELSE t
      BY MaxOfTwo
    <3> QED BY <3>1
  <2>8. PICK k \in Int : k = Max({0, y}) /\ 0 <= k /\ k <= z
    <3>1. Max({0, y}) = IF 0 > y THEN 0 ELSE y
      BY MaxOfTwo
    <3> QED BY <2>5, <2>7, <3>1
  <2>9. Size(cs) = k
    BY <1>1, <1>2, <1>7, <2>3, <2>4, <2>5, <2>6, <2>7, <2>8 DEF Size
  <2>10. k \in Nat /\ k <= b
    BY <2>5, <2>8
  <2>11. k * w <= b * m /\ k * w \in Int /\ b * m \in Nat
    BY <2>10, ProductsGrow
  <2>12. PICK p \in Int : p = k * w /\ p <= h
    BY <2>1, <2>3, <2>11
  <2>13. 100 * k * w = 100 * p
    BY <2>10, <2>12, SMTT(30)
  <2>14. 100 * p <= n
    BY <2>1, <2>12
  <2> QED BY <1>1, <1>3, <2>9, <2>13, <2>14
<1> QED BY <1>6, <1>7

LEMMA StructureFollows ==
  ASSUME StructureAssumption, order \in Requests
  PROVE  SoldSpreadIsDefinedRisk
<1>1. PICK cs : cs = BuildStructure
  OBVIOUS
<1> SUFFICES ASSUME cs # Refused
             PROVE  /\ WingsAreOutside(cs)
                    /\ SoldSpread(cs) => MaxLoss(cs) = Max({WorstCase(cs), 0})
                    /\ SoldSpread(cs) /\ SizedByRisk =>
                         Size(cs) = 0 \/ 100 * Size(cs) * WorstCase(cs) <= order.netLiq * order.sizing.pct
  BY <1>1 DEF SoldSpreadIsDefinedRisk
<1>2. WingsAreOutside(cs)
  <2>1. ASSUME NEW i \in Places, Vertical(i)
        PROVE Outward(order.legs[i]) * (cs[i + 1].strike - cs[i].strike) > 0 /\ cs[i + 1].dte = cs[i].dte
    <3>1. /\ i \in Nat \ {0} /\ i + 1 \in 1 .. Len(order.legs)
          /\ cs[i + 1] \in Listed /\ cs[i] \in Listed
          /\ cs[i + 1].dte = cs[i].dte /\ cs[i].right = order.legs[i].right /\ cs[i + 1].right = order.legs[i].right
          /\ (order.legs[i].right = "P" => cs[i + 1].strike < cs[i].strike)
          /\ (order.legs[i].right = "C" => cs[i].strike < cs[i + 1].strike)
      BY <1>1, <2>1, WingIs
    <3>2. /\ cs[i].strike \in Nat /\ cs[i + 1].strike \in Nat
          /\ cs[i].right \in {"C", "P"}
      BY <3>1, StructureAssumption DEF StructureAssumption, Contracts
    <3>3. PICK x \in Nat, y \in Nat : x = cs[i].strike /\ y = cs[i + 1].strike
      BY <3>2
    <3>4. CASE order.legs[i].right = "P"
      <4>1. Outward(order.legs[i]) = -1 /\ y < x
        BY <3>1, <3>3, <3>4 DEF Outward
      <4>2. (-1) * (y - x) > 0
        BY <4>1
      <4> QED BY <3>1, <3>3, <4>1, <4>2
    <3>5. CASE order.legs[i].right = "C"
      <4>1. Outward(order.legs[i]) = 1 /\ x < y
        BY <3>1, <3>3, <3>5 DEF Outward
      <4>2. 1 * (y - x) > 0
        BY <4>1
      <4> QED BY <3>1, <3>3, <4>1, <4>2
    <3> QED BY <3>1, <3>2, <3>4, <3>5
  <2> QED BY <2>1 DEF WingsAreOutside
<1>3. SUFFICES ASSUME SoldSpread(cs)
               PROVE /\ MaxLoss(cs) = Max({WorstCase(cs), 0})
                     /\ SizedByRisk =>
                          Size(cs) = 0 \/ 100 * Size(cs) * WorstCase(cs) <= order.netLiq * order.sizing.pct
  BY <1>2
<1>4. /\ MaxLoss(cs) = Max({WorstCase(cs), 0}) /\ WorstCase(cs) \in Int
      /\ MaxLoss(cs) \in Nat /\ WorstCase(cs) <= MaxLoss(cs)
  BY <1>1, <1>3, RiskIsKnown
<1>5. PICK w \in Int, m \in Nat : w = WorstCase(cs) /\ m = MaxLoss(cs) /\ w <= m
  BY <1>4
<1>6. SizedByRisk => Size(cs) = 0 \/ 100 * Size(cs) * w <= order.netLiq * order.sizing.pct
  BY <1>5, SizedWithin
<1> QED BY <1>4, <1>5, <1>6

(* What is asked for stays a request.                                        *)
StructureSpec == StructureInit /\ [][StructureNext]_order

LEMMA StructureStep == StructureAssumption /\ order \in Requests /\ [StructureNext]_order => order' \in Requests
<1> SUFFICES ASSUME StructureAssumption, order \in Requests, [StructureNext]_order PROVE order' \in Requests
  OBVIOUS
<1>1. CASE UNCHANGED order
  BY <1>1
<1>2. CASE StructureNext
  BY <1>2 DEF StructureNext, Requests
<1> QED BY <1>1, <1>2

(* Whatever legs are asked for and whatever quotes are dead, a wing sold     *)
(* with a width is further out on the same expiration, what a vertical or an *)
(* iron condor is said to lose is its worst case, and a trade sized by it    *)
(* stays within its share (bt/selection.py, portfolio.py, engine.py _size).  *)
THEOREM SoldSpreadsStayDefined == StructureSpec => []SoldSpreadIsDefinedRisk
<1>1. StructureInit => order \in Requests
  BY DEF StructureInit
<1>2. order \in Requests /\ [StructureNext]_order => (order \in Requests)'
  BY StructureStep, StructureAssumption
<1>3. order \in Requests => SoldSpreadIsDefinedRisk
  BY StructureFollows, StructureAssumption
<1> QED BY <1>1, <1>2, <1>3, PTL DEF StructureSpec

-----------------------------------------------------------------------------
(* What is known of all parts of a strategy at once.                         *)
EngineInv == order \in Requests /\ SeriesInv /\ RulesInv /\ SweepInv

LEMMA EngineBegins == EngineInit => EngineInv
<1> SUFFICES ASSUME EngineInit PROVE EngineInv
  OBVIOUS
<1>1. StructureInit /\ SeriesInit /\ RulesInit /\ SweepInit
  BY DEF EngineInit
<1>2. order \in Requests
  BY <1>1 DEF StructureInit
<1> QED BY <1>1, <1>2, SeriesBegins, RulesBegin, SweepBegins DEF EngineInv

LEMMA EngineStep == EngineInv /\ [EngineNext]_engineVars => EngineInv'
<1> SUFFICES ASSUME EngineInv, [EngineNext]_engineVars PROVE EngineInv'
  OBVIOUS
<1>1. [StructureNext]_order /\ [SeriesNext]_seriesVars /\ [RulesNext]_rulesVars /\ [SweepNext]_sweepVars
  <2>1. CASE UNCHANGED engineVars
    BY <2>1 DEF engineVars
  <2>2. CASE EngineNext
    BY <2>2 DEF EngineNext
  <2> QED BY <2>1, <2>2
<1>2. (order \in Requests)'
  BY <1>1, StructureStep, StructureAssumption DEF EngineInv
<1>3. SeriesInv'
  BY <1>1, SeriesStep DEF EngineInv
<1>4. RulesInv'
  BY <1>1, RulesStep DEF EngineInv
<1>5. SweepInv'
  BY <1>1, SweepStep, SweepAssumption DEF EngineInv
<1> QED BY <1>2, <1>3, <1>4, <1>5 DEF EngineInv

(* What a strategy says is what is run, whatever it says: the structure's    *)
(* risk, the series up to yesterday, the rules' names, and every cell of a   *)
(* sweep (bt/selection.py, bt/context.py, bt/spec.py and bt/sweep.py).       *)
THEOREM StrategyStaysHonoured ==
  ASSUME GridLimit < RangeCap
  PROVE  EngineSpec => []StrategyIsHonoured
<1>1. EngineInv => StrategyIsHonoured
  <2> SUFFICES ASSUME EngineInv PROVE StrategyIsHonoured
    OBVIOUS
  <2>1. SoldSpreadIsDefinedRisk
    BY StructureFollows, StructureAssumption DEF EngineInv
  <2>2. NoLookAhead /\ SeriesAreWhatTheySay
    BY SeriesFollow DEF EngineInv
  <2>3. LoadedRulesResolve
    BY RulesFollow DEF EngineInv
  <2>4. PathsAreSettledFirst /\ GridIsWhole
    BY PathsFollow, GridFollows, SweepAssumption DEF EngineInv
  <2> QED BY <2>1, <2>2, <2>3, <2>4 DEF StrategyIsHonoured
<1> QED BY <1>1, EngineBegins, EngineStep, PTL DEF EngineSpec
=============================================================================
