------------------------------ MODULE MCStores ------------------------------
(***************************************************************************)
(* The deep data retriever, the data jobs, the rounds of the recorder and  *)
(* the tools that load the archive share no state here: a behaviour is one *)
(* of them, chosen at the start.                                           *)
(***************************************************************************)
EXTENDS DeepHistory, DataJobs, JobRounds, ArchiveLoads

VARIABLE part
storesVars == <<part, deepVars, jobsVars, roundVars, loadVars>>

MCWeekend == {2}
MCChains == {{"c1"}, {"c1", "c2"}}
Row(d, sym, c, bid, iv, fault) == [d |-> d, sym |-> sym, c |-> c, bid |-> bid, iv |-> iv, fault |-> fault]
File(declared, rows) == [kind |-> "option_chain", declared |-> declared, rows |-> rows]
MCFiles == (* a good file of two days, and one file for each refusal        *)
  { File("", <<Row(1, Own, "c1", <<1>>, <<1>>, FALSE), Row(3, Own, "c2", <<>>, <<>>, FALSE)>>),
    File("", <<Row(1, Own, "c1", <<1>>, <<9>>, FALSE)>>),
    File("", <<Row(1, Own, "c1", <<1>>, <<>>, FALSE), Row(1, Own, "c1", <<>>, <<>>, FALSE)>>),
    File("", <<Row(1, Own, "c1", <<1>>, <<>>, FALSE), Row(1, Other, "c2", <<1>>, <<>>, FALSE)>>),
    File("", <<Row(1, Own, "c1", <<1>>, <<>>, FALSE), Row(2, Own, "c2", <<1>>, <<>>, FALSE)>>),
    File("", <<Row(3, Own, "c1", Junk, <<>>, FALSE)>>),
    File("bars", <<Row(3, Own, "c1", <<1>>, <<>>, FALSE)>>) }

Contract(dte, weekly, strike) == [dte |-> dte, weekly |-> weekly, strike |-> strike]
MCNested == {{}, {Contract(1, TRUE, 100), Contract(2, FALSE, 130), Contract(3, TRUE, 100)}}
MCFirstJobs == <<"futures", "chain">>
MCPrices == {[last |-> 100, mark |-> 90, mid |-> 80], [last |-> Unknown, mark |-> Unknown, mid |-> 130]}

Def(f, id, on, c, option) == [file |-> f, id |-> id, on |-> on, contract |-> c, option |-> option]
Stat(id, day, settles) == [id |-> id, day |-> day, settles |-> settles]
Bar(day, volume, spread, whole) == [day |-> day, volume |-> volume, spread |-> spread, whole |-> whole]
MCPulls == (* an id that is used again, one that is priced before it is known *)
  {[sym |-> "MES", defs |-> <<Def(1, "i1", 1, "p", TRUE), Def(1, "i1", 1, "r", TRUE), Def(1, "f", 1, "p", FALSE), Def(2, "i1", 3, "q", TRUE),
                              Def(2, "i2", 3, "p", TRUE)>>,
    stats |-> <<Stat("i1", 1, TRUE), Stat("i1", 2, TRUE), Stat("i1", 3, TRUE), Stat("i2", 1, FALSE), Stat("i2", 3, TRUE), Stat("f", 3, TRUE)>>,
    bars |-> <<Bar(1, 2, FALSE, TRUE), Bar(1, 5, TRUE, TRUE), Bar(1, 4, FALSE, FALSE), Bar(1, 3, FALSE, TRUE), Bar(2, 9, FALSE, TRUE)>>],
   [sym |-> "MES", defs |-> <<Def(1, "i3", 3, "q", TRUE), Def(1, "i2", 1, "p", TRUE)>>,
    stats |-> <<Stat("i3", 3, TRUE), Stat("i2", 3, TRUE), Stat("i2", 4, FALSE)>>, bars |-> <<Bar(1, 3, FALSE, TRUE), Bar(3, 1, FALSE, TRUE)>>]}
OptRow(c, twoSided, bucket) == [contract |-> c, twoSided |-> twoSided, bucket |-> bucket]
DayFile(sym, day, rows, fault) == [sym |-> sym, day |-> day, rows |-> rows, fault |-> fault]
MCVault == <<DayFile("SPY", 1, {OptRow("p", TRUE, 1)}, "none"), DayFile("SPY", 3, {OptRow("p", TRUE, 1), OptRow("q", FALSE, 2)}, "none"),
             DayFile("SPY", 4, {OptRow("p", TRUE, 2)}, "header"), DayFile("SPY", 5, {OptRow("p", TRUE, 0), OptRow("q", TRUE, 2)}, "engine"),
             DayFile("QQQ", 5, {OptRow("p", TRUE, 1)}, "none")>>
MCSnaps == {[sym |-> "SPY", day |-> 5, contract |-> "q"], [sym |-> "SPY", day |-> 6, contract |-> "q"]}

NoDeep == DeepInit /\ creds /\ session = 2 /\ class = [s \in Syms |-> "index"]
StoresInit ==
  /\ RoundsInit /\ JobsInit /\ LoadsInit /\ date = 1
  /\ \/ /\ part = "deep" /\ DeepInit /\ session = 2
        /\ class["BTC"] = "crypto" /\ (creds => class["SPX"] = "us_equity")
     \/ part \in {"jobs", "rounds", "archive"} /\ NoDeep
  /\ part = "rounds" <=> table # <<>>

StoresNext ==
  \/ part = "deep" /\ DeepNext /\ UNCHANGED <<part, jobsVars, roundVars, loadVars>>
  \/ part = "jobs" /\ JobsNext /\ UNCHANGED <<part, deepVars, roundVars, loadVars>>
  \/ part = "rounds" /\ RoundsNext /\ UNCHANGED <<part, deepVars, jobsVars, loadVars>>
  \/ part = "archive" /\ LoadsNext /\ UNCHANGED <<part, deepVars, jobsVars, roundVars>>

(* The worker of the retriever runs while the process does; so do the       *)
(* threads of the jobs and of the recorder, whose requests have timeouts.   *)
StoresSpec ==
  /\ StoresInit /\ [][StoresNext]_storesVars
  /\ \A s \in Syms : WF_storesVars(part = "deep" /\ Put(s) /\ UNCHANGED <<part, jobsVars, roundVars, loadVars>>)
  /\ WF_storesVars(part = "deep" /\ Work /\ UNCHANGED <<part, jobsVars, roundVars, loadVars>>)
  /\ WF_storesVars(part = "jobs" /\ Pull /\ UNCHANGED <<part, deepVars, roundVars, loadVars>>)
  /\ WF_storesVars(part = "rounds" /\ RoundGoesOn /\ UNCHANGED <<part, deepVars, jobsVars, loadVars>>)
  /\ WF_storesVars(part = "rounds" /\ TimePasses /\ UNCHANGED <<part, deepVars, jobsVars, loadVars>>)

(* A store holds what its jobs say they put there, and no more               *)
(* (btdata.import_chain, btdata.sync_from_recorded, datajobs.py, and         *)
(* Recorder.run_due_jobs for what is recorded; databento_import.py and       *)
(* loadhist.py for what the tools load).                                     *)
StoreIsTrue ==
  CASE part = "deep" -> DeepTypeOK
    [] part = "jobs" -> JobsTypeOK /\ DoneMeansWhole /\ CalendarIsSessions /\ SyncedMeansStored
    [] part = "rounds" -> RoundsTypeOK /\ StatusIsEarned /\ SnapshotIsFeeds
    [] part = "archive" -> LoadsTypeOK /\ PricesKeepTheirNames /\ SeriesIsTheFront /\ RebuildIsWhole

(* What is taken up is let go: a symbol the retriever was asked about leaves *)
(* its queue (Deepener._loop), and a pull that was asked to stop stops       *)
(* (DataJobs.stop_pull).                                                     *)
TakenUpIsLetGo == SubmittedIsReleased /\ StopEndsPull
=============================================================================
