---------------------------- MODULE ArchiveLoads ----------------------------
(***************************************************************************)
(* The two tools that fill options_history.db and the engine's stores from *)
(* files: databento_import.py, which gives the prices of a raw pull to the *)
(* contracts their ids named that day, and loadhist.py, which rebuilds the *)
(* archive from the vault - while the recorder adds its own days, and with *)
(* either tool killed at any point and run again.                          *)
(***************************************************************************)
EXTENDS Integers, Sequences, FiniteSets, SequencesExt

CONSTANTS
  Pulls,       (* raw pulls: [sym, defs, stats, bars], sequences in file order *)
  VaultFiles,  (* the vault: a sequence of [sym, day, rows, fault]           *)
  Saturdays,   (* the days that are no weekdays                              *)
  CutOff,      (* the first day of the window of hist_chain                  *)
  EngineFrom,  (* the first day of the engine's store                        *)
  EngineSyms,  (* the symbols whose store is asked for                       *)
  LoadBatch,   (* the 50 000 rows of a commit                                *)
  MinBand,     (* the 30 observations of a band                              *)
  Snapshots,   (* what the recorder may append: [sym, day, contract]         *)
  MaxLoads     (* bounds how often the tools are run                         *)

ASSUME LoadsAssumption ==
  /\ \A pull \in Pulls :
       /\ pull.defs \in Seq([file : Nat, id : STRING, on : Nat, contract : STRING, option : BOOLEAN])
       /\ pull.stats \in Seq([id : STRING, day : Nat, settles : BOOLEAN])
       /\ pull.bars \in Seq([day : Nat, volume : Nat, spread : BOOLEAN, whole : BOOLEAN])
  /\ VaultFiles \in Seq([sym : STRING, day : Nat, fault : {"none", "header", "engine"},
                         rows : SUBSET [contract : STRING, twoSided : BOOLEAN, bucket : Nat]])
  /\ \A n \in DOMAIN VaultFiles : VaultFiles[n].day \in Saturdays => VaultFiles[n].fault # "none"
  /\ Snapshots \subseteq [sym : STRING, day : Nat, contract : STRING]
  /\ {LoadBatch, MinBand} \subseteq Nat \ {0} /\ MaxLoads \in Nat

VARIABLES
  archive,     (* hist_chain: [[sym, day, contract] -> whose price it is]    *)
  engineRows,  (* the engine's stores: their [sym, day, contract]            *)
  continuous,  (* rec_bars of the futures roots: [day -> bar]                *)
  pulling,     (* databento_import: the pull and the days to emit            *)
  loading,     (* loadhist: the file it is at, the batch, the accumulators   *)
  loads

loadVars == <<archive, engineRows, continuous, pulling, loading, loads>>

NotRunning == [at |-> "idle"]

LoadsTypeOK ==
  /\ \A k \in DOMAIN archive \cup engineRows : DOMAIN k = {"sym", "day", "contract"}
  /\ pulling.at \in {"idle", "opt", "engine"} /\ loading.at \in {"idle", "files", "done"}
  /\ loads \in 0 .. MaxLoads

LoadsInit ==
  /\ archive = <<>> /\ engineRows = {} /\ continuous = <<>>
  /\ pulling = NotRunning /\ loading = NotRunning /\ loads = 0

(* INSERT OR REPLACE on the key of hist_chain.                               *)
Replaced(rows) == archive' = [k \in DOMAIN archive \cup DOMAIN rows |->
                                IF k \in DOMAIN rows THEN rows[k] ELSE archive[k]]

-----------------------------------------------------------------------------
(* databento_import *)

(* load_definitions: options only, of each file the first of an id and a day. *)
Named(pull, id) ==
  LET of(n) == pull.defs[n].id = id /\ pull.defs[n].option IN
  {n \in DOMAIN pull.defs : of(n) /\ ~\E m \in 1 .. n - 1 :
     of(m) /\ pull.defs[m].file = pull.defs[n].file /\ pull.defs[m].on = pull.defs[n].on}
Before(pull, m, n) == \/ pull.defs[m].on < pull.defs[n].on
                      \/ pull.defs[m].on = pull.defs[n].on /\ m < n

(* Mutant: an id means what it was last used for.                            *)
DefinitionOn_LastWins(pull, id, day) ==
  {pull.defs[n].contract : n \in {m \in Named(pull, id) : ~\E l \in Named(pull, id) : Before(pull, m, l)}}

(* The latest definition up to that day, or else the first one known.        *)
DefinitionOn(pull, id, day) ==
  LET past  == {n \in Named(pull, id) : pull.defs[n].on <= day}
      best  == {n \in past : ~\E m \in past : Before(pull, n, m)}
      first == {n \in Named(pull, id) : ~\E m \in Named(pull, id) : Before(pull, m, n)} IN
  {pull.defs[n].contract : n \in IF past # {} THEN best ELSE first}

(* Mutant: a Saturday's statistics make a day of their own.                  *)
Weekday_Any(day) == TRUE

Weekday(day) == day \notin Saturdays

(* import_family: a row per id and day that has a settlement; the id whose   *)
(* row is written last has a contract that two of them name.                 *)
Slots(pull, day) == {n \in DOMAIN pull.stats : pull.stats[n].day = day /\ Weekday(day)
                       /\ DefinitionOn(pull, pull.stats[n].id, day) # {}}
FirstSlot(pull, day, id) == CHOOSE n \in Slots(pull, day) : pull.stats[n].id = id
                              /\ \A m \in Slots(pull, day) : pull.stats[m].id = id => n <= m
Settled(pull, day) == {pull.stats[n].id : n \in {m \in Slots(pull, day) : pull.stats[m].settles}}
ChainOn(pull, day) ==
  LET of(c) == {id \in Settled(pull, day) : c \in DefinitionOn(pull, id, day)}
      cs == UNION {DefinitionOn(pull, id, day) : id \in Settled(pull, day)} IN
  [k \in {[sym |-> pull.sym, day |-> day, contract |-> c] : c \in cs} |->
     CHOOSE id \in of(k.contract) : \A o \in of(k.contract) : FirstSlot(pull, day, o) <= FirstSlot(pull, day, id)]
EmitDays(pull) == SetToSortSeq({d \in {pull.stats[n].day : n \in DOMAIN pull.stats} : ChainOn(pull, d) # <<>>},
                               LAMBDA a, b : a < b)

(* import_futures_dailies: of each weekday the bar of the outright that was  *)
(* traded most, a malformed one passed over.                                 *)
(* Mutant: a calendar spread is taken for a contract.                        *)
Outright_Any(bar) == TRUE

Outright(bar) == ~bar.spread

Busier(best, bar) ==
  IF Outright(bar) /\ Weekday(bar.day) /\ bar.whole
     /\ (bar.day \in DOMAIN best => bar.volume > best[bar.day].volume)
  THEN [d \in DOMAIN best \cup {bar.day} |-> IF d = bar.day THEN bar ELSE best[d]] ELSE best
FrontMonths(pull) ==
  LET best[n \in 0 .. Len(pull.bars)] == IF n = 0 THEN <<>> ELSE Busier(best[n - 1], pull.bars[n])
  IN  best[Len(pull.bars)]

StartsImport(pull, bars, targets) ==
  /\ pulling = NotRunning /\ loads < MaxLoads /\ loads' = loads + 1
  /\ LET front == IF bars THEN FrontMonths(pull) ELSE <<>> IN
     continuous' = [d \in DOMAIN continuous \cup DOMAIN front |->
                      IF d \in DOMAIN front THEN front[d] ELSE continuous[d]]
  /\ pulling' = [at |-> "opt", pull |-> pull, targets |-> targets, left |-> EmitDays(pull)]
  /\ UNCHANGED <<archive, engineRows, loading>>

(* Each day is committed to the archive, then to the engine's store.         *)
EmitsDay ==
  /\ pulling.at = "opt" /\ pulling.left # <<>>
  /\ Replaced(IF "opt" \in pulling.targets THEN ChainOn(pulling.pull, Head(pulling.left)) ELSE <<>>)
  /\ pulling' = [pulling EXCEPT !.at = "engine"]
  /\ UNCHANGED <<engineRows, continuous, loading, loads>>
EmitsEngineDay ==
  /\ pulling.at = "engine"
  /\ engineRows' = engineRows \cup
       IF "backtest" \in pulling.targets THEN DOMAIN ChainOn(pulling.pull, Head(pulling.left)) ELSE {}
  /\ pulling' = [pulling EXCEPT !.at = "opt", !.left = Tail(@)]
  /\ UNCHANGED <<archive, continuous, loading, loads>>
EndsImport ==
  /\ pulling.at = "opt" /\ pulling.left = <<>> /\ pulling' = NotRunning
  /\ UNCHANGED <<archive, engineRows, continuous, loading, loads>>

-----------------------------------------------------------------------------
(* loadhist *)
VaultSyms == {file.sym : file \in Range(VaultFiles)}
KeysOf(file, rows) == {[sym |-> file.sym, day |-> file.day, contract |-> r.contract] : r \in rows}
FromVault(keys) == [k \in keys |-> "vault"]

(* The tables are emptied, in a commit of their own, of every symbol: also   *)
(* of those that the files are not read for.                                 *)
StartsLoad ==
  /\ loading.at # "files" /\ loads < MaxLoads /\ loads' = loads + 1
  /\ archive' = <<>>
  /\ \E asked \in SUBSET VaultSyms \ {{}} :
       loading' = [at |-> "files", asked |-> asked, next |-> 1, batch |-> {}, seen |-> {}]
  /\ UNCHANGED <<engineRows, continuous, pulling>>

(* A file gives the rows before its fault: none if it cannot be read, and    *)
(* all of them if it is the engine's store that refuses the day.             *)
ReadOf(file) == IF file.sym \in loading.asked /\ file.fault # "header" THEN file.rows ELSE {}

(* One file: two-sided rows of every day count towards a band, rows of the   *)
(* window go to the batch, and whole batches to the archive.                 *)
LoadsFile ==
  /\ loading.at = "files" /\ loading.next <= Len(VaultFiles)
  /\ LET file == VaultFiles[loading.next]
         read == KeysOf(file, ReadOf(file))
         all  == loading.batch \cup {k \in read : k.day >= CutOff} IN
     /\ \E keep \in SUBSET all :
          /\ Cardinality(keep) = Cardinality(all) % LoadBatch
          /\ Replaced(FromVault(all \ keep))
          /\ loading' = [loading EXCEPT !.next = @ + 1, !.batch = keep,
                           !.seen = @ \cup {loading.next} \X {r \in ReadOf(file) : r.twoSided /\ r.bucket > 0}]
     /\ engineRows' = engineRows \cup
          IF file.fault = "none" /\ file.day >= EngineFrom /\ file.sym \in EngineSyms THEN read ELSE {}
  /\ UNCHANGED <<continuous, pulling, loads>>

(* Mutant: the last, partial batch is forgotten.                             *)
LastBatch_Lost == {}

LastBatch == loading.batch

(* The last batch, then the bands of enough observations, and the meta rows. *)
EndsLoad ==
  /\ loading.at = "files" /\ loading.next > Len(VaultFiles)
  /\ Replaced(FromVault(LastBatch))
  /\ LET band(o) == [sym |-> VaultFiles[o[1]].sym, bucket |-> o[2].bucket]
         of(b) == {o \in loading.seen : band(o) = b} IN
     loading' = [at |-> "done", asked |-> loading.asked,
                 bands |-> {b \in {band(o) : o \in loading.seen} : Cardinality(of(b)) >= MinBand}]
  /\ UNCHANGED <<engineRows, continuous, pulling, loads>>

-----------------------------------------------------------------------------
(* append_day, for the recorder; and the tools are killed.                   *)
RecorderAppends ==
  /\ \E k \in Snapshots : Replaced([s \in {k} |-> "recorder"])
  /\ UNCHANGED <<engineRows, continuous, pulling, loading, loads>>
ToolDies ==
  /\ \/ pulling # NotRunning /\ pulling' = NotRunning /\ UNCHANGED loading
     \/ loading.at = "files" /\ loading' = NotRunning /\ UNCHANGED pulling
  /\ UNCHANGED <<archive, engineRows, continuous, loads>>

LoadsNext ==
  \/ \E pull \in Pulls, bars \in BOOLEAN, targets \in SUBSET {"opt", "backtest"} : StartsImport(pull, bars, targets)
  \/ EmitsDay \/ EmitsEngineDay \/ EndsImport \/ StartsLoad \/ LoadsFile \/ EndsLoad \/ RecorderAppends \/ ToolDies

-----------------------------------------------------------------------------
(* A price of a pull is kept under a contract that its id named on that day, *)
(* or that it was first known by; not under what the id is used for later    *)
(* (databento_import.load_definitions: "Whole groups were mislabelled"), and *)
(* under no Saturday, which would be a session of the engine                  *)
(* (databento_import.py: "weekend rows dropped BEFORE the calendar guard").  *)
PricesKeepTheirNames ==
  /\ \A k \in engineRows : k.day \notin Saturdays
  /\ \A k \in DOMAIN archive : archive[k] \notin {"vault", "recorder"} =>
      /\ k.day \notin Saturdays
      /\ \E pull \in Pulls :
           LET named == {d \in Range(pull.defs) : d.id = archive[k] /\ d.option} IN
           \E d \in named :
             /\ d.contract = k.contract /\ \A o \in named : o.on > k.day \/ o.on <= d.on
             /\ d.on <= k.day \/ \A o \in named : d.on <= o.on

(* The continuous series has, on every weekday some outright was traded, one *)
(* that was traded most.                                                     *)
SeriesIsTheFront ==
  \A d \in DOMAIN continuous : ~continuous[d].spread /\ d \notin Saturdays
    /\ \E pull \in Pulls : \E n \in DOMAIN pull.bars : continuous[d] = pull.bars[n]
         /\ \A m \in DOMAIN pull.bars : pull.bars[m].day = d /\ ~pull.bars[m].spread /\ pull.bars[m].whole
              => pull.bars[m].volume <= continuous[d].volume

(* A rebuild that ended has every readable row of the window in the archive, *)
(* whatever the recorder or the other tool wrote meanwhile, and its bands    *)
(* count the whole vault, not the window (loadhist.py: "over the ENTIRE      *)
(* archive").                                                                *)
RebuildIsWhole ==
  loading.at = "done" =>
    LET good == {n \in DOMAIN VaultFiles : VaultFiles[n].fault # "header" /\ VaultFiles[n].sym \in loading.asked}
        twoSided(b) == {p \in good \X UNION {VaultFiles[n].rows : n \in good} :
                          /\ p[2] \in VaultFiles[p[1]].rows /\ p[2].twoSided
                          /\ VaultFiles[p[1]].sym = b.sym /\ p[2].bucket = b.bucket} IN
    /\ \A n \in good : VaultFiles[n].day >= CutOff => KeysOf(VaultFiles[n], VaultFiles[n].rows) \subseteq DOMAIN archive
    /\ \A n \in good : \A r \in VaultFiles[n].rows :
         LET b == [sym |-> VaultFiles[n].sym, bucket |-> r.bucket] IN
         b \in loading.bands <=> r.bucket > 0 /\ Cardinality(twoSided(b)) >= MinBand
=============================================================================
