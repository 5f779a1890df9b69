------------------------------- MODULE BtRules -------------------------------
(***************************************************************************)
(* Loading a strategy (bt/spec.py), compiling its rules (bt/expr.py) and   *)
(* evaluating them in the environments bt/engine.py builds.  Names are     *)
(* grouped by who supplies them; what a rule computes from them is left    *)
(* out.                                                                    *)
(***************************************************************************)
EXTENDS Naturals, Sequences, FiniteSets, SequencesExt, Orders

CONSTANTS
  Rules,     (* [names, calls, keywords]: the rules users write              *)
  Params,    (* the sets of parameter names users declare                    *)
  LegTenors  (* what the legs say of their expiration: own, window, other's, *)
             (* nothing                                                      *)

NoRule == [names |-> {"absent"}, calls |-> {}, keywords |-> FALSE]

(* Who supplies a name: MARKET_VARS, PORTFOLIO_VARS, POSITION_VARS, the      *)
(* strategy's params; and CONSTANTS, which every rule may use.               *)
MARKET_VARS == {"spot"}
PORTFOLIO_VARS == {"net_liq"}
POSITION_VARS == {"dte"}
CONSTANT_NAMES == {"true"}
ENTRY_NAMES == MARKET_VARS \cup PORTFOLIO_VARS
EXIT_NAMES == ENTRY_NAMES \cup POSITION_VARS
FUNCTIONS == {"abs"}
SERIES == {"rsi"}
CONTEXT_FUNCTIONS == SERIES \cup {"dte_of"}

RulePlaces == {"when", "max_active", "scale", "size", "exit"}

VARIABLES
  raw,     (* the document: [legs, weekdays, rule, priorities, params,       *)
           (* shorthand]; rule[p] is the rule at a place, if any             *)
  loaded,  (* the document's fate: "raw", "refused", "broken" or "loaded"    *)
  legs, exits,   (* the compiled legs' tenors and exit rules                 *)
  verdict  (* [place, fate]: the rule the engine evaluates and what came     *)
rulesVars == <<raw, loaded, legs, exits, verdict>>

Documents ==
  [legs : LegTenors, weekdays : {"none", "list", "text"},
   rule : {[[p \in RulePlaces |-> NoRule] EXCEPT ![q] = r] : q \in RulePlaces, r \in Rules},
   priorities : [1 .. 2 -> 0 .. 1], params : Params, shorthand : BOOLEAN]

RulesInit ==
  /\ raw \in Documents /\ loaded = "raw" /\ legs = <<>> /\ exits = <<>>
  /\ verdict = [place |-> "none", fate |-> "none"]

-----------------------------------------------------------------------------
(* Rule.__init__: only functions there are, no keywords, and no name that is *)
(* neither a constant nor allowed.                                           *)
Compiles(r, allowed) ==
  /\ r.calls \subseteq FUNCTIONS \cup CONTEXT_FUNCTIONS
  /\ ~r.keywords
  /\ r.names \subseteq allowed \cup CONSTANT_NAMES

(* Mutant: entry rules may name what only a position has.                    *)
Allowed_Position(place) == EXIT_NAMES \cup raw.params

Allowed(place) == (IF place = "exit" THEN EXIT_NAMES ELSE ENTRY_NAMES) \cup raw.params

Given(place) == raw.rule[place] # NoRule
Shadows == raw.params \cap (EXIT_NAMES \cup SERIES) # {}

(* EntrySpec.from_dict reuses `names` for the days of the week when they are *)
(* spelled out, and the rules compiled after that subtract a list from a set. *)
Breaks == raw.weekdays = "text" /\ \E p \in {"when", "max_active"} : Given(p) /\ Compiles(raw.rule[p], raw.rule[p].names)

(* Strategy.from_dict: a leg without a tenor takes that of the first that    *)
(* has one.                                                                  *)
Inherited ==
  [i \in DOMAIN raw.legs |-> IF raw.legs[i] = "nothing" /\ \E j \in DOMAIN raw.legs : raw.legs[j] = "own"
                             THEN "own" ELSE raw.legs[i]]

(* _parse_exits: shorthands first, then the listed rules, by priority.       *)
ExitRules ==
  LET listed == IF Given("exit") THEN <<[rule |-> raw.rule["exit"], priority |-> raw.priorities[1]],
                                       [rule |-> raw.rule["exit"], priority |-> raw.priorities[2]]>> ELSE <<>>
      sugar == [rule |-> [names |-> POSITION_VARS, calls |-> {}, keywords |-> FALSE], priority |-> 0]
      all == IF raw.shorthand THEN <<sugar>> \o listed ELSE listed
      Of(p) == Only(all, {e \in ToSet(all) : e.priority = p})
  IN Of(1) \o Of(0)

Load ==
  /\ loaded = "raw"
  /\ IF Breaks /\ ~Shadows THEN loaded' = "broken" /\ UNCHANGED <<legs, exits>>
     ELSE IF Shadows \/ \E p \in RulePlaces : Given(p) /\ ~Compiles(raw.rule[p], Allowed(p))
     THEN loaded' = "refused" /\ UNCHANGED <<legs, exits>>
     ELSE loaded' = "loaded" /\ legs' = Inherited /\ exits' = ExitRules
  /\ UNCHANGED <<raw, verdict>>

-----------------------------------------------------------------------------
(* The environments: MarketContext.at with the params around it, the         *)
(* portfolio's, and at an exit the position's, dte_of among them.  Built-in  *)
(* functions and constants are always there.                                 *)
MarketEnv == MARKET_VARS \cup SERIES \cup raw.params
PositionEnv == POSITION_VARS \cup {"dte_of"}
Env(place) == MarketEnv \cup PORTFOLIO_VARS \cup (IF place = "exit" THEN PositionEnv ELSE {})

(* Rule.__call__: a name without a value ends the run; whatever else goes    *)
(* wrong in a rule makes it false.                                           *)
Fate(r, env) ==
  IF r.names \cup r.calls \subseteq env \cup FUNCTIONS \cup CONSTANT_NAMES THEN "answered" ELSE "RuleError"

(* Evaluating the first rule of a place; at an entry the exits are probed in *)
(* an environment that has the position's variables too.                     *)
Evaluate(place) ==
  /\ loaded = "loaded" /\ verdict.fate # "RuleError"
  /\ place \in RulePlaces
  /\ IF place = "exit"
     THEN exits # <<>> /\ \E e \in ToSet(exits) : verdict' = [place |-> place, fate |-> Fate(e.rule, Env("exit"))]
     ELSE Given(place) /\ verdict' = [place |-> place, fate |-> Fate(raw.rule[place], Env(place))]
  /\ UNCHANGED <<raw, loaded, legs, exits>>

RulesNext == Load \/ \E p \in RulePlaces : Evaluate(p)

-----------------------------------------------------------------------------
(* A strategy that loads meets no name without a value on a day of the test: *)
(* what the loader allows at a place is what the engine supplies there, but  *)
(* for dte_of, which compiles everywhere and only exits are given.  Its exits *)
(* are tested by priority; and a leg is left without a tenor only if none    *)
(* had one of its own.                                                       *)
LoadedRulesResolve ==
  loaded = "loaded" =>
    /\ verdict.fate = "RuleError" => verdict.place # "exit" /\ "dte_of" \in raw.rule[verdict.place].calls
    /\ \A i, j \in DOMAIN exits : i < j => exits[i].priority >= exits[j].priority
    /\ (\E i \in DOMAIN legs : legs[i] = "nothing") => \A i \in DOMAIN legs : legs[i] # "own"
=============================================================================
