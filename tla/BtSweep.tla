------------------------------- MODULE BtSweep -------------------------------
(***************************************************************************)
(* A parameter sweep (bt/sweep.py): its paths, its grid and the pool of    *)
(* workers that runs it.  A strategy file is a function from addresses     *)
(* (the keys and positions from the root to a leaf) to values; a run is    *)
(* known by the strategy it ran.                                           *)
(***************************************************************************)
EXTENDS Integers, Sequences, FiniteSets, SequencesExt

CONSTANTS
  BaseFile,      (* the base strategy: address -> value                      *)
  NameAt,        (* the names of the elements of its lists: address -> name  *)
  Sweeps,        (* sequences of axes [path, range, list], of distinct       *)
                 (* paths: a range is <<start, stop, step>>, or <<>> where a *)
                 (* list is given                                            *)
  Texts, NoValue,        (* the values that are words, and None              *)
  Uncompilable, Failing, (* <<address, value>>: what from_dict and what the  *)
                         (* run refuse                                       *)
  Jobs, GridLimit, RangeCap

ASSUME SweepAssumption ==
  /\ {Jobs, GridLimit, RangeCap} \subseteq Nat
  /\ \A s \in Sweeps :
       /\ Len(s) \in Nat /\ DOMAIN s = 1 .. Len(s)
       /\ \A k \in DOMAIN s : /\ s[k].range = <<>> \/ s[k].range \in [1 .. 3 -> Int]
                              /\ s[k].list \in Seq(Texts \cup {NoValue} \cup Int)

Nowhere == <<"nowhere">>

VARIABLES
  axes,    (* the axes as they were asked for                                *)
  stage,   (* "asked", "refused", "running", "lost" or "done"                *)
  taken,   (* how many cells the workers have taken                          *)
  ready,   (* the finished cells not yet handed over                         *)
  cells    (* the cells handed over                                          *)
sweepVars == <<axes, stage, taken, ready, cells>>

SweepInit ==
  axes \in Sweeps /\ stage = "asked" /\ taken = 0 /\ ready = {} /\ cells = <<>>

-----------------------------------------------------------------------------
(* The keys or positions right under a node of the file.                     *)
Under(node) ==
  {a[Len(node) + 1] : a \in {b \in DOMAIN BaseFile : IsStrictPrefix(node, b)}}
IsList(node) == \E a \in DOMAIN NameAt : Front(a) = node

(* One part of a path: key[index], the name of a list's element, or a key.   *)
Descend(node, p) ==
  IF node = Nowhere THEN Nowhere
  ELSE IF p.index # "none"
    THEN IF p.key \in Under(node) /\ p.index \in Under(node \o <<p.key>>)
           THEN node \o <<p.key, p.index>> ELSE Nowhere
  ELSE IF IsList(node)
    THEN LET hits == {a \in DOMAIN NameAt : Front(a) = node /\ NameAt[a] = p.key}
         IN IF hits = {} THEN Nowhere ELSE CHOOSE a \in hits : TRUE
  ELSE IF p.key \in Under(node) THEN Append(node, p.key) ELSE Nowhere
Walk(path) == FoldLeft(Descend, <<>>, path)

(* parse_param: a range runs from start by step and reaches stop, in at most *)
(* RangeCap values; a step of zero and no values are refused.                *)
RangeValues(start, stop, step) ==
  LET reach == {k \in 0 .. RangeCap - 1 :
                  IF step > 0 THEN start + k * step <= stop ELSE start + k * step >= stop}
  IN [k \in 1 .. Cardinality(reach) |-> start + (k - 1) * step]
ParseParam(axis) ==
  IF axis.range = <<>> THEN axis.list
  ELSE IF axis.range[3] = 0 THEN <<>>
  ELSE RangeValues(axis.range[1], axis.range[2], axis.range[3])

Kind(v) == IF v \in Texts THEN "text" ELSE "number"

(* set_path, axis by axis: of two axes on one leaf the later wins.           *)
Leaf(axis) == Walk(axis.path)
After(asked, n, values) ==
  [a \in DOMAIN BaseFile |->
     LET here == {k \in 1 .. n : Leaf(asked[k]) = a}
     IN IF here = {} THEN BaseFile[a] ELSE values[Max(here)]]
Has(strategy, refused) == \E r \in refused : strategy[r[1]] = r[2]
Firsts(asked) == [k \in DOMAIN asked |-> ParseParam(asked[k])[1]]

(* Mutant: a path's last key need not be set in the base strategy.           *)
Validate_Container(asked) ==
  /\ \A k \in DOMAIN asked : ParseParam(asked[k]) # <<>> /\ Walk(Front(asked[k].path)) # Nowhere
  /\ ~Has(After(asked, Len(asked), Firsts(asked)), Uncompilable)

(* Every path must name what the base sets, every value be of its type, and  *)
(* the first of each together compile.                                       *)
Validate(asked) ==
  /\ \A k \in DOMAIN asked : ParseParam(asked[k]) # <<>> /\ Leaf(asked[k]) \in DOMAIN BaseFile
  /\ \A k \in DOMAIN asked :
       LET current == After(asked, k - 1, Firsts(asked))[Leaf(asked[k])]
           values == ParseParam(asked[k])
       IN current # NoValue => \A i \in DOMAIN values : Kind(values[i]) = Kind(current)
  /\ ~Has(After(asked, Len(asked), Firsts(asked)), Uncompilable)

(* expand: the product of the axes' values, the last axis fastest.           *)
Below(asked, k) == (* how many cells share the values of the first k axes    *)
  LET n == Len(asked)
      last[i \in 0 .. n] == IF i = 0 THEN 1 ELSE last[i - 1] * Len(ParseParam(asked[n - i + 1]))
  IN last[n - k]
Expand(asked) ==
  [i \in 1 .. Below(asked, 0) |->
     [k \in DOMAIN asked |->
        LET values == ParseParam(asked[k])
        IN values[(((i - 1) \div Below(asked, k)) % Len(values)) + 1]]]

(* apply and run_cell: a copy of the base with every override; what goes     *)
(* wrong is the cell's own error.                                            *)
Apply(asked, overrides) == After(asked, Len(asked), overrides)
RunCell(asked, i) ==
  LET overrides == Expand(asked)[i]
      strategy == Apply(asked, overrides)
  IN [index |-> i, overrides |-> overrides, ran |-> strategy,
      error |-> CASE \E k \in DOMAIN asked : Leaf(asked[k]) \notin DOMAIN BaseFile -> "SweepError"
                  [] Has(strategy, Uncompilable) -> "SpecError"
                  [] Has(strategy, Failing) -> "ValueError"
                  [] OTHER -> ""]

-----------------------------------------------------------------------------
Start ==
  /\ stage = "asked"
  /\ stage' = IF Validate(axes) /\ Below(axes, 0) <= GridLimit THEN "running" ELSE "refused"
  /\ UNCHANGED <<axes, taken, ready, cells>>

(* A worker takes the next payload; cells finish in any order.               *)
InWork == (1 .. taken) \ ({c.index : c \in ready} \cup {cells[n].index : n \in DOMAIN cells})
Take ==
  /\ stage = "running" /\ taken < Below(axes, 0) /\ Cardinality(InWork) < Jobs
  /\ taken' = taken + 1
  /\ UNCHANGED <<axes, stage, ready, cells>>
Finish(i) ==
  /\ stage = "running" /\ i \in InWork
  /\ ready' = ready \cup {RunCell(axes, i)}
  /\ UNCHANGED <<axes, stage, taken, cells>>

(* Mutant: the cells are kept in the order in which they finish.             *)
Deliver_AsFinished ==
  /\ stage = "running"
  /\ \E c \in ready : cells' = Append(cells, c) /\ ready' = ready \ {c}
  /\ stage' = IF Len(cells') = Below(axes, 0) THEN "done" ELSE stage
  /\ UNCHANGED <<axes, taken>>

(* pool.map hands the cells over in the order of the payloads.               *)
Deliver ==
  /\ stage = "running"
  /\ \E c \in ready :
       /\ c.index = Len(cells) + 1
       /\ cells' = Append(cells, c) /\ ready' = ready \ {c}
  /\ stage' = IF Len(cells') = Below(axes, 0) THEN "done" ELSE stage
  /\ UNCHANGED <<axes, taken>>

(* A worker's death, or an error run_cell does not catch (a locked store),   *)
(* ends the pool and the sweep with it.                                      *)
WorkerDies ==
  /\ stage = "running" /\ InWork # {}
  /\ stage' = "lost"
  /\ UNCHANGED <<axes, taken, ready, cells>>

SweepNext ==
  Start \/ Take \/ (\E i \in InWork : Finish(i)) \/ Deliver \/ WorkerDies

-----------------------------------------------------------------------------
(* A sweep that runs varies what its file sets and runs every value asked    *)
(* for: no cell fails on a path (that is refused before the first run, so "a *)
(* typo fails in a second"), and no range is cut short.                      *)
PathsAreSettledFirst ==
  /\ \A n \in DOMAIN cells : cells[n].error # "SweepError"
  /\ stage = "running" =>
       \A k \in DOMAIN axes : axes[k].range # <<>> =>
         \E j \in DOMAIN ParseParam(axes[k]) :
           LET gap == axes[k].range[2] - ParseParam(axes[k])[j]
               step == axes[k].range[3]
           IN IF step > 0 THEN gap >= 0 /\ gap < step ELSE gap <= 0 /\ gap > step

(* A finished sweep has each combination of the axes' values in its place,   *)
(* exactly once where no value is given twice; a cell ran what its overrides *)
(* say over an untouched base, and its error is its own strategy's.          *)
GridIsWhole ==
  /\ stage = "done" =>
       /\ \A choice \in [DOMAIN axes -> UNION {ToSet(ParseParam(axes[k])) : k \in DOMAIN axes}] :
            (\A k \in DOMAIN axes : choice[k] \in ToSet(ParseParam(axes[k]))) =>
              \E n \in DOMAIN cells : cells[n].overrides = choice
       /\ (\A k \in DOMAIN axes : IsInjective(ParseParam(axes[k]))) =>
            \A n, m \in DOMAIN cells : cells[n].overrides = cells[m].overrides => n = m
  /\ \A n \in DOMAIN cells :
       /\ cells[n].index = n
       /\ \A a \in DOMAIN BaseFile : cells[n].ran[a] = BaseFile[a] \/ \E k \in DOMAIN axes : Leaf(axes[k]) = a
       /\ \A k \in DOMAIN axes : (\A j \in DOMAIN axes : Leaf(axes[j]) = Leaf(axes[k]) => j <= k) =>
            cells[n].ran[Leaf(axes[k])] = cells[n].overrides[k]
       /\ cells[n].error # "" => Has(cells[n].ran, Uncompilable \cup Failing)
=============================================================================
