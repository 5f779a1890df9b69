---------------------------- MODULE BtIndicators ----------------------------
(***************************************************************************)
(* The series a rule may ask for (bt/context.py), over closes that are     *)
(* whole numbers or missing.  A quotient is kept as its numerator and      *)
(* denominator.  Positions count from 0, as in the code.                   *)
(***************************************************************************)
EXTENDS Integers, Sequences, FiniteSets, FiniteSetsExt, Functions, Orders

CONSTANTS
  Closes,    (* what a close can be                                          *)
  Days,      (* how many there are                                           *)
  Periods,   (* the look-backs a rule asks for                               *)
  LeastSeen  (* the values a rank needs in its window: 20 in the code        *)

ASSUME IndicatorsAssumption == Closes \subseteq Nat \ {0} /\ Days \in Nat \ {0} /\ Periods \subseteq Nat \ {0}

Missing == -1

VARIABLES closes, lookback
seriesVars == <<closes, lookback>>

Series == UNION {[0 .. n - 1 -> Closes \cup {Missing}] : n \in 1 .. Days}
SeriesInit == closes \in Series /\ lookback \in Periods
SeriesNext == (* another day closes *)
  /\ Cardinality(DOMAIN closes) < Days
  /\ \E c \in Closes \cup {Missing} :
       closes' = [i \in 0 .. Cardinality(DOMAIN closes) |-> IF i \in DOMAIN closes THEN closes[i] ELSE c]
  /\ UNCHANGED lookback

-----------------------------------------------------------------------------
Length(x) == Cardinality(DOMAIN x)
Present(x, S) == {i \in S : x[i] # Missing}
Adds(x, S) == TotalOf([i \in S |-> x[i]])
Window(x, i, n) == Max({0, i - n + 1}) .. i

(* _rolling_mean: differences of two running sums, one of the values and one *)
(* of how many there are.                                                    *)
RunSum(x, i) == Adds(x, Present(x, 0 .. i - 1))
RunSeen(x, i) == Cardinality(Present(x, 0 .. i - 1))
(* Mutant: a missing close counts as nothing gained.                         *)
RollingMean_MissingIsZero(x, n) ==
  [i \in DOMAIN x |-> IF i < n - 1 THEN <<>> ELSE <<RunSum(x, i + 1) - RunSum(x, i + 1 - n), n>>]

RollingMean(x, n) ==
  [i \in DOMAIN x |-> IF i < n - 1 \/ RunSeen(x, i + 1) - RunSeen(x, i + 1 - n) # n THEN <<>>
                      ELSE <<RunSum(x, i + 1) - RunSum(x, i + 1 - n), n>>]

(* _ema: seeded with the first close there is, and shown from n - 1 on;      *)
(* a missing close leaves the average and shows nothing.                     *)
Ema(x, n) ==
  LET run[k \in 0 .. Length(x)] == (* after the first k closes               *)
        IF k = 0 THEN <<>>
        ELSE IF x[k - 1] = Missing THEN run[k - 1]
        ELSE IF run[k - 1] = <<>> THEN <<x[k - 1], 1>>
        ELSE <<(n - 1) * run[k - 1][1] + 2 * x[k - 1] * run[k - 1][2], (n + 1) * run[k - 1][2]>>
  IN [i \in DOMAIN x |-> IF i < n - 1 \/ x[i] = Missing THEN <<>> ELSE run[i + 1]]

(* _rsi: Wilder's averages of the gains and of the losses.  A change from or *)
(* to a missing close is neither.  The two averages have one denominator,    *)
(* which cancels.                                                            *)
Change(x, i) == IF x[i] = Missing \/ x[i + 1] = Missing THEN 0 ELSE x[i + 1] - x[i]
Gain(x) == [i \in 0 .. Length(x) - 2 |-> IF Change(x, i) > 0 THEN Change(x, i) ELSE 0]
Loss(x) == [i \in 0 .. Length(x) - 2 |-> IF Change(x, i) < 0 THEN -Change(x, i) ELSE 0]
Wilder(moves, n) ==
  LET run[k \in 0 .. Length(moves) - n] == (* after the first n + k moves    *)
        IF k = 0 THEN <<Adds(moves, 0 .. n - 1), 1>>
        ELSE <<run[k - 1][1] * (n - 1) + n * run[k - 1][2] * moves[n + k - 1], run[k - 1][2] * n>>
  IN run
Rsi(x, n) ==
  [i \in DOMAIN x |-> IF Length(x) - 1 < n \/ i < n THEN <<>>
                      ELSE LET up == Wilder(Gain(x), n)[i - n][1]  down == Wilder(Loss(x), n)[i - n][1]
                           IN IF down = 0 THEN <<100, 1>> ELSE <<100 * up, up + down>>]

(* _rank and _percentile: where today's value stands among those of its      *)
(* window, and how many of them it is above.                                 *)
Enough(x, i, n) == x[i] # Missing /\ Cardinality(Present(x, Window(x, i, n))) >= LeastSeen
Values(x, i, n) == {x[j] : j \in Present(x, Window(x, i, n))}
Rank(x, n) ==
  [i \in DOMAIN x |-> IF ~Enough(x, i, n) THEN <<>>
                      ELSE LET lo == Min(Values(x, i, n))  hi == Max(Values(x, i, n))
                           IN IF hi > lo THEN <<100 * (x[i] - lo), hi - lo>> ELSE <<50, 1>>]
Percentile(x, n) ==
  [i \in DOMAIN x |-> IF ~Enough(x, i, n) THEN <<>>
                      ELSE LET w == Present(x, Window(x, i, n))
                           IN <<100 * Cardinality({j \in w : x[j] < x[i]}), Cardinality(w)>>]

(* _roll: the highest or lowest of the window.                               *)
Roll(x, n, best(_)) ==
  [i \in DOMAIN x |-> IF Present(x, Window(x, i, n)) = {} THEN <<>> ELSE <<best(Values(x, i, n)), 1>>]

(* Mutant: the slices of the quotient are swapped.                           *)
Ret_Swapped(x, n) ==
  [i \in DOMAIN x |-> IF i + n \notin DOMAIN x THEN <<>> ELSE <<100 * (x[i + n] - x[i]), x[i]>>]

(* at() and series("ret"): the change over n days.                           *)
Ret(x, n) ==
  [i \in DOMAIN x |-> IF i < n \/ x[i] = Missing \/ x[i - n] = Missing THEN <<>>
                      ELSE <<100 * (x[i] - x[i - n]), x[i - n]>>]

All(x, n) == <<RollingMean(x, n), Ema(x, n), Rsi(x, n), Rank(x, n), Percentile(x, n),
               Roll(x, n, Max), Roll(x, n, Min), Ret(x, n)>>

-----------------------------------------------------------------------------
(* No series looks ahead: the value a rule is given for a day is the one it  *)
(* would be given if that day were the last.                                 *)
NoLookAhead ==
  \A i \in DOMAIN closes :
    LET today == All(Restrict(closes, 0 .. i), lookback)
    IN \A k \in DOMAIN today : today[k][i] = All(closes, lookback)[k][i]

(* The average by running sums is the average of the window, shown exactly   *)
(* when no close of it is missing; and an RSI, a rank and a percentile lie   *)
(* between 0 and 100.                                                        *)
SeriesAreWhatTheySay ==
  \A i \in DOMAIN closes :
    LET w == i - lookback + 1 .. i  all == All(closes, lookback)
    IN /\ RollingMean(closes, lookback)[i] =
            IF i < lookback - 1 \/ Present(closes, w) # w THEN <<>> ELSE <<Adds(closes, w), lookback>>
       /\ \A k \in 3 .. 5 : all[k][i] # <<>> => 0 <= all[k][i][1] /\ all[k][i][1] <= 100 * all[k][i][2]
=============================================================================
