------------------------------- MODULE Orders -------------------------------
(***************************************************************************)
(* Sets of numbers and what is in an order, which several components share: *)
(* the numbers of a set from the least on, what is sorted by what is ahead  *)
(* of it, a part of a sequence, the median.  And facts about them: the ends *)
(* of sets of naturals, functions that are defined from one natural to the  *)
(* next, and sums.                                                          *)
(***************************************************************************)
EXTENDS Integers, Sequences, FiniteSets, Functions, FiniteSetTheorems, TLAPS

(* The numbers of a finite set, from the least on.                           *)
InOrderOf(S) == [i \in 1 .. Cardinality(S) |-> CHOOSE d \in S : Cardinality({e \in S : e < d}) = i - 1]

(* The members of a finite set, each after those that are ahead of it.       *)
SortedBy(ahead) ==
  [i \in 1 .. Cardinality(DOMAIN ahead) |-> CHOOSE x \in DOMAIN ahead : Cardinality(ahead[x]) = i - 1]

(* The sum of a function's values.                                           *)
TotalOf(f) == FoldFunction(+, 0, f)

(* The elements of a sequence that are in S, as they come.                   *)
Only(s, S) ==
  LET kept == InOrderOf({i \in DOMAIN s : s[i] \in S}) IN [n \in DOMAIN kept |-> s[kept[n]]]

(* The k-th of a sequence of numbers in order, and twice the median.         *)
KthOf(s, k) ==
  CHOOSE v \in {s[i] : i \in DOMAIN s} :
    /\ Cardinality({i \in DOMAIN s : s[i] < v}) < k
    /\ k <= Cardinality({i \in DOMAIN s : s[i] <= v})
TwiceMedian(s) ==
  LET n == Len(s)
  IN IF n % 2 = 1 THEN 2 * KthOf(s, n \div 2 + 1) ELSE KthOf(s, n \div 2) + KthOf(s, n \div 2 + 1)

-----------------------------------------------------------------------------

(* A set of naturals with anything in it has a least one.                    *)
LEMMA Least ==
  ASSUME NEW S, S \subseteq Nat, S # {}
  PROVE  \E x \in S : \A y \in S : x <= y
<1>1. PICK n \in S : n \in Nat
  OBVIOUS
<1> DEFINE below == {x \in S : x <= n}
           T == {0 .. x : x \in below}
<1>2. IsFiniteSet(0 .. n)
  BY <1>1, FS_Interval
<1>3. T \subseteq SUBSET (0 .. n)
  BY <1>1
<1>4. n \in below
  BY <1>1
<1>5. T # {}
  BY <1>4
<1>6. IsWellFoundedOn(StrictSubsetOrdering(0 .. n), SUBSET (0 .. n))
  BY <1>2, FS_StrictSubsetOrderingWellFounded, FS_FiniteSubsetsOfFinite
<1>7. PICK U \in T : \A V \in T : ~(<<V, U>> \in StrictSubsetOrdering(0 .. n))
  <2> HIDE DEF T
  <2> QED BY <1>3, <1>5, <1>6, WFMin
<1>8. PICK x \in below : U = 0 .. x
  BY <1>7
<1>9. ASSUME NEW y \in S, ~(x <= y) PROVE FALSE
  <2>1. y \in below /\ 0 .. y \in T /\ 0 .. x \in T
    BY <1>9, <1>1
  <2>2. 0 .. y \subseteq 0 .. x /\ 0 .. y # 0 .. x
    BY <1>9
  <2>3. 0 .. y \in SUBSET (0 .. n) /\ 0 .. x \in SUBSET (0 .. n)
    BY <2>1, <1>3
  <2> QED BY <1>7, <1>8, <2>1, <2>2, <2>3 DEF StrictSubsetOrdering
<1> QED BY <1>8, <1>9

(* A bounded one has a greatest one as well.                                 *)
LEMMA Greatest ==
  ASSUME NEW S, S # {}, NEW n \in Nat, S \subseteq 0 .. n
  PROVE  \E x \in S : \A y \in S : y <= x
<1> DEFINE R == {n - x : x \in S}
<1>1. R \subseteq Nat
  OBVIOUS
<1>2. PICK r \in R : \A q \in R : r <= q
  <2>1. R # {}
    OBVIOUS
  <2> HIDE DEF R
  <2> QED BY <1>1, <2>1, Least
<1>3. PICK x \in S : r = n - x
  OBVIOUS
<1>4. \A y \in S : n - y \in R
  OBVIOUS
<1>5. ASSUME NEW y \in S PROVE y <= x
  BY <1>2, <1>3, <1>4, x \in 0 .. n, y \in 0 .. n
<1> QED BY <1>5

(* A function that goes from one natural to the next,                        *)
Follows(f, base, L, rule) == f[0] = base /\ \A n \in 1 .. L : f[n] = rule[n][f[n - 1]]

(* is there, whatever it starts from and goes by.                            *)
LEMMA Recursion ==
  ASSUME NEW V, NEW base \in V, NEW L \in Nat, NEW rule \in [1 .. L -> [V -> V]]
  PROVE  \E f \in [0 .. L -> V] : Follows(f, base, L, rule)
<1> DEFINE Built(f, m) == f \in [0 .. m -> V] /\ f[0] = base /\ \A n \in 1 .. m : f[n] = rule[n][f[n - 1]]
           bad == {m \in 0 .. L : ~\E f : Built(f, m)}
<1>1. bad = {}
  <2> SUFFICES ASSUME bad # {} PROVE FALSE
    OBVIOUS
  <2>1. PICK m \in bad : \A o \in bad : m <= o
    <3>1. bad \subseteq Nat
      OBVIOUS
    <3> HIDE DEF bad
    <3> QED BY <3>1, Least
  <2>2. CASE m = 0
    <3>1. Built([n \in 0 .. 0 |-> base], 0)
      OBVIOUS
    <3> QED BY <2>1, <2>2, <3>1
  <2>3. CASE m # 0
    <3>1. m \in 0 .. L /\ m - 1 \in 0 .. L /\ ~(m <= m - 1) /\ m \in Nat /\ m >= 1
      BY <2>1, <2>3
    <3>2. PICK f : Built(f, m - 1)
      BY <2>1, <3>1
    <3> DEFINE g == [n \in 0 .. m |-> IF n = m THEN rule[m][f[m - 1]] ELSE f[n]]
    <3>3. f[m - 1] \in V /\ rule[m][f[m - 1]] \in V
      BY <3>1, <3>2
    <3>4. \A n \in 0 .. m : n # m => n \in 0 .. m - 1
      BY <3>1
    <3>5. g \in [0 .. m -> V] /\ g[0] = base
      BY <3>1, <3>2, <3>3, <3>4
    <3>6. ASSUME NEW n \in 1 .. m PROVE g[n] = rule[n][g[n - 1]]
      <4>1. n \in 0 .. m /\ n - 1 \in 0 .. m /\ n - 1 # m /\ g[n - 1] = f[n - 1]
        BY <3>1
      <4>2. CASE n = m
        BY <4>1, <4>2
      <4>3. CASE n # m
        <5>1. n \in 1 .. m - 1
          BY <3>1, <4>3
        <5> QED BY <3>2, <4>1, <4>3, <5>1
      <4> QED BY <4>2, <4>3
    <3>7. Built(g, m)
      BY <3>5, <3>6
    <3> QED BY <2>1, <3>7
  <2> QED BY <2>2, <2>3
<1>2. L \in 0 .. L
  OBVIOUS
<1> QED BY <1>1, <1>2 DEF Follows

(* The place of a number among others,                                       *)
RankIn(S, d) == Cardinality({e \in S : e < d})

(* which grows with it.                                                      *)
LEMMA RankGrows ==
  ASSUME NEW S \in SUBSET Int, IsFiniteSet(S), NEW d \in S
  PROVE  /\ RankIn(S, d) \in Nat /\ RankIn(S, d) < Cardinality(S)
         /\ \A e \in S : d < e => RankIn(S, d) < RankIn(S, e)
<1> DEFINE Under(x) == {e \in S : e < x}
<1>1. ASSUME NEW x PROVE IsFiniteSet(Under(x)) /\ Cardinality(Under(x)) \in Nat
  <2>1. Under(x) \in SUBSET S
    OBVIOUS
  <2>2. IsFiniteSet(Under(x))
    BY <2>1, FS_Subset
  <2> QED BY <2>2, FS_CardinalityType
<1>2. Cardinality(Under(d)) < Cardinality(S)
  <2>1. Under(d) \in SUBSET S /\ Under(d) # S
    OBVIOUS
  <2>2. Cardinality(Under(d)) <= Cardinality(S) /\ Cardinality(S) # Cardinality(Under(d))
    BY ONLY <2>1, FS_Subset, IsFiniteSet(S)
  <2>3. Cardinality(S) \in Nat
    BY FS_CardinalityType
  <2> QED BY ONLY <1>1, <2>2, <2>3
<1>3. ASSUME NEW e \in S, d < e PROVE Cardinality(Under(d)) < Cardinality(Under(e))
  <2>1. Under(d) \in SUBSET Under(e) /\ Under(d) # Under(e)
    <3>1. d \in Under(e) /\ d \notin Under(d)
      BY <1>3
    <3>2. \A x \in Under(d) : x \in Under(e)
      BY <1>3
    <3> QED BY <3>1, <3>2
  <2>2. Cardinality(Under(d)) <= Cardinality(Under(e)) /\ Cardinality(Under(e)) # Cardinality(Under(d))
    BY ONLY <1>1, <2>1, FS_Subset
  <2> QED BY ONLY <1>1, <2>2
<1> QED BY <1>1, <1>2, <1>3 DEF RankIn

(* Numbers in order are all of them, each before the greater ones.           *)
LEMMA InOrderIs ==
  ASSUME NEW S \in SUBSET Int, IsFiniteSet(S)
  PROVE  /\ Cardinality(S) \in Nat
         /\ InOrderOf(S) \in [1 .. Cardinality(S) -> S]
         /\ \A i, j \in 1 .. Cardinality(S) : i < j => InOrderOf(S)[i] < InOrderOf(S)[j]
         /\ \A d \in S : \E i \in 1 .. Cardinality(S) : InOrderOf(S)[i] = d
<1>1. PICK n \in Nat : n = Cardinality(S)
  BY FS_CardinalityType
<1> DEFINE place == [d \in S |-> RankIn(S, d) + 1]
<1>2. \A d \in S : place[d] \in 1 .. n /\ place[d] = RankIn(S, d) + 1
  <2> SUFFICES ASSUME NEW d \in S PROVE RankIn(S, d) + 1 \in 1 .. n
    OBVIOUS
  <2>1. RankIn(S, d) \in Nat /\ RankIn(S, d) < n
    BY <1>1, RankGrows
  <2> QED BY ONLY <1>1, <2>1
<1>3. \A d, e \in S : d < e => place[d] < place[e]
  <2> SUFFICES ASSUME NEW d \in S, NEW e \in S, d < e PROVE RankIn(S, d) + 1 < RankIn(S, e) + 1
    OBVIOUS
  <2>1. RankIn(S, d) \in Nat /\ RankIn(S, d) < RankIn(S, e)
    BY RankGrows
  <2>2. RankIn(S, e) \in Nat
    BY RankGrows
  <2> QED BY ONLY <2>1, <2>2
<1>4. \A d, e \in S : place[d] = place[e] => d = e
  <2> SUFFICES ASSUME NEW d \in S, NEW e \in S, d # e PROVE place[d] # place[e]
    OBVIOUS
  <2>1. d < e \/ e < d
    OBVIOUS
  <2>2. place[d] < place[e] \/ place[e] < place[d]
    BY <1>3, <2>1
  <2> QED BY <1>1, <1>2, <2>2
<1>5. place \in Injection(S, 1 .. n)
  <2> HIDE DEF place
  <2>1. place \in [S -> 1 .. n]
    <3>1. place = [d \in S |-> place[d]]
      BY DEF place
    <3> QED BY <1>2, <3>1
  <2> QED BY <1>4, <2>1 DEF Injection, IsInjective
<1>6. IsFiniteSet(1 .. n) /\ Cardinality(1 .. n) = n
  <2>1. 1 \in Int /\ n \in Int
    OBVIOUS
  <2>2. IsFiniteSet(1 .. n) /\ Cardinality(1 .. n) = IF 1 > n THEN 0 ELSE n - 1 + 1
    BY ONLY <2>1, FS_Interval
  <2> QED BY <2>2
<1>7. place \in Surjection(S, 1 .. n)
  BY ONLY <1>1, <1>5, <1>6, FS_Injection
<1>8. \A i \in 1 .. n : \E d \in S : RankIn(S, d) = i - 1
  <2> SUFFICES ASSUME NEW i \in 1 .. n PROVE \E d \in S : RankIn(S, d) = i - 1
    OBVIOUS
  <2>1. PICK d \in S : place[d] = i
    BY <1>7 DEF Surjection
  <2>2. RankIn(S, d) \in Nat /\ RankIn(S, d) + 1 = i
    BY <1>2, <2>1, RankGrows
  <2> QED BY ONLY <2>2
<1> HIDE DEF place
<1>9. /\ InOrderOf(S) = [i \in 1 .. n |-> InOrderOf(S)[i]]
      /\ \A i \in 1 .. n : InOrderOf(S)[i] \in S /\ RankIn(S, InOrderOf(S)[i]) = i - 1
  <2>1. InOrderOf(S) = [i \in 1 .. n |-> CHOOSE d \in S : RankIn(S, d) = i - 1]
    BY <1>1 DEF InOrderOf, RankIn
  <2> QED BY <1>8, <2>1
<1>10. ASSUME NEW i \in 1 .. n, NEW j \in 1 .. n, i < j PROVE InOrderOf(S)[i] < InOrderOf(S)[j]
  <2>1. PICK a \in S, b \in S : a = InOrderOf(S)[i] /\ b = InOrderOf(S)[j]
    BY <1>9
  <2>2. RankIn(S, a) = i - 1 /\ RankIn(S, b) = j - 1
    BY <1>9, <2>1
  <2>3. ~(b < a) /\ a # b
    <3>1. b < a => RankIn(S, b) < RankIn(S, a)
      BY RankGrows
    <3> QED BY <1>10, <2>2, <3>1
  <2> QED BY <2>1, <2>3
<1>11. ASSUME NEW d \in S PROVE \E i \in 1 .. n : InOrderOf(S)[i] = d
  <2>1. PICK i \in 1 .. n : i = place[d]
    BY <1>2
  <2>2. PICK a \in S : a = InOrderOf(S)[i] /\ RankIn(S, a) = i - 1
    BY <1>9
  <2>3. place[a] = i
    BY <1>2, <2>2
  <2> QED BY <1>4, <2>1, <2>2, <2>3
<1> QED BY <1>1, <1>9, <1>10, <1>11

(* What lies ahead of one is less than what lies ahead of the next.          *)
LEMMA AheadGrows ==
  ASSUME NEW S, IsFiniteSet(S), NEW ahead \in [S -> SUBSET S], NEW x \in S, x \notin ahead[x]
  PROVE  /\ Cardinality(ahead[x]) \in Nat /\ Cardinality(ahead[x]) < Cardinality(S)
         /\ \A y \in S : x \in ahead[y] /\ ahead[x] \subseteq ahead[y] => Cardinality(ahead[x]) < Cardinality(ahead[y])
<1>1. ASSUME NEW T \in SUBSET S PROVE IsFiniteSet(T) /\ Cardinality(T) \in Nat
  BY FS_Subset, FS_CardinalityType
<1>2. ASSUME NEW T \in SUBSET S, x \in T, ahead[x] \subseteq T PROVE Cardinality(ahead[x]) < Cardinality(T)
  <2>1. PICK A \in SUBSET T : A = ahead[x] /\ A # T
    BY <1>2
  <2>2. IsFiniteSet(T) /\ Cardinality(T) \in Nat
    BY <1>1
  <2>3. Cardinality(A) <= Cardinality(T) /\ Cardinality(T) # Cardinality(A)
    BY ONLY <2>1, <2>2, FS_Subset
  <2>4. A \in SUBSET S
    BY <2>1
  <2>5. Cardinality(A) \in Nat
    BY <1>1, <2>4
  <2> QED BY ONLY <2>1, <2>2, <2>3, <2>5
<1> QED BY <1>1, <1>2

(* A strict order of all the members sorts them.                             *)
LEMMA SortedByIs ==
  ASSUME NEW S, IsFiniteSet(S), NEW ahead \in [S -> SUBSET S],
         \A x \in S : x \notin ahead[x],
         \A x, y \in S : x # y => x \in ahead[y] \/ y \in ahead[x],
         \A x, y \in S : x \in ahead[y] => ahead[x] \subseteq ahead[y]
  PROVE  /\ Cardinality(S) \in Nat
         /\ SortedBy(ahead) \in [1 .. Cardinality(S) -> S]
         /\ \A i, j \in 1 .. Cardinality(S) : i < j => SortedBy(ahead)[i] \in ahead[SortedBy(ahead)[j]]
         /\ \A x \in S : \E i \in 1 .. Cardinality(S) : SortedBy(ahead)[i] = x
         /\ \A i \in 1 .. Cardinality(S) : Cardinality(ahead[SortedBy(ahead)[i]]) = i - 1
<1>1. PICK n \in Nat : n = Cardinality(S)
  BY FS_CardinalityType
<1> DEFINE rank == [x \in S |-> Cardinality(ahead[x])]
           place == [x \in S |-> Cardinality(ahead[x]) + 1]
<1>2. \A x \in S : Cardinality(ahead[x]) \in Nat /\ Cardinality(ahead[x]) < n
  BY <1>1, AheadGrows
<1>3. \A x, y \in S : x \in ahead[y] => Cardinality(ahead[x]) < Cardinality(ahead[y])
  BY AheadGrows
<1>4. \A x, y \in S : Cardinality(ahead[x]) = Cardinality(ahead[y]) => x = y
  <2> SUFFICES ASSUME NEW x \in S, NEW y \in S, x # y PROVE Cardinality(ahead[x]) # Cardinality(ahead[y])
    OBVIOUS
  <2>1. x \in ahead[y] \/ y \in ahead[x]
    OBVIOUS
  <2>2. Cardinality(ahead[x]) < Cardinality(ahead[y]) \/ Cardinality(ahead[y]) < Cardinality(ahead[x])
    BY <1>3, <2>1
  <2> QED BY <1>2, <2>2
<1>5. place \in Injection(S, 1 .. n)
  <2>1. \A x \in S : Cardinality(ahead[x]) + 1 \in 1 .. n
    BY <1>2
  <2>2. \A x, y \in S : Cardinality(ahead[x]) + 1 = Cardinality(ahead[y]) + 1 => x = y
    BY <1>2, <1>4
  <2> QED BY <2>1, <2>2 DEF Injection, IsInjective
<1>6. IsFiniteSet(1 .. n) /\ Cardinality(1 .. n) = n
  <2>1. 1 \in Int /\ n \in Int
    OBVIOUS
  <2>2. IsFiniteSet(1 .. n) /\ Cardinality(1 .. n) = IF 1 > n THEN 0 ELSE n - 1 + 1
    BY ONLY <2>1, FS_Interval
  <2> QED BY <2>2
<1>7. place \in Surjection(S, 1 .. n)
  <2> HIDE DEF place
  <2> QED BY ONLY <1>1, <1>5, <1>6, FS_Injection
<1>8. \A i \in 1 .. n : \E x \in S : Cardinality(ahead[x]) = i - 1
  <2> SUFFICES ASSUME NEW i \in 1 .. n PROVE \E x \in S : Cardinality(ahead[x]) = i - 1
    OBVIOUS
  <2>1. PICK x \in S : place[x] = i
    BY <1>7 DEF Surjection
  <2>2. Cardinality(ahead[x]) + 1 = i
    BY <2>1
  <2>3. Cardinality(ahead[x]) = i - 1
    BY <1>2, <2>2
  <2> QED BY <2>3
<1>9. SortedBy(ahead) = [i \in 1 .. n |-> CHOOSE x \in S : Cardinality(ahead[x]) = i - 1]
  BY <1>1 DEF SortedBy
<1> HIDE DEF place, rank
<1>10. \A i \in 1 .. n : SortedBy(ahead)[i] \in S /\ Cardinality(ahead[SortedBy(ahead)[i]]) = i - 1
  BY <1>8, <1>9
<1>11. SortedBy(ahead) \in [1 .. n -> S]
  BY <1>9, <1>10
<1>12. ASSUME NEW i \in 1 .. n, NEW j \in 1 .. n, i < j PROVE SortedBy(ahead)[i] \in ahead[SortedBy(ahead)[j]]
  <2>1. PICK a \in S, b \in S : a = SortedBy(ahead)[i] /\ b = SortedBy(ahead)[j]
    BY <1>10
  <2>2. Cardinality(ahead[a]) = i - 1 /\ Cardinality(ahead[b]) = j - 1
    BY <1>10, <2>1
  <2>3. a # b /\ b \notin ahead[a]
    BY <1>3, <1>12, <2>2
  <2> QED BY <2>1, <2>3
<1>13. ASSUME NEW x \in S PROVE \E i \in 1 .. n : SortedBy(ahead)[i] = x
  <2>1. PICK i \in 1 .. n : Cardinality(ahead[x]) = i - 1
    <3>1. Cardinality(ahead[x]) + 1 \in 1 .. n
      BY <1>2
    <3> QED BY <1>2, <3>1
  <2> QED BY <1>4, <1>10, <2>1
<1> QED BY <1>1, <1>10, <1>11, <1>12, <1>13
(* The elements that are in S come in their order, and none is missing.      *)
LEMMA OnlyIs ==
  ASSUME NEW X, NEW s \in Seq(X), NEW S
  PROVE  /\ Only(s, S) \in Seq(X)
         /\ \E kept \in [1 .. Len(Only(s, S)) -> 1 .. Len(s)] :
              /\ \A i \in 1 .. Len(Only(s, S)) : Only(s, S)[i] = s[kept[i]] /\ s[kept[i]] \in S
              /\ \A i, j \in 1 .. Len(Only(s, S)) : i < j => kept[i] < kept[j]
              /\ \A i \in 1 .. Len(s) : s[i] \in S => \E n \in 1 .. Len(Only(s, S)) : kept[n] = i
<1> DEFINE T == {i \in DOMAIN s : s[i] \in S}
<1>1. Len(s) \in Nat /\ DOMAIN s = 1 .. Len(s) /\ \A i \in 1 .. Len(s) : s[i] \in X
  OBVIOUS
<1>2. T \in SUBSET Int /\ T \in SUBSET (1 .. Len(s))
  BY <1>1
<1>3. IsFiniteSet(T)
  <2>1. IsFiniteSet(1 .. Len(s))
    BY <1>1, FS_Interval
  <2> HIDE DEF T
  <2> QED BY <1>2, <2>1, FS_Subset
<1>4. PICK n, kept :
        /\ n \in Nat /\ kept = InOrderOf(T) /\ kept \in [1 .. n -> T]
        /\ \A i, j \in 1 .. n : i < j => kept[i] < kept[j]
        /\ \A d \in T : \E i \in 1 .. n : kept[i] = d
  <2> HIDE DEF T
  <2> QED BY <1>2, <1>3, InOrderIs
<1>5. Only(s, S) = [i \in 1 .. n |-> s[kept[i]]]
  BY <1>4 DEF Only
<1>6. \A i \in 1 .. n : kept[i] \in 1 .. Len(s) /\ s[kept[i]] \in S /\ s[kept[i]] \in X
  BY <1>1, <1>4
<1>7. Only(s, S) \in Seq(X) /\ Len(Only(s, S)) = n
  BY <1>4, <1>5, <1>6
<1>8. kept \in [1 .. n -> 1 .. Len(s)]
  BY <1>4, <1>6
<1>9. \A i \in 1 .. Len(s) : s[i] \in S => \E m \in 1 .. n : kept[m] = i
  BY <1>1, <1>4
<1>10. \A i \in 1 .. n : Only(s, S)[i] = s[kept[i]] /\ s[kept[i]] \in S
  BY <1>5, <1>6
<1> QED BY <1>4, <1>7, <1>8, <1>9, <1>10

(* The sums over the subsets of a set, as the folds build them.              *)
SumsOver(g, f, D) ==
  g = [s \in SUBSET D |-> IF s = {} THEN 0 ELSE f[CHOOSE x \in s : TRUE] + g[s \ {CHOOSE x \in s : TRUE}]]

(* They are there.                                                           *)
LEMMA SumsOverExist ==
  ASSUME NEW D, IsFiniteSet(D), NEW f \in [D -> Int]
  PROVE  \E g : SumsOver(g, f, D)
<1>1. PICK L \in Nat : L = Cardinality(D)
  BY FS_CardinalityType
<1> DEFINE V == [SUBSET D -> Int]
           Some(s) == CHOOSE x \in s : TRUE
           none == [s \in SUBSET D |-> 0]
           next == [v \in V |-> [s \in SUBSET D |-> IF s = {} THEN 0 ELSE f[Some(s)] + v[s \ {Some(s)}]]]
           rule == [n \in 1 .. L |-> next]
<1>2. \A s \in SUBSET D : s # {} => Some(s) \in s /\ Some(s) \in D /\ f[Some(s)] \in Int /\ s \ {Some(s)} \in SUBSET D
  OBVIOUS
<1>3. none \in V /\ next \in [V -> V]
  <2>1. ASSUME NEW v \in V, NEW s \in SUBSET D PROVE (IF s = {} THEN 0 ELSE f[Some(s)] + v[s \ {Some(s)}]) \in Int
    BY <1>2
  <2> QED BY <2>1
<1>4. PICK h \in [0 .. L -> V] : h[0] = none /\ \A n \in 1 .. L : h[n] = next[h[n - 1]]
  <2>1. PICK W, b, r : W = V /\ b = none /\ r = rule
    OBVIOUS
  <2>2. b \in W /\ r \in [1 .. L -> [W -> W]]
    <3> HIDE DEF V, none, next
    <3> QED BY <1>3, <2>1
  <2>3. PICK h \in [0 .. L -> W] : Follows(h, b, L, r)
    BY ONLY <2>2, L \in Nat, Recursion
  <2>4. \A n \in 1 .. L : r[n] = next
    BY <2>1
  <2> HIDE DEF V, none, next, rule
  <2> QED BY <2>1, <2>3, <2>4 DEF Follows
<1>5. \A s \in SUBSET D : Cardinality(s) \in 0 .. L /\ IsFiniteSet(s)
  <2> SUFFICES ASSUME NEW s \in SUBSET D PROVE Cardinality(s) \in 0 .. L /\ IsFiniteSet(s)
    OBVIOUS
  <2>1. IsFiniteSet(s) /\ Cardinality(s) <= L
    BY <1>1, FS_Subset
  <2>2. Cardinality(s) \in Nat
    BY <2>1, FS_CardinalityType
  <2> QED BY ONLY <2>1, <2>2, L \in Nat
<1> DEFINE g == [s \in SUBSET D |-> h[Cardinality(s)][s]]
<1>6. ASSUME NEW s \in SUBSET D PROVE h[Cardinality(s)][s] = IF s = {} THEN 0 ELSE f[Some(s)] + g[s \ {Some(s)}]
  <2>1. CASE s = {}
    <3>1. Cardinality(s) = 0
      BY <2>1, FS_EmptySet
    <3> QED BY <1>4, <2>1, <3>1
  <2>2. CASE s # {}
    <3>1. PICK x \in s : x = Some(s)
      BY <2>2
    <3>2. Cardinality(s \ {x}) = Cardinality(s) - 1
      BY <1>5, <3>1, FS_RemoveElement
    <3>3. PICK c \in 1 .. L : c = Cardinality(s)
      <4>1. Cardinality(s \ {x}) \in 0 .. L /\ Cardinality(s) \in 0 .. L
        BY <1>5
      <4> QED BY <3>2, <4>1
    <3>4. h[c] = next[h[c - 1]] /\ h[c - 1] \in V
      <4>1. c - 1 \in 0 .. L
        BY <3>3
      <4> HIDE DEF next, V
      <4> QED BY <1>4, <3>3, <4>1
    <3>5. next[h[c - 1]][s] = f[x] + h[c - 1][s \ {x}]
      BY <2>2, <3>1, <3>4
    <3>6. g[s \ {x}] = h[c - 1][s \ {x}]
      BY <3>2, <3>3
    <3> HIDE DEF g, next, V
    <3> QED BY <2>2, <3>1, <3>3, <3>4, <3>5, <3>6
  <2> QED BY <2>1, <2>2
<1>7. g = [s \in SUBSET D |-> IF s = {} THEN 0 ELSE f[Some(s)] + g[s \ {Some(s)}]]
  BY <1>6
<1>8. SumsOver(g, f, D)
  <2> HIDE DEF g
  <2> QED BY <1>7 DEF SumsOver
<1> QED BY <1>8

(* and so the sum over a function is one of them.                            *)
LEMMA TotalIsSum ==
  ASSUME NEW D, IsFiniteSet(D), NEW f \in [D -> Int]
  PROVE  \E g : SumsOver(g, f, D) /\ FoldFunction(+, 0, f) = g[D]
<1>1. \E g : SumsOver(g, f, D)
  BY SumsOverExist
<1>2. FoldFunction(+, 0, f) = (CHOOSE g : SumsOver(g, f, D))[D]
  <2>1. DOMAIN f = D
    OBVIOUS
  <2> QED BY <2>1 DEF FoldFunction, FoldFunctionOnSet, MapThenFoldSet, SumsOver
<1> QED BY <1>1, <1>2

(* Every one of them is a number, and each member adds what it has.          *)
LEMMA SumsOverAre ==
  ASSUME NEW D, IsFiniteSet(D), NEW f \in [D -> Int], NEW g, SumsOver(g, f, D)
  PROVE  /\ g[{}] = 0
         /\ \A s \in SUBSET D : g[s] \in Int
         /\ \A s \in SUBSET D : \A x \in s : g[s] = f[x] + g[s \ {x}]
<1> DEFINE Some(s) == CHOOSE x \in s : TRUE
           Good(s) == g[s] \in Int /\ \A x \in s : g[s] = f[x] + g[s \ {x}]
           bad == {n \in 0 .. Cardinality(D) : \E s \in SUBSET D : Cardinality(s) = n /\ ~Good(s)}
<1>1. g[{}] = 0 /\ \A s \in SUBSET D : s # {} => g[s] = f[Some(s)] + g[s \ {Some(s)}]
  BY DEF SumsOver
<1>2. Cardinality(D) \in Nat
  BY FS_CardinalityType
<1>3. ASSUME NEW s \in SUBSET D PROVE IsFiniteSet(s) /\ Cardinality(s) \in 0 .. Cardinality(D)
  <2>1. IsFiniteSet(s) /\ Cardinality(s) <= Cardinality(D)
    BY FS_Subset
  <2>2. Cardinality(s) \in Nat
    BY <2>1, FS_CardinalityType
  <2> QED BY ONLY <1>2, <2>1, <2>2
<1>4. ASSUME NEW s \in SUBSET D, NEW x \in s PROVE s \ {x} \in SUBSET D /\ Cardinality(s \ {x}) = Cardinality(s) - 1
  BY <1>3, FS_RemoveElement
<1>5. bad = {}
  <2> SUFFICES ASSUME bad # {} PROVE FALSE
    OBVIOUS
  <2>1. PICK n \in bad : \A o \in bad : n <= o
    <3>1. bad \subseteq Nat
      BY <1>2
    <3> HIDE DEF bad
    <3> QED BY <3>1, Least
  <2>2. PICK s \in SUBSET D : Cardinality(s) = n /\ ~Good(s)
    BY <2>1
  <2>3. ASSUME NEW t \in SUBSET D, Cardinality(t) = n - 1 PROVE Good(t)
    <3>1. n - 1 \notin bad
      BY <2>1, <1>2
    <3>2. n - 1 \in 0 .. Cardinality(D)
      BY <1>3, <2>3
    <3> HIDE DEF Good
    <3> QED BY <2>3, <3>1, <3>2
  <2>4. s # {}
    <3>1. s = {} => g[s] = 0 /\ \A x \in s : g[s] = f[x] + g[s \ {x}]
      BY <1>1
    <3>2. 0 \in Int
      OBVIOUS
    <3> QED BY <2>2, <3>1, <3>2
  <2>5. PICK y \in s : y = Some(s) /\ g[s] = f[y] + g[s \ {y}]
    <3>1. Some(s) \in s
      BY <2>4
    <3> HIDE DEF Some
    <3> QED BY <1>1, <2>4, <3>1
  <2>6. Good(s \ {y})
    <3> HIDE DEF Good
    <3> QED BY <1>4, <2>2, <2>3
  <2>7. f[y] \in Int /\ g[s] \in Int
    BY <2>5, <2>6
  <2>8. ASSUME NEW x \in s PROVE g[s] = f[x] + g[s \ {x}]
    <3>1. CASE x = y
      BY <2>5, <3>1
    <3>2. CASE x # y
      <4>1. x \in s \ {y} /\ y \in s \ {x} /\ (s \ {x}) \ {y} = (s \ {y}) \ {x}
        BY <3>2
      <4>2. Good(s \ {x})
        <5> HIDE DEF Good
        <5> QED BY <1>4, <2>2, <2>3
      <4>3. g[s \ {y}] = f[x] + g[(s \ {y}) \ {x}]
        BY <2>6, <4>1
      <4>4. g[s \ {x}] = f[y] + g[(s \ {x}) \ {y}]
        BY <4>1, <4>2
      <4>5. (s \ {x}) \ {y} \in SUBSET D /\ Cardinality((s \ {x}) \ {y}) = Cardinality(s) - 2
        <5>1. PICK t \in SUBSET D : t = s \ {x}
          OBVIOUS
        <5>2. t \ {y} \in SUBSET D /\ Cardinality(t \ {y}) = Cardinality(t) - 1
          BY <1>4, <4>1, <5>1
        <5>3. Cardinality(t) = Cardinality(s) - 1
          BY <1>4, <5>1
        <5>4. Cardinality(s) \in Int
          BY <1>3
        <5> QED BY <5>1, <5>2, <5>3, <5>4
      <4>6. g[s \ {x}] \in Int /\ g[s \ {y}] \in Int /\ f[x] \in Int /\ f[y] \in Int
        BY <2>6, <4>2
      <4>7. g[(s \ {x}) \ {y}] \in Int
        <5>1. PICK t \in SUBSET D : t = (s \ {x}) \ {y} /\ Cardinality(t) = n - 2
          BY <2>2, <4>5
        <5>2. n - 2 \notin bad
          BY <2>1, <1>2
        <5>3. n - 2 \in 0 .. Cardinality(D)
          BY <1>3, <5>1
        <5>4. Good(t)
          <6> HIDE DEF Good
          <6> QED BY <5>1, <5>2, <5>3
        <5> QED BY <5>1, <5>4
      <4> QED BY <2>5, <4>1, <4>3, <4>4, <4>6, <4>7
    <3> QED BY <3>1, <3>2
  <2> QED BY <2>2, <2>7, <2>8
<1>6. ASSUME NEW s \in SUBSET D PROVE Good(s)
  <2> HIDE DEF Good
  <2> QED BY <1>3, <1>5
<1> QED BY <1>1, <1>6

(* The sum of numbers is a number.                                           *)
LEMMA TotalIsNumber ==
  ASSUME NEW D, IsFiniteSet(D), NEW f \in [D -> Int]
  PROVE  FoldFunction(+, 0, f) \in Int
<1>1. PICK g : SumsOver(g, f, D) /\ FoldFunction(+, 0, f) = g[D]
  BY TotalIsSum
<1>2. \A s \in SUBSET D : g[s] \in Int
  BY <1>1, SumsOverAre
<1> QED BY <1>1, <1>2

(* The first of them are so many, and come before all the others.            *)
LEMMA FirstsAre ==
  ASSUME NEW S, IsFiniteSet(S), NEW ahead \in [S -> SUBSET S],
         \A x \in S : x \notin ahead[x],
         \A x, y \in S : x # y => x \in ahead[y] \/ y \in ahead[x],
         \A x, y \in S : x \in ahead[y] => ahead[x] \subseteq ahead[y],
         NEW m \in Nat, NEW T, T = {x \in S : Cardinality(ahead[x]) < m}
  PROVE  /\ Cardinality(S) \in Nat
         /\ Cardinality(T) = IF m <= Cardinality(S) THEN m ELSE Cardinality(S)
         /\ \A x, y \in S : Cardinality(ahead[x]) < m /\ ~(Cardinality(ahead[y]) < m) => x \in ahead[y]
<1>1. PICK n \in Nat : n = Cardinality(S)
  BY FS_CardinalityType
<1>2. PICK order \in [1 .. n -> S] :
        /\ \A x \in S : \E i \in 1 .. n : order[i] = x
        /\ \A i \in 1 .. n : Cardinality(ahead[order[i]]) = i - 1
  <2>1. /\ SortedBy(ahead) \in [1 .. Cardinality(S) -> S]
        /\ \A x \in S : \E i \in 1 .. Cardinality(S) : SortedBy(ahead)[i] = x
        /\ \A i \in 1 .. Cardinality(S) : Cardinality(ahead[SortedBy(ahead)[i]]) = i - 1
    BY SortedByIs
  <2> QED BY ONLY <1>1, <2>1
<1>3. \A x, y \in S : x \in ahead[y] => Cardinality(ahead[x]) < Cardinality(ahead[y])
  BY AheadGrows
<1>4. \A x \in S : Cardinality(ahead[x]) \in Nat
  BY AheadGrows
<1>5. \A x, y \in S : Cardinality(ahead[x]) < m /\ ~(Cardinality(ahead[y]) < m) => x \in ahead[y]
  BY <1>3, <1>4
<1>7. PICK k \in Nat : k = IF m <= n THEN m ELSE n
  OBVIOUS
<1> DEFINE f == [i \in 1 .. k |-> order[i]]
<1>8. f \in Surjection(1 .. k, T)
  <2>1. \A i \in 1 .. k : order[i] \in T
    BY <1>2, <1>7
  <2>2. ASSUME NEW x \in T PROVE \E i \in 1 .. k : f[i] = x
    <3>1. PICK i \in 1 .. n : order[i] = x
      BY <1>2
    <3>2. i - 1 < m
      BY <1>2, <3>1
    <3>3. i \in 1 .. k
      BY <1>7, <3>2
    <3> QED BY <3>1, <3>3
  <2> QED BY <2>1, <2>2 DEF Surjection
<1>9. f \in Injection(1 .. k, T)
  <2>1. f \in [1 .. k -> T]
    BY <1>8 DEF Surjection
  <2>2. ASSUME NEW i \in 1 .. k, NEW j \in 1 .. k, f[i] = f[j] PROVE i = j
    <3>1. i \in 1 .. n /\ j \in 1 .. n /\ order[i] = order[j]
      BY <1>7, <2>2
    <3>2. i - 1 = j - 1
      BY <1>2, <3>1
    <3> QED BY <3>2
  <2> HIDE DEF f
  <2> QED BY <2>1, <2>2 DEF Injection, IsInjective
<1>10. IsFiniteSet(1 .. k) /\ Cardinality(1 .. k) = k
  <2>1. 1 \in Int /\ k \in Int
    OBVIOUS
  <2>2. IsFiniteSet(1 .. k) /\ Cardinality(1 .. k) = IF 1 > k THEN 0 ELSE k - 1 + 1
    BY ONLY <2>1, FS_Interval
  <2> QED BY <2>2
<1>11. Cardinality(T) = k
  <2> HIDE DEF f
  <2> QED BY ONLY <1>8, <1>9, <1>10, FS_Surjection
<1> QED BY <1>1, <1>5, <1>7, <1>11

(* Where all but one of the numbers are the same, and that one is not the    *)
(* first or the last that is asked for, it is that number;                   *)
LEMMA KthIs ==
  ASSUME NEW s \in Seq(Int), NEW c \in Int, NEW x, \A i \in 1 .. Len(s) : i # x => s[i] = c,
         NEW k \in Nat, (2 <= k /\ k < Len(s)) \/ (1 <= k /\ k <= Len(s) /\ x \notin 1 .. Len(s))
  PROVE  KthOf(s, k) = c
<1>1. PICK n \in Nat : n = Len(s) /\ DOMAIN s = 1 .. n /\ \A i \in 1 .. n : s[i] \in Int
  OBVIOUS
<1> DEFINE Fewer(v) == {i \in 1 .. n : s[i] < v}
           UpTo(v) == {i \in 1 .. n : s[i] <= v}
           N == 1 .. n
           V == {s[i] : i \in 1 .. n}
           is(v) == Cardinality(Fewer(v)) < k /\ k <= Cardinality(UpTo(v))
<1>2. KthOf(s, k) = CHOOSE v \in V : is(v)
  BY <1>1 DEF KthOf
<1>3. IsFiniteSet(N) /\ Cardinality(N) = n
  <2>1. 1 \in Int /\ n \in Int
    OBVIOUS
  <2>2. IsFiniteSet(N) /\ Cardinality(N) = IF 1 > n THEN 0 ELSE n - 1 + 1
    BY ONLY <2>1, FS_Interval
  <2> QED BY <2>2
<1>4. ASSUME NEW T \in SUBSET N PROVE IsFiniteSet(T) /\ Cardinality(T) \in Nat /\ Cardinality(T) <= n
  <2> HIDE DEF N
  <2> QED BY ONLY <1>3, <1>4, FS_Subset, FS_CardinalityType
<1>5. ASSUME NEW T \in SUBSET N, T \subseteq {x} PROVE Cardinality(T) <= 1
  <2>1. IsFiniteSet({x}) /\ Cardinality({x}) = 1 /\ T \in SUBSET {x}
    BY <1>5, FS_Singleton
  <2> QED BY ONLY <2>1, FS_Subset
<1>6. ASSUME NEW T \in SUBSET N, N \ {x} \subseteq T
      PROVE  Cardinality(T) >= IF x \in N THEN n - 1 ELSE n
  <2>1. IsFiniteSet(N \ {x}) /\ Cardinality(N \ {x}) = IF x \in N THEN n - 1 ELSE n
    <3> HIDE DEF N
    <3> QED BY ONLY <1>3, FS_RemoveElement
  <2>2. IsFiniteSet(T) /\ Cardinality(T) \in Nat
    BY <1>4
  <2>3. Cardinality(N \ {x}) <= Cardinality(T)
    <3> HIDE DEF N
    <3> QED BY ONLY <1>6, <2>2, FS_Subset
  <2> HIDE DEF N
  <2> QED BY ONLY <2>1, <2>2, <2>3, n \in Nat
<1>7. is(c)
  <2>1. Cardinality(Fewer(c)) < k
    <3>1. Fewer(c) \in SUBSET N /\ Fewer(c) \subseteq {x} /\ (x \notin 1 .. n => Fewer(c) = {})
      BY <1>1
    <3>2. Cardinality(Fewer(c)) \in Nat /\ Cardinality(Fewer(c)) <= 1 /\ (x \notin 1 .. n => Cardinality(Fewer(c)) = 0)
      BY <1>4, <1>5, <3>1, FS_EmptySet
    <3> HIDE DEF Fewer
    <3> QED BY <1>1, <3>2
  <2>2. k <= Cardinality(UpTo(c))
    <3>1. UpTo(c) \in SUBSET N /\ N \ {x} \subseteq UpTo(c)
      BY <1>1
    <3>2. Cardinality(UpTo(c)) \in Nat /\ Cardinality(UpTo(c)) >= IF x \in N THEN n - 1 ELSE n
      BY <1>4, <1>6, <3>1
    <3> HIDE DEF UpTo
    <3> QED BY <1>1, <3>2
  <2> QED BY <2>1, <2>2
<1>8. c \in V
  <2>1. \E i \in 1 .. n : i # x
    <3>1. 1 \in 1 .. n /\ (x \in 1 .. n => 2 \in 1 .. n)
      BY <1>1
    <3>2. 1 # 2
      OBVIOUS
    <3> QED BY <3>1, <3>2
  <2> QED BY <1>1, <2>1
<1>9. ASSUME NEW v \in V, is(v), v # c PROVE FALSE
  <2>1. x \in 1 .. n /\ v = s[x] /\ v \in Int /\ 2 <= k /\ k < n
    BY <1>1, <1>9
  <2>2. CASE v < c
    <3>1. UpTo(v) \in SUBSET N /\ UpTo(v) \subseteq {x}
      BY <1>1, <2>1, <2>2
    <3>2. Cardinality(UpTo(v)) \in Nat /\ Cardinality(UpTo(v)) <= 1
      BY <1>4, <1>5, <3>1
    <3>3. k <= Cardinality(UpTo(v))
      BY <1>9
    <3> HIDE DEF UpTo
    <3> QED BY <2>1, <3>2, <3>3
  <2>3. CASE v > c
    <3>1. Fewer(v) \in SUBSET N /\ N \ {x} \subseteq Fewer(v)
      BY <1>1, <2>1, <2>3
    <3>2. Cardinality(Fewer(v)) \in Nat /\ Cardinality(Fewer(v)) >= IF x \in N THEN n - 1 ELSE n
      BY <1>4, <1>6, <3>1
    <3>3. Cardinality(Fewer(v)) < k
      BY <1>9
    <3> HIDE DEF Fewer
    <3> QED BY <2>1, <3>2, <3>3
  <2> QED BY <1>9, <2>1, <2>2, <2>3
<1> HIDE DEF is, V
<1> QED BY <1>2, <1>7, <1>8, <1>9

(* and of three or more the median is.                                       *)
LEMMA TwiceMedianIs ==
  ASSUME NEW s \in Seq(Int), NEW c \in Int, NEW x, \A i \in 1 .. Len(s) : i # x => s[i] = c,
         3 <= Len(s) \/ (1 <= Len(s) /\ x \notin 1 .. Len(s))
  PROVE  TwiceMedian(s) = 2 * c
<1>1. PICK n \in Nat : n = Len(s)
  OBVIOUS
<1>2. PICK h \in Nat : h = n \div 2
  BY <1>1
<1>3. CASE n % 2 = 1
  <2>1. n = 2 * h + 1
    BY <1>2, <1>3
  <2>2. (2 <= h + 1 /\ h + 1 < Len(s)) \/ (1 <= h + 1 /\ h + 1 <= Len(s) /\ x \notin 1 .. Len(s))
    BY <1>1, <2>1
  <2>3. KthOf(s, h + 1) = c
    <3>1. h + 1 \in Nat
      OBVIOUS
    <3> QED BY <2>2, <3>1, KthIs
  <2> QED BY <1>1, <1>2, <1>3, <2>3 DEF TwiceMedian
<1>4. CASE n % 2 # 1
  <2>1. n = 2 * h
    BY <1>2, <1>4
  <2>2. (2 <= h + 1 /\ h + 1 < Len(s)) \/ (1 <= h + 1 /\ h + 1 <= Len(s) /\ x \notin 1 .. Len(s))
    BY <1>1, <2>1
  <2>3. (2 <= h /\ h < Len(s)) \/ (1 <= h /\ h <= Len(s) /\ x \notin 1 .. Len(s))
    BY <1>1, <2>1
  <2>4. KthOf(s, h + 1) = c
    <3>1. h + 1 \in Nat
      OBVIOUS
    <3> QED BY <2>2, <3>1, KthIs
  <2>5. KthOf(s, h) = c
    BY <2>3, KthIs
  <2>6. TwiceMedian(s) = KthOf(s, h) + KthOf(s, h + 1)
    BY <1>1, <1>2, <1>4 DEF TwiceMedian
  <2> QED BY ONLY <2>4, <2>5, <2>6, c \in Int
<1> QED BY <1>3, <1>4

(* What holds of nothing, and of a set if of what one less of it is, holds   *)
(* of every part of a finite set.                                            *)
LEMMA EachSubset ==
  ASSUME NEW D, IsFiniteSet(D), NEW G, {} \in G,
         \A s \in SUBSET D : \A x \in s : s \ {x} \in G => s \in G
  PROVE  \A s \in SUBSET D : s \in G
<1> DEFINE bad == {n \in 0 .. Cardinality(D) : \E s \in SUBSET D : Cardinality(s) = n /\ s \notin G}
<1>1. Cardinality(D) \in Nat
  BY FS_CardinalityType
<1>2. ASSUME NEW s \in SUBSET D PROVE IsFiniteSet(s) /\ Cardinality(s) \in 0 .. Cardinality(D)
  <2>1. IsFiniteSet(s) /\ Cardinality(s) <= Cardinality(D)
    BY FS_Subset
  <2>2. Cardinality(s) \in Nat
    BY <2>1, FS_CardinalityType
  <2> QED BY ONLY <1>1, <2>1, <2>2
<1>3. bad = {}
  <2> SUFFICES ASSUME bad # {} PROVE FALSE
    OBVIOUS
  <2>1. PICK n \in bad : \A o \in bad : n <= o
    <3>1. bad \subseteq Nat
      BY <1>1
    <3> HIDE DEF bad
    <3> QED BY <3>1, Least
  <2>2. PICK s \in SUBSET D : Cardinality(s) = n /\ s \notin G
    BY <2>1
  <2>3. PICK x \in s : TRUE
    BY <2>2
  <2>4. s \ {x} \in SUBSET D /\ Cardinality(s \ {x}) = n - 1
    BY <1>2, <2>2, FS_RemoveElement
  <2>5. s \ {x} \notin G
    BY <2>2
  <2>6. n - 1 \in 0 .. Cardinality(D)
    BY <1>2, <2>4
  <2>7. n - 1 \in bad
    BY <2>4, <2>5, <2>6
  <2>8. ~(n <= n - 1)
    BY <1>1
  <2> HIDE DEF bad
  <2> QED BY <2>1, <2>7, <2>8
<1> QED BY <1>2, <1>3

(* Sums that grow by each of their numbers.                                  *)
AddsUp(g, f, D) ==
  /\ g[{}] = 0
  /\ \A s \in SUBSET D : g[s] \in Int
  /\ \A s \in SUBSET D : \A x \in s : g[s] = f[x] + g[s \ {x}]

(* Those over the parts of a set do,                                         *)
LEMMA SumsAddUp ==
  ASSUME NEW D, IsFiniteSet(D), NEW f \in [D -> Int], NEW g, SumsOver(g, f, D)
  PROVE  AddsUp(g, f, D)
<1>1. /\ g[{}] = 0
      /\ \A s \in SUBSET D : g[s] \in Int
      /\ \A s \in SUBSET D : \A x \in s : g[s] = f[x] + g[s \ {x}]
  BY SumsOverAre
<1> QED BY <1>1 DEF AddsUp

(* and that over all of it is the total.                                     *)
LEMMA TotalAddsUp ==
  ASSUME NEW D, IsFiniteSet(D), NEW f \in [D -> Int]
  PROVE  \E g : AddsUp(g, f, D) /\ TotalOf(f) = g[D]
<1>1. PICK g : SumsOver(g, f, D) /\ TotalOf(f) = g[D]
  BY TotalIsSum DEF TotalOf
<1>2. AddsUp(g, f, D)
  BY <1>1, SumsAddUp
<1> QED BY <1>1, <1>2

(* One more number adds itself to a sum.                                     *)
LEMMA TotalOfMore ==
  ASSUME NEW D, IsFiniteSet(D), NEW f \in [D -> Int], NEW x, x \notin D, NEW v \in Int,
         NEW h, h = [y \in D \cup {x} |-> IF y = x THEN v ELSE f[y]]
  PROVE  TotalOf(h) = v + TotalOf(f) /\ TotalOf(f) \in Int
<1>1. PICK E : E = D \cup {x} /\ IsFiniteSet(E)
  BY FS_AddElement
<1>2. h \in [E -> Int] /\ h[x] = v /\ \A y \in D : h[y] = f[y]
  BY <1>1
<1>3. PICK g : AddsUp(g, f, D) /\ TotalOf(f) = g[D]
  BY TotalAddsUp
<1>4. PICK k : AddsUp(k, h, E) /\ TotalOf(h) = k[E]
  BY <1>1, <1>2, TotalAddsUp
<1>5. /\ g[{}] = 0
      /\ \A s \in SUBSET D : g[s] \in Int
      /\ \A s \in SUBSET D : \A y \in s : g[s] = f[y] + g[s \ {y}]
  BY ONLY <1>3 DEF AddsUp
<1>6. /\ k[{}] = 0
      /\ \A s \in SUBSET E : k[s] \in Int
      /\ \A s \in SUBSET E : \A y \in s : k[s] = h[y] + k[s \ {y}]
  BY ONLY <1>4 DEF AddsUp
<1> DEFINE G == {s \in SUBSET D : k[s] = g[s]}
<1>7. {} \in G
  BY <1>5, <1>6
<1>8. ASSUME NEW s \in SUBSET D, NEW y \in s, s \ {y} \in G PROVE s \in G
  <2>1. g[s] = f[y] + g[s \ {y}] /\ k[s] = h[y] + k[s \ {y}]
    BY <1>1, <1>5, <1>6
  <2>2. k[s \ {y}] = g[s \ {y}] /\ h[y] = f[y]
    BY <1>2, <1>8
  <2> QED BY <2>1, <2>2
<1>9. \A s \in SUBSET D : s \in G
  <2> HIDE DEF G
  <2> QED BY <1>7, <1>8, EachSubset
<1>10. k[D] = g[D]
  <2>1. D \in G
    <3> HIDE DEF G
    <3> QED BY <1>9
  <2> QED BY <2>1
<1>11. E \ {x} = D /\ E \in SUBSET E /\ x \in E
  BY <1>1
<1>12. k[E] = v + g[D] /\ g[D] \in Int
  BY <1>2, <1>5, <1>6, <1>10, <1>11
<1> QED BY ONLY <1>3, <1>4, <1>12

(* A sum lies between so many times the least and the most.                  *)
LEMMA TotalIsBetween ==
  ASSUME NEW D, IsFiniteSet(D), NEW f \in [D -> Int], NEW lo \in Int, NEW hi \in Int,
         \A x \in D : lo <= f[x] /\ f[x] <= hi
  PROVE  /\ TotalOf(f) \in Int /\ Cardinality(D) \in Nat
         /\ lo * Cardinality(D) <= TotalOf(f) /\ TotalOf(f) <= hi * Cardinality(D)
<1>1. PICK g : AddsUp(g, f, D) /\ TotalOf(f) = g[D]
  BY TotalAddsUp
<1>2. /\ g[{}] = 0
      /\ \A s \in SUBSET D : g[s] \in Int
      /\ \A s \in SUBSET D : \A y \in s : g[s] = f[y] + g[s \ {y}]
  BY ONLY <1>1 DEF AddsUp
<1> DEFINE G == {s \in SUBSET D : lo * Cardinality(s) <= g[s] /\ g[s] <= hi * Cardinality(s)}
<1>3. {} \in G
  <2>1. Cardinality({}) = 0
    BY FS_EmptySet
  <2> QED BY <1>2, <2>1
<1>4. ASSUME NEW s \in SUBSET D, NEW y \in s, s \ {y} \in G PROVE s \in G
  <2>1. IsFiniteSet(s \ {y}) /\ IsFiniteSet(s)
    BY FS_Subset
  <2>2. Cardinality(s \ {y}) = Cardinality(s) - 1 /\ Cardinality(s) \in Nat /\ Cardinality(s \ {y}) \in Nat
    BY <2>1, FS_RemoveElement, FS_CardinalityType
  <2>3. PICK n \in Nat, t \in Int, u \in Int, w \in Int :
          n = Cardinality(s \ {y}) /\ t = g[s] /\ u = g[s \ {y}] /\ w = f[y]
    BY <1>2, <2>2
  <2>4. Cardinality(s) = n + 1 /\ t = w + u /\ lo <= w /\ w <= hi
    BY <1>2, <2>2, <2>3
  <2>5. lo * n <= u /\ u <= hi * n
    BY <1>4, <2>3
  <2>6. lo * (n + 1) = lo * n + lo /\ hi * (n + 1) = hi * n + hi
    OBVIOUS
  <2>7. PICK a \in Int, b \in Int : a = lo * n /\ b = hi * n
    OBVIOUS
  <2>8. lo * (n + 1) <= t /\ t <= hi * (n + 1)
    <3>1. a + lo <= t /\ t <= b + hi
      BY ONLY <2>3, <2>4, <2>5, <2>7, lo \in Int, hi \in Int
    <3> QED BY ONLY <2>6, <2>7, <3>1
  <2> QED BY <2>3, <2>4, <2>8
<1>5. \A s \in SUBSET D : s \in G
  <2> HIDE DEF G
  <2> QED BY <1>3, <1>4, EachSubset
<1>6. D \in G
  <2> HIDE DEF G
  <2> QED BY <1>5
<1>7. Cardinality(D) \in Nat
  BY FS_CardinalityType
<1> QED BY <1>1, <1>2, <1>6, <1>7

(* A sequence that lists the values of a function, each where it is taken.   *)
Enumerates(s, val) ==
  \E g \in [1 .. Cardinality(DOMAIN val) -> DOMAIN val] :
    /\ \A i, j \in 1 .. Cardinality(DOMAIN val) : g[i] = g[j] => i = j
    /\ \A q \in DOMAIN val : \E i \in 1 .. Cardinality(DOMAIN val) : g[i] = q
    /\ s = [i \in 1 .. Cardinality(DOMAIN val) |-> val[g[i]]]

(* How many of a function's values are of a kind.                            *)
HowMany(f, V) == Cardinality({i \in DOMAIN f : f[i] \in V})

(* It has the values of the function, and as many of each kind.              *)
LEMMA ValuesAreKept ==
  ASSUME NEW P, IsFiniteSet(P), NEW val \in [P -> Int], NEW s, Enumerates(s, val)
  PROVE  /\ s \in Seq(Int) /\ Len(s) = Cardinality(P) /\ DOMAIN s = 1 .. Cardinality(P)
         /\ s = [i \in 1 .. Cardinality(P) |-> s[i]]
         /\ Range(s) = Range(val)
         /\ \A V : HowMany(s, V) = HowMany(val, V)
<1>1. PICK n \in Nat : n = Cardinality(P) /\ DOMAIN val = P
  BY FS_CardinalityType
<1>2. PICK g \in [1 .. n -> P] : /\ \A i, j \in 1 .. n : g[i] = g[j] => i = j
                                 /\ \A q \in P : \E i \in 1 .. n : g[i] = q
                                 /\ s = [i \in 1 .. n |-> val[g[i]]]
  BY <1>1 DEF Enumerates
<1>3. ASSUME NEW V PROVE HowMany(s, V) = HowMany(val, V)
  <2> DEFINE A == {i \in 1 .. n : s[i] \in V}
             B == {q \in P : val[q] \in V}
             f == [i \in A |-> g[i]]
  <2>1. IsFiniteSet(A)
    <3>1. IsFiniteSet(1 .. n)
      BY FS_Interval
    <3> QED BY <3>1, FS_Subset
  <2>2. f \in [A -> B] /\ (\A i, j \in A : f[i] = f[j] => i = j) /\ \A q \in B : \E i \in A : f[i] = q
    BY <1>2
  <2>3. f \in Bijection(A, B)
    <3> HIDE DEF f, A, B
    <3> QED BY <2>2 DEF Bijection, Injection, Surjection, IsInjective
  <2>4. Cardinality(B) = Cardinality(A)
    <3> HIDE DEF f, A, B
    <3> QED BY <2>1, <2>3, FS_Bijection DEF ExistsBijection
  <2>5. {i \in DOMAIN s : s[i] \in V} = A /\ {q \in DOMAIN val : val[q] \in V} = B
    BY <1>1, <1>2
  <2> QED BY <2>4, <2>5 DEF HowMany
<1>4. s \in [1 .. n -> Int] /\ s = [i \in 1 .. n |-> s[i]]
  BY <1>2
<1>5. s \in Seq(Int) /\ Len(s) = n /\ DOMAIN s = 1 .. n
  BY <1>4
<1>6. \A w : w \in {s[i] : i \in DOMAIN s} <=> w \in {val[q] : q \in P}
  <2>1. \A i \in 1 .. n : g[i] \in P /\ s[i] = val[g[i]]
    BY <1>2
  <2>2. \A q \in P : \E i \in 1 .. n : s[i] = val[q]
    BY <1>2, <2>1
  <2> SUFFICES ASSUME NEW w PROVE w \in {s[i] : i \in 1 .. n} <=> w \in {val[q] : q \in P}
    BY <1>5
  <2>3. ASSUME NEW i \in 1 .. n, w = s[i] PROVE \E q \in P : w = val[q]
    BY <2>1, <2>3
  <2>4. ASSUME NEW q \in P, w = val[q] PROVE \E i \in 1 .. n : w = s[i]
    BY <2>2, <2>4
  <2> QED BY <2>3, <2>4
<1>7. Range(s) = Range(val)
  BY <1>1, <1>6 DEF Range
<1> QED BY <1>1, <1>3, <1>4, <1>5, <1>7

(* So two that list the same have one median.                                *)
LEMMA SameMedian ==
  ASSUME NEW P, IsFiniteSet(P), NEW val \in [P -> Int], NEW s, Enumerates(s, val), NEW t, Enumerates(t, val)
  PROVE  Len(s) = Cardinality(P) /\ Len(t) = Cardinality(P) /\ TwiceMedian(s) = TwiceMedian(t)
<1>1. PICK n \in Nat : n = Cardinality(P)
  BY FS_CardinalityType
<1>2. PICK R : R = Range(val) /\ R \subseteq Int
  BY DEF Range
<1>3. /\ s \in Seq(Int) /\ Len(s) = n /\ DOMAIN s = 1 .. n /\ Range(s) = R
      /\ \A V : HowMany(s, V) = HowMany(val, V)
  BY <1>1, <1>2, ValuesAreKept
<1>a. Enumerates(t, val)
  OBVIOUS
<1>4. /\ t \in Seq(Int) /\ Len(t) = n /\ DOMAIN t = 1 .. n /\ Range(t) = R
      /\ \A V : HowMany(t, V) = HowMany(val, V)
  BY <1>1, <1>2, <1>a, ValuesAreKept
<1>5. ASSUME NEW v \in Int
      PROVE  /\ Cardinality({i \in DOMAIN s : s[i] < v}) = Cardinality({i \in DOMAIN t : t[i] < v})
             /\ Cardinality({i \in DOMAIN s : s[i] <= v}) = Cardinality({i \in DOMAIN t : t[i] <= v})
  <2> DEFINE V == {w \in Int : w < v}
             W == {w \in Int : w <= v}
  <2>1. /\ {i \in DOMAIN s : s[i] < v} = {i \in DOMAIN s : s[i] \in V}
        /\ {i \in DOMAIN t : t[i] < v} = {i \in DOMAIN t : t[i] \in V}
        /\ {i \in DOMAIN s : s[i] <= v} = {i \in DOMAIN s : s[i] \in W}
        /\ {i \in DOMAIN t : t[i] <= v} = {i \in DOMAIN t : t[i] \in W}
    BY <1>3, <1>4
  <2>2. HowMany(s, V) = HowMany(t, V) /\ HowMany(s, W) = HowMany(t, W)
    <3> HIDE DEF V, W
    <3> QED BY <1>3, <1>4
  <2> HIDE DEF V, W
  <2> QED BY <2>1, <2>2 DEF HowMany
<1>6. ASSUME NEW k PROVE KthOf(s, k) = KthOf(t, k)
  <2> DEFINE In(u, v) == /\ Cardinality({i \in DOMAIN u : u[i] < v}) < k
                         /\ k <= Cardinality({i \in DOMAIN u : u[i] <= v})
  <2>1. KthOf(s, k) = (CHOOSE v \in R : In(s, v)) /\ KthOf(t, k) = (CHOOSE v \in R : In(t, v))
    BY <1>3, <1>4 DEF KthOf, Range
  <2>2. \A v \in R : In(s, v) <=> In(t, v)
    BY <1>2, <1>5
  <2> HIDE DEF In
  <2> QED BY <2>1, <2>2
<1>7. TwiceMedian(s) = TwiceMedian(t)
  BY <1>3, <1>4, <1>6 DEF TwiceMedian
<1> QED BY <1>1, <1>3, <1>4, <1>7

(* What lists nothing is empty; one more value is listed at the end.         *)
LEMMA NoneListed ==
  ASSUME NEW val, DOMAIN val = {}
  PROVE  Enumerates(<<>>, val)
<1>1. Cardinality(DOMAIN val) = 0
  BY FS_EmptySet
<1> DEFINE g == [i \in 1 .. 0 |-> val]
<1>2. g \in [1 .. 0 -> DOMAIN val] /\ <<>> = [i \in 1 .. 0 |-> val[g[i]]]
  OBVIOUS
<1> QED BY <1>1, <1>2 DEF Enumerates

LEMMA OneMoreListed ==
  ASSUME NEW P, IsFiniteSet(P), NEW val \in [P -> Int], NEW s, Enumerates(s, val), NEW x, x \notin P, NEW v \in Int,
         NEW more, more = [y \in P \cup {x} |-> IF y = x THEN v ELSE val[y]]
  PROVE  Enumerates(Append(s, v), more)
<1>1. PICK n \in Nat : n = Cardinality(P) /\ DOMAIN val = P
  BY FS_CardinalityType
<1>2. PICK g \in [1 .. n -> P] : /\ \A i, j \in 1 .. n : g[i] = g[j] => i = j
                                 /\ \A q \in P : \E i \in 1 .. n : g[i] = q
                                 /\ s = [i \in 1 .. n |-> val[g[i]]]
  BY ONLY <1>1, Enumerates(s, val) DEF Enumerates
<1>3. PICK Q : Q = P \cup {x} /\ Cardinality(Q) = n + 1 /\ DOMAIN more = Q
  BY <1>1, FS_AddElement
<1> DEFINE h == [i \in 1 .. n + 1 |-> IF i = n + 1 THEN x ELSE g[i]]
<1>4. \A i \in 1 .. n + 1 : i # n + 1 => i \in 1 .. n
  OBVIOUS
<1>5. h \in [1 .. n + 1 -> Q]
  BY <1>3, <1>4
<1>6. \A i, j \in 1 .. n + 1 : h[i] = h[j] => i = j
  BY <1>2, <1>4
<1>7. \A q \in Q : \E i \in 1 .. n + 1 : h[i] = q
  <2> SUFFICES ASSUME NEW q \in Q PROVE \E i \in 1 .. n + 1 : h[i] = q
    OBVIOUS
  <2>1. CASE q = x
    BY <2>1
  <2>2. CASE q # x
    <3>1. PICK i \in 1 .. n : g[i] = q
      BY <1>2, <1>3, <2>2
    <3>2. i \in 1 .. n + 1 /\ i # n + 1
      OBVIOUS
    <3> QED BY <3>1, <3>2
  <2> QED BY <2>1, <2>2
<1>8. Append(s, v) = [i \in 1 .. n + 1 |-> more[h[i]]]
  <2>1. s \in Seq(Int) /\ Len(s) = n
    <3>1. s \in [1 .. n -> Int]
      BY <1>2
    <3> QED BY <3>1
  <2>2. Append(s, v) \in Seq(Int) /\ Len(Append(s, v)) = n + 1
    BY <2>1
  <2>3. DOMAIN Append(s, v) = 1 .. n + 1 /\ \A i \in 1 .. n + 1 : Append(s, v)[i] = IF i = n + 1 THEN v ELSE s[i]
    BY <2>1
  <2>4. \A i \in 1 .. n + 1 : more[h[i]] = IF i = n + 1 THEN v ELSE s[i]
    <3> SUFFICES ASSUME NEW i \in 1 .. n + 1 PROVE more[h[i]] = IF i = n + 1 THEN v ELSE s[i]
      OBVIOUS
    <3>1. CASE i = n + 1
      BY <3>1
    <3>2. CASE i # n + 1
      <4>1. h[i] = g[i] /\ g[i] \in P /\ g[i] # x /\ s[i] = val[g[i]]
        BY <1>2, <1>4, <3>2
      <4> QED BY <3>2, <4>1
    <3> QED BY <3>1, <3>2
  <2>5. \A i \in 1 .. n + 1 : Append(s, v)[i] = more[h[i]]
    BY <2>3, <2>4
  <2>6. Append(s, v) = [i \in 1 .. n + 1 |-> Append(s, v)[i]]
    <3> DEFINE a == Append(s, v)
    <3>1. a \in Seq(Int) /\ Len(a) = n + 1
      BY <2>2
    <3> HIDE DEF a
    <3>2. a \in [1 .. n + 1 -> Int]
      BY <3>1
    <3> QED BY <3>2 DEF a
  <2> HIDE DEF h
  <2> QED BY <2>5, <2>6
<1>9. PICK z : z = Append(s, v)
  OBVIOUS
<1> HIDE DEF h
<1>10. Enumerates(z, more)
  <2>1. PICK m : m = Cardinality(DOMAIN more) /\ m = n + 1 /\ DOMAIN more = Q
    BY <1>3
  <2>2. h \in [1 .. m -> Q] /\ z = [i \in 1 .. m |-> more[h[i]]]
    BY ONLY <1>5, <1>8, <1>9, <2>1
  <2>3. (\A i, j \in 1 .. m : h[i] = h[j] => i = j) /\ \A q \in Q : \E i \in 1 .. m : h[i] = q
    BY ONLY <1>6, <1>7, <2>1
  <2>4. \E g_1 \in [1 .. Cardinality(DOMAIN more) -> DOMAIN more] :
          /\ \A i, j \in 1 .. Cardinality(DOMAIN more) : g_1[i] = g_1[j] => i = j
          /\ \A q \in DOMAIN more : \E i \in 1 .. Cardinality(DOMAIN more) : g_1[i] = q
          /\ z = [i \in 1 .. Cardinality(DOMAIN more) |-> more[g_1[i]]]
    BY ONLY <2>1, <2>2, <2>3
  <2> QED BY ONLY <2>1, <2>4 DEF Enumerates
<1> QED BY <1>9, <1>10

(* Nothing adds up to nothing.                                               *)
LEMMA TotalOfNone ==
  ASSUME NEW f \in [{} -> Int]
  PROVE  TotalOf(f) = 0
<1>1. PICK D : D = {} /\ IsFiniteSet(D) /\ f \in [D -> Int]
  BY FS_EmptySet
<1>2. PICK g : AddsUp(g, f, D) /\ TotalOf(f) = g[D]
  BY <1>1, TotalAddsUp
<1> QED BY <1>1, <1>2 DEF AddsUp

(* Naturals add up to a natural.                                             *)
LEMMA TotalIsNat ==
  ASSUME NEW D, IsFiniteSet(D), NEW f \in [D -> Nat]
  PROVE  TotalOf(f) \in Nat
<1>1. f \in [D -> Int]
  OBVIOUS
<1>2. PICK g : AddsUp(g, f, D) /\ TotalOf(f) = g[D]
  BY <1>1, TotalAddsUp
<1>3. /\ g[{}] = 0
      /\ \A s \in SUBSET D : \A y \in s : g[s] = f[y] + g[s \ {y}]
  BY ONLY <1>2 DEF AddsUp
<1> DEFINE G == {s \in SUBSET D : g[s] \in Nat}
<1>4. {} \in G
  BY <1>3
<1>5. ASSUME NEW s \in SUBSET D, NEW y \in s, s \ {y} \in G PROVE s \in G
  <2>1. g[s] = f[y] + g[s \ {y}] /\ f[y] \in Nat /\ g[s \ {y}] \in Nat
    BY <1>3, <1>5
  <2> QED BY <2>1
<1>6. \A s \in SUBSET D : s \in G
  <2> HIDE DEF G
  <2> QED BY <1>4, <1>5, EachSubset
<1>7. D \in G
  <2> HIDE DEF G
  <2> QED BY <1>6
<1> QED BY <1>2, <1>7

=============================================================================
