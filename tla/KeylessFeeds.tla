---------------------------- MODULE KeylessFeeds ----------------------------
(***************************************************************************)
(* The calls to the sources that need no key: Yahoo, the web search and the *)
(* article reader (backend/providers).  Each has a pool of workers, a hard  *)
(* deadline on every call and a circuit breaker.  A deadline abandons the   *)
(* work, it does not stop it, and nothing ends work that hangs.  Times are  *)
(* ticks that remain.                                                       *)
(***************************************************************************)
EXTENDS Integers, Sequences, FiniteSets, SequencesExt

CONSTANTS
  Callers,                                   (* the threads of the server     *)
  Workers,                                   (* max_workers                   *)
  CALL_TIMEOUT,                              (* the deadline of a call        *)
  BREAKER_THRESHOLD, BREAKER_COOLDOWN,
  MaxRounds                                  (* bounds `rounds`               *)

ASSUME FeedAssumption ==
  /\ {Workers, CALL_TIMEOUT, BREAKER_THRESHOLD, BREAKER_COOLDOWN} \subseteq Nat \ {0}
  /\ IsFiniteSet(Callers) /\ Callers # {} /\ MaxRounds \in Nat

VARIABLES
  failures, openFor,  (* the breaker                                          *)
  asking,             (* who was let through and has not submitted yet        *)
  deadline,           (* [caller -> ticks until its call is given up, or -1]  *)
  work,               (* what was submitted, in that order: whose it is,      *)
                      (* whether it is waited for, and whether it runs        *)
  rounds              (* the cooldowns that ran out since a call was last     *)
                      (* answered, of which the code keeps no count           *)
feedVars == <<failures, openFor, asking, deadline, work, rounds>>

Free == -1
Waiting(c) == deadline[c] # Free
Busy == {i \in DOMAIN work : work[i].runs}

-----------------------------------------------------------------------------
(* _record: the breaker forgets on a success and opens at the threshold.     *)
Record(ok) ==
  IF ok THEN failures' = 0 /\ openFor' = 0 /\ rounds' = 0
  ELSE /\ failures' = failures + 1
       /\ openFor' = IF failures' >= BREAKER_THRESHOLD THEN BREAKER_COOLDOWN ELSE openFor
       /\ UNCHANGED rounds

(* Mutant: the breaker is not asked.                                         *)
Available_Always == TRUE

Available == openFor = 0

(* _bounded, _run, extract: a call is refused, or let through and submitted, *)
(* whatever the breaker hears in between.                                    *)
LetThrough(c) ==
  /\ ~Waiting(c) /\ c \notin asking /\ Available
  /\ asking' = asking \cup {c}
  /\ UNCHANGED <<failures, openFor, deadline, work, rounds>>
Submits(c) ==
  /\ c \in asking /\ asking' = asking \ {c}
  /\ deadline' = [deadline EXCEPT ![c] = CALL_TIMEOUT]
  /\ work' = Append(work, [of |-> c, wanted |-> TRUE, runs |-> FALSE])
  /\ UNCHANGED <<failures, openFor, rounds>>
StartsWork(i) ==
  /\ ~work[i].runs /\ Cardinality(Busy) < Workers
  /\ \A k \in 1 .. i - 1 : work[k].runs
  /\ work' = [work EXCEPT ![i].runs = TRUE]
  /\ UNCHANGED <<failures, openFor, asking, deadline, rounds>>

(* The work ends with rows, with the error that says there are none, which   *)
(* is an answer, or with another.  Nobody hears of it after the deadline.    *)
Ends(i, how) ==
  /\ i \in Busy
  /\ work' = RemoveAt(work, i) /\ UNCHANGED asking
  /\ IF work[i].wanted THEN deadline' = [deadline EXCEPT ![work[i].of] = Free] /\ Record(how # "error")
                       ELSE UNCHANGED <<failures, openFor, deadline, rounds>>
TimesOut(c) ==
  /\ deadline[c] = 0
  /\ deadline' = [deadline EXCEPT ![c] = Free]
  /\ work' = [i \in DOMAIN work |-> IF work[i].of = c THEN [work[i] EXCEPT !.wanted = FALSE] ELSE work[i]]
  /\ Record(FALSE) /\ UNCHANGED asking

Less(n) == IF n > 0 THEN n - 1 ELSE n
SecondPasses ==
  /\ \A c \in Callers : deadline[c] # 0
  /\ openFor = 1 => rounds < MaxRounds
  /\ openFor' = Less(openFor)
  /\ rounds' = IF openFor = 1 THEN rounds + 1 ELSE rounds
  /\ deadline' = [c \in Callers |-> Less(deadline[c])]
  /\ UNCHANGED <<failures, asking, work>>

FeedInit ==
  /\ failures = 0 /\ openFor = 0 /\ asking = {} /\ rounds = 0
  /\ deadline = [c \in Callers |-> Free] /\ work = <<>>
FeedNext ==
  \/ \E c \in Callers : LetThrough(c) \/ Submits(c) \/ TimesOut(c)
  \/ \E i \in DOMAIN work : StartsWork(i) \/ \E how \in {"rows", "no results", "error"} : Ends(i, how)
  \/ SecondPasses

-----------------------------------------------------------------------------
(* What is behind the pool grows by one call of every caller at most for     *)
(* each cooldown that runs out before the feed answers again: whatever hangs *)
(* and whoever was let through as the breaker opened, the calls of one       *)
(* cooldown are those that were out when it began, and an answer, even one   *)
(* that closes the breaker early, leaves less than one call of every caller  *)
(* that nobody waits for.                                                    *)
BacklogIsBounded ==
  Len(work) - Cardinality(Busy) <= (rounds + 2) * Cardinality(Callers) + BREAKER_THRESHOLD - 2

(* What does not hold: that it stays small for good.  A feed that hangs      *)
(* keeps all its workers, and every cooldown adds to what waits for them.    *)
BacklogStaysSmall ==
  Len(work) - Cardinality(Busy) <= 2 * Cardinality(Callers) + BREAKER_THRESHOLD - 2
=============================================================================
