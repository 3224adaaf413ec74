------------------------------- MODULE Rounds -------------------------------
(***************************************************************************)
(* Facts about loops that the proofs share.  Where the code goes through a *)
(* list or raises to a power, the modules have a recursive function over   *)
(* the rounds.  Iteration says that such a function exists, RoundByRound   *)
(* is induction over its rounds: if some round failed, there would be a    *)
(* first one that does.                                                    *)
(***************************************************************************)
EXTENDS Integers, WellFoundedInduction, TLAPS

\* A set of natural numbers has a least one.
LEMMA LeastOne ==
    ASSUME NEW numbers, numbers \subseteq Nat, numbers # {}
    PROVE  \E least \in numbers : \A other \in numbers : least <= other
<1>1. PICK least \in numbers : \A other \in numbers : ~(<<other, least>> \in OpToRel(<, Nat))
  BY NatLessThanWellFounded, WFMin
<1>2. \A other \in numbers : least <= other
  <2> TAKE other \in numbers
  <2>1. least \in Nat /\ other \in Nat
    OBVIOUS
  <2>2. ~(other < least)
    BY <1>1, <2>1 DEF OpToRel
  <2> QED
    BY <2>1, <2>2
<1> QED
  BY <1>2

\* And so has a set of places in a sequence.
LEMMA LeastPlace ==
    ASSUME NEW n \in Nat, NEW places, places \subseteq 1 .. n, places # {}
    PROVE  \E at \in places : \A other \in places : at <= other
<1>1. places \subseteq Nat
  OBVIOUS
<1> QED
  BY <1>1, LeastOne

\* What holds before the first round, and after each round if it did before,
\* holds after all of them.
LEMMA RoundByRound ==
    ASSUME NEW n \in Nat, NEW rounds, 0 \in rounds, \A i \in 1 .. n : i - 1 \in rounds => i \in rounds
    PROVE  \A i \in 0 .. n : i \in rounds
<1> DEFINE missing == (0 .. n) \ rounds
<1> SUFFICES ASSUME missing # {} PROVE FALSE
  OBVIOUS
<1>1. missing \subseteq Nat
  OBVIOUS
<1> HIDE DEF missing
<1>2. PICK i \in missing : \A other \in missing : i <= other
  BY <1>1, LeastOne
<1>3. i \in 1 .. n /\ i - 1 \in 0 .. n /\ ~(i <= i - 1)
  BY <1>2 DEF missing
<1>4. i - 1 \in rounds /\ i \notin rounds
  BY <1>2, <1>3 DEF missing
<1> QED
  BY <1>3, <1>4

\* The rounds of a loop: from `start`, each by `step` from the one before.
IsRun(run, n, S, start, step) ==
    /\ run \in [0 .. n -> S]
    /\ run[0] = start
    /\ \A i \in 1 .. n : run[i] = step[i][run[i - 1]]

\* Whatever the start and the steps, there is such a run.
LEMMA Iteration ==
    ASSUME NEW n \in Nat, NEW S, NEW start \in S, NEW step \in [1 .. n -> [S -> S]]
    PROVE  \E run : IsRun(run, n, S, start, step)
<1> DEFINE rounds == {m \in 0 .. n : \E run : IsRun(run, m, S, start, step)}
<1>1. 0 \in rounds
  <2> DEFINE run == [i \in 0 .. 0 |-> start]
  <2>1. IsRun(run, 0, S, start, step)
    BY DEF IsRun
  <2> QED
    BY <2>1
<1>2. ASSUME NEW m \in 1 .. n, m - 1 \in rounds PROVE m \in rounds
  <2>1. m \in 0 .. n /\ m - 1 \in 0 .. n
    OBVIOUS
  <2>3. PICK before : IsRun(before, m - 1, S, start, step)
    BY <1>2
  <2>4. before[m - 1] \in S
    BY <2>1, <2>3 DEF IsRun
  <2>5. step[m][before[m - 1]] \in S
    BY <2>1, <2>4
  <2> DEFINE run == [i \in 0 .. m |-> IF i = m THEN step[m][before[m - 1]] ELSE before[i]]
  <2>6. run \in [0 .. m -> S]
    BY <2>1, <2>3, <2>5 DEF IsRun
  <2>7. run[0] = start
    BY <2>1, <2>3 DEF IsRun
  <2>8. \A i \in 1 .. m : run[i] = step[i][run[i - 1]]
    <3> TAKE i \in 1 .. m
    <3>1. CASE i = m
      BY <2>1, <3>1
    <3>2. CASE i # m
      <4>1. i \in 1 .. m - 1 /\ i - 1 \in 0 .. m /\ i - 1 # m
        BY <2>1, <3>2
      <4>2. before[i] = step[i][before[i - 1]]
        BY <2>3, <4>1 DEF IsRun
      <4> QED
        BY <3>2, <4>1, <4>2
    <3> QED
      BY <3>1, <3>2
  <2>9. IsRun(run, m, S, start, step)
    BY <2>6, <2>7, <2>8 DEF IsRun
  <2> QED
    BY <2>1, <2>9
<1> HIDE DEF rounds
<1>3. \A m \in 1 .. n : m - 1 \in rounds => m \in rounds
  BY <1>2
<1>4. \A m \in 0 .. n : m \in rounds
  BY <1>1, <1>3, RoundByRound
<1>5. n \in rounds
  BY <1>4
<1> QED
  BY <1>5 DEF rounds

=============================================================================
