---------------------------- MODULE RouterProofs ----------------------------
(***************************************************************************)
(* The radix trie and the static map answer what the linear scan answers:  *)
(* ResolveAgrees, for any routes, registered in any order, and any path.   *)
(*                                                                         *)
(* Both sides are brought to one notion, that a pattern reads a path token *)
(* by token (Reads): a byte takes itself, a parameter what is there before *)
(* the next slash.  From there                                             *)
(*                                                                         *)
(*  - the linear scan, which splits at slashes and compares segments,      *)
(*    accepts what a pattern reads, with the same values (LinearReads);    *)
(*  - the arena stays a tree of words through every insert (InsertTrie):   *)
(*    each node stands for the front of a pattern, every pattern that was  *)
(*    inserted has its node, and one node only (Spelled, Known);           *)
(*  - a lookup answers, of the patterns with a value that read the path,   *)
(*    the one that is preferred, and leaves no parameter behind where it   *)
(*    finds none (Answers); by induction over the depth of its calls, each *)
(*    of which goes on along the words (Deep);                             *)
(*  - in sorted routes, of the patterns that read one path the first is    *)
(*    the preferred one (PreferredBelow), and a static route before all.  *)
(*                                                                         *)
(* RouterIInv keeps the patterns well formed and, after freeze, the routes *)
(* sorted and the map and the trie built from them.                        *)
(***************************************************************************)
EXTENDS Router, SequenceTheorems, Rounds

\* End is the place of the next stop, or the end.
LEMMA EndIs ==
    ASSUME NEW T, NEW s \in Seq(T), NEW from \in 0 .. Len(s), NEW stops
    PROVE  /\ End(s, from, stops) \in from .. Len(s)
           /\ \A i \in from + 1 .. End(s, from, stops) : s[i] \notin stops
           /\ End(s, from, stops) < Len(s) => s[End(s, from, stops) + 1] \in stops
<1>1. PICK n \in Nat : n = Len(s)
  OBVIOUS
<1> DEFINE ends == {m \in from .. n : m = n \/ s[m + 1] \in stops}
<1>2. n \in ends /\ ends \subseteq Nat
  BY <1>1
<1>3. PICK end \in ends : \A m \in ends : end <= m
  <2> HIDE DEF ends
  <2> QED
    BY <1>2, LeastOne
<1>4. \A i \in from + 1 .. end : s[i] \notin stops
  <2> SUFFICES ASSUME NEW i \in from + 1 .. end, s[i] \in stops PROVE FALSE
    OBVIOUS
  <2>1. i - 1 \in from .. n /\ s[(i - 1) + 1] \in stops
    BY <1>1, <1>3
  <2>2. end <= i - 1
    BY <1>3, <2>1
  <2> QED
    BY <1>3, <2>2
<1>5. \E m \in from .. Len(s) :
          /\ \A i \in from + 1 .. m : s[i] \notin stops
          /\ m < Len(s) => s[m + 1] \in stops
  BY <1>1, <1>3, <1>4
<1> QED
  BY <1>5 DEF End

\* common_prefix_len is the longest that is shared.
CommonAt(prefix, s, from, n) ==
    /\ n \in 0 .. Len(prefix) /\ from + n <= Len(s)
    /\ \A i \in 1 .. n : prefix[i] = s[from + i]
    /\ n < Len(prefix) /\ from + n < Len(s) => prefix[n + 1] # s[from + n + 1]

\* common_prefix_len is how much two sequences share from a place on.
LEMMA CommonIs ==
    ASSUME NEW prefix \in Seq(PatternToken), NEW s \in Seq(PatternToken), NEW from \in 0 .. Len(s)
    PROVE  CommonAt(prefix, s, from, common_prefix_len(prefix, s, from))
<1>1. PICK m \in Nat : m = Len(s)
  OBVIOUS
<1>2. PICK k \in Nat : k = Len(prefix)
  OBVIOUS
<1> DEFINE ends == {n \in 0 .. k : n = k \/ from + n = m \/ prefix[n + 1] # s[from + n + 1]}
<1>3. k \in ends /\ ends \subseteq Nat
  OBVIOUS
<1>4. PICK end \in ends : \A n \in ends : end <= n
  <2> HIDE DEF ends
  <2> QED
    BY <1>3, LeastOne
<1>5. from + end <= m
  <2> SUFFICES ASSUME from + end > m PROVE FALSE
    BY <1>1
  <2>1. m - from \in ends
    <3>1. m \in Nat /\ from \in Nat /\ from <= m /\ end \in Nat /\ end <= k
      BY <1>1, <1>2, <1>4
    <3>2. m - from \in 0 .. k /\ from + (m - from) = m
      BY <1>2, <3>1
    <3> QED
      BY <3>2
  <2>2. end <= m - from
    <3> HIDE DEF ends
    <3> QED
      BY <1>4, <2>1
  <2>3. m \in Nat /\ from \in Nat /\ end \in Nat
    BY <1>1, <1>4
  <2> QED
    BY <2>2, <2>3
<1>6. \A i \in 1 .. end : prefix[i] = s[from + i]
  <2> SUFFICES ASSUME NEW i \in 1 .. end, prefix[i] # s[from + i] PROVE FALSE
    OBVIOUS
  <2>1. i - 1 \in ends
    BY <1>4
  <2>2. end <= i - 1
    BY <1>4, <2>1
  <2> QED
    BY <1>4, <2>2
<1>7. end \in 0 .. Len(prefix) /\ CommonAt(prefix, s, from, end)
  BY <1>1, <1>2, <1>4, <1>5, <1>6 DEF CommonAt
<1>8. common_prefix_len(prefix, s, from) = CHOOSE n \in 0 .. Len(prefix) : CommonAt(prefix, s, from, n)
  BY DEF common_prefix_len, CommonAt
<1> QED
  BY <1>7, <1>8

-----------------------------------------------------------------------------
(* Segments *)

\* The token is added to the parts, as a byte of the last or as a new cut.
Cut(parts, token) ==
    IF token = "/" THEN Append(parts, <<>>)
    ELSE [parts EXCEPT ![Len(parts)] = Append(@, token)]

Parts == Seq(Seq(PatternToken)) \ {<<>>}

\* split[n] has the segments of the first n tokens.
IsSplit(split, s) ==
    /\ split \in [0 .. Len(s) -> Parts]
    /\ split[0] = << <<>> >>
    /\ \A n \in 1 .. Len(s) : split[n] = Cut(split[n - 1], s[n])

\* A token more: a slash begins a segment, another token goes to the last one.
LEMMA CutOk ==
    ASSUME NEW parts \in Parts, NEW token \in PatternToken
    PROVE  /\ Cut(parts, token) \in Parts
           /\ token = "/" => /\ Len(Cut(parts, token)) = Len(parts) + 1
                             /\ \A i \in 1 .. Len(parts) : Cut(parts, token)[i] = parts[i]
                             /\ Cut(parts, token)[Len(parts) + 1] = <<>>
           /\ token # "/" => /\ Len(Cut(parts, token)) = Len(parts)
                             /\ \A i \in 1 .. Len(parts) - 1 : Cut(parts, token)[i] = parts[i]
                             /\ Cut(parts, token)[Len(parts)] = Append(parts[Len(parts)], token)
<1>1. PICK k \in Nat : k = Len(parts)
  BY DEF Parts
<1>2. parts \in Seq(Seq(PatternToken)) /\ k > 0 /\ parts[k] \in Seq(PatternToken)
  BY <1>1 DEF Parts
<1>3. Append(parts[k], token) \in Seq(PatternToken) /\ <<>> \in Seq(PatternToken)
  BY <1>2
<1>4. CASE token = "/"
  BY <1>1, <1>2, <1>3, <1>4 DEF Cut, Parts
<1>5. CASE token # "/"
  <2>1. Cut(parts, token) = [parts EXCEPT ![k] = Append(@, token)]
    BY <1>1, <1>5 DEF Cut
  <2>2. Cut(parts, token) \in Seq(Seq(PatternToken)) /\ Len(Cut(parts, token)) = k
    BY <1>1, <1>2, <1>3, <2>1
  <2> QED
    BY <1>1, <1>2, <1>3, <1>5, <2>1, <2>2 DEF Parts
<1> QED
  BY <1>4, <1>5

\* A slash leaves the segments and begins an empty one.
LEMMA CutAtSlash ==
    ASSUME NEW parts \in Parts
    PROVE  /\ Len(Cut(parts, "/")) = Len(parts) + 1
           /\ \A i \in 1 .. Len(parts) : Cut(parts, "/")[i] = parts[i]
           /\ Cut(parts, "/")[Len(parts) + 1] = <<>>
<1>1. "/" \in PatternToken
  BY RouterAssumption DEF PatternToken
<1> QED
  BY <1>1, CutOk

\* Another token is put behind the last segment.
LEMMA CutAtByte ==
    ASSUME NEW parts \in Parts, NEW token \in PatternToken, token # "/"
    PROVE  /\ Len(Cut(parts, token)) = Len(parts)
           /\ \A i \in 1 .. Len(parts) - 1 : Cut(parts, token)[i] = parts[i]
           /\ Cut(parts, token)[Len(parts)] = Append(parts[Len(parts)], token)
  BY CutOk

\* Segments splits token by token.
LEMMA SegmentsSplit ==
    ASSUME NEW s \in Seq(PatternToken)
    PROVE  \E split : IsSplit(split, s) /\ Segments(s) = split[Len(s)]
<1>1. PICK last \in Nat : last = Len(s)
  OBVIOUS
<1>2. \A n \in 1 .. last : s[n] \in PatternToken
  BY <1>1
<1> DEFINE step == [n \in 1 .. last |-> [parts \in Parts |-> Cut(parts, s[n])]]
<1>3. step \in [1 .. last -> [Parts -> Parts]]
  BY <1>2, CutOk
<1>4. << <<>> >> \in Parts
  BY DEF Parts
<1>5. PICK run : IsRun(run, last, Parts, << <<>> >>, step)
  <2> HIDE DEF step
  <2> QED
    BY <1>3, <1>4, Iteration
<1>6. \A n \in 1 .. last : run[n] = Cut(run[n - 1], s[n])
  <2> TAKE n \in 1 .. last
  <2>1. n - 1 \in 0 .. last
    OBVIOUS
  <2>2. run[n - 1] \in Parts
    BY <1>5, <2>1 DEF IsRun
  <2> QED
    BY <1>5, <2>2 DEF IsRun
<1> DEFINE body(f, n) == IF n = 0 THEN << <<>> >>
                         ELSE IF s[n] = "/" THEN Append(f[n - 1], <<>>)
                         ELSE [f[n - 1] EXCEPT ![Len(f[n - 1])] = Append(@, s[n])]
           split[n \in 0 .. Len(s)] == body(split, n)
<1>7. run = [n \in 0 .. Len(s) |-> body(run, n)]
  <2>1. run = [n \in 0 .. last |-> run[n]] /\ run[0] = << <<>> >>
    BY <1>5 DEF IsRun
  <2>2. \A n \in 0 .. last : n = 0 \/ n \in 1 .. last
    OBVIOUS
  <2>3. \A n \in 0 .. last : run[n] = body(run, n)
    BY <1>6, <2>1, <2>2 DEF Cut
  <2> HIDE DEF body
  <2> QED
    BY <1>1, <2>1, <2>3
<1>8. split = [n \in 0 .. Len(s) |-> body(split, n)]
  BY <1>7
<1>9. Segments(s) = split[Len(s)]
  BY DEF Segments
<1> HIDE DEF split
<1>10. \A n \in 0 .. last : split[n] = body(split, n)
  <2> DEFINE round(n) == body(split, n)
  <2>1. split = [n \in 0 .. Len(s) |-> round(n)]
    BY <1>8
  <2> HIDE DEF round
  <2>2. \A n \in 0 .. last : split[n] = round(n)
    BY <1>1, <2>1
  <2> QED
    BY <2>2 DEF round
<1> DEFINE rounds == {n \in 0 .. last : split[n] = run[n]}
<1>11. 0 \in rounds
  <2>1. 0 \in 0 .. last
    OBVIOUS
  <2>2. split[0] = body(split, 0)
    BY <1>10, <2>1, Zenon
  <2>3. split[0] = run[0]
    BY <1>5, <2>2 DEF IsRun
  <2> QED
    BY <2>1, <2>3
<1>12. ASSUME NEW n \in 1 .. last, n - 1 \in rounds PROVE n \in rounds
  <2>1. n \in 0 .. last /\ n # 0
    OBVIOUS
  <2>2. split[n] = Cut(split[n - 1], s[n])
    BY <1>10, <2>1 DEF Cut
  <2> QED
    BY <1>6, <1>12, <2>1, <2>2
<1>13. \A n \in 0 .. last : n \in rounds
  <2> HIDE DEF rounds
  <2> QED
    BY <1>11, <1>12, RoundByRound
<1>14. last \in rounds
  BY <1>13
<1>15. IsSplit(run, s)
  BY <1>1, <1>5, <1>6 DEF IsSplit, IsRun
<1> QED
  BY <1>1, <1>9, <1>14, <1>15

\* u is the front of w.
Starts(u, w) == Len(u) <= Len(w) /\ \A i \in 1 .. Len(u) : w[i] = u[i]

\* What more tokens do to the segments: the last goes on, and others follow.
Grown(parts, more) ==
    /\ Len(parts) <= Len(more)
    /\ \A i \in 1 .. Len(parts) - 1 : more[i] = parts[i]
    /\ Starts(parts[Len(parts)], more[Len(parts)])

\* There is a segment at least, and each is a sequence of tokens.
LEMMA PartsOk ==
    ASSUME NEW parts \in Parts
    PROVE  /\ Len(parts) \in Nat /\ Len(parts) > 0
           /\ \A i \in 1 .. Len(parts) : parts[i] \in Seq(PatternToken)
           /\ parts[Len(parts)] \in Seq(PatternToken)
<1>1. parts \in Seq(Seq(PatternToken)) /\ parts # <<>>
  BY DEF Parts
<1>2. PICK k \in Nat : k = Len(parts)
  BY <1>1
<1>3. k > 0 /\ \A i \in 1 .. k : parts[i] \in Seq(PatternToken)
  BY <1>1, <1>2
<1> QED
  BY <1>2, <1>3

\* A word is at its own front,
LEMMA StartsItself ==
    ASSUME NEW u \in Seq(PatternToken)
    PROVE  Starts(u, u)
  BY DEF Starts

\* at the front of itself with one more token,
LEMMA StartsAppended ==
    ASSUME NEW u \in Seq(PatternToken), NEW t \in PatternToken
    PROVE  Starts(u, Append(u, t))
<1>1. PICK k \in Nat : k = Len(u)
  OBVIOUS
<1>2. Len(Append(u, t)) = k + 1 /\ \A i \in 1 .. k : Append(u, t)[i] = u[i]
  BY <1>1, AppendProperties
<1> QED
  BY <1>1, <1>2 DEF Starts

\* and what is at the front of a front is at the front.
LEMMA StartsFurther ==
    ASSUME NEW u \in Seq(PatternToken), NEW v \in Seq(PatternToken), NEW w \in Seq(PatternToken), Starts(u, v), Starts(v, w)
    PROVE  Starts(u, w)
<1>1. Len(u) \in Nat /\ Len(v) \in Nat /\ Len(w) \in Nat
  OBVIOUS
<1> QED
  BY <1>1 DEF Starts

\* A token more only adds to the segments,
LEMMA GrownByCut ==
    ASSUME NEW parts \in Parts, NEW token \in PatternToken
    PROVE  Grown(parts, Cut(parts, token))
<1>1. PICK k \in Nat : k = Len(parts) /\ k > 0
  BY PartsOk
<1>2. parts[k] \in Seq(PatternToken)
  BY <1>1, PartsOk
<1>3. Starts(parts[k], parts[k]) /\ Starts(parts[k], Append(parts[k], token))
  BY <1>2, StartsItself, StartsAppended
<1>4. CASE token = "/"
  <2>1. /\ Len(Cut(parts, token)) = k + 1
        /\ \A i \in 1 .. k : Cut(parts, token)[i] = parts[i]
    BY <1>1, <1>4, CutOk
  <2> QED
    BY <1>1, <1>3, <2>1 DEF Grown
<1>5. CASE token # "/"
  <2>1. /\ Len(Cut(parts, token)) = k
        /\ \A i \in 1 .. k - 1 : Cut(parts, token)[i] = parts[i]
        /\ Cut(parts, token)[k] = Append(parts[k], token)
    BY <1>1, <1>5, CutOk
  <2> QED
    BY <1>1, <1>3, <2>1 DEF Grown
<1> QED
  BY <1>4, <1>5

\* and additions add up.
LEMMA GrownOn ==
    ASSUME NEW a \in Parts, NEW b \in Parts, NEW c \in Parts, Grown(a, b), Grown(b, c)
    PROVE  Grown(a, c)
<1>1. PICK k \in Nat : k = Len(a) /\ k > 0
  BY PartsOk
<1>2. PICK m \in Nat : m = Len(b) /\ m >= k
  BY <1>1, PartsOk DEF Grown
<1>3. PICK n \in Nat : n = Len(c) /\ n >= m
  BY <1>2, PartsOk DEF Grown
<1>4. a[k] \in Seq(PatternToken) /\ b[k] \in Seq(PatternToken) /\ c[k] \in Seq(PatternToken)
  <2>1. k \in 1 .. k /\ k \in 1 .. m /\ k \in 1 .. n
    BY <1>1, <1>2, <1>3
  <2> QED
    BY <1>1, <1>2, <1>3, <2>1, PartsOk
<1>5. Starts(b[k], c[k])
  <2>1. CASE k = m
    BY <1>2, <2>1 DEF Grown
  <2>2. CASE k < m
    <3>1. k \in 1 .. m - 1
      BY <1>1, <2>2
    <3>2. c[k] = b[k]
      BY <1>2, <3>1 DEF Grown
    <3> QED
      BY <1>4, <3>2, StartsItself
  <2> QED
    BY <1>2, <2>1, <2>2
<1>6. Starts(a[k], c[k])
  <2>1. Starts(a[k], b[k])
    BY <1>1 DEF Grown
  <2> QED
    BY <1>4, <1>5, <2>1, StartsFurther
<1>7. \A i \in 1 .. k - 1 : c[i] = a[i]
  <2>1. \A i \in 1 .. k - 1 : i \in 1 .. m - 1
    BY <1>2
  <2> QED
    BY <1>1, <1>2, <2>1 DEF Grown
<1> QED
  BY <1>1, <1>2, <1>3, <1>6, <1>7 DEF Grown

\* The segments of a front are those of the whole, the last one up to its end.
LEMMA SplitGrows ==
    ASSUME NEW s \in Seq(PatternToken), NEW split, IsSplit(split, s),
           NEW m \in 0 .. Len(s), NEW n \in 0 .. m
    PROVE  Grown(split[n], split[m])
<1>1. PICK last \in Nat : last = Len(s)
  OBVIOUS
<1>2. \A i \in 0 .. last : split[i] \in Parts
  BY <1>1 DEF IsSplit
<1> DEFINE rounds == {i \in 0 .. m - n : Grown(split[n], split[n + i])}
<1>3. 0 \in rounds
  <2>1. n \in 0 .. last
    BY <1>1
  <2>2. PICK k \in Nat : k = Len(split[n]) /\ k > 0 /\ split[n][k] \in Seq(PatternToken)
    BY <1>2, <2>1 DEF Parts
  <2> QED
    BY <2>2 DEF Grown, Starts
<1>4. ASSUME NEW i \in 1 .. m - n, i - 1 \in rounds PROVE i \in rounds
  <2>1. n + i \in 1 .. last /\ n + (i - 1) = (n + i) - 1 /\ n + (i - 1) \in 0 .. last /\ n \in 0 .. last
    BY <1>1
  <2>2. split[n + i] = Cut(split[n + (i - 1)], s[n + i]) /\ s[n + i] \in PatternToken
    BY <1>1, <2>1 DEF IsSplit
  <2>3. split[n] \in Parts /\ split[n + (i - 1)] \in Parts /\ split[n + i] \in Parts
    BY <1>2, <2>1
  <2>4. Grown(split[n + (i - 1)], split[n + i])
    BY <2>2, <2>3, GrownByCut
  <2>5. Grown(split[n], split[n + (i - 1)])
    BY <1>4
  <2>6. Grown(split[n], split[n + i])
    BY <2>3, <2>4, <2>5, GrownOn
  <2> QED
    BY <2>6
<1>5. \A i \in 0 .. m - n : i \in rounds
  <2>1. m - n \in Nat
    OBVIOUS
  <2> HIDE DEF rounds
  <2> QED
    BY <1>3, <1>4, <2>1, RoundByRound
<1>6. m - n \in 0 .. m - n /\ n + (m - n) = m
  OBVIOUS
<1> QED
  BY <1>5, <1>6

\* How the segments of a whole go on after some of its tokens.
Next(parts, whole, token) ==
    /\ Len(parts) <= Len(whole)
    /\ Starts(parts[Len(parts)], whole[Len(parts)])
    /\ token = "/" => Len(whole) > Len(parts) /\ whole[Len(parts)] = parts[Len(parts)]
    /\ token # "/" => /\ Len(whole[Len(parts)]) > Len(parts[Len(parts)])
                      /\ whole[Len(parts)][Len(parts[Len(parts)]) + 1] = token

\* The token behind a front is where the whole goes on.
LEMMA NextIs ==
    ASSUME NEW s \in Seq(PatternToken), NEW split, IsSplit(split, s),
           NEW n \in Nat, NEW m \in Nat, n < m, m <= Len(s)
    PROVE  Next(split[n], split[m], s[n + 1])
<1>0. PICK last \in Nat : last = Len(s)
  OBVIOUS
<1>1. n \in 0 .. last /\ m \in 0 .. last /\ n + 1 \in 1 .. last /\ n + 1 \in 0 .. m
      /\ n + 1 \in 0 .. last /\ (n + 1) - 1 = n
  BY <1>0
<1>2. split[n] \in Parts /\ split[m] \in Parts /\ split[n + 1] \in Parts /\ s[n + 1] \in PatternToken
  <2>1. split \in [0 .. last -> Parts]
    BY <1>0 DEF IsSplit
  <2>2. \A i \in 0 .. last : split[i] \in Parts
    BY <2>1
  <2>3. \A i \in 1 .. last : s[i] \in PatternToken
    BY <1>0
  <2> QED
    BY <1>1, <2>2, <2>3
<1>3. split[n + 1] = Cut(split[n], s[n + 1])
  BY <1>0, <1>1 DEF IsSplit
<1>4. Grown(split[n + 1], split[m])
  BY <1>0, <1>1, SplitGrows
<1>5. PICK k \in Nat : k = Len(split[n]) /\ k > 0 /\ split[n][k] \in Seq(PatternToken)
  BY <1>2, PartsOk
<1>8. k <= Len(split[m]) /\ Starts(split[n][k], split[m][k])
  <2>1. Grown(split[n], split[m])
    BY <1>0, <1>1, SplitGrows
  <2> QED
    BY <1>5, <2>1 DEF Grown
<1>6. CASE s[n + 1] = "/"
  <2>1. /\ Len(split[n + 1]) = k + 1
        /\ \A i \in 1 .. k : split[n + 1][i] = split[n][i]
    BY <1>2, <1>3, <1>5, <1>6, CutAtSlash
  <2>2. Len(split[m]) \in Nat
    BY <1>2, PartsOk
  <2>3. Len(split[n + 1]) <= Len(split[m]) /\ \A i \in 1 .. Len(split[n + 1]) - 1 : split[m][i] = split[n + 1][i]
    BY <1>4 DEF Grown
  <2>4. k \in 1 .. Len(split[n + 1]) - 1 /\ k \in 1 .. k
    BY <1>5, <2>1
  <2>5. split[m][k] = split[n][k]
    BY <2>1, <2>3, <2>4
  <2> QED
    BY <1>5, <1>6, <1>8, <2>1, <2>2, <2>3, <2>5 DEF Next
<1>7. CASE s[n + 1] # "/"
  <2>1. Len(split[n + 1]) = k /\ split[n + 1][k] = Append(split[n][k], s[n + 1])
    <3>1. PICK q \in Parts : q = split[n]
      BY <1>2
    <3>2. PICK t \in PatternToken : t = s[n + 1] /\ t # "/"
      BY <1>2, <1>7
    <3>3. Len(Cut(q, t)) = Len(q) /\ Cut(q, t)[Len(q)] = Append(q[Len(q)], t)
      BY <3>2, CutAtByte
    <3> QED
      BY <1>3, <1>5, <3>1, <3>2, <3>3
  <2>2. Starts(split[n + 1][k], split[m][k])
    BY <1>4, <2>1 DEF Grown
  <2>3. Len(split[m]) >= k
    BY <1>4, <2>1 DEF Grown
  <2>4. split[m][k] \in Seq(PatternToken)
    BY <1>2, <1>5, <2>3, PartsOk
  <2>5. PICK e \in Nat : e = Len(split[n][k])
    BY <1>5
  <2>6. Len(split[n + 1][k]) = e + 1 /\ split[n + 1][k][e + 1] = s[n + 1]
    BY <1>5, <1>2, <2>1, <2>5, AppendProperties
  <2>7. PICK f \in Nat : f = Len(split[m][k])
    BY <2>4
  <2>8. e + 1 <= f /\ \A i \in 1 .. e + 1 : split[m][k][i] = split[n + 1][k][i]
    BY <2>2, <2>6, <2>7 DEF Starts
  <2>9. e + 1 \in 1 .. e + 1
    OBVIOUS
  <2>10. split[m][k][e + 1] = s[n + 1] /\ f > e
    BY <2>6, <2>8, <2>9
  <2> QED
    BY <1>5, <1>7, <1>8, <2>5, <2>7, <2>10 DEF Next
<1> QED
  BY <1>6, <1>7

\* What two sequences share at the front is split alike.
LEMMA SplitAlike ==
    ASSUME NEW s \in Seq(PatternToken), NEW split, IsSplit(split, s),
           NEW r \in Seq(PatternToken), NEW other, IsSplit(other, r),
           NEW n \in Nat, n <= Len(s), n <= Len(r), \A i \in 1 .. n : s[i] = r[i]
    PROVE  split[n] = other[n]
<1>0. Len(s) \in Nat /\ Len(r) \in Nat
  OBVIOUS
<1> DEFINE rounds == {i \in 0 .. n : split[i] = other[i]}
<1>1. 0 \in rounds
  <2>1. split[0] = << <<>> >> /\ other[0] = << <<>> >> /\ 0 \in 0 .. n
    BY DEF IsSplit
  <2> QED
    BY <2>1
<1>2. ASSUME NEW i \in 1 .. n, i - 1 \in rounds PROVE i \in rounds
  <2>1. i \in 1 .. Len(s) /\ i \in 1 .. Len(r) /\ i \in 0 .. n
    BY <1>0
  <2>2. split[i] = Cut(split[i - 1], s[i]) /\ other[i] = Cut(other[i - 1], r[i])
    BY <2>1 DEF IsSplit
  <2> QED
    BY <1>2, <2>1, <2>2
<1>3. \A i \in 0 .. n : i \in rounds
  <2> HIDE DEF rounds
  <2> QED
    BY <1>1, <1>2, RoundByRound
<1>4. n \in rounds
  <2> HIDE DEF rounds
  <2> QED
    BY <1>3
<1> QED
  BY <1>4

\* Nothing but the last segment differs.
SameFront(parts, more) ==
    Len(more) = Len(parts) /\ \A i \in 1 .. Len(parts) - 1 : more[i] = parts[i]

\* At the start of a segment.
EmptyLast(parts) == Len(parts[Len(parts)]) = 0

\* A stretch without a slash makes one segment.
Stretch(s, n, m) == n <= m /\ m <= Len(s) /\ \A i \in n + 1 .. m : s[i] # "/"

OneSegment(parts, more, segment) == SameFront(parts, more) /\ more[Len(parts)] = segment

\* Tokens without a slash make one segment, or go on with one.
LEMMA SplitStretch ==
    ASSUME NEW s \in Seq(PatternToken), NEW split, IsSplit(split, s),
           NEW n \in Nat, NEW m \in Nat, Stretch(s, n, m), EmptyLast(split[n])
    PROVE  OneSegment(split[n], split[m], SubSeq(s, n + 1, m))
<1>0. PICK last \in Nat : last = Len(s) /\ n \in 0 .. last /\ m \in n .. last
  BY DEF Stretch
<1>9. PICK k \in Nat : k = Len(split[n]) /\ Len(split[n][k]) = 0
  <2>1. split[n] \in Parts
    BY <1>0 DEF IsSplit
  <2> QED
    BY <2>1, PartsOk DEF EmptyLast
<1>1. k \in Nat /\ k > 0 /\ split[n][k] = <<>>
  <2>1. split[n] \in Parts
    BY <1>0 DEF IsSplit
  <2>2. k \in Nat /\ k > 0 /\ split[n][k] \in Seq(PatternToken)
    BY <1>9, <2>1, PartsOk
  <2> QED
    BY <1>9, <2>2
<1> DEFINE rounds == {j \in 0 .. m - n :
              /\ Len(split[n + j]) = k
              /\ \A i \in 1 .. k - 1 : split[n + j][i] = split[n][i]
              /\ split[n + j][k] = SubSeq(s, n + 1, n + j)}
<1>2. 0 \in rounds
  <2>1. 0 \in 0 .. m - n /\ n + 0 = n /\ SubSeq(s, n + 1, n) = <<>>
    BY <1>0, SubSeqEmpty
  <2> QED
    BY <1>1, <1>9, <2>1
<1>3. ASSUME NEW j \in 1 .. m - n, j - 1 \in rounds PROVE j \in rounds
  <2>1. n + j \in 1 .. last /\ n + (j - 1) = (n + j) - 1 /\ n + (j - 1) \in 0 .. last /\ n + j \in n + 1 .. m
    BY <1>0
  <2>2. split[n + j] = Cut(split[n + (j - 1)], s[n + j]) /\ s[n + j] \in PatternToken /\ s[n + j] # "/"
    BY <1>0, <2>1 DEF IsSplit, Stretch
  <2>3. split[n + (j - 1)] \in Parts
    BY <1>0, <2>1 DEF IsSplit
  <2>4. /\ Len(split[n + (j - 1)]) = k
        /\ \A i \in 1 .. k - 1 : split[n + (j - 1)][i] = split[n][i]
        /\ split[n + (j - 1)][k] = SubSeq(s, n + 1, n + (j - 1))
    BY <1>3
  <2>5. /\ Len(Cut(split[n + (j - 1)], s[n + j])) = k
        /\ \A i \in 1 .. k - 1 : Cut(split[n + (j - 1)], s[n + j])[i] = split[n + (j - 1)][i]
        /\ Cut(split[n + (j - 1)], s[n + j])[k] = Append(split[n + (j - 1)][k], s[n + j])
    <3>1. PICK parts \in Parts : parts = split[n + (j - 1)]
      BY <2>3
    <3>2. PICK token \in PatternToken : token = s[n + j] /\ token # "/"
      BY <2>2
    <3>3. Len(parts) = k
      BY <2>4, <3>1
    <3>4. /\ Len(Cut(parts, token)) = Len(parts)
          /\ \A i \in 1 .. Len(parts) - 1 : Cut(parts, token)[i] = parts[i]
          /\ Cut(parts, token)[Len(parts)] = Append(parts[Len(parts)], token)
      BY <3>2, CutAtByte
    <3> QED
      BY <3>1, <3>2, <3>3, <3>4
  <2>6. Append(SubSeq(s, n + 1, n + (j - 1)), s[n + j]) = SubSeq(s, n + 1, n + j)
    <3>1. n + 1 \in 1 .. Len(s) /\ n + j \in n + 1 .. Len(s)
      BY <1>0, <2>1
    <3>2. SubSeq(s, n + 1, n + j) = SubSeq(s, n + 1, n + (j - 1)) \o <<s[n + j]>>
      BY <2>1, <3>1, SubSeqRecursiveSecond
    <3>3. \A i \in n + 1 .. n + (j - 1) : s[i] \in PatternToken
      BY <1>0, <2>1
    <3>4. SubSeq(s, n + 1, n + (j - 1)) \in Seq(PatternToken)
      BY <3>3, SubSeqProperties
    <3> QED
      BY <2>2, <3>2, <3>4, AppendIsConcat
  <2>7. j \in 0 .. m - n
    OBVIOUS
  <2>8. \A i \in 1 .. k - 1 : split[n + j][i] = split[n][i]
    BY <2>2, <2>4, <2>5
  <2>9. Len(split[n + j]) = k /\ split[n + j][k] = SubSeq(s, n + 1, n + j)
    BY <2>2, <2>4, <2>5, <2>6
  <2> QED
    BY <2>7, <2>8, <2>9
<1>4. \A j \in 0 .. m - n : j \in rounds
  <2>1. m - n \in Nat
    BY <1>0
  <2> HIDE DEF rounds
  <2> QED
    BY <1>2, <1>3, <2>1, RoundByRound
<1>5. m - n \in rounds
  <2>1. m - n \in 0 .. m - n
    BY <1>0
  <2> HIDE DEF rounds
  <2> QED
    BY <1>4, <2>1
<1>6. n + (m - n) = m
  BY <1>0
<1> QED
  BY <1>5, <1>6, <1>9 DEF SameFront, OneSegment

-----------------------------------------------------------------------------
(* A pattern that reads a path *)

\* token takes the bytes of the path from i to j.
Takes(token, path, i, j) ==
    /\ i < Len(path)
    /\ IF IsParam(token) THEN j = End(path, i, {"/"}) ELSE path[i + 1] = token /\ j = i + 1

\* The first n tokens of w read the path up to pos[n].
Reads(w, n, path, pos) ==
    /\ pos \in [0 .. n -> 0 .. Len(path)]
    /\ pos[0] = 0
    /\ \A k \in 1 .. n : Takes(w[k], path, pos[k - 1], pos[k])

ReadsAll(w, path, pos) == Reads(w, Len(w), path, pos) /\ pos[Len(w)] = Len(path)

\* What the parameters among the first n tokens take.
Bound(w, n, path, pos) ==
    {Binding(w[k], SubSeq(path, pos[k - 1] + 1, pos[k])) : k \in {k \in 1 .. n : IsParam(w[k])}}

\* The segments of a pattern fit those of the path read so far; the last one is
\* a parameter or still the same.
Aligned(a, b, param) ==
    /\ Len(a) = Len(b)
    /\ \A i \in 1 .. Len(a) - 1 : IsParamSegment(a[i]) \/ a[i] = b[i]
    /\ IF param THEN IsParamSegment(a[Len(a)])
       ELSE a[Len(a)] = b[Len(a)] /\ ~IsParamSegment(a[Len(a)])

ParamsOf(a) == {i \in 1 .. Len(a) : IsParamSegment(a[i])}
Values(a, b) == {Binding(a[i][1], b[i]) : i \in ParamsOf(a)}

\* Segments side by side stay so over a slash in both,
LEMMA AlignedSlash ==
    ASSUME NEW a \in Parts, NEW b \in Parts, NEW param \in BOOLEAN, Aligned(a, b, param)
    PROVE  Aligned(Cut(a, "/"), Cut(b, "/"), FALSE) /\ Values(Cut(a, "/"), Cut(b, "/")) = Values(a, b)
<1>1. PICK k \in Nat : k = Len(a) /\ k > 0 /\ k = Len(b)
  BY PartsOk DEF Aligned
<1>2. PICK c : c = Cut(a, "/")
  OBVIOUS
<1>3. PICK d : d = Cut(b, "/")
  OBVIOUS
<1>4. Len(c) = k + 1 /\ (\A i \in 1 .. k : c[i] = a[i]) /\ c[k + 1] = <<>>
  BY <1>1, <1>2, CutAtSlash
<1>5. Len(d) = k + 1 /\ (\A i \in 1 .. k : d[i] = b[i]) /\ d[k + 1] = <<>>
  BY <1>1, <1>3, CutAtSlash
<1>6. \A i \in 1 .. k : IsParamSegment(a[i]) \/ a[i] = b[i]
  BY <1>1 DEF Aligned
<1>7. Aligned(c, d, FALSE)
  BY <1>1, <1>4, <1>5, <1>6 DEF Aligned, IsParamSegment
<1>8. ParamsOf(c) = ParamsOf(a)
  BY <1>1, <1>4 DEF ParamsOf, IsParamSegment
<1>9. \A i \in ParamsOf(a) : c[i] = a[i] /\ d[i] = b[i]
  BY <1>1, <1>4, <1>5 DEF ParamsOf
<1>10. Values(c, d) = Values(a, b)
  BY <1>8, <1>9 DEF Values
<1> QED
  BY <1>2, <1>3, <1>7, <1>10

\* over a byte in both,
LEMMA AlignedByte ==
    ASSUME NEW a \in Parts, NEW b \in Parts, Aligned(a, b, FALSE),
           NEW token \in PatternToken, token # "/", ~IsParam(token)
    PROVE  Aligned(Cut(a, token), Cut(b, token), FALSE) /\ Values(Cut(a, token), Cut(b, token)) = Values(a, b)
<1>1. PICK k \in Nat : k = Len(a) /\ k > 0 /\ k = Len(b)
  BY PartsOk DEF Aligned
<1>2. PICK c : c = Cut(a, token)
  OBVIOUS
<1>3. PICK d : d = Cut(b, token)
  OBVIOUS
<1>4. Len(c) = k /\ (\A i \in 1 .. k - 1 : c[i] = a[i]) /\ c[k] = Append(a[k], token)
  <2>1. /\ Len(Cut(a, token)) = Len(a)
        /\ \A i \in 1 .. Len(a) - 1 : Cut(a, token)[i] = a[i]
        /\ Cut(a, token)[Len(a)] = Append(a[Len(a)], token)
    BY CutAtByte
  <2> QED
    BY <1>1, <1>2, <2>1
<1>5. Len(d) = k /\ (\A i \in 1 .. k - 1 : d[i] = b[i]) /\ d[k] = Append(b[k], token)
  BY <1>1, <1>3, CutAtByte
<1>6. a[k] = b[k] /\ ~IsParamSegment(a[k]) /\ a[k] \in Seq(PatternToken)
  BY <1>1, PartsOk DEF Aligned
<1>7. ~IsParamSegment(c[k])
  <2>1. CASE a[k] = <<>>
    <3>1. c[k][1] = token
      BY <1>4, <2>1
    <3> QED
      BY <3>1 DEF IsParamSegment
  <2>2. CASE a[k] # <<>>
    <3>1. c[k][1] = a[k][1]
      BY <1>4, <1>6, <2>2
    <3> QED
      BY <1>6, <2>2, <3>1 DEF IsParamSegment
  <2> QED
    BY <2>1, <2>2
<1>8. Aligned(c, d, FALSE)
  BY <1>1, <1>4, <1>5, <1>6, <1>7 DEF Aligned
<1>9. ParamsOf(c) = ParamsOf(a)
  <2>1. \A i \in 1 .. k : IsParamSegment(c[i]) <=> IsParamSegment(a[i])
    <3> TAKE i \in 1 .. k
    <3>1. i = k \/ i \in 1 .. k - 1
      OBVIOUS
    <3> QED
      BY <1>4, <1>6, <1>7, <3>1
  <2> QED
    BY <1>1, <1>4, <2>1 DEF ParamsOf
<1>10. \A i \in ParamsOf(a) : c[i] = a[i] /\ d[i] = b[i]
  <2> TAKE i \in ParamsOf(a)
  <2>1. i \in 1 .. k /\ i # k
    BY <1>1, <1>6 DEF ParamsOf
  <2> QED
    BY <1>4, <1>5, <2>1
<1>11. Values(c, d) = Values(a, b)
  BY <1>9, <1>10 DEF Values
<1> QED
  BY <1>2, <1>3, <1>8, <1>11

\* One parameter more has a value.
Plus(values, before, token, segment) == values = before \cup {Binding(token, segment)}

\* and over a parameter and the value it takes, which is one binding more.
LEMMA AlignedParam ==
    ASSUME NEW a \in Parts, NEW b \in Parts, Aligned(a, b, FALSE), EmptyLast(a),
           NEW token \in PatternToken, token # "/", IsParam(token),
           NEW d \in Parts, NEW segment, OneSegment(b, d, segment)
    PROVE  /\ Aligned(Cut(a, token), d, TRUE)
           /\ Plus(Values(Cut(a, token), d), Values(a, b), token, segment)
<1>0. SameFront(b, d) /\ segment = d[Len(b)]
  BY DEF OneSegment
<1>1. PICK k \in Nat : k = Len(a) /\ k > 0 /\ k = Len(b)
  BY PartsOk DEF Aligned
<1>2. PICK c : c = Cut(a, token)
  OBVIOUS
<1>3. a[k] = <<>>
  <2>1. a[k] \in Seq(PatternToken)
    BY <1>1, PartsOk
  <2> QED
    BY <1>1, <2>1 DEF EmptyLast
<1>4. Len(c) = k /\ (\A i \in 1 .. k - 1 : c[i] = a[i]) /\ c[k] = <<token>>
  <2>1. /\ Len(Cut(a, token)) = Len(a)
        /\ \A i \in 1 .. Len(a) - 1 : Cut(a, token)[i] = a[i]
        /\ Cut(a, token)[Len(a)] = Append(a[Len(a)], token)
    BY CutAtByte
  <2>2. Append(<<>>, token) = <<token>>
    OBVIOUS
  <2> QED
    BY <1>1, <1>2, <1>3, <2>1, <2>2
<1>5. IsParamSegment(c[k]) /\ c[k][1] = token
  BY <1>4 DEF IsParamSegment
<1>6. Aligned(c, d, TRUE)
  BY <1>0, <1>1, <1>4, <1>5 DEF Aligned, SameFront
<1>7. ~IsParamSegment(a[k])
  BY <1>3 DEF IsParamSegment
<1>8. ParamsOf(c) = ParamsOf(a) \cup {k} /\ k \notin ParamsOf(a)
  <2>1. \A i \in 1 .. k : IsParamSegment(c[i]) <=> i = k \/ IsParamSegment(a[i])
    <3> TAKE i \in 1 .. k
    <3>1. i = k \/ i \in 1 .. k - 1
      OBVIOUS
    <3> QED
      BY <1>4, <1>5, <3>1
  <2> QED
    BY <1>1, <1>4, <1>7, <2>1 DEF ParamsOf
<1>9. \A i \in ParamsOf(a) : c[i] = a[i] /\ d[i] = b[i]
  <2> TAKE i \in ParamsOf(a)
  <2>1. i \in 1 .. k - 1
    BY <1>1, <1>8 DEF ParamsOf
  <2> QED
    BY <1>0, <1>1, <1>4, <2>1 DEF SameFront
<1>10. Values(c, d) = Values(a, b) \cup {Binding(token, d[k])}
  BY <1>5, <1>8, <1>9 DEF Values
<1> QED
  BY <1>0, <1>1, <1>2, <1>6, <1>10 DEF Plus

\* One token more takes what it takes.
LEMMA BoundOn ==
    ASSUME NEW w, NEW n \in Nat, n > 0, NEW path, NEW pos
    PROVE  Bound(w, n, path, pos) =
               Bound(w, n - 1, path, pos) \cup
               (IF IsParam(w[n]) THEN {Binding(w[n], SubSeq(path, pos[n - 1] + 1, pos[n]))} ELSE {})
<1>1. {k \in 1 .. n : IsParam(w[k])} =
          {k \in 1 .. n - 1 : IsParam(w[k])} \cup (IF IsParam(w[n]) THEN {n} ELSE {})
  OBVIOUS
<1> QED
  BY <1>1 DEF Bound

\* The places that a pattern reads up to are places of the path.
LEMMA ReadsTyped ==
    ASSUME NEW w, NEW n \in Nat, NEW path \in Seq(Byte), NEW pos, Reads(w, n, path, pos), NEW k \in 0 .. n
    PROVE  pos[k] \in 0 .. Len(path)
  BY DEF Reads

\* The parameters have the values of their segments.
Worth(a, b, w, n, path, pos) == Values(a, b) = Bound(w, n, path, pos)

\* A pattern that reads has its segments beside those of the path, and the
\* values of its parameters are the segments beside them.
LEMMA ReadsAligned ==
    ASSUME NEW w \in Seq(PatternToken), FullSegments(w), NEW path \in Seq(Byte),
           NEW a, IsSplit(a, w), NEW b, IsSplit(b, path),
           NEW n \in 0 .. Len(w), NEW pos, Reads(w, n, path, pos)
    PROVE  /\ IF n > 0 /\ IsParam(w[n]) THEN Aligned(a[n], b[pos[n]], TRUE)
              ELSE Aligned(a[n], b[pos[n]], FALSE)
           /\ Worth(a[n], b[pos[n]], w, n, path, pos)
<1> DEFINE done(k) == /\ IF k > 0 /\ IsParam(w[k]) THEN Aligned(a[k], b[pos[k]], TRUE)
                         ELSE Aligned(a[k], b[pos[k]], FALSE)
                      /\ Values(a[k], b[pos[k]]) = Bound(w, k, path, pos)
           rounds == {k \in 0 .. n : done(k)}
<1>0. PICK last \in Nat : last = Len(path)
  OBVIOUS
<1>1. path \in Seq(PatternToken) /\ "/" \in PatternToken /\ ~IsParam("/")
  BY RouterAssumption DEF PatternToken, IsParam
<1>2. \A k \in 0 .. n : pos[k] \in 0 .. last /\ a[k] \in Parts /\ b[pos[k]] \in Parts
  <2> TAKE k \in 0 .. n
  <2>1. pos[k] \in 0 .. last
    BY <1>0, ReadsTyped
  <2>2. k \in 0 .. Len(w) /\ pos[k] \in 0 .. Len(path)
    BY <1>0, <2>1
  <2> QED
    BY <2>1, <2>2 DEF IsSplit
<1>3. 0 \in rounds
  <2>1. a[0] = << <<>> >> /\ b[pos[0]] = << <<>> >>
    BY DEF IsSplit, Reads
  <2>2. ~IsParamSegment(<<>>)
    BY DEF IsParamSegment
  <2>3. Aligned(a[0], b[pos[0]], FALSE)
    BY <2>1, <2>2 DEF Aligned
  <2>4. Values(a[0], b[pos[0]]) = {}
    BY <2>1, <2>2 DEF Values, ParamsOf
  <2>5. Bound(w, 0, path, pos) = {}
    BY DEF Bound
  <2>6. 0 \in 0 .. n /\ ~(0 > 0)
    OBVIOUS
  <2> QED
    BY <2>3, <2>4, <2>5, <2>6
<1>4. ASSUME NEW k \in 1 .. n, k - 1 \in rounds PROVE k \in rounds
  <2>1. k \in 1 .. Len(w) /\ k \in 0 .. n /\ k - 1 \in 0 .. n /\ k \in Nat /\ k > 0
    OBVIOUS
  <2>2. PICK i \in 0 .. last : i = pos[k - 1]
    BY <1>2, <2>1
  <2>3. PICK j \in 0 .. last : j = pos[k]
    BY <1>2, <2>1
  <2>4. PICK token \in PatternToken : token = w[k]
    BY <2>1
  <2>5. Takes(token, path, i, j)
    BY <2>2, <2>3, <2>4 DEF Reads
  <2>6. a[k] = Cut(a[k - 1], token)
    BY <2>1, <2>4 DEF IsSplit
  <2>7. a[k - 1] \in Parts /\ b[i] \in Parts /\ b[j] \in Parts
    BY <1>2, <2>1, <2>2, <2>3
  <2>8. Values(a[k - 1], b[i]) = Bound(w, k - 1, path, pos)
    BY <1>4, <2>2
  <2>9. Aligned(a[k - 1], b[i], FALSE) \/ (Aligned(a[k - 1], b[i], TRUE) /\ token = "/")
    <3>1. CASE k - 1 > 0 /\ IsParam(w[k - 1])
      <4>1. k - 1 \in 1 .. Len(w) /\ k - 1 < Len(w) /\ (k - 1) + 1 = k
        BY <2>1, <3>1
      <4>2. token = "/"
        BY <2>4, <3>1, <4>1 DEF FullSegments
      <4>3. Aligned(a[k - 1], b[i], TRUE)
        BY <1>4, <2>2, <3>1
      <4> QED
        BY <4>2, <4>3
    <3>2. CASE ~(k - 1 > 0 /\ IsParam(w[k - 1]))
      BY <1>4, <2>2, <3>2
    <3> QED
      BY <3>1, <3>2
  <2>11. CASE IsParam(token)
    <3>1. token # "/" /\ Aligned(a[k - 1], b[i], FALSE)
      BY <1>1, <2>9, <2>11
    <3>2. j = End(path, i, {"/"}) /\ i < last
      BY <1>0, <2>5, <2>11 DEF Takes
    <3>3. Len(a[k - 1][Len(a[k - 1])]) = 0
      <4>1. CASE k = 1
        <5>1. a[0] = << <<>> >> /\ k - 1 = 0
          BY <4>1 DEF IsSplit
        <5>2. Len(<< <<>> >>) = 1 /\ Len(<< <<>> >>[1]) = 0
          OBVIOUS
        <5> QED
          BY <5>1, <5>2
      <4>2. CASE k > 1
        <5>1. w[k - 1] = "/"
          BY <2>1, <2>4, <2>11, <4>2 DEF FullSegments
        <5>2. k - 1 \in 1 .. Len(w) /\ k - 2 \in 0 .. Len(w) /\ (k - 1) - 1 = k - 2
          BY <2>1, <4>2
        <5>3. a[k - 1] = Cut(a[k - 2], "/") /\ a[k - 2] \in Parts
          BY <5>1, <5>2 DEF IsSplit
        <5>4. Len(a[k - 2]) \in Nat
          BY <5>3, PartsOk
        <5> QED
          BY <1>1, <5>3, <5>4, CutAtSlash
      <4> QED
        BY <4>1, <4>2
    <3>4. EmptyLast(a[k - 1]) /\ EmptyLast(b[i])
      BY <3>1, <3>3 DEF Aligned, EmptyLast
    <3>5. Stretch(path, i, j)
      <4>1. j \in i .. last /\ \A h \in i + 1 .. j : path[h] # "/"
        BY <1>0, <3>2, EndIs
      <4> QED
        BY <1>0, <4>1 DEF Stretch
    <3>6. OneSegment(b[i], b[j], SubSeq(path, i + 1, j))
      BY <1>1, <3>4, <3>5, SplitStretch
    <3>7. /\ Aligned(a[k], b[j], TRUE)
          /\ Plus(Values(a[k], b[j]), Values(a[k - 1], b[i]), token, SubSeq(path, i + 1, j))
      BY <2>4, <2>6, <2>7, <2>11, <3>1, <3>4, <3>6, AlignedParam
    <3>8. Bound(w, k, path, pos) = Bound(w, k - 1, path, pos) \cup {Binding(token, SubSeq(path, i + 1, j))}
      BY <2>1, <2>2, <2>3, <2>4, <2>11, BoundOn
    <3> QED
      BY <2>1, <2>3, <2>4, <2>8, <2>11, <3>7, <3>8 DEF Plus
  <2>12. CASE ~IsParam(token)
    <3>1. j = i + 1 /\ path[j] = token /\ j \in 1 .. last
      BY <1>0, <2>5, <2>12 DEF Takes
    <3>2. b[j] = Cut(b[i], token)
      BY <1>0, <3>1 DEF IsSplit
    <3>3. Aligned(Cut(a[k - 1], token), Cut(b[i], token), FALSE)
          /\ Values(Cut(a[k - 1], token), Cut(b[i], token)) = Values(a[k - 1], b[i])
      <4>1. CASE token = "/"
        BY <1>1, <2>7, <2>9, <4>1, AlignedSlash
      <4>2. CASE token # "/"
        <5>1. Aligned(a[k - 1], b[i], FALSE)
          BY <2>9, <4>2
        <5> QED
          BY <2>4, <2>7, <2>12, <4>2, <5>1, AlignedByte
      <4> QED
        BY <4>1, <4>2
    <3>4. Bound(w, k, path, pos) = Bound(w, k - 1, path, pos)
      <4>1. Bound(w, k, path, pos) = Bound(w, k - 1, path, pos) \cup
               (IF IsParam(w[k]) THEN {Binding(w[k], SubSeq(path, pos[k - 1] + 1, pos[k]))} ELSE {})
        BY <2>1, BoundOn
      <4> QED
        BY <2>4, <2>12, <4>1
    <3> QED
      BY <2>1, <2>3, <2>4, <2>6, <2>8, <2>12, <3>2, <3>3, <3>4
  <2> QED
    BY <2>11, <2>12
<1>5. \A k \in 0 .. n : k \in rounds
  <2>1. n \in Nat
    OBVIOUS
  <2> HIDE DEF rounds
  <2> QED
    BY <1>3, <1>4, <2>1, RoundByRound
<1>6. n \in rounds
  <2> HIDE DEF rounds
  <2> QED
    BY <1>5
<1> QED
  BY <1>6 DEF Worth

-----------------------------------------------------------------------------
(* Places of the path that a pattern reads up to *)

\* A token takes one stretch of the path at most.
LEMMA TakesOne ==
    ASSUME NEW token, NEW path \in Seq(Byte), NEW i \in 0 .. Len(path), NEW j, Takes(token, path, i, j)
    PROVE  i < Len(path) /\ j \in i .. Len(path)
<1>1. PICK last \in Nat : last = Len(path)
  OBVIOUS
<1>2. CASE IsParam(token)
  <2>1. End(path, i, {"/"}) \in i .. Len(path)
    BY <1>1, EndIs
  <2> QED
    BY <1>1, <1>2, <2>1 DEF Takes
<1>3. CASE ~IsParam(token)
  BY <1>1, <1>3 DEF Takes
<1> QED
  BY <1>2, <1>3

\* Patterns that share tokens at the front read the same with them.
LEMMA ReadsOnce ==
    ASSUME NEW w, NEW v, NEW path, NEW n \in Nat, NEW m \in Nat,
           NEW pos, Reads(w, n, path, pos), NEW at, Reads(v, m, path, at),
           NEW h \in Nat, h <= n, h <= m, \A k \in 1 .. h : w[k] = v[k]
    PROVE  pos[h] = at[h]
<1> DEFINE rounds == {k \in 0 .. h : pos[k] = at[k]}
<1>1. 0 \in rounds
  BY DEF Reads
<1>2. ASSUME NEW k \in 1 .. h, k - 1 \in rounds PROVE k \in rounds
  <2>1. w[k] = v[k] /\ pos[k - 1] = at[k - 1] /\ k \in 0 .. h /\ k \in 1 .. n /\ k \in 1 .. m
    BY <1>2
  <2>2. Takes(w[k], path, pos[k - 1], pos[k]) /\ Takes(v[k], path, at[k - 1], at[k])
    BY <2>1 DEF Reads
  <2>3. pos[k] = at[k]
    BY <2>1, <2>2 DEF Takes
  <2> QED
    BY <2>1, <2>3
<1> HIDE DEF rounds
<1>3. \A k \in 0 .. h : k \in rounds
  BY <1>1, <1>2, RoundByRound
<1>4. h \in 0 .. h
  OBVIOUS
<1> QED
  BY <1>3, <1>4 DEF rounds

\* Patterns with one front read a path up to the same place behind it.
LEMMA ReadsAgain ==
    ASSUME NEW w, NEW v, NEW path, NEW n \in Nat, NEW m \in Nat, n <= m,
           NEW pos, Reads(w, n, path, pos), NEW at, Reads(v, m, path, at),
           \A k \in 1 .. n : w[k] = v[k]
    PROVE  pos[n] = at[n]
<1>1. n <= n
  OBVIOUS
<1> QED
  BY <1>1, ReadsOnce

\* What is read further is read up to there.
LEMMA ReadsShorter ==
    ASSUME NEW w, NEW n \in Nat, NEW path, NEW pos, Reads(w, n, path, pos), NEW m \in 0 .. n
    PROVE  Reads(w, m, path, [k \in 0 .. m |-> pos[k]])
  BY DEF Reads

\* at goes on where pos ends, by one token, which is read up to j.
GoesOn(w, n, path, pos, j, at) ==
    /\ Reads(w, n + 1, path, at) /\ at[n + 1] = j
    /\ \A k \in 0 .. n : at[k] = pos[k]

\* One token more.
LEMMA ReadsFurther ==
    ASSUME NEW w, NEW n \in Nat, NEW path \in Seq(Byte), NEW pos, Reads(w, n, path, pos),
           NEW j, Takes(w[n + 1], path, pos[n], j)
    PROVE  \E at : GoesOn(w, n, path, pos, j, at)
<1>1. pos[n] \in 0 .. Len(path)
  BY DEF Reads
<1>2. Len(path) \in Nat
  OBVIOUS
<1>3. PICK i \in Nat : i = pos[n] /\ i <= Len(path)
  BY <1>1, <1>2
<1>4. j \in i .. Len(path)
  BY <1>1, <1>3, TakesOne
<1>5. j \in 0 .. Len(path)
  BY <1>2, <1>3, <1>4
<1> DEFINE at == [k \in 0 .. n + 1 |-> IF k = n + 1 THEN j ELSE pos[k]]
<1>6. at \in [0 .. n + 1 -> 0 .. Len(path)]
  BY <1>5 DEF Reads
<1>7. at[0] = 0 /\ at[n + 1] = j /\ \A k \in 0 .. n : at[k] = pos[k]
  BY DEF Reads
<1> HIDE DEF at
<1>8. \A k \in 1 .. n + 1 : Takes(w[k], path, at[k - 1], at[k])
  <2> TAKE k \in 1 .. n + 1
  <2>1. CASE k = n + 1
    <3>1. k - 1 = n /\ at[k - 1] = pos[n] /\ at[k] = j
      BY <1>7, <2>1
    <3> QED
      BY <2>1, <3>1
  <2>2. CASE k # n + 1
    <3>1. k \in 1 .. n /\ k - 1 \in 0 .. n
      BY <2>2
    <3>2. at[k - 1] = pos[k - 1] /\ at[k] = pos[k]
      BY <1>7, <3>1
    <3> QED
      BY <3>1, <3>2 DEF Reads
  <2> QED
    BY <2>1, <2>2
<1>9. Reads(w, n + 1, path, at)
  BY <1>6, <1>7, <1>8 DEF Reads
<1> QED
  BY <1>7, <1>9 DEF GoesOn

\* The segments after n tokens of the pattern, and after what they read.
Abreast(w, n, a, path, i, b) ==
    /\ Len(a) = Len(b)
    /\ IF n > 0 /\ IsParam(w[n])
       THEN /\ i < Len(path) => path[i + 1] = "/"
            /\ n < Len(w) => w[n + 1] = "/"
       ELSE a[Len(a)] = b[Len(a)] /\ ~IsParamSegment(a[Len(a)])

\* Up to where a pattern has read, segments that fit are abreast of each other.
LEMMA ReadsAbreast ==
    ASSUME NEW w \in Seq(PatternToken), FullSegments(w), NEW path \in Seq(Byte),
           NEW a, IsSplit(a, w), NEW b, IsSplit(b, path),
           NEW n \in 0 .. Len(w), NEW pos, Reads(w, n, path, pos)
    PROVE  Abreast(w, n, a[n], path, pos[n], b[pos[n]])
<1>1. Len(w) \in Nat /\ n \in Nat
  OBVIOUS
<1>2. CASE n > 0 /\ IsParam(w[n])
  <2>1. Aligned(a[n], b[pos[n]], TRUE)
    BY <1>2, ReadsAligned
  <2>2. n \in 1 .. n /\ n \in 1 .. Len(w) /\ n - 1 \in 0 .. n
    BY <1>1, <1>2
  <2>3. Takes(w[n], path, pos[n - 1], pos[n])
    BY <2>2 DEF Reads
  <2>4. pos[n - 1] \in 0 .. Len(path)
    BY <1>1, <2>2, ReadsTyped
  <2>5. PICK i \in 0 .. Len(path) : i = pos[n - 1]
    BY <2>4
  <2>6. pos[n] = End(path, i, {"/"})
    BY <1>2, <2>3, <2>5 DEF Takes
  <2>7. pos[n] < Len(path) => path[pos[n] + 1] = "/"
    BY <2>6, EndIs
  <2>8. n < Len(w) => w[n + 1] = "/"
    BY <1>2, <2>2 DEF FullSegments
  <2> QED
    BY <1>2, <2>1, <2>7, <2>8 DEF Abreast, Aligned
<1>3. CASE ~(n > 0 /\ IsParam(w[n]))
  <2>1. Aligned(a[n], b[pos[n]], FALSE)
    BY <1>3, ReadsAligned
  <2> QED
    BY <1>3, <2>1 DEF Abreast, Aligned
<1> QED
  BY <1>2, <1>3

-----------------------------------------------------------------------------
(* Segments that fit, compared as the linear scan does *)

\* Segments that fit: what extract_path_params asks for.
Fits(a, b) == Len(a) = Len(b) /\ \A i \in 1 .. Len(a) : IsParamSegment(a[i]) \/ a[i] = b[i]

\* With the same segments so far, and no parameter in the last one.
Even(a, b) == Len(a) = Len(b) /\ a[Len(a)] = b[Len(b)] /\ ~IsParamSegment(a[Len(a)])

\* A segment is a parameter from its first token on.
LEMMA FirstToken ==
    ASSUME NEW c \in Parts, NEW whole \in Parts, NEW token, Next(c, whole, token), token # "/",
           ~IsParamSegment(c[Len(c)]), IsParamSegment(whole[Len(c)])
    PROVE  EmptyLast(c) /\ IsParam(token)
<1>1. PICK k \in Nat : k = Len(c) /\ k > 0 /\ k <= Len(whole)
  BY PartsOk DEF Next
<1>2. PICK u \in Seq(PatternToken) : u = c[k]
  BY <1>1, PartsOk
<1>3. PICK v : v = whole[k]
  OBVIOUS
<1>4. /\ Starts(u, v) /\ Len(v) > Len(u) /\ v[Len(u) + 1] = token
      /\ ~IsParamSegment(u) /\ IsParam(v[1])
  BY <1>1, <1>2, <1>3 DEF Next, IsParamSegment
<1>5. CASE Len(u) = 0
  BY <1>1, <1>2, <1>4, <1>5 DEF EmptyLast
<1>6. CASE Len(u) # 0
  <2>1. 1 \in 1 .. Len(u) /\ u # <<>>
    BY <1>2, <1>6
  <2>2. v[1] = u[1]
    BY <1>4, <2>1 DEF Starts
  <2> QED
    BY <1>4, <2>1, <2>2 DEF IsParamSegment
<1> QED
  BY <1>5, <1>6

\* Where segments fit and no parameter is near, the bytes are the same.
LEMMA SameByte ==
    ASSUME NEW c \in Parts, NEW d \in Parts, NEW a \in Parts, NEW b \in Parts, Even(c, d), Fits(a, b),
           NEW token, Next(c, a, token), ~IsParam(token), NEW byte, Next(d, b, byte)
    PROVE  byte = token
<1>1. PICK k \in Nat : k = Len(c) /\ k > 0 /\ k = Len(d) /\ c[k] = d[k] /\ ~IsParamSegment(c[k])
                       /\ k <= Len(a) /\ k <= Len(b) /\ Len(a) = Len(b)
  BY PartsOk DEF Even, Next, Fits
<1>2. k \in 1 .. Len(a) /\ c[k] \in Seq(PatternToken) /\ a[k] \in Seq(PatternToken) /\ b[k] \in Seq(PatternToken)
  BY <1>1, PartsOk
<1>3. PICK e \in Nat : e = Len(c[k]) /\ e = Len(d[k])
  BY <1>1, <1>2
<1>4. CASE token = "/"
  <2>1. a[k] = c[k]
    BY <1>1, <1>4 DEF Next
  <2>2. a[k] = b[k]
    BY <1>1, <1>2, <2>1 DEF Fits
  <2>3. ~(Len(b[k]) > Len(d[k]))
    BY <1>1, <1>3, <2>1, <2>2
  <2> QED
    BY <1>1, <1>4, <2>3 DEF Next
<1>5. CASE token # "/"
  <2>1. ~IsParamSegment(a[k])
    BY <1>1, <1>5, FirstToken
  <2>2. a[k] = b[k]
    BY <1>2, <2>1 DEF Fits
  <2>3. Len(a[k]) > e /\ a[k][e + 1] = token
    BY <1>1, <1>3, <1>5 DEF Next
  <2>4. byte # "/"
    BY <1>1, <1>3, <2>2, <2>3 DEF Next
  <2>5. b[k][e + 1] = byte
    BY <1>1, <1>3, <2>4 DEF Next
  <2> QED
    BY <2>2, <2>3, <2>5
<1> QED
  BY <1>4, <1>5

\* The path is at its end and the pattern is not.
LEMMA OnlyLeft ==
    ASSUME NEW c \in Parts, NEW a \in Parts, NEW b \in Parts, Even(c, b), Fits(a, b),
           NEW token, Next(c, a, token)
    PROVE  EmptyLast(b) /\ IsParam(token) /\ Len(a) = Len(c)
<1>1. PICK k \in Nat : k = Len(c) /\ k > 0 /\ k = Len(b) /\ c[k] = b[k] /\ ~IsParamSegment(c[k])
                       /\ k = Len(a)
  BY PartsOk DEF Even, Fits
<1>2. k \in 1 .. Len(a) /\ c[k] \in Seq(PatternToken) /\ a[k] \in Seq(PatternToken)
  <2>1. k \in 1 .. Len(a) /\ k \in 1 .. Len(c)
    BY <1>1
  <2> QED
    BY <2>1, PartsOk
<1>3. token # "/"
  BY <1>1 DEF Next
<1>4. Len(a[k]) > Len(c[k])
  BY <1>1, <1>3 DEF Next
<1>5. a[k] # b[k]
  BY <1>1, <1>2, <1>4
<1>6. IsParamSegment(a[k])
  BY <1>2, <1>5 DEF Fits
<1>7. EmptyLast(c) /\ IsParam(token)
  BY <1>1, <1>3, <1>6, FirstToken
<1> QED
  BY <1>1, <1>7 DEF EmptyLast

\* Only a slash at its end leaves the last segment of a path empty.
LEMMA EndsInSlash ==
    ASSUME NEW path \in Seq(Byte), Len(path) > 0, NEW b, IsSplit(b, path), EmptyLast(b[Len(path)])
    PROVE  path[Len(path)] = "/"
<1>1. PICK last \in Nat : last = Len(path) /\ last > 0
  OBVIOUS
<1>2. path \in Seq(PatternToken)
  BY DEF PatternToken
<1>3. last \in 1 .. last /\ last - 1 \in 0 .. last /\ last \in 0 .. last
  BY <1>1
<1>4. b[last] = Cut(b[last - 1], path[last]) /\ b[last - 1] \in Parts /\ path[last] \in PatternToken
  BY <1>1, <1>2, <1>3 DEF IsSplit
<1>5. PICK before \in Parts : before = b[last - 1]
  BY <1>4
<1>6. PICK k \in Nat : k = Len(before) /\ before[k] \in Seq(PatternToken)
  BY <1>5, PartsOk
<1> SUFFICES ASSUME path[last] # "/" PROVE FALSE
  BY <1>1
<1>7. Len(b[last]) = k /\ b[last][k] = Append(before[k], path[last])
  <2>1. /\ Len(Cut(before, path[last])) = Len(before)
        /\ Cut(before, path[last])[Len(before)] = Append(before[Len(before)], path[last])
    BY <1>4, <1>5, CutAtByte
  <2> QED
    BY <1>4, <1>5, <1>6, <2>1
<1>8. Len(Append(before[k], path[last])) > 0
  BY <1>4, <1>6, AppendProperties
<1> QED
  BY <1>1, <1>7, <1>8 DEF EmptyLast

-----------------------------------------------------------------------------
(* What fits reads, and what reads fits *)

\* The exception of ResolveAgrees: an empty value at the end of the path.
Left(w, path) == IsParam(w[Len(w)]) /\ path[Len(path)] = "/"

\* A pattern that fits reads on.
LEMMA FitGoesOn ==
    ASSUME NEW w \in Seq(PatternToken), FullSegments(w), NEW path \in Seq(Byte), Len(path) > 0,
           NEW a, IsSplit(a, w), NEW b, IsSplit(b, path),
           Fits(a[Len(w)], b[Len(path)]), ~Left(w, path),
           NEW n \in Nat, n < Len(w), NEW pos, Reads(w, n, path, pos)
    PROVE  \E j : Takes(w[n + 1], path, pos[n], j)
<1>1. PICK last \in Nat : last = Len(path) /\ last > 0
  OBVIOUS
<1>2. PICK all \in Nat : all = Len(w)
  OBVIOUS
<1>3. n \in 0 .. Len(w) /\ n + 1 \in 1 .. Len(w) /\ n \in 0 .. all /\ n + 1 \in 0 .. all
  BY <1>2
<1>4. PICK i \in Nat : i = pos[n] /\ i <= last
  <2>1. n \in 0 .. n
    OBVIOUS
  <2>2. pos[n] \in 0 .. Len(path)
    BY <2>1, ReadsTyped
  <2> QED
    BY <1>1, <2>2
<1>5. path \in Seq(PatternToken)
  BY DEF PatternToken
<1>6. PICK token \in PatternToken : token = w[n + 1]
  BY <1>3
<1>7. a[n] \in Parts /\ a[n + 1] \in Parts /\ a[all] \in Parts /\ b[i] \in Parts /\ b[last] \in Parts
  <2>1. all \in 0 .. Len(w) /\ n + 1 \in 0 .. Len(w) /\ i \in 0 .. Len(path) /\ last \in 0 .. Len(path)
    BY <1>1, <1>2, <1>3, <1>4
  <2> QED
    BY <1>3, <2>1 DEF IsSplit
<1>8. Abreast(w, n, a[n], path, i, b[i])
  BY <1>3, <1>4, ReadsAbreast
<1>9. Next(a[n], a[all], token)
  <2>1. n < all /\ all <= Len(w)
    BY <1>2
  <2> QED
    BY <1>6, <2>1, NextIs
<1>10. i < last => Next(b[i], b[last], path[i + 1])
  <2>1. last <= Len(path)
    BY <1>1
  <2> QED
    BY <1>5, <2>1, NextIs
<1>11. ~IsParam("/")
  BY RouterAssumption DEF IsParam
<1>12. Fits(a[all], b[last])
  BY <1>1, <1>2
<1>13. CASE n > 0 /\ IsParam(w[n])
  <2>1. token = "/" /\ Len(a[n]) = Len(b[i]) /\ (i < last => path[i + 1] = "/")
    BY <1>1, <1>2, <1>6, <1>8, <1>13 DEF Abreast
  <2>2. i < last
    <3> SUFFICES ASSUME i = last PROVE FALSE
      BY <1>4
    <3>1. Len(a[all]) > Len(a[n])
      BY <1>9, <2>1 DEF Next
    <3>2. Len(a[all]) = Len(b[last]) /\ Len(a[n]) = Len(b[last])
      BY <1>12, <2>1 DEF Fits
    <3>3. Len(b[last]) \in Nat
      BY <1>7, PartsOk
    <3> QED
      BY <3>1, <3>2, <3>3
  <2>3. Takes(token, path, i, i + 1)
    BY <1>1, <1>11, <2>1, <2>2 DEF Takes
  <2> QED
    BY <1>4, <1>6, <2>3
<1>14. CASE ~(n > 0 /\ IsParam(w[n]))
  <2>1. Even(a[n], b[i])
    BY <1>8, <1>14 DEF Abreast, Even
  <2>2. i < last
    <3> SUFFICES ASSUME i = last PROVE FALSE
      BY <1>4
    <3>1. EmptyLast(b[last]) /\ IsParam(token) /\ Len(a[all]) = Len(a[n])
      BY <1>7, <1>9, <1>12, <2>1, OnlyLeft
    <3>2. path[last] = "/"
      BY <1>1, <3>1, EndsInSlash
    <3>3. n + 1 # all
      BY <1>1, <1>2, <1>6, <3>1, <3>2 DEF Left
    <3>4. n + 1 < all /\ n + 1 \in Nat
      BY <1>3, <3>3
    <3>5. w[(n + 1) + 1] = "/"
      <4>1. n + 1 \in 1 .. Len(w) /\ n + 1 < Len(w) /\ IsParam(w[n + 1])
        BY <1>2, <1>3, <1>6, <3>1, <3>4
      <4> QED
        BY <4>1 DEF FullSegments
    <3>6. Next(a[n + 1], a[all], w[(n + 1) + 1])
      <4>1. PICK m \in Nat : m = n + 1
        OBVIOUS
      <4>2. m < all /\ all <= Len(w)
        BY <1>2, <3>4, <4>1
      <4>3. Next(a[m], a[all], w[m + 1])
        BY <4>1, <4>2, NextIs
      <4> QED
        BY <4>1, <4>3
    <3>7. Len(a[all]) > Len(a[n + 1])
      BY <3>5, <3>6 DEF Next
    <3>8. a[n + 1] = Cut(a[n], token)
      <4>1. (n + 1) - 1 = n
        OBVIOUS
      <4> QED
        BY <1>3, <1>6, <4>1 DEF IsSplit
    <3>9. token # "/"
      BY <1>11, <3>1
    <3>10. Len(a[n + 1]) = Len(a[n])
      BY <1>6, <1>7, <3>8, <3>9, CutAtByte
    <3>11. Len(a[n]) \in Nat
      BY <1>7, PartsOk
    <3> QED
      BY <3>1, <3>7, <3>10, <3>11
  <2>3. CASE IsParam(token)
    <3>1. Takes(token, path, i, End(path, i, {"/"}))
      BY <1>1, <2>2, <2>3 DEF Takes
    <3> QED
      BY <1>4, <1>6, <3>1
  <2>4. CASE ~IsParam(token)
    <3>1. path[i + 1] = token
      BY <1>7, <1>9, <1>10, <1>12, <2>1, <2>2, <2>4, SameByte
    <3>2. Takes(token, path, i, i + 1)
      BY <1>1, <2>2, <2>4, <3>1 DEF Takes
    <3> QED
      BY <1>4, <1>6, <3>2
  <2> QED
    BY <2>3, <2>4
<1> QED
  BY <1>13, <1>14

\* And it reads all of the path.
LEMMA FitEnds ==
    ASSUME NEW w \in Seq(PatternToken), FullSegments(w), NEW path \in Seq(Byte),
           NEW a, IsSplit(a, w), NEW b, IsSplit(b, path),
           Fits(a[Len(w)], b[Len(path)]), NEW pos, Reads(w, Len(w), path, pos)
    PROVE  pos[Len(w)] = Len(path)
<1>1. PICK last \in Nat : last = Len(path)
  OBVIOUS
<1>2. PICK all \in Nat : all = Len(w) /\ all \in 0 .. Len(w) /\ ~(all < Len(w))
  OBVIOUS
<1>4. PICK i \in Nat : i = pos[all] /\ i <= last
  <2>1. all \in 0 .. all /\ Reads(w, all, path, pos)
    BY <1>2
  <2>2. pos[all] \in 0 .. Len(path)
    BY <2>1, ReadsTyped
  <2> QED
    BY <1>1, <2>2
<1>5. path \in Seq(PatternToken)
  BY DEF PatternToken
<1>7. a[all] \in Parts /\ b[i] \in Parts /\ b[last] \in Parts
  <2>1. all \in 0 .. Len(w) /\ i \in 0 .. Len(path) /\ last \in 0 .. Len(path)
    BY <1>1, <1>2, <1>4
  <2> QED
    BY <2>1 DEF IsSplit
<1>8. Abreast(w, all, a[all], path, i, b[i])
  BY <1>2, <1>4, ReadsAbreast
<1>12. Fits(a[all], b[last])
  BY <1>1, <1>2
<1> SUFFICES ASSUME i < last PROVE FALSE
  BY <1>1, <1>2, <1>4
<1>10. Next(b[i], b[last], path[i + 1])
  <2>1. last <= Len(path)
    BY <1>1
  <2> QED
    BY <1>5, <2>1, NextIs
<1>13. PICK k \in Nat : k = Len(a[all]) /\ k = Len(b[i]) /\ k = Len(b[last]) /\ k > 0
  BY <1>7, <1>8, <1>12, PartsOk DEF Abreast, Fits
<1>14. path[i + 1] # "/"
  BY <1>10, <1>13 DEF Next
<1>15. a[all][k] = b[i][k] /\ ~IsParamSegment(a[all][k])
  <2>1. ~(all > 0 /\ IsParam(w[all]))
    BY <1>1, <1>8, <1>14 DEF Abreast
  <2> QED
    BY <1>8, <1>13, <2>1 DEF Abreast
<1>16. a[all][k] = b[last][k]
  <2>1. k \in 1 .. Len(a[all])
    BY <1>13
  <2>2. IsParamSegment(a[all][k]) \/ a[all][k] = b[last][k]
    BY <1>12, <2>1 DEF Fits
  <2> QED
    BY <1>15, <2>2
<1>17. Len(b[last][k]) > Len(b[i][k])
  BY <1>10, <1>13, <1>14 DEF Next
<1>18. Len(b[last][k]) \in Nat
  BY <1>7, <1>13, PartsOk
<1> QED
  BY <1>15, <1>16, <1>17, <1>18

\* A pattern whose segments fit reads the whole path.
LEMMA FitReads ==
    ASSUME NEW w \in Seq(PatternToken), FullSegments(w), NEW path \in Seq(Byte), Len(path) > 0,
           NEW a, IsSplit(a, w), NEW b, IsSplit(b, path),
           Fits(a[Len(w)], b[Len(path)]), ~Left(w, path)
    PROVE  \E pos : ReadsAll(w, path, pos)
<1>1. PICK all \in Nat : all = Len(w)
  OBVIOUS
<1> DEFINE rounds == {n \in 0 .. all : \E pos : Reads(w, n, path, pos)}
<1>2. 0 \in rounds
  <2>1. Reads(w, 0, path, [k \in 0 .. 0 |-> 0])
    BY DEF Reads
  <2> QED
    BY <2>1
<1>3. ASSUME NEW n \in 1 .. all, n - 1 \in rounds PROVE n \in rounds
  <2>1. n - 1 \in Nat /\ n - 1 < Len(w) /\ (n - 1) + 1 = n /\ n \in 0 .. all
    BY <1>1
  <2>2. PICK m \in Nat : m = n - 1
    BY <2>1
  <2>3. PICK pos : Reads(w, m, path, pos)
    BY <1>3, <2>2
  <2>4. PICK j : Takes(w[m + 1], path, pos[m], j)
    BY <2>1, <2>2, <2>3, FitGoesOn
  <2>5. PICK at : GoesOn(w, m, path, pos, j, at)
    BY <2>3, <2>4, ReadsFurther
  <2> QED
    BY <2>1, <2>2, <2>5 DEF GoesOn
<1> HIDE DEF rounds
<1>7. \A n \in 0 .. all : n \in rounds
  BY <1>2, <1>3, RoundByRound
<1>4. all \in rounds
  BY <1>7
<1>5. PICK pos : Reads(w, all, path, pos)
  BY <1>4 DEF rounds
<1>6. pos[all] = Len(path)
  BY <1>1, <1>5, FitEnds
<1> QED
  BY <1>1, <1>5, <1>6 DEF ReadsAll


\* extract_path_params over the segments.
LEMMA ExtractIs ==
    ASSUME NEW w \in Seq(PatternToken), NEW path \in Seq(Byte),
           Segments(w) \in Parts, Segments(path) \in Parts
    PROVE  /\ extract_path_params(w, path) # <<>> <=> Fits(Segments(w), Segments(path))
           /\ Fits(Segments(w), Segments(path)) =>
                 extract_path_params(w, path)[1] = Values(Segments(w), Segments(path))
<1>1. PICK p \in Parts : p = Segments(w)
  OBVIOUS
<1>2. PICK s \in Parts : s = Segments(path)
  OBVIOUS
<1>3. PICK k \in Nat : k = Len(p) /\ DOMAIN p = 1 .. k
  BY PartsOk DEF Parts
<1>4. PICK params : params = {i \in DOMAIN p : IsParamSegment(p[i])}
  OBVIOUS
<1>5. params = ParamsOf(p)
  BY <1>3, <1>4 DEF ParamsOf
<1>6. Fits(p, s) <=> Len(p) = Len(s) /\ \A i \in DOMAIN p : i \in params \/ p[i] = s[i]
  BY <1>3, <1>4 DEF Fits
<1>7. PICK values : values = {[name |-> p[i][1], value |-> s[i]] : i \in params}
  OBVIOUS
<1>8. values = Values(p, s)
  BY <1>5, <1>7 DEF Values, Binding
<1>9. extract_path_params(w, path) = IF Fits(p, s) THEN <<values>> ELSE <<>>
  BY <1>1, <1>2, <1>4, <1>6, <1>7 DEF extract_path_params
<1>10. <<values>> # <<>> /\ <<values>>[1] = values
  OBVIOUS
<1> QED
  BY <1>1, <1>2, <1>8, <1>9, <1>10

\* A pattern matches what it reads all of, but for an empty value at the end.
LEMMA LinearReads ==
    ASSUME NEW w \in Seq(PatternToken), FullSegments(w), Len(w) > 0, NEW path \in Seq(Byte), Len(path) > 0
    PROVE  /\ extract_path_params(w, path) # <<>> /\ ~Left(w, path) => \E pos : ReadsAll(w, path, pos)
           /\ \A pos : ReadsAll(w, path, pos) =>
                 /\ extract_path_params(w, path) # <<>> /\ ~Left(w, path)
                 /\ extract_path_params(w, path)[1] = Bound(w, Len(w), path, pos)
<1>1. path \in Seq(PatternToken)
  BY DEF PatternToken
<1>2. PICK a : IsSplit(a, w) /\ Segments(w) = a[Len(w)]
  BY SegmentsSplit
<1>3. PICK b : IsSplit(b, path) /\ Segments(path) = b[Len(path)]
  BY <1>1, SegmentsSplit
<1>4. PICK all \in Nat : all = Len(w) /\ all > 0
  OBVIOUS
<1>5. PICK last \in Nat : last = Len(path) /\ last > 0
  OBVIOUS
<1>6. Segments(w) \in Parts /\ Segments(path) \in Parts
  <2>1. all \in 0 .. Len(w) /\ last \in 0 .. Len(path)
    BY <1>4, <1>5
  <2> QED
    BY <1>2, <1>3, <1>4, <1>5, <2>1 DEF IsSplit
<1>7. /\ extract_path_params(w, path) # <<>> <=> Fits(Segments(w), Segments(path))
      /\ Fits(Segments(w), Segments(path)) =>
            extract_path_params(w, path)[1] = Values(Segments(w), Segments(path))
  BY <1>6, ExtractIs
<1>8. ASSUME extract_path_params(w, path) # <<>>, ~Left(w, path) PROVE \E pos : ReadsAll(w, path, pos)
  <2>1. Fits(a[Len(w)], b[Len(path)])
    BY <1>2, <1>3, <1>7, <1>8
  <2> QED
    BY <1>2, <1>3, <1>8, <2>1, FitReads
<1>9. ASSUME NEW pos, ReadsAll(w, path, pos)
      PROVE  /\ Fits(Segments(w), Segments(path)) /\ ~Left(w, path)
             /\ Values(Segments(w), Segments(path)) = Bound(w, Len(w), path, pos)
  <2>1. Reads(w, Len(w), path, pos) /\ pos[Len(w)] = Len(path) /\ Len(w) \in 0 .. Len(w)
    BY <1>4, <1>9 DEF ReadsAll
  <2>2. /\ IF all > 0 /\ IsParam(w[all]) THEN Aligned(a[all], b[pos[all]], TRUE)
           ELSE Aligned(a[all], b[pos[all]], FALSE)
        /\ Worth(a[all], b[pos[all]], w, all, path, pos)
    <3>1. all \in 0 .. Len(w) /\ Reads(w, all, path, pos)
      BY <1>4, <2>1
    <3> QED
      BY <1>2, <1>3, <3>1, ReadsAligned
  <2>3. Aligned(Segments(w), Segments(path), TRUE) \/ Aligned(Segments(w), Segments(path), FALSE)
    BY <1>2, <1>3, <1>4, <2>1, <2>2
  <2>4. Fits(Segments(w), Segments(path))
    <3>1. PICK p \in Parts : p = Segments(w)
      BY <1>6
    <3>2. PICK k \in Nat : k = Len(p)
      BY <3>1, PartsOk
    <3>3. PICK s : s = Segments(path)
      OBVIOUS
    <3>4. /\ Len(p) = Len(s) /\ \A i \in 1 .. k - 1 : IsParamSegment(p[i]) \/ p[i] = s[i]
          /\ IsParamSegment(p[k]) \/ p[k] = s[k]
      BY <2>3, <3>1, <3>2, <3>3 DEF Aligned
    <3>5. Fits(p, s)
      BY <3>2, <3>4 DEF Fits
    <3> QED
      BY <3>1, <3>3, <3>5
  <2>5. ~Left(w, path)
    <3> SUFFICES ASSUME IsParam(w[all]), path[last] = "/" PROVE FALSE
      BY <1>4, <1>5 DEF Left
    <3>1. all \in 1 .. Len(w) /\ all - 1 \in 0 .. Len(w)
      BY <1>4
    <3>2. Takes(w[all], path, pos[all - 1], pos[all]) /\ pos[all] = last
      BY <1>4, <1>5, <2>1, <3>1 DEF Reads
    <3>3. pos[all - 1] \in 0 .. Len(path)
      BY <2>1, <3>1 DEF Reads
    <3>4. PICK i \in 0 .. Len(path) : i = pos[all - 1]
      BY <3>3
    <3>5. i < last /\ last = End(path, i, {"/"})
      BY <1>5, <3>2, <3>4 DEF Takes
    <3>6. \A h \in i + 1 .. last : path[h] \notin {"/"}
      BY <3>5, EndIs
    <3>7. last \in i + 1 .. last
      BY <1>5, <3>4, <3>5
    <3> QED
      BY <3>6, <3>7
  <2> QED
    BY <1>2, <1>3, <1>4, <2>1, <2>2, <2>4, <2>5 DEF Worth
<1> QED
  BY <1>7, <1>8, <1>9

-----------------------------------------------------------------------------
(* Of two patterns that read a path one is preferred *)

\* At the first difference of two patterns, the first has a byte and the second a parameter.
Preferred(w, v) ==
    \E n \in Nat :
        /\ n < Len(w) /\ n < Len(v)
        /\ \A i \in 1 .. n : w[i] = v[i]
        /\ ~IsParam(w[n + 1]) /\ IsParam(v[n + 1])

\* No two names for a parameter of both.
Agreed(w, v) ==
    \A n \in Nat :
        /\ n < Len(w) /\ n < Len(v)
        /\ \A i \in 1 .. n : w[i] = v[i]
        /\ IsParam(w[n + 1]) /\ IsParam(v[n + 1])
        => w[n + 1] = v[n + 1]

\* One that has read the path cannot go on.
LEMMA ReadsNoFurther ==
    ASSUME NEW w \in Seq(PatternToken), NEW v \in Seq(PatternToken), NEW path \in Seq(Byte),
           NEW pos, ReadsAll(w, path, pos), NEW at, ReadsAll(v, path, at),
           Len(w) < Len(v), \A i \in 1 .. Len(w) : w[i] = v[i]
    PROVE  FALSE
<1>1. PICK n \in Nat : n = Len(w)
  OBVIOUS
<1>2. PICK m \in Nat : m = Len(v) /\ n < m
  BY <1>1
<1>3. Reads(w, n, path, pos) /\ pos[n] = Len(path)
  BY <1>1 DEF ReadsAll
<1>4. Reads(v, m, path, at)
  BY <1>2 DEF ReadsAll
<1>5. pos[n] = at[n]
  <2>1. n <= n /\ n <= m /\ \A k \in 1 .. n : w[k] = v[k]
    BY <1>1, <1>2
  <2> QED
    BY <1>3, <1>4, <2>1, ReadsOnce
<1>6. n + 1 \in 1 .. m /\ (n + 1) - 1 = n
  BY <1>2
<1>7. Takes(v[n + 1], path, at[n], at[n + 1])
  <2>1. PICK h \in 1 .. m : h = n + 1 /\ h - 1 = n
    BY <1>6
  <2>2. Takes(v[h], path, at[h - 1], at[h])
    BY <1>4, <2>1 DEF Reads
  <2> QED
    BY <2>1, <2>2
<1>8. Len(path) \in Nat
  OBVIOUS
<1> QED
  BY <1>3, <1>5, <1>7, <1>8 DEF Takes

\* Of two patterns that read one path, one is preferred or they are the same.
LEMMA ReadersDiffer ==
    ASSUME NEW w \in Seq(PatternToken), NEW v \in Seq(PatternToken), NEW path \in Seq(Byte), Agreed(w, v),
           NEW pos, ReadsAll(w, path, pos), NEW at, ReadsAll(v, path, at)
    PROVE  w = v \/ Preferred(w, v) \/ Preferred(v, w)
<1>1. PICK a \in Nat : a = Len(w)
  OBVIOUS
<1>2. PICK b \in Nat : b = Len(v)
  OBVIOUS
<1>3. PICK n : n = common_prefix_len(w, v, 0)
  OBVIOUS
<1>4. /\ n \in 0 .. a /\ n <= b
      /\ \A i \in 1 .. n : w[i] = v[i]
      /\ n < a /\ n < b => w[n + 1] # v[n + 1]
  <2>1. 0 \in 0 .. Len(v)
    BY <1>2
  <2>2. /\ n \in 0 .. Len(w) /\ 0 + n <= Len(v)
        /\ \A i \in 1 .. n : w[i] = v[0 + i]
        /\ n < Len(w) /\ 0 + n < Len(v) => w[n + 1] # v[0 + n + 1]
    BY <1>3, <2>1, CommonIs DEF CommonAt
  <2>3. \A i \in 1 .. n : 0 + i = i
    BY <2>2
  <2>4. 0 + n = n /\ 0 + n + 1 = n + 1
    BY <2>2
  <2> QED
    BY <1>1, <1>2, <2>2, <2>3, <2>4
<1>5. CASE n = a /\ n = b
  BY <1>1, <1>2, <1>4, <1>5, SeqEqual
<1>6. CASE n = a /\ n < b
  BY <1>1, <1>2, <1>4, <1>6, ReadsNoFurther
<1>7. CASE n < a /\ n = b
  BY <1>1, <1>2, <1>4, <1>7, ReadsNoFurther
<1>8. CASE n < a /\ n < b
  <2>1. n \in Nat /\ n + 1 \in 1 .. a /\ n + 1 \in 1 .. b /\ (n + 1) - 1 = n /\ n \in 0 .. a /\ n \in 0 .. b
    BY <1>4, <1>8
  <2>2. Reads(w, a, path, pos) /\ Reads(v, b, path, at)
    BY <1>1, <1>2 DEF ReadsAll
  <2>3. pos[n] = at[n]
    <3>1. n <= a /\ n <= b /\ n \in Nat
      BY <1>4, <1>8
    <3>2. \A i \in 1 .. n : w[i] = v[i]
      BY <1>4
    <3> QED
      BY <2>2, <3>1, <3>2, ReadsOnce
  <2>4. Takes(w[n + 1], path, pos[n], pos[n + 1]) /\ Takes(v[n + 1], path, at[n], at[n + 1])
    BY <1>1, <1>2, <2>1 DEF ReadsAll, Reads
  <2>5. IsParam(w[n + 1]) \/ IsParam(v[n + 1])
    BY <1>4, <1>8, <2>3, <2>4 DEF Takes
  <2>6. ~(IsParam(w[n + 1]) /\ IsParam(v[n + 1]))
    BY <1>1, <1>2, <1>4, <1>8, <2>1 DEF Agreed
  <2> QED
    BY <1>1, <1>2, <1>4, <1>8, <2>1, <2>5, <2>6 DEF Preferred
<1> QED
  BY <1>4, <1>5, <1>6, <1>7, <1>8

\* A parameter begins a segment.
LEMMA ParamBegins ==
    ASSUME NEW w \in Seq(PatternToken), FullSegments(w), NEW a, IsSplit(a, w),
           NEW n \in Nat, n < Len(w), IsParam(w[n + 1])
    PROVE  EmptyLast(a[n])
<1>1. CASE n = 0
  <2>1. a[0] = << <<>> >>
    BY DEF IsSplit
  <2>2. Len(<< <<>> >>) = 1 /\ Len(<< <<>> >>[1]) = 0
    OBVIOUS
  <2> QED
    BY <1>1, <2>1, <2>2 DEF EmptyLast
<1>2. CASE n > 0
  <2>1. n + 1 \in 1 .. Len(w) /\ (n + 1) - 1 = n /\ n \in 1 .. Len(w) /\ n - 1 \in 0 .. Len(w) /\ n + 1 > 1
    BY <1>2
  <2>2. w[n] = "/"
    BY <2>1 DEF FullSegments
  <2>3. a[n] = Cut(a[n - 1], "/") /\ a[n - 1] \in Parts
    BY <2>1, <2>2 DEF IsSplit
  <2>4. Len(a[n - 1]) \in Nat
    BY <2>3, PartsOk
  <2>5. PICK before \in Parts : before = a[n - 1]
    BY <2>3
  <2>6. Len(Cut(before, "/")) = Len(before) + 1 /\ Cut(before, "/")[Len(before) + 1] = <<>>
    BY <2>5, CutAtSlash
  <2> QED
    BY <2>3, <2>5, <2>6 DEF EmptyLast
<1> QED
  BY <1>1, <1>2

\* And the segment is one.
LEMMA ParamIsSegment ==
    ASSUME NEW c \in Parts, NEW whole \in Parts, NEW token, Next(c, whole, token), EmptyLast(c)
    PROVE  /\ Len(c) \in 1 .. Len(whole)
           /\ IsParamSegment(whole[Len(c)]) <=> IsParam(token)
<1>1. PICK k \in Nat : k = Len(c) /\ k > 0 /\ k <= Len(whole)
  BY PartsOk DEF Next
<1>2. k \in 1 .. Len(whole) /\ Len(whole) \in Nat
  BY <1>1, PartsOk
<1>3. c[k] \in Seq(PatternToken) /\ whole[k] \in Seq(PatternToken)
  BY <1>1, <1>2, PartsOk
<1>4. Len(c[k]) = 0
  BY <1>1 DEF EmptyLast
<1>5. CASE token = "/"
  <2>1. whole[k] = c[k] /\ c[k] = <<>>
    BY <1>1, <1>3, <1>4, <1>5 DEF Next
  <2>2. ~IsParam("/")
    BY RouterAssumption DEF IsParam
  <2> QED
    BY <1>1, <1>2, <1>5, <2>1, <2>2 DEF IsParamSegment
<1>6. CASE token # "/"
  <2>1. Len(whole[k]) > 0 /\ whole[k][1] = token
    BY <1>1, <1>4, <1>6 DEF Next
  <2>2. whole[k] # <<>>
    BY <1>3, <2>1
  <2> QED
    BY <1>1, <1>2, <2>1, <2>2 DEF IsParamSegment
<1> QED
  BY <1>5, <1>6

\* Segments is a sequence of segments.
LEMMA SegmentsOk ==
    ASSUME NEW w \in Seq(PatternToken), NEW a, IsSplit(a, w), Segments(w) = a[Len(w)]
    PROVE  /\ Segments(w) \in Parts
           /\ DOMAIN Segments(w) = 1 .. Len(Segments(w))
<1>1. Len(w) \in Nat /\ Len(w) \in 0 .. Len(w)
  OBVIOUS
<1>2. Segments(w) \in Parts
  BY <1>1 DEF IsSplit
<1> QED
  BY <1>2 DEF Parts

\* The key of a pattern has one for a parameter and zero for another segment.
LEMMA SpecificityIs ==
    ASSUME NEW w \in Seq(PatternToken)
    PROVE  /\ Len(route_specificity(w)) = Len(Segments(w)) /\ Len(Segments(w)) \in Nat
           /\ \A i \in 1 .. Len(Segments(w)) :
                 /\ IsParamSegment(Segments(w)[i]) => route_specificity(w)[i] = 1
                 /\ ~IsParamSegment(Segments(w)[i]) => route_specificity(w)[i] = 0
<1>1. PICK a : IsSplit(a, w) /\ Segments(w) = a[Len(w)]
  BY SegmentsSplit
<1>2. Segments(w) \in Parts /\ DOMAIN Segments(w) = 1 .. Len(Segments(w))
  BY <1>1, SegmentsOk
<1>3. PICK segments \in Parts : segments = Segments(w)
  BY <1>2
<1>4. PICK k \in Nat : k = Len(segments) /\ DOMAIN segments = 1 .. k
  BY <1>2, <1>3, PartsOk
<1>5. route_specificity(w) = [i \in 1 .. k |-> IF IsParamSegment(segments[i]) THEN 1 ELSE 0]
  BY <1>3, <1>4 DEF route_specificity
<1>6. Len(route_specificity(w)) = k
  BY <1>5
<1> QED
  BY <1>3, <1>4, <1>5, <1>6

\* The preferred pattern is the more specific one.
LEMMA PreferredBelow ==
    ASSUME NEW w \in Seq(PatternToken), NEW v \in Seq(PatternToken), FullSegments(v), Preferred(w, v)
    PROVE  Below(route_specificity(w), route_specificity(v))
<1>1. PICK n \in Nat :
          /\ n < Len(w) /\ n < Len(v)
          /\ \A i \in 1 .. n : w[i] = v[i]
          /\ ~IsParam(w[n + 1]) /\ IsParam(v[n + 1])
  BY DEF Preferred
<1>2. PICK a : IsSplit(a, w) /\ Segments(w) = a[Len(w)]
  BY SegmentsSplit
<1>3. PICK b : IsSplit(b, v) /\ Segments(v) = b[Len(v)]
  BY SegmentsSplit
<1>4. Segments(w) \in Parts /\ Segments(v) \in Parts
  BY <1>2, <1>3, SegmentsOk
<1>5. n <= Len(w) /\ n <= Len(v) /\ Len(w) \in Nat /\ Len(v) \in Nat
  BY <1>1
<1>6. a[n] = b[n]
  BY <1>1, <1>2, <1>3, <1>5, SplitAlike
<1>7. EmptyLast(b[n])
  BY <1>1, <1>3, ParamBegins
<1>8. PICK c \in Parts : c = a[n]
  BY <1>2, <1>5 DEF IsSplit
<1>9. Next(c, Segments(w), w[n + 1])
  <2>1. Len(w) \in Nat /\ n < Len(w) /\ Len(w) <= Len(w)
    BY <1>1, <1>5
  <2> QED
    BY <1>2, <1>8, <2>1, NextIs
<1>10. Next(c, Segments(v), v[n + 1])
  <2>1. Len(v) \in Nat /\ n < Len(v) /\ Len(v) <= Len(v)
    BY <1>1, <1>5
  <2>2. Next(b[n], b[Len(v)], v[n + 1])
    BY <1>3, <2>1, NextIs
  <2> QED
    BY <1>3, <1>6, <1>8, <2>2
<1>11. EmptyLast(c)
  BY <1>6, <1>7, <1>8
<1>12. PICK p \in Parts : p = Segments(w)
  BY <1>4
<1>13. PICK q \in Parts : q = Segments(v)
  BY <1>4
<1>14. /\ Len(c) \in 1 .. Len(p) /\ Len(c) \in 1 .. Len(q)
       /\ ~IsParamSegment(p[Len(c)]) /\ IsParamSegment(q[Len(c)])
  BY <1>1, <1>9, <1>10, <1>11, <1>12, <1>13, ParamIsSegment
<1>15. Grown(c, p) /\ Grown(c, q)
  <2>1. Len(w) \in 0 .. Len(w) /\ n \in 0 .. Len(w) /\ Len(v) \in 0 .. Len(v) /\ n \in 0 .. Len(v)
    BY <1>1, <1>5
  <2>2. Grown(a[n], a[Len(w)]) /\ Grown(b[n], b[Len(v)])
    BY <1>2, <1>3, <2>1, SplitGrows
  <2> QED
    BY <1>2, <1>3, <1>6, <1>8, <1>12, <1>13, <2>2
<1>16. PICK k \in Nat : k = Len(c) /\ k > 0
  BY PartsOk
<1>17. \A i \in 1 .. k - 1 : p[i] = q[i]
  BY <1>15, <1>16 DEF Grown
<1>18. PICK s : s = route_specificity(w)
  OBVIOUS
<1>19. PICK t : t = route_specificity(v)
  OBVIOUS
<1>20. /\ Len(s) = Len(p) /\ Len(p) \in Nat
       /\ \A i \in 1 .. Len(p) : /\ IsParamSegment(p[i]) => s[i] = 1
                                 /\ ~IsParamSegment(p[i]) => s[i] = 0
  BY <1>12, <1>18, SpecificityIs
<1>21. /\ Len(t) = Len(q) /\ Len(q) \in Nat
       /\ \A i \in 1 .. Len(q) : /\ IsParamSegment(q[i]) => t[i] = 1
                                 /\ ~IsParamSegment(q[i]) => t[i] = 0
  BY <1>13, <1>19, SpecificityIs
<1>22. k \in 1 .. Len(t) /\ k <= Len(s) /\ s[k] < t[k]
  BY <1>14, <1>16, <1>20, <1>21
<1>23. \A j \in 1 .. k - 1 : j <= Len(s) /\ s[j] = t[j]
  <2> TAKE j \in 1 .. k - 1
  <2>1. j \in 1 .. Len(p) /\ j \in 1 .. Len(q) /\ p[j] = q[j]
    BY <1>14, <1>16, <1>17, <1>20, <1>21
  <2> QED
    BY <1>20, <1>21, <2>1
<1> QED
  BY <1>18, <1>19, <1>22, <1>23 DEF Below

\* The order is one: nothing is below itself, nor two below each other.
LEMMA BelowOnce ==
    ASSUME NEW w \in Seq(PatternToken), NEW v \in Seq(PatternToken),
           Below(route_specificity(w), route_specificity(v))
    PROVE  route_specificity(w) # route_specificity(v) /\ ~Below(route_specificity(v), route_specificity(w))
<1>1. PICK s : s = route_specificity(w)
  OBVIOUS
<1>2. PICK t : t = route_specificity(v)
  OBVIOUS
<1>3. PICK m \in Nat : m = Len(s) /\ \A i \in 1 .. m : s[i] \in Nat
  BY <1>1, SpecificityIs
<1>4. PICK n \in Nat : n = Len(t) /\ \A i \in 1 .. n : t[i] \in Nat
  BY <1>2, SpecificityIs
<1>5. PICK i \in 1 .. n :
          /\ \A j \in 1 .. i - 1 : j <= m /\ s[j] = t[j]
          /\ i <= m => s[i] < t[i]
  BY <1>1, <1>2, <1>3, <1>4 DEF Below
<1>6. s # t
  BY <1>3, <1>4, <1>5
<1>7. ~Below(t, s)
  <2> SUFFICES ASSUME Below(t, s) PROVE FALSE
    OBVIOUS
  <2>1. PICK k \in 1 .. m :
            /\ \A j \in 1 .. k - 1 : j <= n /\ t[j] = s[j]
            /\ k <= n => t[k] < s[k]
    BY <1>3, <1>4 DEF Below
  <2>2. CASE i < k
    <3>1. i \in 1 .. k - 1 /\ i \in 1 .. m
      BY <2>2
    <3> QED
      BY <1>3, <1>5, <2>1, <3>1
  <2>3. CASE k < i
    <3>1. k \in 1 .. i - 1 /\ k \in 1 .. n
      BY <2>3
    <3> QED
      BY <1>3, <1>4, <1>5, <2>1, <3>1
  <2>4. CASE i = k
    BY <1>3, <1>4, <1>5, <2>1, <2>4
  <2> QED
    BY <2>2, <2>3, <2>4
<1> QED
  BY <1>1, <1>2, <1>6, <1>7

\* A pattern with a parameter is dynamic.
LEMMA ParamIsDynamic ==
    ASSUME NEW w \in Seq(PatternToken), FullSegments(w), ~is_dynamic(w), NEW i \in 1 .. Len(w)
    PROVE  ~IsParam(w[i])
<1> SUFFICES ASSUME IsParam(w[i]) PROVE FALSE
  OBVIOUS
<1>1. PICK n \in Nat : i = n + 1 /\ n < Len(w)
  BY Len(w) \in Nat, i - 1 \in Nat, i = (i - 1) + 1
<1>2. PICK a : IsSplit(a, w) /\ Segments(w) = a[Len(w)]
  BY SegmentsSplit
<1>3. PICK p \in Parts : p = Segments(w) /\ DOMAIN p = 1 .. Len(p)
  BY <1>2, SegmentsOk
<1>4. EmptyLast(a[n])
  BY <1>1, <1>2, ParamBegins
<1>5. Len(w) \in Nat /\ Len(w) <= Len(w) /\ n \in 0 .. Len(w)
  BY <1>1
<1>6. PICK c \in Parts : c = a[n]
  BY <1>2, <1>5 DEF IsSplit
<1>7. Next(c, p, w[n + 1])
  BY <1>1, <1>2, <1>3, <1>5, <1>6, NextIs
<1>8. Len(c) \in 1 .. Len(p) /\ IsParamSegment(p[Len(c)])
  BY <1>1, <1>3, <1>4, <1>6, <1>7, ParamIsSegment
<1> QED
  BY <1>3, <1>8 DEF is_dynamic

\* Without a parameter, a pattern reads itself and nothing else.
LEMMA BytesRead ==
    ASSUME NEW path \in Seq(Byte)
    PROVE  LET pos == [k \in 0 .. Len(path) |-> k]
           IN  /\ ReadsAll(path, path, pos)
               /\ Bound(path, Len(path), path, pos) = {}
<1>1. PICK n \in Nat : n = Len(path)
  OBVIOUS
<1>2. \A k \in 1 .. n : ~IsParam(path[k])
  BY <1>1, RouterAssumption DEF IsParam
<1>3. PICK pos : pos = [k \in 0 .. n |-> k]
  OBVIOUS
<1>4. \A k \in 1 .. n : Takes(path[k], path, pos[k - 1], pos[k])
  BY <1>1, <1>2, <1>3 DEF Takes
<1>5. ReadsAll(path, path, pos)
  BY <1>1, <1>3, <1>4 DEF ReadsAll, Reads
<1>6. Bound(path, n, path, pos) = {}
  BY <1>2 DEF Bound
<1> QED
  BY <1>1, <1>3, <1>5, <1>6

\* A pattern without parameters reads itself only.
LEMMA BytesReadThemselves ==
    ASSUME NEW w \in Seq(PatternToken), NEW path \in Seq(Byte), NEW pos, ReadsAll(w, path, pos),
           \A i \in 1 .. Len(w) : ~IsParam(w[i])
    PROVE  w = path
<1>1. PICK n \in Nat : n = Len(w)
  OBVIOUS
<1>2. path \in Seq(PatternToken) /\ \A i \in 1 .. Len(path) : ~IsParam(path[i])
  BY RouterAssumption DEF IsParam, PatternToken
<1>3. Agreed(w, path)
  BY <1>1 DEF Agreed
<1>4. PICK at : ReadsAll(path, path, at)
  BY BytesRead
<1>5. ~Preferred(w, path)
  <2> SUFFICES ASSUME NEW m \in Nat, m < Len(path), IsParam(path[m + 1]) PROVE FALSE
    BY DEF Preferred
  <2>1. m + 1 \in 1 .. Len(path)
    OBVIOUS
  <2> QED
    BY <1>2, <2>1
<1>6. ~Preferred(path, w)
  <2> SUFFICES ASSUME NEW m \in Nat, m < Len(w), IsParam(w[m + 1]) PROVE FALSE
    BY DEF Preferred
  <2>1. m + 1 \in 1 .. Len(w)
    OBVIOUS
  <2> QED
    BY <2>1
<1> QED
  BY <1>2, <1>3, <1>4, <1>5, <1>6, ReadersDiffer

-----------------------------------------------------------------------------
(* Words: what stands at the front of what *)

\* Of two fronts of a word the shorter is a front of the longer.
LEMMA StartsAmong ==
    ASSUME NEW u \in Seq(PatternToken), NEW v \in Seq(PatternToken), NEW w \in Seq(PatternToken),
           Starts(u, w), Starts(v, w), Len(u) <= Len(v)
    PROVE  Starts(u, v)
<1>1. Len(u) \in Nat /\ Len(v) \in Nat /\ Len(w) \in Nat
  OBVIOUS
<1> QED
  BY <1>1 DEF Starts

\* The token behind u in w.
Behind(u, w) == w[Len(u) + 1]

\* u is a front of w, and not all of it.
Within(u, w) == Starts(u, w) /\ Len(u) < Len(w)

\* What is within a front of a word is within the word, and the same is behind it.
LEMMA WithinStarts ==
    ASSUME NEW u \in Seq(PatternToken), NEW v \in Seq(PatternToken), NEW w \in Seq(PatternToken),
           Within(u, v), Starts(v, w)
    PROVE  Within(u, w) /\ Behind(u, w) = Behind(u, v)
<1>1. Len(u) \in Nat /\ Len(v) \in Nat /\ Len(w) \in Nat
  OBVIOUS
<1>2. Len(u) + 1 \in 1 .. Len(v)
  BY <1>1 DEF Within
<1> QED
  BY <1>1, <1>2 DEF Starts, Within, Behind

\* A front of what is within a word is within it.
LEMMA StartsWithin ==
    ASSUME NEW u \in Seq(PatternToken), NEW v \in Seq(PatternToken), NEW w \in Seq(PatternToken),
           Starts(u, v), Within(v, w)
    PROVE  Within(u, w)
<1>1. Len(u) \in Nat /\ Len(v) \in Nat /\ Len(w) \in Nat
  OBVIOUS
<1> QED
  BY <1>1 DEF Starts, Within

\* Of two fronts the shorter is within the longer, and the word is behind it.
LEMMA WithinAmong ==
    ASSUME NEW u \in Seq(PatternToken), NEW v \in Seq(PatternToken), NEW w \in Seq(PatternToken),
           Starts(u, w), Starts(v, w), Len(u) < Len(v)
    PROVE  Within(u, v) /\ Behind(u, v) = Behind(u, w)
<1>1. Len(u) \in Nat /\ Len(v) \in Nat /\ Len(w) \in Nat
  OBVIOUS
<1>2. Len(u) + 1 \in 1 .. Len(v)
  BY <1>1
<1> QED
  BY <1>1, <1>2 DEF Starts, Within, Behind

\* Behind what is within a word there is a token.
LEMMA BehindIsToken ==
    ASSUME NEW u \in Seq(PatternToken), NEW w \in Seq(PatternToken), Within(u, w)
    PROVE  Behind(u, w) \in PatternToken
<1>1. Len(u) \in Nat /\ Len(w) \in Nat
  OBVIOUS
<1>2. Len(u) + 1 \in 1 .. Len(w)
  BY <1>1 DEF Within
<1> QED
  BY <1>2 DEF Behind

(* A tree over the nodes 1 to n: word is what leads to a node, edge where the *)
(* next token leads.                                                          *)

\* No two nodes have one word.
Once(n, word) ==
    \A x, y \in 1 .. n : Starts(word[x], word[y]) /\ Len(word[x]) = Len(word[y]) => x = y

\* An edge adds to the word, first of all its token.
Hangs(word, x, t, e) == Within(word[x], word[e]) /\ Behind(word[x], word[e]) = t

\* A node whose word goes on is beyond the edge of the next token.
Leads(edge, word, x, y) ==
    /\ edge[x][Behind(word[x], word[y])] # NoNode
    /\ Starts(word[edge[x][Behind(word[x], word[y])]], word[y])

Tree(n, edge, word) ==
    /\ edge \in [1 .. n -> [PatternToken -> 0 .. n]]
    /\ word \in [1 .. n -> Seq(PatternToken)]
    /\ Once(n, word)
    /\ \A x \in 1 .. n, t \in PatternToken : edge[x][t] # NoNode => Hangs(word, x, t, edge[x][t])
    /\ \A x, y \in 1 .. n : Within(word[x], word[y]) => Leads(edge, word, x, y)

\* A new leaf, where no edge is.
LeafWord(n, word, f) == [y \in 1 .. n + 1 |-> IF y = n + 1 THEN f ELSE word[y]]

LeafEdge(n, edge, x, t) ==
    [y \in 1 .. n + 1 |-> [s \in PatternToken |->
        IF y = n + 1 THEN NoNode ELSE IF y = x /\ s = t THEN n + 1 ELSE edge[y][s]]]

\* A tree with a leaf more is a tree.
LEMMA LeafTree ==
    ASSUME NEW n \in Nat, NEW edge, NEW word, Tree(n, edge, word),
           NEW x \in 1 .. n, NEW t \in PatternToken, edge[x][t] = NoNode,
           NEW f \in Seq(PatternToken), Within(word[x], f), Behind(word[x], f) = t
    PROVE  Tree(n + 1, LeafEdge(n, edge, x, t), LeafWord(n, word, f))
<1> DEFINE word2 == LeafWord(n, word, f)
           edge2 == LeafEdge(n, edge, x, t)
<1>0. /\ word2 = [y \in 1 .. n + 1 |-> IF y = n + 1 THEN f ELSE word[y]]
      /\ edge2 = [y \in 1 .. n + 1 |-> [s \in PatternToken |->
                     IF y = n + 1 THEN NoNode ELSE IF y = x /\ s = t THEN n + 1 ELSE edge[y][s]]]
  BY DEF LeafWord, LeafEdge
<1> HIDE DEF word2, edge2
<1>1. \A y \in 1 .. n : word[y] \in Seq(PatternToken) /\ Len(word[y]) \in Nat
  BY DEF Tree
<1>2. \A y \in 1 .. n : Within(word[x], word[y]) => Behind(word[x], word[y]) # t
  BY DEF Tree, Leads
<1>3. \A y \in 1 .. n : ~Starts(f, word[y])
  <2> SUFFICES ASSUME NEW y \in 1 .. n, Starts(f, word[y]) PROVE FALSE
    OBVIOUS
  <2>1. Within(word[x], word[y]) /\ Behind(word[x], word[y]) = t
    BY <1>1, WithinStarts
  <2> QED
    BY <1>2, <2>1
<1>4. /\ word2[n + 1] = f /\ \A y \in 1 .. n : word2[y] = word[y]
      /\ \A y \in 1 .. n + 1 : y = n + 1 \/ y \in 1 .. n
      /\ \A s \in PatternToken : edge2[n + 1][s] = NoNode
      /\ edge2[x][t] = n + 1
      /\ \A y \in 1 .. n, s \in PatternToken : y # x \/ s # t => edge2[y][s] = edge[y][s]
  <2>1. n + 1 \in 1 .. n + 1 /\ x \in 1 .. n + 1 /\ x # n + 1
    OBVIOUS
  <2>2. \A y \in 1 .. n : y \in 1 .. n + 1 /\ y # n + 1
    OBVIOUS
  <2>3. \A y \in 1 .. n + 1 : y = n + 1 \/ y \in 1 .. n
    OBVIOUS
  <2>4. word2[n + 1] = f /\ \A y \in 1 .. n : word2[y] = word[y]
    BY <1>0, <2>1, <2>2
  <2>5. \A s \in PatternToken : edge2[n + 1][s] = NoNode
    BY <1>0, <2>1
  <2>6. edge2[x][t] = n + 1
    BY <1>0, <2>1
  <2>7. \A y \in 1 .. n, s \in PatternToken : y # x \/ s # t => edge2[y][s] = edge[y][s]
    BY <1>0, <2>2
  <2> QED
    BY <2>3, <2>4, <2>5, <2>6, <2>7
<1>5. word2 \in [1 .. n + 1 -> Seq(PatternToken)]
  <2>1. \A y \in 1 .. n + 1 : word2[y] \in Seq(PatternToken)
    BY <1>1, <1>4
  <2> QED
    BY <1>0, <2>1
<1>6. edge2 \in [1 .. n + 1 -> [PatternToken -> 0 .. n + 1]]
  <2>1. \A y \in 1 .. n, s \in PatternToken : edge[y][s] \in 0 .. n + 1
    <3>1. edge \in [1 .. n -> [PatternToken -> 0 .. n]]
      BY DEF Tree
    <3>2. \A y \in 1 .. n, s \in PatternToken : edge[y][s] \in 0 .. n
      BY <3>1
    <3>3. \A z \in 0 .. n : z \in 0 .. n + 1
      OBVIOUS
    <3> QED
      BY <3>2, <3>3
  <2> QED
    BY <1>0, <2>1 DEF NoNode
<1>7. Len(f) \in Nat
  OBVIOUS
<1>8. Once(n + 1, word2)
  <2> SUFFICES ASSUME NEW a \in 1 .. n + 1, NEW b \in 1 .. n + 1,
                      Starts(word2[a], word2[b]), Len(word2[a]) = Len(word2[b])
               PROVE  a = b
    BY DEF Once
  <2>1. CASE a \in 1 .. n /\ b \in 1 .. n
    BY <1>4, <2>1 DEF Tree, Once
  <2>2. CASE a = n + 1 /\ b \in 1 .. n
    BY <1>3, <1>4, <2>2
  <2>3. CASE a \in 1 .. n /\ b = n + 1
    <3>1. Starts(word[a], f) /\ Len(word[a]) = Len(f)
      BY <1>4, <2>3
    <3>2. Starts(f, word[a])
      BY <1>1, <1>7, <2>3, <3>1 DEF Starts
    <3> QED
      BY <1>3, <2>3, <3>2
  <2> QED
    BY <1>4, <2>1, <2>2, <2>3
<1>9. ASSUME NEW y \in 1 .. n + 1, NEW s \in PatternToken, edge2[y][s] # NoNode
      PROVE  Hangs(word2, y, s, edge2[y][s])
  <2>1. y \in 1 .. n
    BY <1>4, <1>9
  <2>2. CASE y = x /\ s = t
    BY <1>4, <2>2 DEF Hangs
  <2>3. CASE y # x \/ s # t
    <3>1. edge2[y][s] = edge[y][s]
      BY <1>4, <2>1, <2>3
    <3>2. edge[y][s] \in 1 .. n /\ Hangs(word, y, s, edge[y][s])
      BY <1>9, <2>1, <3>1 DEF Tree, NoNode
    <3> QED
      BY <1>4, <2>1, <3>1, <3>2 DEF Hangs
  <2> QED
    BY <2>2, <2>3
<1>10. ASSUME NEW y \in 1 .. n + 1, NEW z \in 1 .. n + 1, Within(word2[y], word2[z])
       PROVE  Leads(edge2, word2, y, z)
  <2>1. y \in 1 .. n
    <3> SUFFICES ASSUME y = n + 1 PROVE FALSE
      BY <1>4
    <3>0. z # n + 1
      <4>1. CASE z = n + 1
        BY <1>4, <1>7, <1>10, <4>1 DEF Within
      <4> QED
        BY <4>1
    <3>1. z \in 1 .. n
      BY <1>4, <3>0
    <3> QED
      BY <1>3, <1>4, <1>10, <3>1 DEF Within
  <2>2. CASE z \in 1 .. n
    <3>1. Within(word[y], word[z])
      BY <1>4, <1>10, <2>1, <2>2
    <3>2. PICK s \in PatternToken : s = Behind(word[y], word[z])
      BY <1>1, <2>1, <2>2, <3>1, BehindIsToken
    <3>3. edge[y][s] # NoNode /\ Starts(word[edge[y][s]], word[z])
      BY <2>1, <2>2, <3>1, <3>2 DEF Tree, Leads
    <3>4. edge[y][s] \in 1 .. n
      BY <2>1, <3>3 DEF Tree, NoNode
    <3>5. edge2[y][s] = edge[y][s]
      BY <1>4, <2>1, <3>3
    <3> QED
      BY <1>4, <2>1, <2>2, <3>2, <3>3, <3>4, <3>5 DEF Leads
  <2>3. CASE z = n + 1
    <3>1. Within(word[y], f)
      BY <1>4, <1>10, <2>1, <2>3
    <3>2. Starts(word[y], f) /\ Starts(word[x], f) /\ Len(word[x]) \in Nat /\ Len(word[y]) \in Nat
      BY <1>1, <2>1, <3>1 DEF Within
    <3>3. CASE Len(word[y]) > Len(word[x])
      <4>1. Within(word[x], word[y]) /\ Behind(word[x], word[y]) = t
        BY <1>1, <2>1, <3>2, <3>3, WithinAmong
      <4> QED
        BY <1>2, <2>1, <4>1
    <3>4. CASE Len(word[y]) = Len(word[x])
      <4>1. Starts(word[y], word[x])
        BY <1>1, <2>1, <3>2, <3>4, StartsAmong
      <4>2. y = x
        BY <2>1, <3>4, <4>1 DEF Tree, Once
      <4>3. Starts(f, f)
        BY StartsItself
      <4> QED
        BY <1>4, <2>3, <4>2, <4>3 DEF Leads, NoNode
    <3>5. CASE Len(word[y]) < Len(word[x])
      <4>1. Within(word[y], word[x]) /\ Behind(word[y], word[x]) = Behind(word[y], f)
        BY <1>1, <2>1, <3>2, <3>5, WithinAmong
      <4>2. PICK s \in PatternToken : s = Behind(word[y], word[x])
        BY <1>1, <2>1, <4>1, BehindIsToken
      <4>3. edge[y][s] # NoNode /\ Starts(word[edge[y][s]], word[x])
        BY <2>1, <4>1, <4>2 DEF Tree, Leads
      <4>4. edge[y][s] \in 1 .. n
        BY <2>1, <4>3 DEF Tree, NoNode
      <4>5. edge2[y][s] = edge[y][s]
        BY <1>4, <2>1, <3>5
      <4>6. Starts(word[edge[y][s]], f)
        BY <1>1, <3>2, <4>3, <4>4, StartsFurther
      <4> QED
        BY <1>4, <2>1, <2>3, <4>1, <4>2, <4>3, <4>4, <4>5, <4>6 DEF Leads
    <3> QED
      BY <3>2, <3>3, <3>4, <3>5
  <2> QED
    BY <1>4, <2>2, <2>3
<1> QED
  BY <1>5, <1>6, <1>8, <1>9, <1>10 DEF Tree, word2, edge2

\* A node that is split: its edges go to a new node, and the way there is cut at f.
SplitWord(n, word, c, f) ==
    [y \in 1 .. n + 1 |-> IF y = n + 1 THEN word[c] ELSE IF y = c THEN f ELSE word[y]]

SplitEdge(n, edge, c, r) ==
    [y \in 1 .. n + 1 |-> [s \in PatternToken |->
        IF y = n + 1 THEN edge[c][s]
        ELSE IF y = c THEN IF s = r THEN n + 1 ELSE NoNode
        ELSE edge[y][s]]]

\* A tree with a node put between two others is a tree.
LEMMA SplitTree ==
    ASSUME NEW n \in Nat, NEW edge, NEW word, Tree(n, edge, word),
           NEW x \in 1 .. n, NEW t \in PatternToken, NEW c \in 1 .. n, c = edge[x][t],
           NEW f \in Seq(PatternToken), Within(word[x], f), Within(f, word[c]),
           NEW r, r = Behind(f, word[c])
    PROVE  Tree(n + 1, SplitEdge(n, edge, c, r), SplitWord(n, word, c, f))
<1> DEFINE word2 == SplitWord(n, word, c, f)
           edge2 == SplitEdge(n, edge, c, r)
<1>0. /\ word2 = [y \in 1 .. n + 1 |-> IF y = n + 1 THEN word[c] ELSE IF y = c THEN f ELSE word[y]]
      /\ edge2 = [y \in 1 .. n + 1 |-> [s \in PatternToken |->
                     IF y = n + 1 THEN edge[c][s]
                     ELSE IF y = c THEN IF s = r THEN n + 1 ELSE NoNode
                     ELSE edge[y][s]]]
  BY DEF SplitWord, SplitEdge
<1> HIDE DEF word2, edge2
<1>1. \A y \in 1 .. n : word[y] \in Seq(PatternToken) /\ Len(word[y]) \in Nat
  BY DEF Tree
<1>2. Len(f) \in Nat /\ Len(f) < Len(word[c]) /\ Starts(f, word[c]) /\ r \in PatternToken
  BY <1>1, BehindIsToken DEF Within
<1>3. Hangs(word, x, t, c)
  BY DEF Tree, NoNode
<1>4. ASSUME NEW y \in 1 .. n, Starts(f, word[y]) PROVE Starts(word[c], word[y])
  <2>1. Within(word[x], word[y]) /\ Behind(word[x], word[y]) = Behind(word[x], f)
    BY <1>1, <1>4, WithinStarts
  <2>2. Behind(word[x], f) = t
    <3>1. Behind(word[x], word[c]) = Behind(word[x], f)
      BY <1>1, <1>2, WithinStarts
    <3> QED
      BY <1>3, <3>1 DEF Hangs
  <2> QED
    BY <2>1, <2>2 DEF Tree, Leads
<1>5. \A y \in 1 .. n : Starts(f, word[y]) => Len(f) < Len(word[y])
  <2> SUFFICES ASSUME NEW y \in 1 .. n, Starts(f, word[y]) PROVE Len(f) < Len(word[y])
    OBVIOUS
  <2>1. Starts(word[c], word[y])
    BY <1>4
  <2> QED
    BY <1>1, <1>2, <2>1 DEF Starts
<1>6. /\ word2[n + 1] = word[c] /\ word2[c] = f
      /\ \A y \in 1 .. n : y # c => word2[y] = word[y]
  <2>1. n + 1 \in 1 .. n + 1 /\ c \in 1 .. n + 1 /\ c # n + 1
    OBVIOUS
  <2>2. \A y \in 1 .. n : y \in 1 .. n + 1 /\ y # n + 1
    OBVIOUS
  <2> QED
    BY <1>0, <2>1, <2>2
<1>7. /\ \A s \in PatternToken : edge2[n + 1][s] = edge[c][s]
      /\ \A s \in PatternToken : s # r => edge2[c][s] = NoNode
      /\ edge2[c][r] = n + 1
      /\ \A y \in 1 .. n, s \in PatternToken : y # c => edge2[y][s] = edge[y][s]
  <2>1. n + 1 \in 1 .. n + 1 /\ c \in 1 .. n + 1 /\ c # n + 1
    OBVIOUS
  <2>2. \A y \in 1 .. n : y \in 1 .. n + 1 /\ y # n + 1
    OBVIOUS
  <2>3. \A s \in PatternToken : edge2[n + 1][s] = edge[c][s]
    BY <1>0, <2>1
  <2>4. \A s \in PatternToken : s # r => edge2[c][s] = NoNode
    BY <1>0, <2>1
  <2>5. edge2[c][r] = n + 1
    BY <1>0, <1>2, <2>1
  <2>6. \A y \in 1 .. n, s \in PatternToken : y # c => edge2[y][s] = edge[y][s]
    BY <1>0, <2>2
  <2> QED
    BY <2>3, <2>4, <2>5, <2>6
<1>8. \A y \in 1 .. n + 1 : y = n + 1 \/ y = c \/ (y \in 1 .. n /\ y # c)
  OBVIOUS
<1>9. word2 \in [1 .. n + 1 -> Seq(PatternToken)]
  <2>1. \A y \in 1 .. n + 1 : word2[y] \in Seq(PatternToken)
    BY <1>1, <1>6, <1>8
  <2> QED
    BY <1>0, <2>1
<1>10. edge2 \in [1 .. n + 1 -> [PatternToken -> 0 .. n + 1]]
  <2>2. edge \in [1 .. n -> [PatternToken -> 0 .. n]]
    BY DEF Tree
  <2>3. \A y \in 1 .. n, s \in PatternToken : edge[y][s] \in 0 .. n
    BY <2>2
  <2>1. \A y \in 1 .. n, s \in PatternToken : edge[y][s] \in 0 .. n + 1
    BY <2>3
  <2> QED
    BY <1>0, <2>1 DEF NoNode
<1>11. \A y \in 1 .. n + 1 : word2[y] \in Seq(PatternToken) /\ Len(word2[y]) \in Nat
  BY <1>9
<1>12. ASSUME NEW a \in 1 .. n + 1, NEW b \in 1 .. n + 1, a # b,
              Starts(word2[a], word2[b]), Len(word2[a]) = Len(word2[b])
       PROVE  FALSE
  <2>1. Starts(word2[b], word2[a])
    BY <1>11, <1>12 DEF Starts
  <2>2. a # c /\ b # c
    <3>1. ASSUME NEW z \in 1 .. n + 1, z # c, Starts(f, word2[z]) PROVE Len(f) # Len(word2[z])
      <4>1. CASE z = n + 1
        BY <1>1, <1>2, <1>6, <4>1
      <4>2. CASE z \in 1 .. n
        BY <1>1, <1>2, <1>5, <1>6, <3>1, <4>2
      <4> QED
        BY <1>8, <3>1, <4>1, <4>2
    <3> QED
      BY <1>6, <1>12, <2>1, <3>1
  <2>3. CASE a = n + 1
    <3>1. b \in 1 .. n /\ word2[b] = word[b] /\ word2[a] = word[c]
      BY <1>6, <1>8, <1>12, <2>2, <2>3
    <3> QED
      BY <1>12, <2>2, <3>1 DEF Tree, Once
  <2>4. CASE b = n + 1
    <3>1. a \in 1 .. n /\ word2[a] = word[a] /\ word2[b] = word[c]
      BY <1>6, <1>8, <1>12, <2>2, <2>4
    <3> QED
      BY <1>12, <2>2, <3>1 DEF Tree, Once
  <2>5. CASE a # n + 1 /\ b # n + 1
    BY <1>6, <1>8, <1>12, <2>2, <2>5 DEF Tree, Once
  <2> QED
    BY <2>3, <2>4, <2>5
<1>13. ASSUME NEW s \in PatternToken, edge[c][s] # NoNode
       PROVE  edge[c][s] \in 1 .. n /\ edge[c][s] # c /\ Hangs(word, c, s, edge[c][s])
  <2>1. edge[c][s] \in 1 .. n /\ Hangs(word, c, s, edge[c][s])
    <3>1. edge \in [1 .. n -> [PatternToken -> 0 .. n]]
      BY DEF Tree
    <3>2. edge[c][s] \in 0 .. n
      BY <3>1
    <3>3. Hangs(word, c, s, edge[c][s])
      BY <1>13 DEF Tree
    <3> QED
      BY <1>13, <3>2, <3>3 DEF NoNode
  <2>2. edge[c][s] # c
    BY <1>1, <2>1 DEF Hangs, Within
  <2> QED
    BY <2>1, <2>2
<1>14. ASSUME NEW y \in 1 .. n, Within(word[y], word[c]), ~(Len(word[y]) < Len(f)) PROVE FALSE
  <2>1. Starts(word[y], word[c])
    BY <1>14 DEF Within
  <2>2. Len(f) <= Len(word[y])
    BY <1>1, <1>2, <1>14
  <2>3. Starts(f, word[y])
    BY <1>1, <1>2, <2>1, <2>2, StartsAmong
  <2>4. Starts(word[c], word[y])
    BY <1>4, <2>3
  <2> QED
    BY <1>1, <1>14, <2>4 DEF Starts, Within
<1>15. ASSUME NEW y \in 1 .. n + 1, NEW s \in PatternToken, edge2[y][s] # NoNode
       PROVE  Hangs(word2, y, s, edge2[y][s])
  <2>1. CASE y = n + 1
    <3>1. edge2[y][s] = edge[c][s] /\ edge[c][s] # NoNode
      BY <1>7, <1>15, <2>1
    <3>2. edge[c][s] \in 1 .. n /\ edge[c][s] # c /\ Hangs(word, c, s, edge[c][s])
      BY <1>13, <3>1
    <3> QED
      BY <1>6, <2>1, <3>1, <3>2 DEF Hangs
  <2>2. CASE y = c
    <3>1. s = r /\ edge2[y][s] = n + 1
      BY <1>7, <1>15, <2>2
    <3> QED
      BY <1>6, <2>2, <3>1 DEF Hangs
  <2>3. CASE y \in 1 .. n /\ y # c
    <3>1. edge2[y][s] = edge[y][s] /\ edge[y][s] # NoNode
      BY <1>7, <1>15, <2>3
    <3>2. PICK e \in 1 .. n : e = edge[y][s]
      BY <2>3, <3>1 DEF Tree, NoNode
    <3>3. Hangs(word, y, s, e)
      BY <2>3, <3>1, <3>2 DEF Tree
    <3>4. CASE e # c
      BY <1>6, <2>3, <3>1, <3>2, <3>3, <3>4 DEF Hangs
    <3>5. CASE e = c
      <4>1. Within(word[y], word[c]) /\ Behind(word[y], word[c]) = s
        BY <3>3, <3>5 DEF Hangs
      <4>2. Len(word[y]) < Len(f) /\ Starts(word[y], word[c])
        BY <1>14, <2>3, <4>1 DEF Within
      <4>3. Within(word[y], f) /\ Behind(word[y], f) = s
        BY <1>1, <1>2, <2>3, <4>1, <4>2, WithinAmong
      <4> QED
        BY <1>6, <2>3, <3>1, <3>2, <3>5, <4>3 DEF Hangs
    <3> QED
      BY <3>4, <3>5
  <2> QED
    BY <1>8, <2>1, <2>2, <2>3
<1>16. ASSUME NEW y \in 1 .. n + 1, NEW z \in 1 .. n + 1, Within(word2[y], word2[z])
       PROVE  Leads(edge2, word2, y, z)
  <2>1. CASE y = n + 1
    <3>1. Within(word[c], word2[z])
      BY <1>6, <1>16, <2>1
    <3>2. z \in 1 .. n /\ z # c
      <4>1. Len(word[c]) < Len(word2[z])
        BY <3>1 DEF Within
      <4>3. z # n + 1
        <5> SUFFICES ASSUME z = n + 1 PROVE FALSE
          OBVIOUS
        <5>1. word2[z] = word[c]
          BY <1>6
        <5> QED
          BY <1>1, <4>1, <5>1
      <4>4. z # c
        <5> SUFFICES ASSUME z = c PROVE FALSE
          OBVIOUS
        <5>1. word2[z] = f
          BY <1>6
        <5> QED
          BY <1>1, <1>2, <4>1, <5>1
      <4>2. z # n + 1 /\ z # c
        BY <4>3, <4>4
      <4> QED
        BY <1>8, <4>2
    <3>3. Within(word[c], word[z])
      BY <1>6, <3>1, <3>2
    <3>4. PICK s \in PatternToken : s = Behind(word[c], word[z])
      BY <1>1, <3>2, <3>3, BehindIsToken
    <3>5. edge[c][s] # NoNode /\ Starts(word[edge[c][s]], word[z])
      BY <3>2, <3>3, <3>4 DEF Tree, Leads
    <3>6. PICK e \in 1 .. n : e = edge[c][s] /\ e # c
      BY <1>13, <3>5
    <3>7. edge2[y][s] = e /\ word2[e] = word[e] /\ word2[z] = word[z] /\ word2[y] = word[c]
      BY <1>6, <1>7, <2>1, <3>2, <3>6
    <3>8. e # NoNode /\ Starts(word2[e], word2[z]) /\ Behind(word2[y], word2[z]) = s
      BY <3>4, <3>5, <3>6, <3>7
    <3> QED
      BY <3>7, <3>8 DEF Leads
  <2>2. CASE y = c
    <3>1. Within(f, word2[z])
      BY <1>6, <1>16, <2>2
    <3>2. Starts(word[c], word2[z])
      <4>1. CASE z = n + 1
        BY <1>1, <1>6, <4>1, StartsItself
      <4>2. CASE z = c
        BY <1>2, <1>6, <3>1, <4>2 DEF Within
      <4>3. CASE z \in 1 .. n /\ z # c
        BY <1>4, <1>6, <3>1, <4>3 DEF Within
      <4> QED
        BY <1>8, <4>1, <4>2, <4>3
    <3>3. Behind(f, word2[z]) = r
      <4>1. Within(f, word[c]) /\ word2[z] \in Seq(PatternToken) /\ word[c] \in Seq(PatternToken)
        BY <1>1, <1>11
      <4> QED
        BY <3>2, <4>1, WithinStarts
    <3>4. edge2[y][r] = n + 1 /\ word2[n + 1] = word[c] /\ word2[y] = f
      BY <1>6, <1>7, <2>2
    <3>5. n + 1 # NoNode
      BY DEF NoNode
    <3>6. Behind(word2[y], word2[z]) = r
      BY <3>3, <3>4
    <3>7. edge2[y][Behind(word2[y], word2[z])] = n + 1
      BY <3>4, <3>6
    <3>8. Starts(word2[n + 1], word2[z])
      BY <3>2, <3>4
    <3> QED
      BY <3>5, <3>7, <3>8 DEF Leads
  <2>3. CASE y \in 1 .. n /\ y # c
    <3>1. word2[y] = word[y] /\ Within(word[y], word2[z])
      BY <1>6, <1>16, <2>3
    <3>2. PICK v \in 1 .. n : v = IF z = n + 1 THEN c ELSE z
      BY <1>8
    <3>3. Within(word[y], word[v]) /\ Behind(word[y], word[v]) = Behind(word[y], word2[z])
      <4>1. CASE z = c
        <5>1. Within(word[y], f) /\ v = c /\ word2[z] = f
          BY <1>6, <3>1, <3>2, <4>1
        <5>2. Within(word[y], word[c]) /\ Behind(word[y], word[c]) = Behind(word[y], f)
          BY <1>1, <1>2, <2>3, <5>1, WithinStarts
        <5> QED
          BY <5>1, <5>2
      <4>2. CASE z # c
        <5>1. word2[z] = word[v]
          BY <1>6, <1>8, <3>2, <4>2
        <5> QED
          BY <3>1, <5>1
      <4> QED
        BY <4>1, <4>2
    <3>4. PICK s \in PatternToken : s = Behind(word[y], word[v])
      BY <1>1, <2>3, <3>3, BehindIsToken
    <3>5. edge[y][s] # NoNode /\ Starts(word[edge[y][s]], word[v])
      BY <2>3, <3>3, <3>4 DEF Tree, Leads
    <3>6. PICK e \in 1 .. n : e = edge[y][s]
      BY <2>3, <3>5 DEF Tree, NoNode
    <3>7. edge2[y][s] = e
      BY <1>7, <2>3, <3>6
    <3>8. Starts(word2[e], word2[z])
      <4>1. CASE e = c
        <5>1. CASE z = c
          BY <1>6, <4>1, <5>1, StartsItself
        <5>2. CASE z # c
          <6>1. word2[z] = word[v] /\ Starts(word[c], word[v])
            BY <1>6, <1>8, <3>2, <3>5, <3>6, <4>1, <5>2
          <6>2. Starts(f, word[v])
            BY <1>1, <1>2, <6>1, StartsFurther
          <6> QED
            BY <1>6, <4>1, <6>1, <6>2
        <5> QED
          BY <5>1, <5>2
      <4>2. CASE e # c
        <5>1. word2[e] = word[e] /\ Starts(word[e], word[v])
          BY <1>6, <3>5, <3>6, <4>2
        <5>2. CASE z # c
          <6>1. word2[z] = word[v]
            BY <1>6, <1>8, <3>2, <5>2
          <6> QED
            BY <5>1, <6>1
        <5>3. CASE z = c
          <6>1. Starts(word[e], word[c]) /\ word2[z] = f
            BY <1>6, <3>2, <5>1, <5>3
          <6>2. Len(word[e]) < Len(word[c])
            <7>1. Len(word[e]) # Len(word[c])
              BY <4>2, <6>1 DEF Tree, Once
            <7> QED
              BY <1>1, <6>1, <7>1 DEF Starts
          <6>3. Len(word[e]) < Len(f)
            BY <1>14, <6>1, <6>2 DEF Within
          <6>4. Within(word[e], f)
            BY <1>1, <1>2, <6>1, <6>3, WithinAmong
          <6> QED
            BY <5>1, <6>1, <6>4 DEF Within
        <5> QED
          BY <5>2, <5>3
      <4> QED
        BY <4>1, <4>2
    <3>9. Behind(word2[y], word2[z]) = s /\ e # NoNode
      BY <3>1, <3>3, <3>4 DEF NoNode
    <3> QED
      BY <3>7, <3>8, <3>9 DEF Leads
  <2> QED
    BY <1>8, <2>1, <2>2, <2>3
<1>17. Once(n + 1, word2)
  BY <1>12 DEF Once
<1> QED
  BY <1>9, <1>10, <1>15, <1>16, <1>17 DEF Tree, word2, edge2

(* The arena as a tree *)

Children == UNION {[bytes -> Nat] : bytes \in SUBSET Byte}

Node == [prefix : Seq(Byte), children : Children, param : Nat, name : Name \cup {NoName}, value : Nat]

EdgeOf(arena, x, t) ==
    IF IsParam(t)
    THEN IF arena[x].param # NoNode /\ arena[arena[x].param].name = t THEN arena[x].param ELSE NoNode
    ELSE IF t \in DOMAIN arena[x].children THEN arena[x].children[t] ELSE NoNode

EdgesOf(arena) == [x \in 1 .. Len(arena) |-> [t \in PatternToken |-> EdgeOf(arena, x, t)]]

\* What an edge adds is the prefix of the node it leads to, or a parameter.
Mark(prefix, u, w, t) ==
    IF IsParam(t) THEN Len(prefix) = 0 /\ Len(w) = Len(u) + 1
    ELSE /\ Len(w) = Len(u) + Len(prefix)
         /\ \A i \in 1 .. Len(prefix) : w[Len(u) + i] = prefix[i]

Marked(arena, word) ==
    \A x \in 1 .. Len(arena) :
        /\ arena[x].param # NoNode => /\ arena[x].param \in 1 .. Len(arena)
                                      /\ IsParam(arena[arena[x].param].name)
        /\ \A b \in DOMAIN arena[x].children : arena[x].children[b] # NoNode
        /\ \A t \in PatternToken : EdgeOf(arena, x, t) # NoNode =>
               Mark(arena[EdgeOf(arena, x, t)].prefix, word[x], word[EdgeOf(arena, x, t)], t)

Spelled(arena, word) ==
    /\ arena \in Seq(Node)
    /\ Len(arena) > 0
    /\ Tree(Len(arena), EdgesOf(arena), word)
    /\ Len(word[1]) = 0 /\ Len(arena[1].prefix) = 0
    /\ Marked(arena, word)

\* A node that stands for the pattern has the route.
Holds(arena, word, pattern, route) ==
    \E x \in 1 .. Len(arena) : arena[x].value = route /\ word[x] = pattern

Kept(arena, word, arena2, word2) ==
    \A pattern, route : route # NoRoute =>
        (Holds(arena2, word2, pattern, route) <=> Holds(arena, word, pattern, route))

\* A new node has no children and no value.
LEMMA NewNodeOk ==
    ASSUME NEW prefix \in Seq(Byte), NEW name \in Name \cup {NoName}
    PROVE  /\ NewNode(prefix, name) \in Node
           /\ DOMAIN NewNode(prefix, name).children = {}
           /\ NewNode(prefix, name).prefix = prefix
           /\ NewNode(prefix, name).param = NoNode
           /\ NewNode(prefix, name).name = name
           /\ NewNode(prefix, name).value = NoRoute
<1>1. [byte \in {} |-> NoNode] \in [{} -> Nat] /\ {} \in SUBSET Byte
  OBVIOUS
<1>2. [byte \in {} |-> NoNode] \in Children
  BY <1>1 DEF Children
<1> QED
  BY <1>2 DEF NewNode, Node, NoNode, NoRoute

\* The fields of a node have their types.
LEMMA NodeIs ==
    ASSUME NEW node \in Node
    PROVE  /\ node.prefix \in Seq(Byte) /\ node.children \in Children /\ node.param \in Nat
           /\ node.name \in Name \cup {NoName} /\ node.value \in Nat
           /\ DOMAIN node.children \subseteq Byte
           /\ \A b \in DOMAIN node.children : node.children[b] \in Nat
<1>1. /\ node.prefix \in Seq(Byte) /\ node.children \in Children /\ node.param \in Nat
      /\ node.name \in Name \cup {NoName} /\ node.value \in Nat
  BY DEF Node
<1>2. PICK bytes \in SUBSET Byte : node.children \in [bytes -> Nat]
  BY <1>1 DEF Children
<1> QED
  BY <1>1, <1>2

\* An arena with one node changed and one appended has the others as before.
LEMMA AppendedArena ==
    ASSUME NEW arena \in Seq(Node), NEW x \in 1 .. Len(arena), NEW node \in Node, NEW new \in Node,
           NEW arena2, arena2 = Append([arena EXCEPT ![x] = node], new)
    PROVE  /\ arena2 \in Seq(Node) /\ Len(arena2) = Len(arena) + 1
           /\ arena2[Len(arena) + 1] = new /\ arena2[x] = node
           /\ \A y \in 1 .. Len(arena) : y # x => arena2[y] = arena[y]
<1>1. PICK n \in Nat : n = Len(arena)
  OBVIOUS
<1>2. PICK changed : changed = [arena EXCEPT ![x] = node]
  OBVIOUS
<1>3. changed \in Seq(Node) /\ Len(changed) = n /\ changed[x] = node
      /\ \A y \in 1 .. n : y # x => changed[y] = arena[y]
  BY <1>1, <1>2
<1>4. arena2 = Append(changed, new)
  BY <1>2
<1> QED
  BY <1>1, <1>3, <1>4, AppendProperties

\* The arena, its words and its edges have their types.
LEMMA SpelledTypes ==
    ASSUME NEW arena, NEW word, Spelled(arena, word)
    PROVE  /\ arena \in Seq(Node) /\ Len(arena) \in Nat /\ Len(arena) > 0
           /\ \A x \in 1 .. Len(arena) : arena[x] \in Node /\ word[x] \in Seq(PatternToken)
           /\ \A x \in 1 .. Len(arena), t \in PatternToken :
                 EdgeOf(arena, x, t) # NoNode =>
                     /\ EdgeOf(arena, x, t) \in 1 .. Len(arena)
                     /\ Hangs(word, x, t, EdgeOf(arena, x, t))
<1>1. arena \in Seq(Node) /\ Len(arena) \in Nat /\ Len(arena) > 0 /\ \A x \in 1 .. Len(arena) : arena[x] \in Node
  BY DEF Spelled
<1>2. Tree(Len(arena), EdgesOf(arena), word)
  BY DEF Spelled
<1>3. \A x \in 1 .. Len(arena) : word[x] \in Seq(PatternToken)
  BY <1>2 DEF Tree
<1>4. ASSUME NEW x \in 1 .. Len(arena), NEW t \in PatternToken, EdgeOf(arena, x, t) # NoNode
      PROVE  EdgeOf(arena, x, t) \in 1 .. Len(arena) /\ Hangs(word, x, t, EdgeOf(arena, x, t))
  <2>1. PICK edge : edge = EdgesOf(arena)
    OBVIOUS
  <2>2. edge[x][t] = EdgeOf(arena, x, t)
    BY <2>1 DEF EdgesOf
  <2>3. edge[x][t] \in 0 .. Len(arena) /\ Hangs(word, x, t, edge[x][t])
    BY <1>2, <1>4, <2>1, <2>2 DEF Tree
  <2> QED
    BY <1>1, <1>4, <2>2, <2>3 DEF NoNode
<1> QED
  BY <1>1, <1>3, <1>4

\* The node whose edge to the new one is for the token t.
Gains(node, old, t, new, place) ==
    /\ node.prefix = old.prefix /\ node.name = old.name /\ node.value = old.value
    /\ new.param = NoNode /\ DOMAIN new.children = {} /\ new.value = NoRoute
    /\ IF IsParam(t)
       THEN old.param = NoNode /\ node.param = place /\ node.children = old.children /\ new.name = t
       ELSE /\ node.param = old.param
            /\ DOMAIN node.children = DOMAIN old.children \cup {t} /\ node.children[t] = place
            /\ \A b \in DOMAIN old.children : b # t => node.children[b] = old.children[b]

Extended(arena2, arena, x, node, new) == arena2 = Append([arena EXCEPT ![x] = node], new)

\* A child more keeps an arena spelled, and every pattern in its place.
LEMMA LeafTrie ==
    ASSUME NEW arena, NEW word, Spelled(arena, word),
           NEW x \in 1 .. Len(arena), NEW t \in PatternToken, EdgeOf(arena, x, t) = NoNode,
           NEW node \in Node, NEW new \in Node, Gains(node, arena[x], t, new, Len(arena) + 1),
           NEW arena2, Extended(arena2, arena, x, node, new),
           NEW f \in Seq(PatternToken), Within(word[x], f), Behind(word[x], f) = t, Mark(new.prefix, word[x], f, t)
    PROVE  \E word2 : /\ Spelled(arena2, word2) /\ Kept(arena, word, arena2, word2)
                      /\ Len(arena2) = Len(arena) + 1 /\ word2[Len(arena) + 1] = f
                      /\ \A y \in 1 .. Len(arena) : word2[y] = word[y]
<1>1. PICK n \in Nat : n = Len(arena) /\ n > 0
  BY SpelledTypes
<1>2. arena \in Seq(Node) /\ \A y \in 1 .. n : arena[y] \in Node /\ word[y] \in Seq(PatternToken)
  BY <1>1, SpelledTypes
<1>3. /\ arena2 \in Seq(Node) /\ Len(arena2) = n + 1
      /\ arena2[n + 1] = new /\ arena2[x] = node
      /\ \A y \in 1 .. n : y # x => arena2[y] = arena[y]
  <2>1. arena2 = Append([arena EXCEPT ![x] = node], new)
    BY DEF Extended
  <2> QED
    BY <1>1, <1>2, <2>1, AppendedArena
<1>4. /\ \A y \in 1 .. n + 1 : y = n + 1 \/ y \in 1 .. n
      /\ \A y \in 1 .. n : y \in 1 .. n + 1 /\ y # n + 1 /\ y # NoNode
      /\ n + 1 \in 1 .. n + 1 /\ n + 1 # NoNode /\ x \in 1 .. n
  BY <1>1 DEF NoNode
<1>5. \A y \in 1 .. n : /\ arena2[y].prefix = arena[y].prefix
                        /\ arena2[y].name = arena[y].name
                        /\ arena2[y].value = arena[y].value
  BY <1>3 DEF Gains
<1>6. /\ new.param = NoNode /\ DOMAIN new.children = {} /\ new.value = NoRoute
  BY DEF Gains
<1>7. Marked(arena, word)
  BY DEF Spelled
<1>8. ASSUME NEW y \in 1 .. n, arena[y].param # NoNode
      PROVE  arena[y].param \in 1 .. n /\ IsParam(arena[arena[y].param].name)
  BY <1>1, <1>7, <1>8 DEF Marked
<1>9. ASSUME NEW s \in PatternToken PROVE EdgeOf(arena2, n + 1, s) = NoNode
  BY <1>3, <1>6 DEF EdgeOf
<1>10. ASSUME NEW y \in 1 .. n, y # x, NEW s \in PatternToken PROVE EdgeOf(arena2, y, s) = EdgeOf(arena, y, s)
  <2>1. arena2[y] = arena[y]
    BY <1>3, <1>10
  <2>2. arena[y].param # NoNode => arena2[arena[y].param].name = arena[arena[y].param].name
    BY <1>5, <1>8
  <2> QED
    BY <2>1, <2>2 DEF EdgeOf
<1>11. EdgeOf(arena2, x, t) = n + 1
  BY <1>1, <1>3, <1>4 DEF EdgeOf, Gains
<1>12. ASSUME NEW s \in PatternToken, s # t PROVE EdgeOf(arena2, x, s) = EdgeOf(arena, x, s)
  <2>1. CASE IsParam(t)
    <3>1. /\ arena[x].param = NoNode /\ node.param = n + 1 /\ node.children = arena[x].children
          /\ new.name = t
      BY <1>1, <2>1 DEF Gains
    <3>2. arena2[x].param = n + 1 /\ arena2[x].children = arena[x].children /\ arena2[n + 1].name = t
      BY <1>3, <3>1
    <3> QED
      BY <1>12, <3>1, <3>2 DEF EdgeOf
  <2>2. CASE ~IsParam(t)
    <3>1. /\ node.param = arena[x].param
          /\ DOMAIN node.children = DOMAIN arena[x].children \cup {t}
          /\ \A b \in DOMAIN arena[x].children : b # t => node.children[b] = arena[x].children[b]
      BY <2>2 DEF Gains
    <3>2. arena[x].param # NoNode => arena2[arena[x].param].name = arena[arena[x].param].name
      BY <1>4, <1>5, <1>8
    <3>3. CASE IsParam(s)
      BY <1>3, <3>1, <3>2, <3>3 DEF EdgeOf
    <3>4. CASE ~IsParam(s)
      BY <1>3, <1>12, <3>1, <3>4 DEF EdgeOf
    <3> QED
      BY <3>3, <3>4
  <2> QED
    BY <2>1, <2>2
<1> DEFINE word2 == LeafWord(n, word, f)
           edge2 == LeafEdge(n, EdgesOf(arena), x, t)
<1>13. \A y \in 1 .. n, s \in PatternToken : EdgesOf(arena)[y][s] = EdgeOf(arena, y, s)
  BY <1>1 DEF EdgesOf
<1>14. EdgesOf(arena2) = edge2
  <2>1. \A y \in 1 .. n + 1, s \in PatternToken :
            EdgeOf(arena2, y, s) = IF y = n + 1 THEN NoNode
                                   ELSE IF y = x /\ s = t THEN n + 1 ELSE EdgesOf(arena)[y][s]
    <3> TAKE y \in 1 .. n + 1, s \in PatternToken
    <3>1. CASE y = n + 1
      BY <1>9, <3>1
    <3>2. CASE y \in 1 .. n /\ y = x /\ s = t
      BY <1>4, <1>11, <3>2
    <3>3. CASE y \in 1 .. n /\ y = x /\ s # t
      BY <1>4, <1>12, <1>13, <3>3
    <3>4. CASE y \in 1 .. n /\ y # x
      BY <1>4, <1>10, <1>13, <3>4
    <3> QED
      BY <1>4, <3>1, <3>2, <3>3, <3>4
  <2> QED
    BY <1>3, <2>1 DEF EdgesOf, LeafEdge
<1>15. Tree(n, EdgesOf(arena), word) /\ EdgesOf(arena)[x][t] = NoNode
  BY <1>1, <1>13 DEF Spelled
<1>16. word2[n + 1] = f /\ \A y \in 1 .. n : word2[y] = word[y]
  BY <1>4 DEF LeafWord
<1>17. Tree(n + 1, edge2, word2)
  BY <1>4, <1>15, LeafTree
<1> HIDE DEF word2, edge2
<1>18. Marked(arena2, word2)
  <2>1. ASSUME NEW y \in 1 .. n + 1, arena2[y].param # NoNode
        PROVE  arena2[y].param \in 1 .. n + 1 /\ IsParam(arena2[arena2[y].param].name)
    <3>1. y \in 1 .. n
      BY <1>3, <1>4, <1>6, <2>1
    <3>2. CASE arena2[y].param = arena[y].param
      BY <1>4, <1>5, <1>8, <2>1, <3>1, <3>2
    <3>3. CASE arena2[y].param # arena[y].param
      <4>1. y = x /\ IsParam(t)
        BY <1>3, <3>1, <3>3 DEF Gains
      <4>2. arena2[y].param = n + 1 /\ new.name = t
        BY <1>1, <1>3, <4>1 DEF Gains
      <4> QED
        BY <1>3, <1>4, <4>1, <4>2
    <3> QED
      BY <3>2, <3>3
  <2>2. ASSUME NEW y \in 1 .. n + 1, NEW b \in DOMAIN arena2[y].children PROVE arena2[y].children[b] # NoNode
    <3>1. y \in 1 .. n
      BY <1>3, <1>4, <1>6, <2>2
    <3>2. CASE b \in DOMAIN arena[y].children /\ arena2[y].children[b] = arena[y].children[b]
      BY <1>1, <1>7, <3>1, <3>2 DEF Marked
    <3>3. CASE y = x /\ b = t /\ arena2[y].children[b] = n + 1
      BY <1>4, <3>3
    <3>4. y # x => arena2[y] = arena[y]
      BY <1>3, <3>1
    <3>5. arena2[x] = node
      BY <1>3
    <3>6. \/ b \in DOMAIN arena[y].children /\ arena2[y].children[b] = arena[y].children[b]
          \/ y = x /\ b = t /\ arena2[y].children[b] = n + 1
      <4>1. CASE y # x
        BY <2>2, <3>4, <4>1
      <4>2. CASE y = x
        BY <1>1, <2>2, <3>5, <4>2 DEF Gains
      <4> QED
        BY <4>1, <4>2
    <3> QED
      BY <3>2, <3>3, <3>6
  <2>3. ASSUME NEW y \in 1 .. n + 1, NEW s \in PatternToken, EdgeOf(arena2, y, s) # NoNode
        PROVE  Mark(arena2[EdgeOf(arena2, y, s)].prefix, word2[y], word2[EdgeOf(arena2, y, s)], s)
    <3>1. y \in 1 .. n
      BY <1>4, <1>9, <2>3
    <3>2. CASE y = x /\ s = t
      BY <1>3, <1>11, <1>16, <3>1, <3>2
    <3>3. CASE ~(y = x /\ s = t)
      <4>1. EdgeOf(arena2, y, s) = EdgeOf(arena, y, s)
        BY <1>10, <1>12, <3>1, <3>3
      <4>2. PICK e \in 1 .. n : e = EdgeOf(arena, y, s)
        BY <1>1, <2>3, <3>1, <4>1, SpelledTypes
      <4>3. Mark(arena[e].prefix, word[y], word[e], s)
        BY <1>1, <1>7, <2>3, <3>1, <4>1, <4>2 DEF Marked
      <4> QED
        BY <1>5, <1>16, <3>1, <4>1, <4>2, <4>3
    <3> QED
      BY <3>2, <3>3
  <2> QED
    BY <1>3, <2>1, <2>2, <2>3 DEF Marked
<1>19. Kept(arena, word, arena2, word2)
  <2> SUFFICES ASSUME NEW pattern, NEW route, route # NoRoute
               PROVE  Holds(arena2, word2, pattern, route) <=> Holds(arena, word, pattern, route)
    BY DEF Kept
  <2>1. ASSUME Holds(arena2, word2, pattern, route) PROVE Holds(arena, word, pattern, route)
    <3>1. PICK y \in 1 .. n + 1 : arena2[y].value = route /\ word2[y] = pattern
      BY <1>3, <2>1 DEF Holds
    <3>2. y \in 1 .. n
      BY <1>3, <1>4, <1>6, <3>1
    <3> QED
      BY <1>1, <1>5, <1>16, <3>1, <3>2 DEF Holds
  <2>2. ASSUME Holds(arena, word, pattern, route) PROVE Holds(arena2, word2, pattern, route)
    <3>1. PICK y \in 1 .. n : arena[y].value = route /\ word[y] = pattern
      BY <1>1, <2>2 DEF Holds
    <3>2. y \in 1 .. Len(arena2)
      BY <1>3, <1>4
    <3> QED
      BY <1>5, <1>16, <3>1, <3>2 DEF Holds
  <2> QED
    BY <2>1, <2>2
<1>20. Spelled(arena2, word2)
  <2>1. 1 \in 1 .. n
    BY <1>1
  <2>2. Len(word[1]) = 0 /\ Len(arena[1].prefix) = 0
    BY DEF Spelled
  <2>3. Len(word2[1]) = 0 /\ Len(arena2[1].prefix) = 0
    BY <1>5, <1>16, <2>1, <2>2
  <2>4. Len(arena2) > 0
    BY <1>1, <1>3
  <2> QED
    BY <1>3, <1>14, <1>17, <1>18, <2>3, <2>4 DEF Spelled
<1> QED
  BY <1>1, <1>3, <1>16, <1>19, <1>20

-----------------------------------------------------------------------------
(* split_node keeps the words *)

\* A stretch of a sequence, token by token.
LEMMA StretchOf ==
    ASSUME NEW T, NEW s \in Seq(T), NEW m \in Nat, NEW n \in Nat, m <= n, n <= Len(s)
    PROVE  /\ SubSeq(s, m + 1, n) \in Seq(T) /\ Len(SubSeq(s, m + 1, n)) = n - m
           /\ \A i \in 1 .. n - m : SubSeq(s, m + 1, n)[i] = s[m + i]
<1>1. \A i \in m + 1 .. n : s[i] \in T
  OBVIOUS
<1>2. CASE m = n
  <2>1. SubSeq(s, m + 1, n) = <<>>
    BY <1>2, SubSeqEmpty
  <2> QED
    BY <1>2, <2>1
<1>3. CASE m < n
  <2>1. PICK part : part = SubSeq(s, m + 1, n)
    OBVIOUS
  <2>2. part \in Seq(T) /\ Len(part) = n - m
    BY <1>1, <1>3, <2>1, SubSeqProperties
  <2>3. \A i \in 1 .. n - m : part[i] = s[m + i]
    BY <1>1, <1>3, <2>1, SubSeqProperties
  <2> QED
    BY <2>1, <2>2, <2>3
<1> QED
  BY <1>2, <1>3

\* The parts of a split node.
Halves(front, tail, old, at, place) ==
    /\ Len(front.prefix) = at /\ \A i \in 1 .. at : front.prefix[i] = old.prefix[i]
    /\ DOMAIN front.children = {old.prefix[at + 1]} /\ front.children[old.prefix[at + 1]] = place
    /\ front.param = NoNode /\ front.name = NoName /\ front.value = NoRoute
    /\ Len(tail.prefix) = Len(old.prefix) - at
    /\ \A i \in 1 .. Len(old.prefix) - at : tail.prefix[i] = old.prefix[at + i]
    /\ tail.children = old.children /\ tail.param = old.param
    /\ tail.name = old.name /\ tail.value = old.value

\* split_node leaves a front that has one child, the rest of the old node.
LEMMA SplitNodeIs ==
    ASSUME NEW arena \in Seq(Node), NEW c \in 1 .. Len(arena), NEW at \in Nat, at > 0, at < Len(arena[c].prefix)
    PROVE  \E front \in Node, tail \in Node :
               /\ Halves(front, tail, arena[c], at, Len(arena) + 1)
               /\ split_node(arena, c, at) = Append([arena EXCEPT ![c] = front], tail)
<1>1. PICK old \in Node : old = arena[c]
  OBVIOUS
<1>2. PICK p \in Seq(Byte) : p = old.prefix
  BY NodeIs
<1>3. PICK k \in Nat : k = Len(p) /\ at < k
  BY <1>1, <1>2
<1>4. PICK place \in Nat : place = Len(arena) + 1
  OBVIOUS
<1>5. p[at + 1] \in Byte
  BY <1>2, <1>3
<1>6. PICK edges : edges = [byte \in {p[at + 1]} |-> place]
  OBVIOUS
<1>7. edges \in Children /\ DOMAIN edges = {p[at + 1]} /\ edges[p[at + 1]] = place
  <2>1. edges \in [{p[at + 1]} -> Nat] /\ {p[at + 1]} \in SUBSET Byte
    BY <1>5, <1>6
  <2> QED
    BY <1>6, <2>1 DEF Children
<1>8. PICK head : head = SubSeq(p, 1, at)
  OBVIOUS
<1>9. head \in Seq(Byte) /\ Len(head) = at /\ \A i \in 1 .. at : head[i] = p[i]
  <2>1. /\ SubSeq(p, 0 + 1, at) \in Seq(Byte) /\ Len(SubSeq(p, 0 + 1, at)) = at - 0
        /\ \A i \in 1 .. at - 0 : SubSeq(p, 0 + 1, at)[i] = p[0 + i]
    BY <1>2, <1>3, StretchOf
  <2>2. 0 + 1 = 1 /\ at - 0 = at /\ \A i \in 1 .. at : 0 + i = i
    OBVIOUS
  <2> QED
    BY <1>8, <2>1, <2>2
<1>10. PICK rest : rest = Drop(p, at)
  OBVIOUS
<1>11. rest \in Seq(Byte) /\ Len(rest) = k - at /\ \A i \in 1 .. k - at : rest[i] = p[at + i]
  <2>1. rest = SubSeq(p, at + 1, k)
    BY <1>3, <1>10 DEF Drop
  <2>2. at <= k /\ k <= Len(p)
    BY <1>3
  <2> QED
    BY <1>2, <2>1, <2>2, StretchOf
<1>12. PICK front : front = [NewNode(head, NoName) EXCEPT !.children = edges]
  OBVIOUS
<1>13. /\ front \in Node
       /\ front.prefix = head /\ front.children = edges /\ front.param = NoNode
       /\ front.name = NoName /\ front.value = NoRoute
  <2>1. PICK new \in Node : /\ new = NewNode(head, NoName) /\ new.prefix = head /\ new.param = NoNode
                            /\ new.name = NoName /\ new.value = NoRoute
    BY <1>9, NewNodeOk
  <2>2. front = [new EXCEPT !.children = edges]
    BY <1>12, <2>1
  <2> QED
    BY <1>7, <2>1, <2>2 DEF Node
<1>14. PICK tail : tail = [old EXCEPT !.prefix = rest]
  OBVIOUS
<1>15. /\ tail \in Node
       /\ tail.prefix = rest /\ tail.children = old.children /\ tail.param = old.param
       /\ tail.name = old.name /\ tail.value = old.value
  BY <1>1, <1>11, <1>14 DEF Node
<1>16. Halves(front, tail, arena[c], at, Len(arena) + 1)
  BY <1>1, <1>2, <1>3, <1>4, <1>7, <1>9, <1>11, <1>13, <1>15 DEF Halves
<1>17. split_node(arena, c, at) = Append([arena EXCEPT ![c] = front], tail)
  BY <1>1, <1>2, <1>4, <1>6, <1>8, <1>10, <1>12, <1>14 DEF split_node
<1> QED
  BY <1>13, <1>15, <1>16, <1>17

\* split_node keeps an arena spelled, and every pattern in its place.
LEMMA SplitTrie ==
    ASSUME NEW arena, NEW word, Spelled(arena, word),
           NEW x \in 1 .. Len(arena), NEW t \in PatternToken, ~IsParam(t),
           NEW c \in 1 .. Len(arena), c = EdgeOf(arena, x, t),
           NEW at \in Nat, at > 0, at < Len(arena[c].prefix),
           NEW arena2, arena2 = split_node(arena, c, at)
    PROVE  \E word2 : /\ Spelled(arena2, word2) /\ Kept(arena, word, arena2, word2)
                      /\ Len(arena2) = Len(arena) + 1 /\ word2[Len(arena) + 1] = word[c]
                      /\ Starts(word2[c], word[c]) /\ Len(word2[c]) = Len(word[x]) + at
                      /\ \A y \in 1 .. Len(arena) : y # c => word2[y] = word[y]
<1>1. PICK n \in Nat : n = Len(arena) /\ n > 0
  BY SpelledTypes
<1>2. arena \in Seq(Node) /\ \A y \in 1 .. n : arena[y] \in Node /\ word[y] \in Seq(PatternToken)
  BY <1>1, SpelledTypes
<1>3. PICK front \in Node, tail \in Node :
          /\ Halves(front, tail, arena[c], at, n + 1)
          /\ arena2 = Append([arena EXCEPT ![c] = front], tail)
  BY <1>1, <1>2, SplitNodeIs
<1>4. /\ arena2 \in Seq(Node) /\ Len(arena2) = n + 1
      /\ arena2[n + 1] = tail /\ arena2[c] = front
      /\ \A y \in 1 .. n : y # c => arena2[y] = arena[y]
  BY <1>1, <1>2, <1>3, AppendedArena
<1>5. /\ \A y \in 1 .. n + 1 : y = n + 1 \/ y = c \/ (y \in 1 .. n /\ y # c)
      /\ \A y \in 1 .. n : y \in 1 .. n + 1 /\ y # n + 1 /\ y # NoNode
      /\ n + 1 \in 1 .. n + 1 /\ n + 1 # NoNode /\ x \in 1 .. n /\ c \in 1 .. n
  BY <1>1 DEF NoNode
<1>6. PICK p \in Seq(Byte) : p = arena[c].prefix
  BY <1>2, <1>5, NodeIs
<1>7. PICK k \in Nat : k = Len(p) /\ at < k
  BY <1>6
<1>8. PICK r : r = p[at + 1]
  OBVIOUS
<1>9. r \in Byte /\ r \in PatternToken /\ ~IsParam(r)
  BY <1>6, <1>7, <1>8, RouterAssumption DEF IsParam, PatternToken
<1>10. Marked(arena, word)
  BY DEF Spelled
<1>11. Mark(p, word[x], word[c], t) /\ Hangs(word, x, t, c)
  BY <1>1, <1>5, <1>6, <1>10, SpelledTypes DEF Marked
<1>12. PICK w \in Seq(PatternToken) : w = word[c]
  BY <1>2, <1>5
<1>13. PICK u \in Seq(PatternToken) : u = word[x]
  BY <1>2, <1>5
<1>14. PICK a \in Nat : a = Len(u)
  BY <1>13
<1>15. Len(w) = a + k /\ \A i \in 1 .. k : w[a + i] = p[i]
  BY <1>7, <1>11, <1>12, <1>13, <1>14 DEF Mark
<1>16. PICK f : f = SubSeq(w, 1, a + at)
  OBVIOUS
<1>17. f \in Seq(PatternToken) /\ Len(f) = a + at /\ \A i \in 1 .. a + at : f[i] = w[i]
  <2>1. 0 <= a + at /\ a + at <= Len(w) /\ a + at \in Nat
    BY <1>7, <1>14, <1>15
  <2>2. /\ SubSeq(w, 0 + 1, a + at) \in Seq(PatternToken) /\ Len(SubSeq(w, 0 + 1, a + at)) = (a + at) - 0
        /\ \A i \in 1 .. (a + at) - 0 : SubSeq(w, 0 + 1, a + at)[i] = w[0 + i]
    BY <1>12, <2>1, StretchOf
  <2>3. 0 + 1 = 1 /\ (a + at) - 0 = a + at /\ \A i \in 1 .. a + at : 0 + i = i
    BY <2>1
  <2> QED
    BY <1>16, <2>2, <2>3
<1>18. Within(f, w) /\ Behind(f, w) = r
  <2>1. a + at \in Nat /\ a + at < a + k
    BY <1>7, <1>14
  <2>2. Within(f, w)
    BY ONLY <1>15, <1>17, <2>1 DEF Within, Starts
  <2>3. at + 1 \in 1 .. k /\ a + (at + 1) = (a + at) + 1
    BY <1>7, <1>14
  <2>4. w[a + (at + 1)] = p[at + 1]
    BY <1>15, <2>3
  <2> QED
    BY <1>8, <1>17, <2>2, <2>3, <2>4 DEF Behind
<1>19. Within(u, f)
  <2>1. Within(u, w)
    BY <1>11, <1>12, <1>13 DEF Hangs
  <2>2. a < a + at /\ \A i \in 1 .. a : i \in 1 .. a + at
    BY <1>14
  <2>3. \A i \in 1 .. a : u[i] = w[i]
    BY <1>14, <2>1 DEF Within, Starts
  <2>4. a <= a + at
    BY <2>2
  <2> QED
    BY <1>14, <1>17, <2>2, <2>3, <2>4 DEF Within, Starts
<1>20. \A y \in 1 .. n : arena[y].param # c
  <2> SUFFICES ASSUME NEW y \in 1 .. n, arena[y].param = c PROVE FALSE
    OBVIOUS
  <2>1. arena[y].param # NoNode
    BY <1>5
  <2>2. PICK s : s = arena[c].name
    OBVIOUS
  <2>3. IsParam(s) /\ s \in PatternToken
    BY <1>1, <1>10, <2>1, <2>2 DEF Marked, IsParam, PatternToken
  <2>4. EdgeOf(arena, y, s) = c
    BY <2>1, <2>2, <2>3 DEF EdgeOf
  <2>5. Mark(p, word[y], word[c], s)
    BY <1>1, <1>5, <1>6, <1>10, <2>3, <2>4 DEF Marked
  <2> QED
    BY <1>7, <2>3, <2>5 DEF Mark
<1>21. ASSUME NEW y \in 1 .. n, arena[y].param # NoNode
       PROVE  /\ arena[y].param \in 1 .. n /\ IsParam(arena[arena[y].param].name)
              /\ arena2[arena[y].param] = arena[arena[y].param]
  <2>1. arena[y].param \in 1 .. n /\ IsParam(arena[arena[y].param].name)
    BY <1>1, <1>10, <1>21 DEF Marked
  <2> QED
    BY <1>4, <1>20, <2>1
<1>22. /\ front.param = NoNode /\ DOMAIN front.children = {r} /\ front.children[r] = n + 1
       /\ front.value = NoRoute
       /\ tail.children = arena[c].children /\ tail.param = arena[c].param /\ tail.value = arena[c].value
  BY <1>3, <1>6, <1>8 DEF Halves
<1>23. ASSUME NEW s \in PatternToken PROVE EdgeOf(arena2, n + 1, s) = EdgeOf(arena, c, s)
  <2>1. arena2[n + 1] = tail /\ c \in 1 .. n
    BY <1>4, <1>5
  <2>2. arena[c].param # NoNode => arena2[arena[c].param] = arena[arena[c].param]
    BY <1>21, <2>1
  <2>3. arena2[n + 1].children = arena[c].children /\ arena2[n + 1].param = arena[c].param
    BY <1>22, <2>1
  <2> QED
    BY <2>2, <2>3 DEF EdgeOf
<1>24. ASSUME NEW s \in PatternToken PROVE EdgeOf(arena2, c, s) = IF s = r THEN n + 1 ELSE NoNode
  BY <1>4, <1>9, <1>22 DEF EdgeOf
<1>25. ASSUME NEW y \in 1 .. n, y # c, NEW s \in PatternToken PROVE EdgeOf(arena2, y, s) = EdgeOf(arena, y, s)
  <2>1. arena2[y] = arena[y]
    BY <1>4, <1>25
  <2>2. arena[y].param # NoNode => arena2[arena[y].param] = arena[arena[y].param]
    BY <1>21
  <2> QED
    BY <2>1, <2>2 DEF EdgeOf
<1> DEFINE word2 == SplitWord(n, word, c, f)
           edge2 == SplitEdge(n, EdgesOf(arena), c, r)
<1>26. \A y \in 1 .. n, s \in PatternToken : EdgesOf(arena)[y][s] = EdgeOf(arena, y, s)
  BY <1>1 DEF EdgesOf
<1>27. EdgesOf(arena2) = edge2
  <2>1. \A y \in 1 .. n + 1, s \in PatternToken :
            EdgeOf(arena2, y, s) = IF y = n + 1 THEN EdgesOf(arena)[c][s]
                                   ELSE IF y = c THEN IF s = r THEN n + 1 ELSE NoNode
                                   ELSE EdgesOf(arena)[y][s]
    <3> TAKE y \in 1 .. n + 1, s \in PatternToken
    <3>1. CASE y = n + 1
      BY <1>5, <1>23, <1>26, <3>1
    <3>2. CASE y = c
      BY <1>5, <1>24, <3>2
    <3>3. CASE y \in 1 .. n /\ y # c
      BY <1>5, <1>25, <1>26, <3>3
    <3> QED
      BY <1>5, <3>1, <3>2, <3>3
  <2> QED
    BY <1>4, <2>1 DEF EdgesOf, SplitEdge
<1>28. Tree(n, EdgesOf(arena), word) /\ c = EdgesOf(arena)[x][t]
  BY <1>1, <1>5, <1>26 DEF Spelled
<1>29. word2[n + 1] = w /\ word2[c] = f /\ \A y \in 1 .. n : y # c => word2[y] = word[y]
  BY <1>5, <1>12 DEF SplitWord
<1>30. Tree(n + 1, edge2, word2)
  BY <1>5, <1>12, <1>13, <1>17, <1>18, <1>19, <1>28, SplitTree
<1> HIDE DEF word2, edge2
<1>31. ASSUME NEW y \in 1 .. n + 1, arena2[y].param # NoNode
       PROVE  arena2[y].param \in 1 .. n + 1 /\ IsParam(arena2[arena2[y].param].name)
  <2>1. PICK z \in 1 .. n : arena2[y].param = arena[z].param
    <3>1. CASE y = n + 1
      BY <1>4, <1>5, <1>22, <3>1
    <3>2. CASE y = c
      BY <1>4, <1>5, <1>22, <1>31, <3>2
    <3>3. CASE y \in 1 .. n /\ y # c
      <4>1. arena2[y] = arena[y]
        BY <1>4, <3>3
      <4> QED
        BY <3>3, <4>1
    <3> QED
      BY <1>5, <3>1, <3>2, <3>3
  <2> QED
    BY <1>5, <1>21, <1>31, <2>1
<1>32. ASSUME NEW y \in 1 .. n + 1, NEW b \in DOMAIN arena2[y].children PROVE arena2[y].children[b] # NoNode
  <2>1. CASE y = c
    BY <1>4, <1>5, <1>22, <1>32, <2>1
  <2>2. CASE y # c
    <3>1. PICK z \in 1 .. n : arena2[y].children = arena[z].children
      BY <1>4, <1>5, <1>22, <2>2
    <3> QED
      BY <1>1, <1>10, <1>32, <3>1 DEF Marked
  <2> QED
    BY <2>1, <2>2
<1>33. \A y \in 1 .. n : y # c => arena2[y].prefix = arena[y].prefix
  BY <1>4
<1>34. ASSUME NEW y \in 1 .. n, NEW s \in PatternToken, EdgeOf(arena, y, s) # NoNode
       PROVE  /\ EdgeOf(arena, y, s) \in 1 .. n
              /\ Mark(arena[EdgeOf(arena, y, s)].prefix, word[y], word[EdgeOf(arena, y, s)], s)
              /\ Hangs(word, y, s, EdgeOf(arena, y, s))
  BY <1>1, <1>10, <1>34, SpelledTypes DEF Marked
<1>35. ASSUME NEW y \in 1 .. n + 1, NEW s \in PatternToken, EdgeOf(arena2, y, s) # NoNode
       PROVE  Mark(arena2[EdgeOf(arena2, y, s)].prefix, word2[y], word2[EdgeOf(arena2, y, s)], s)
  <2>1. CASE y = n + 1
    <3>1. PICK e : e = EdgeOf(arena, c, s)
      OBVIOUS
    <3>2. EdgeOf(arena2, y, s) = e /\ e # NoNode
      BY <1>23, <1>35, <2>1, <3>1
    <3>3. e \in 1 .. n /\ Mark(arena[e].prefix, word[c], word[e], s) /\ Hangs(word, c, s, e)
      BY <1>5, <1>34, <3>1, <3>2
    <3>4. e # c
      BY <1>12, <3>3 DEF Hangs, Within
    <3> QED
      BY <1>12, <1>29, <1>33, <2>1, <3>2, <3>3, <3>4
  <2>2. CASE y = c
    <3>1. s = r /\ EdgeOf(arena2, y, s) = n + 1
      BY <1>24, <1>35, <2>2
    <3>2. Len(tail.prefix) = k - at /\ \A i \in 1 .. k - at : tail.prefix[i] = p[at + i]
      BY <1>3, <1>6, <1>7 DEF Halves
    <3>3. \A i \in 1 .. k - at : w[(a + at) + i] = p[at + i]
      <4> TAKE i \in 1 .. k - at
      <4>1. at + i \in 1 .. k /\ (a + at) + i = a + (at + i)
        BY <1>7, <1>14
      <4> QED
        BY <1>15, <4>1
    <3>4. Len(w) = Len(f) + Len(tail.prefix)
      BY <1>7, <1>14, <1>15, <1>17, <3>2
    <3>5. Mark(tail.prefix, f, w, r)
      BY <1>9, <1>17, <3>2, <3>3, <3>4 DEF Mark
    <3> QED
      BY <1>4, <1>29, <2>2, <3>1, <3>5
  <2>3. CASE y \in 1 .. n /\ y # c
    <3>1. PICK e : e = EdgeOf(arena, y, s)
      OBVIOUS
    <3>2. EdgeOf(arena2, y, s) = e /\ e # NoNode
      BY <1>25, <1>35, <2>3, <3>1
    <3>3. e \in 1 .. n /\ Mark(arena[e].prefix, word[y], word[e], s)
      BY <1>34, <2>3, <3>1, <3>2
    <3>4. CASE e # c
      BY <1>29, <1>33, <2>3, <3>2, <3>3, <3>4
    <3>5. CASE e = c
      <4>1. Mark(p, word[y], w, s)
        BY <1>6, <1>12, <3>3, <3>5
      <4>2. ~IsParam(s) /\ Len(w) = Len(word[y]) + k /\ \A i \in 1 .. k : w[Len(word[y]) + i] = p[i]
        BY <1>7, <4>1 DEF Mark
      <4>3. Len(word[y]) = a
        <5>1. Len(word[y]) \in Nat
          BY <1>2, <2>3
        <5> QED
          BY <1>7, <1>14, <1>15, <4>2, <5>1
      <4>4. Len(front.prefix) = at /\ \A i \in 1 .. at : front.prefix[i] = p[i]
        BY <1>3, <1>6 DEF Halves
      <4>5. \A i \in 1 .. at : f[a + i] = p[i]
        <5> TAKE i \in 1 .. at
        <5>1. a + i \in 1 .. a + at /\ i \in 1 .. k
          BY <1>7, <1>14
        <5> QED
          BY <1>15, <1>17, <5>1
      <4>6. Mark(front.prefix, word[y], f, s)
        BY <1>17, <4>2, <4>3, <4>4, <4>5 DEF Mark
      <4> QED
        BY <1>4, <1>29, <2>3, <3>2, <3>5, <4>6
    <3> QED
      BY <3>4, <3>5
  <2> QED
    BY <1>5, <2>1, <2>2, <2>3
<1>36. Marked(arena2, word2)
  BY <1>4, <1>31, <1>32, <1>35 DEF Marked
<1>37. Kept(arena, word, arena2, word2)
  <2> SUFFICES ASSUME NEW pattern, NEW route, route # NoRoute
               PROVE  Holds(arena2, word2, pattern, route) <=> Holds(arena, word, pattern, route)
    BY DEF Kept
  <2>1. ASSUME Holds(arena2, word2, pattern, route) PROVE Holds(arena, word, pattern, route)
    <3>1. PICK y \in 1 .. n + 1 : arena2[y].value = route /\ word2[y] = pattern
      BY <1>4, <2>1 DEF Holds
    <3>2. y # c
      BY <1>4, <1>22, <3>1
    <3>3. \E z \in 1 .. n : arena[z].value = route /\ word[z] = pattern
      <4>1. CASE y = n + 1
        BY <1>4, <1>5, <1>12, <1>22, <1>29, <3>1, <4>1
      <4>2. CASE y # n + 1
        BY <1>4, <1>5, <1>29, <3>1, <3>2, <4>2
      <4> QED
        BY <4>1, <4>2
    <3> QED
      BY <1>1, <3>3 DEF Holds
  <2>2. ASSUME Holds(arena, word, pattern, route) PROVE Holds(arena2, word2, pattern, route)
    <3>1. PICK y \in 1 .. n : arena[y].value = route /\ word[y] = pattern
      BY <1>1, <2>2 DEF Holds
    <3>2. \E z \in 1 .. n + 1 : arena2[z].value = route /\ word2[z] = pattern
      <4>1. CASE y = c
        BY <1>4, <1>5, <1>12, <1>22, <1>29, <3>1, <4>1
      <4>2. CASE y # c
        BY <1>4, <1>5, <1>29, <3>1, <4>2
      <4> QED
        BY <4>1, <4>2
    <3> QED
      BY <1>4, <3>2 DEF Holds
  <2> QED
    BY <2>1, <2>2
<1>38. Spelled(arena2, word2)
  <2>1. 1 \in 1 .. n
    BY <1>1
  <2>2. Len(word[1]) = 0 /\ Len(arena[1].prefix) = 0
    BY DEF Spelled
  <2>3. c # 1
    BY <1>6, <1>7, <2>2
  <2>4. Len(word2[1]) = 0 /\ Len(arena2[1].prefix) = 0
    BY <1>29, <1>33, <2>1, <2>2, <2>3
  <2>5. Len(arena2) > 0
    BY <1>1, <1>4
  <2> QED
    BY <1>4, <1>27, <1>30, <1>36, <2>4, <2>5 DEF Spelled
<1>39. Starts(f, w) /\ Len(f) = Len(word[x]) + at
  BY <1>13, <1>14, <1>17, <1>18 DEF Within
<1> QED
  BY <1>1, <1>4, <1>12, <1>29, <1>37, <1>38, <1>39

-----------------------------------------------------------------------------
(* insert, one step of its walk at a time *)

\* Every node but the root stands for a front of one of the patterns.
Known(arena, word, known) ==
    \A x \in 1 .. Len(arena) : Len(word[x]) > 0 => \E v \in known : Starts(word[x], v)

Walks == [arena : Seq(Node), at : Nat, used : Nat]

\* A walk is at a node whose word is the front of the pattern that is used.
WalkOk(walk, word, pattern, known) ==
    /\ walk \in Walks
    /\ Spelled(walk.arena, word)
    /\ Known(walk.arena, word, known)
    /\ walk.at \in 1 .. Len(walk.arena)
    /\ Starts(word[walk.at], pattern)
    /\ Len(word[walk.at]) = walk.used

Goes(walk, word, walk2, word2, pattern, known) ==
    /\ WalkOk(walk2, word2, pattern, known)
    /\ Kept(walk.arena, word, walk2.arena, word2)
    /\ walk2.used > walk.used

\* A walk is at a node of its arena whose word is the used front of the pattern.
LEMMA WalkTypes ==
    ASSUME NEW walk, NEW word, NEW pattern \in Seq(PatternToken), NEW known, WalkOk(walk, word, pattern, known)
    PROVE  /\ walk.arena \in Seq(Node) /\ Len(walk.arena) \in Nat /\ Len(walk.arena) > 0
           /\ walk.at \in 1 .. Len(walk.arena)
           /\ walk.used \in Nat /\ walk.used <= Len(pattern)
           /\ word[walk.at] \in Seq(PatternToken) /\ Len(word[walk.at]) = walk.used
           /\ Starts(word[walk.at], pattern) /\ Spelled(walk.arena, word)
           /\ Known(walk.arena, word, known) /\ walk \in Walks
<1>1. /\ walk.at \in 1 .. Len(walk.arena) /\ Starts(word[walk.at], pattern) /\ Spelled(walk.arena, word)
      /\ Len(word[walk.at]) = walk.used /\ Known(walk.arena, word, known) /\ walk \in Walks
  BY DEF WalkOk
<1>2. /\ walk.arena \in Seq(Node) /\ Len(walk.arena) \in Nat /\ Len(walk.arena) > 0
      /\ word[walk.at] \in Seq(PatternToken)
  BY <1>1, SpelledTypes
<1>3. walk.used \in Nat
  BY <1>1 DEF Walks
<1>4. walk.used <= Len(pattern)
  BY <1>1 DEF Starts
<1> QED
  BY <1>1, <1>2, <1>3, <1>4

\* The front of a pattern that goes further than u.
LEMMA FurtherFront ==
    ASSUME NEW p \in Seq(PatternToken), NEW u \in Seq(PatternToken), Starts(u, p),
           NEW m \in Nat, Len(u) < m, m <= Len(p)
    PROVE  \E f \in Seq(PatternToken) :
               /\ Len(f) = m /\ Starts(f, p) /\ \A i \in 1 .. m : f[i] = p[i]
               /\ Within(u, f) /\ Behind(u, f) = p[Len(u) + 1]
<1>1. PICK f : f = SubSeq(p, 1, m)
  OBVIOUS
<1>2. f \in Seq(PatternToken) /\ Len(f) = m /\ \A i \in 1 .. m : f[i] = p[i]
  <2>1. /\ SubSeq(p, 0 + 1, m) \in Seq(PatternToken) /\ Len(SubSeq(p, 0 + 1, m)) = m - 0
        /\ \A i \in 1 .. m - 0 : SubSeq(p, 0 + 1, m)[i] = p[0 + i]
    BY StretchOf
  <2>2. 0 + 1 = 1 /\ m - 0 = m /\ \A i \in 1 .. m : 0 + i = i
    OBVIOUS
  <2> QED
    BY <1>1, <2>1, <2>2
<1>3. Starts(f, p)
  BY <1>2 DEF Starts
<1>4. Within(u, f) /\ Behind(u, f) = Behind(u, p)
  BY <1>2, <1>3, WithinAmong
<1> QED
  BY <1>2, <1>3, <1>4 DEF Behind

\* A leaf for the next tokens of the pattern.
Covers(new, p, used, m) ==
    IF IsParam(p[used + 1]) THEN Len(new.prefix) = 0 /\ m = used + 1
    ELSE Len(new.prefix) = m - used /\ \A i \in 1 .. m - used : new.prefix[i] = p[used + i]

Step(arena, at, used) == [arena |-> arena, at |-> at, used |-> used]

\* A walk that adds a leaf goes on along its pattern:
LEMMA GoesToLeaf ==
    ASSUME NEW p \in Seq(PatternToken), NEW known, p \in known,
           NEW walk, NEW word, WalkOk(walk, word, p, known),
           NEW m \in Nat, walk.used < m, m <= Len(p),
           EdgeOf(walk.arena, walk.at, p[walk.used + 1]) = NoNode,
           NEW node \in Node, NEW new \in Node,
           Gains(node, walk.arena[walk.at], p[walk.used + 1], new, Len(walk.arena) + 1),
           Covers(new, p, walk.used, m),
           NEW arena2, Extended(arena2, walk.arena, walk.at, node, new)
    PROVE  \E word2 : Goes(walk, word, Step(arena2, Len(walk.arena) + 1, m), word2, p, known)
<1>1. PICK arena : arena = walk.arena
  OBVIOUS
<1>2. PICK x : x = walk.at
  OBVIOUS
<1>3. PICK a : a = walk.used
  OBVIOUS
<1>4. PICK n \in Nat : n = Len(arena) /\ n > 0 /\ arena \in Seq(Node) /\ x \in 1 .. n
  BY <1>1, <1>2, WalkTypes
<1>5. PICK u \in Seq(PatternToken) : u = word[x] /\ Len(u) = a /\ Starts(u, p) /\ a \in Nat /\ a < m
  BY <1>2, <1>3, WalkTypes
<1>6. Spelled(arena, word) /\ Known(arena, word, known)
  BY <1>1, WalkTypes
<1>7. PICK f \in Seq(PatternToken) :
          /\ Len(f) = m /\ Starts(f, p) /\ \A i \in 1 .. m : f[i] = p[i]
          /\ Within(u, f) /\ Behind(u, f) = p[a + 1]
  <2>1. Starts(u, p) /\ Len(u) = a /\ Len(u) < m /\ m <= Len(p)
    BY <1>5
  <2>2. \E g \in Seq(PatternToken) :
            /\ Len(g) = m /\ Starts(g, p) /\ \A i \in 1 .. m : g[i] = p[i]
            /\ Within(u, g) /\ Behind(u, g) = p[Len(u) + 1]
    BY ONLY p \in Seq(PatternToken), u \in Seq(PatternToken), m \in Nat, <2>1, FurtherFront
  <2> QED
    BY <2>1, <2>2
<1>8. PICK t \in PatternToken : t = p[a + 1]
  <2>1. a + 1 \in 1 .. Len(p)
    BY <1>5
  <2> QED
    BY <2>1
<1>9. Mark(new.prefix, word[x], f, t)
  <2>1. CASE IsParam(t)
    BY <1>3, <1>5, <1>7, <1>8, <2>1 DEF Mark, Covers
  <2>2. CASE ~IsParam(t)
    <3>1. Len(new.prefix) = m - a /\ \A i \in 1 .. m - a : new.prefix[i] = p[a + i]
      BY <1>3, <1>8, <2>2 DEF Covers
    <3>2. \A i \in 1 .. m - a : a + i \in 1 .. m
      BY <1>5
    <3>3. \A i \in 1 .. m - a : f[a + i] = new.prefix[i]
      BY <1>7, <3>1, <3>2
    <3>4. Len(f) = Len(u) + Len(new.prefix)
      BY <1>5, <1>7, <3>1
    <3> QED
      BY <1>5, <2>2, <3>1, <3>3, <3>4 DEF Mark
  <2> QED
    BY <2>1, <2>2
<1>10. /\ EdgeOf(arena, x, t) = NoNode
       /\ Gains(node, arena[x], t, new, Len(arena) + 1)
       /\ Extended(arena2, arena, x, node, new)
  BY <1>1, <1>2, <1>3, <1>8
<1>11. Within(word[x], f) /\ Behind(word[x], f) = t /\ x \in 1 .. Len(arena)
  BY <1>4, <1>5, <1>7, <1>8
<1>12. PICK word2 : /\ Spelled(arena2, word2) /\ Kept(arena, word, arena2, word2)
                    /\ Len(arena2) = Len(arena) + 1 /\ word2[Len(arena) + 1] = f
                    /\ \A y \in 1 .. Len(arena) : word2[y] = word[y]
  <2>1. EdgeOf(arena, x, t) = NoNode /\ Gains(node, arena[x], t, new, Len(arena) + 1)
    BY <1>10
  <2>2. Extended(arena2, arena, x, node, new) /\ x \in 1 .. Len(arena)
    BY <1>10, <1>11
  <2>3. Within(word[x], f) /\ Behind(word[x], f) = t
    BY <1>11
  <2>4. f \in Seq(PatternToken) /\ t \in PatternToken
    BY <1>7, <1>8
  <2> QED
    BY <1>6, <1>9, <2>1, <2>2, <2>3, <2>4, LeafTrie
<1>13. Known(arena2, word2, known)
  <2>1. \A y \in 1 .. Len(arena2) : y = n + 1 \/ y \in 1 .. n
    BY <1>4, <1>12
  <2>2. ASSUME NEW y \in 1 .. n, Len(word2[y]) > 0 PROVE \E v \in known : Starts(word2[y], v)
    BY <1>4, <1>6, <1>12, <2>2 DEF Known
  <2>3. Starts(word2[n + 1], p)
    BY <1>4, <1>7, <1>12
  <2> QED
    BY <2>1, <2>2, <2>3 DEF Known
<1>14. arena2 \in Seq(Node)
  BY <1>12, SpelledTypes
<1> DEFINE walk2 == Step(arena2, Len(walk.arena) + 1, m)
<1>15. walk2.arena = arena2 /\ walk2.at = n + 1 /\ walk2.used = m /\ walk2 \in Walks
  BY <1>1, <1>4, <1>14 DEF Step, Walks
<1>16. n + 1 \in 1 .. Len(arena2)
  BY <1>4, <1>12
<1>17. WalkOk(walk2, word2, p, known)
  BY <1>4, <1>7, <1>12, <1>13, <1>15, <1>16 DEF WalkOk
<1> QED
  BY <1>1, <1>3, <1>5, <1>12, <1>15, <1>17 DEF Goes

\* to a parameter, whose name all the patterns agree on,
LEMMA GoesToParam ==
    ASSUME NEW p \in Seq(PatternToken), NEW known \in SUBSET Seq(PatternToken), p \in known,
           \A v \in known : Agreed(v, p),
           NEW walk, NEW word, WalkOk(walk, word, p, known),
           walk.used < Len(p), IsParam(p[walk.used + 1])
    PROVE  \E word2 : Goes(walk, word, ToParam(walk, p), word2, p, known)
<1>1. PICK arena : arena = walk.arena
  OBVIOUS
<1>2. PICK x : x = walk.at
  OBVIOUS
<1>3. PICK a : a = walk.used
  OBVIOUS
<1>4. PICK n \in Nat : n = Len(arena) /\ n > 0 /\ arena \in Seq(Node) /\ x \in 1 .. n
  BY <1>1, <1>2, WalkTypes
<1>5. PICK u \in Seq(PatternToken) : u = word[x] /\ Len(u) = a /\ Starts(u, p) /\ a \in Nat /\ a < Len(p)
  BY <1>2, <1>3, WalkTypes
<1>6. Spelled(arena, word) /\ Known(arena, word, known) /\ walk \in Walks
  BY <1>1, WalkTypes
<1>7. PICK t \in PatternToken : t = p[a + 1] /\ IsParam(t)
  <2>1. a + 1 \in 1 .. Len(p)
    BY <1>5
  <2> QED
    BY <1>3, <2>1
<1>8. PICK old \in Node : old = arena[x]
  BY <1>4
<1>9. CASE old.param # NoNode
  <2>1. PICK c : c = old.param
    OBVIOUS
  <2>2. c \in 1 .. n /\ c # NoNode /\ IsParam(arena[c].name)
    BY <1>4, <1>6, <1>8, <1>9, <2>1 DEF Spelled, Marked
  <2>3. PICK s \in PatternToken : s = arena[c].name /\ IsParam(s)
    BY <2>2 DEF IsParam, PatternToken
  <2>4. EdgeOf(arena, x, s) = c
    BY <1>8, <1>9, <2>1, <2>3 DEF EdgeOf
  <2>5. Hangs(word, x, s, c)
    BY <1>4, <1>6, <2>2, <2>4, SpelledTypes
  <2>6. Mark(arena[c].prefix, word[x], word[c], s)
    BY <1>4, <1>6, <2>2, <2>4 DEF Spelled, Marked
  <2>7. PICK w \in Seq(PatternToken) : w = word[c]
    BY <1>4, <1>6, <2>2, SpelledTypes
  <2>8. Len(w) = a + 1 /\ Within(u, w) /\ w[a + 1] = s
    BY <1>5, <2>3, <2>5, <2>6, <2>7 DEF Mark, Hangs, Behind
  <2>9. \A i \in 1 .. a : w[i] = p[i]
    <3>1. \A i \in 1 .. a : w[i] = u[i] /\ p[i] = u[i]
      BY <1>5, <2>8 DEF Within, Starts
    <3> QED
      BY <3>1
  <2>10. PICK v \in known : Starts(w, v)
    <3>1. Len(w) > 0
      BY <1>5, <2>8
    <3> QED
      BY <1>4, <1>6, <2>2, <2>7, <3>1 DEF Known
  <2>11. s = t
    <3>1. v \in Seq(PatternToken)
      BY <2>10
    <3>2. a < Len(v)
      BY <1>5, <2>8, <2>10, <3>1 DEF Starts
    <3>3. \A i \in 1 .. a + 1 : v[i] = w[i]
      BY <2>8, <2>10 DEF Starts
    <3>4. \A i \in 1 .. a : i \in 1 .. a + 1
      BY <1>5
    <3>5. \A i \in 1 .. a : v[i] = p[i]
      BY <2>9, <3>3, <3>4
    <3>6. a + 1 \in 1 .. a + 1
      BY <1>5
    <3>7. v[a + 1] = s
      BY <2>8, <3>3, <3>6
    <3>8. Agreed(v, p)
      BY <2>10
    <3>9. v[a + 1] = p[a + 1]
      BY <1>5, <1>7, <2>3, <3>2, <3>5, <3>7, <3>8 DEF Agreed
    <3> QED
      BY <1>7, <3>7, <3>9
  <2>12. Starts(w, p)
    <3>1. \A i \in 1 .. a + 1 : i \in 1 .. a \/ i = a + 1
      BY <1>5
    <3>2. \A i \in 1 .. a + 1 : w[i] = p[i]
      BY <1>7, <2>8, <2>9, <2>11, <3>1
    <3>3. a + 1 <= Len(p)
      BY <1>5
    <3> QED
      BY <2>8, <3>2, <3>3 DEF Starts
  <2>13. PICK walk2 : walk2 = [walk EXCEPT !.at = c, !.used = @ + 1]
    OBVIOUS
  <2>14. walk2.arena = arena /\ walk2.at = c /\ walk2.used = a + 1 /\ walk2 \in Walks
    <3>1. c \in Nat /\ a + 1 \in Nat
      BY <1>5, <2>2
    <3> QED
      BY <1>1, <1>3, <1>6, <2>13, <3>1 DEF Walks
  <2>15. walk2 = ToParam(walk, p)
    BY <1>1, <1>2, <1>8, <1>9, <2>1, <2>13 DEF ToParam
  <2>16. WalkOk(walk2, word, p, known)
    BY <1>4, <1>6, <2>2, <2>7, <2>8, <2>12, <2>14 DEF WalkOk
  <2>17. Kept(walk.arena, word, walk2.arena, word)
    BY <1>1, <2>14 DEF Kept
  <2>18. walk2.used > walk.used
    BY <1>3, <1>5, <2>14
  <2> QED
    BY <2>15, <2>16, <2>17, <2>18 DEF Goes
<1>10. CASE old.param = NoNode
  <2>1. PICK node : node = [old EXCEPT !.param = n + 1]
    OBVIOUS
  <2>2. /\ node \in Node /\ node.prefix = old.prefix /\ node.name = old.name /\ node.value = old.value
        /\ node.children = old.children /\ node.param = n + 1
    <3>1. n + 1 \in Nat
      BY <1>4
    <3> QED
      BY <2>1, <3>1 DEF Node
  <2>3. t \in Name \cup {NoName} /\ << >> \in Seq(Byte)
    BY <1>7 DEF IsParam
  <2>4. PICK new \in Node : /\ new = NewNode(<<>>, t) /\ new.prefix = <<>> /\ new.param = NoNode
                            /\ new.name = t /\ new.value = NoRoute /\ DOMAIN new.children = {}
    BY <2>3, NewNodeOk
  <2>5. EdgeOf(arena, x, t) = NoNode
    BY <1>7, <1>8, <1>10 DEF EdgeOf
  <2>6. Gains(node, old, t, new, n + 1)
    BY <1>7, <1>10, <2>2, <2>4 DEF Gains
  <2>7. Covers(new, p, a, a + 1)
    BY <1>7, <2>4 DEF Covers
  <2>8. PICK arena2 : arena2 = Append([arena EXCEPT ![x] = node], new)
    OBVIOUS
  <2>9. PICK m \in Nat : m = a + 1 /\ a < m /\ m <= Len(p)
    BY <1>5
  <2>10. \E word2 : Goes(walk, word, Step(arena2, Len(walk.arena) + 1, m), word2, p, known)
    <3>1. /\ walk.used < m /\ EdgeOf(walk.arena, walk.at, p[walk.used + 1]) = NoNode
          /\ Gains(node, walk.arena[walk.at], p[walk.used + 1], new, Len(walk.arena) + 1)
          /\ Covers(new, p, walk.used, m)
          /\ Extended(arena2, walk.arena, walk.at, node, new)
      BY <1>1, <1>2, <1>3, <1>4, <1>7, <1>8, <2>5, <2>6, <2>7, <2>8, <2>9 DEF Extended
    <3> QED
      BY <2>2, <2>4, <2>9, <3>1, GoesToLeaf
  <2>11. ToParam(walk, p) = Step(arena2, Len(walk.arena) + 1, m)
    <3>1. [arena EXCEPT ![x].param = n + 1] = [arena EXCEPT ![x] = node]
      BY <1>8, <2>1
    <3>2. arena2 = Append([arena EXCEPT ![x].param = n + 1], NewNode(<<>>, p[a + 1]))
      BY <1>7, <2>4, <2>8, <3>1
    <3> QED
      BY <1>1, <1>2, <1>3, <1>4, <1>8, <1>10, <2>9, <3>2 DEF ToParam, Step
  <2> QED
    BY <2>10, <2>11
<1> QED
  BY <1>9, <1>10

\* A stretch without parameters is one of bytes.
LEMMA BytesOnly ==
    ASSUME NEW s \in Seq(PatternToken), \A i \in 1 .. Len(s) : s[i] \notin Name
    PROVE  s \in Seq(Byte)
<1>1. \A i \in 1 .. Len(s) : s[i] \in Byte
  BY DEF PatternToken
<1> QED
  BY <1>1

\* to a new child with the bytes before the next parameter,
LEMMA GoesToNewChild ==
    ASSUME NEW p \in Seq(PatternToken), NEW known, p \in known,
           NEW walk, NEW word, WalkOk(walk, word, p, known),
           walk.used < Len(p), ~IsParam(p[walk.used + 1]),
           p[walk.used + 1] \notin DOMAIN walk.arena[walk.at].children
    PROVE  \E word2 : Goes(walk, word, ToNewChild(walk, p), word2, p, known)
<1>1. PICK arena : arena = walk.arena
  OBVIOUS
<1>2. PICK x : x = walk.at
  OBVIOUS
<1>3. PICK a : a = walk.used
  OBVIOUS
<1>4. PICK n \in Nat : n = Len(arena) /\ n > 0 /\ arena \in Seq(Node) /\ x \in 1 .. n
  BY <1>1, <1>2, WalkTypes
<1>5. a \in Nat /\ a < Len(p) /\ a + 1 \in 1 .. Len(p) /\ a \in 0 .. Len(p)
  <2>1. a \in Nat /\ a < Len(p)
    BY <1>3, WalkTypes
  <2>2. Len(p) \in Nat
    OBVIOUS
  <2> QED
    BY <2>1, <2>2
<1>6. PICK t \in PatternToken : t = p[a + 1] /\ ~IsParam(t) /\ t \in Byte /\ t \notin Name
  BY <1>3, <1>5 DEF IsParam, PatternToken
<1>7. PICK old \in Node : old = arena[x] /\ t \notin DOMAIN old.children
  BY <1>1, <1>2, <1>3, <1>4, <1>6
<1>8. PICK end : end = End(p, a, Name)
  OBVIOUS
<1>9. end \in Nat /\ a < end /\ end <= Len(p) /\ \A i \in a + 1 .. end : p[i] \notin Name
  <2>1. /\ end \in a .. Len(p) /\ \A i \in a + 1 .. end : p[i] \notin Name
        /\ end < Len(p) => p[end + 1] \in Name
    BY <1>5, <1>8, EndIs
  <2>2. end # a
    BY <1>5, <1>6, <2>1
  <2> QED
    BY <1>5, <2>1, <2>2
<1>10. PICK prefix : prefix = SubSeq(p, a + 1, end)
  OBVIOUS
<1>11. prefix \in Seq(Byte) /\ Len(prefix) = end - a /\ \A i \in 1 .. end - a : prefix[i] = p[a + i]
  <2>1. /\ prefix \in Seq(PatternToken) /\ Len(prefix) = end - a
        /\ \A i \in 1 .. end - a : prefix[i] = p[a + i]
    <3>1. a <= end
      BY <1>5, <1>9
    <3> QED
      BY <1>5, <1>9, <1>10, <3>1, StretchOf
  <2>2. \A i \in 1 .. end - a : a + i \in a + 1 .. end
    BY <1>5, <1>9
  <2>3. \A i \in 1 .. Len(prefix) : prefix[i] \notin Name
    BY <1>9, <2>1, <2>2
  <2> QED
    BY <2>1, <2>3, BytesOnly
<1>12. PICK kids : kids = old.children
  OBVIOUS
<1>13. PICK more : more = [b \in DOMAIN kids \cup {t} |-> IF b = t THEN n + 1 ELSE kids[b]]
  OBVIOUS
<1>14. /\ more \in Children /\ DOMAIN more = DOMAIN kids \cup {t} /\ more[t] = n + 1
       /\ \A b \in DOMAIN kids : b # t => more[b] = kids[b]
  <2>1. DOMAIN kids \subseteq Byte /\ \A b \in DOMAIN kids : kids[b] \in Nat
    BY <1>12, NodeIs
  <2>2. more \in [DOMAIN kids \cup {t} -> Nat] /\ DOMAIN kids \cup {t} \in SUBSET Byte
    BY <1>4, <1>6, <1>13, <2>1
  <2> QED
    BY <1>13, <2>2 DEF Children
<1>15. PICK node : node = [old EXCEPT !.children = more]
  OBVIOUS
<1>16. /\ node \in Node /\ node.prefix = old.prefix /\ node.name = old.name /\ node.value = old.value
       /\ node.children = more /\ node.param = old.param
  BY <1>14, <1>15 DEF Node
<1>17. PICK new \in Node : /\ new = NewNode(prefix, NoName) /\ new.prefix = prefix /\ new.param = NoNode
                           /\ new.value = NoRoute /\ DOMAIN new.children = {}
  BY <1>11, NewNodeOk
<1>18. EdgeOf(arena, x, t) = NoNode
  BY <1>6, <1>7 DEF EdgeOf
<1>19. Gains(node, old, t, new, n + 1)
  BY <1>6, <1>12, <1>14, <1>16, <1>17 DEF Gains
<1>20. Covers(new, p, a, end)
  BY <1>6, <1>11, <1>17 DEF Covers
<1>21. PICK arena2 : arena2 = Append([arena EXCEPT ![x] = node], new)
  OBVIOUS
<1>22. \E word2 : Goes(walk, word, Step(arena2, Len(walk.arena) + 1, end), word2, p, known)
  <2>1. /\ walk.used < end /\ EdgeOf(walk.arena, walk.at, p[walk.used + 1]) = NoNode
        /\ Gains(node, walk.arena[walk.at], p[walk.used + 1], new, Len(walk.arena) + 1)
        /\ Covers(new, p, walk.used, end)
        /\ Extended(arena2, walk.arena, walk.at, node, new)
    BY <1>1, <1>2, <1>3, <1>4, <1>6, <1>7, <1>9, <1>18, <1>19, <1>20, <1>21 DEF Extended
  <2> QED
    BY <1>9, <1>16, <1>17, <2>1, GoesToLeaf
<1>23. ToNewChild(walk, p) = Step(arena2, Len(walk.arena) + 1, end)
  <2>1. [arena EXCEPT ![x].children = more] = [arena EXCEPT ![x] = node]
    BY <1>7, <1>15
  <2>2. arena2 = Append([arena EXCEPT ![x].children = more], NewNode(prefix, NoName))
    BY <1>17, <1>21, <2>1
  <2> QED
    BY <1>1, <1>2, <1>3, <1>4, <1>6, <1>7, <1>8, <1>10, <1>12, <1>13, <2>2 DEF ToNewChild, Step
<1> QED
  BY <1>22, <1>23

-----------------------------------------------------------------------------
(* A step to a child, which may be split *)

\* The child for the next token.
NextChild(c, walk, p) ==
    /\ p[walk.used + 1] \in DOMAIN walk.arena[walk.at].children
    /\ c = walk.arena[walk.at].children[p[walk.used + 1]]

\* and to a child that is there, split where the pattern leaves it.
LEMMA GoesToChild ==
    ASSUME NEW p \in Seq(PatternToken), NEW known \in SUBSET Seq(PatternToken), p \in known,
           NEW walk, NEW word, WalkOk(walk, word, p, known),
           walk.used < Len(p), ~IsParam(p[walk.used + 1]),
           NEW c, NextChild(c, walk, p)
    PROVE  \E word2 : Goes(walk, word, ToChild(walk, p, c), word2, p, known)
<1>1. PICK arena : arena = walk.arena
  OBVIOUS
<1>2. PICK x : x = walk.at
  OBVIOUS
<1>3. PICK a : a = walk.used
  OBVIOUS
<1>4. PICK n \in Nat : n = Len(arena) /\ n > 0 /\ arena \in Seq(Node) /\ x \in 1 .. n
  BY <1>1, <1>2, WalkTypes
<1>5. PICK u \in Seq(PatternToken) : u = word[x] /\ Len(u) = a /\ Starts(u, p) /\ a \in Nat /\ a < Len(p)
  BY <1>2, <1>3, WalkTypes
<1>6. Spelled(arena, word) /\ Known(arena, word, known) /\ walk \in Walks
  BY <1>1, WalkTypes
<1>7. PICK t \in PatternToken : t = p[a + 1] /\ ~IsParam(t)
  <2>1. a + 1 \in 1 .. Len(p)
    BY <1>5
  <2> QED
    BY <1>3, <2>1
<1>8. t \in DOMAIN arena[x].children /\ c = arena[x].children[t]
  BY <1>1, <1>2, <1>3, <1>7 DEF NextChild
<1>9. c # NoNode /\ EdgeOf(arena, x, t) = c
  <2>1. c # NoNode
    BY <1>4, <1>6, <1>8 DEF Spelled, Marked
  <2> QED
    BY <1>7, <1>8, <2>1 DEF EdgeOf
<1>10. c \in 1 .. n /\ Hangs(word, x, t, c)
  BY <1>4, <1>6, <1>9, SpelledTypes
<1>11. PICK w \in Seq(PatternToken) : w = word[c]
  BY <1>4, <1>6, <1>10, SpelledTypes
<1>12. PICK prefix \in Seq(Byte) : prefix = arena[c].prefix
  <2>1. arena[c] \in Node
    BY <1>4, <1>10
  <2> QED
    BY <2>1, NodeIs
<1>13. PICK k \in Nat : k = Len(prefix)
  OBVIOUS
<1>14. Mark(prefix, u, w, t)
  BY <1>4, <1>5, <1>6, <1>9, <1>11, <1>12 DEF Spelled, Marked
<1>15. Len(w) = a + k /\ \A i \in 1 .. k : w[a + i] = prefix[i]
  BY <1>5, <1>7, <1>13, <1>14 DEF Mark
<1>16. Within(u, w) /\ w[a + 1] = t
  BY <1>5, <1>10, <1>11 DEF Hangs, Behind
<1>17. k > 0
  BY <1>5, <1>15, <1>16 DEF Within
<1>18. PICK common : common = common_prefix_len(prefix, p, a)
  OBVIOUS
<1>19. /\ common \in 0 .. k /\ a + common <= Len(p)
       /\ \A i \in 1 .. common : prefix[i] = p[a + i]
       /\ common < k /\ a + common < Len(p) => prefix[common + 1] # p[a + common + 1]
  <2>1. prefix \in Seq(PatternToken) /\ a \in 0 .. Len(p)
    BY <1>5 DEF PatternToken
  <2> QED
    BY <1>13, <1>18, <2>1, CommonIs DEF CommonAt
<1>20. common \in Nat /\ common > 0
  <2> SUFFICES ASSUME common = 0 PROVE FALSE
    BY <1>19
  <2>1. prefix[1] # p[a + 1]
    <3>1. common + 1 = 1 /\ a + common = a /\ a + common + 1 = a + 1 /\ 0 < k
      BY <1>5, <1>17
    <3> QED
      BY <1>5, <1>19, <3>1
  <2>2. w[a + 1] = prefix[1]
    <3>1. 1 \in 1 .. k
      BY <1>17
    <3> QED
      BY <1>15, <3>1
  <2> QED
    BY <1>7, <1>16, <2>1, <2>2
<1>21. \A i \in 1 .. a + common : w[i] = p[i]
  <2> TAKE i \in 1 .. a + common
  <2>1. CASE i <= a
    <3>1. i \in 1 .. a
      BY <1>5, <2>1
    <3>2. w[i] = u[i] /\ p[i] = u[i]
      BY <1>5, <1>16, <3>1 DEF Within, Starts
    <3> QED
      BY <3>2
  <2>2. CASE ~(i <= a)
    <3>1. PICK j \in 1 .. common : i = a + j
      <4>1. i - a \in 1 .. common /\ i = a + (i - a)
        BY <1>5, <1>20, <2>2
      <4> QED
        BY <4>1
    <3>2. j \in 1 .. k
      BY <1>19
    <3> QED
      BY <1>15, <1>19, <3>1, <3>2
  <2> QED
    BY <2>1, <2>2
<1>22. \A y \in 1 .. n : Len(word[y]) > 0 => \E v \in known : Starts(word[y], v)
  BY <1>4, <1>6 DEF Known
<1>23. a + common \in Nat /\ c \in Nat /\ a < a + common /\ a + common <= Len(p)
  BY <1>5, <1>10, <1>19, <1>20
<1>24. CASE common = k
  <2>1. ToChild(walk, p, c) = Step(arena, c, a + common)
    <3>1. ~(common < Len(prefix))
      BY <1>13, <1>24
    <3> QED
      BY <1>1, <1>3, <1>12, <1>18, <3>1 DEF ToChild, Step
  <2>2. PICK walk2 : walk2 = Step(arena, c, a + common)
    OBVIOUS
  <2>3. walk2.arena = arena /\ walk2.at = c /\ walk2.used = a + common /\ walk2 \in Walks
    BY <1>4, <1>23, <2>2 DEF Step, Walks
  <2>4. Starts(w, p)
    BY <1>15, <1>21, <1>23, <1>24 DEF Starts
  <2>5. WalkOk(walk2, word, p, known)
    BY <1>4, <1>6, <1>10, <1>11, <1>15, <1>24, <2>3, <2>4 DEF WalkOk
  <2>6. Kept(walk.arena, word, walk2.arena, word)
    BY <1>1, <2>3 DEF Kept
  <2> QED
    BY <1>3, <1>23, <2>1, <2>2, <2>3, <2>5, <2>6 DEF Goes
<1>25. CASE common # k
  <2>1. common < k
    BY <1>13, <1>19, <1>25
  <2>2. PICK arena2 : arena2 = split_node(arena, c, common)
    OBVIOUS
  <2>3. common < Len(arena[c].prefix) /\ x \in 1 .. Len(arena) /\ c \in 1 .. Len(arena)
    BY <1>4, <1>10, <1>12, <1>13, <2>1
  <2>4. c = EdgeOf(arena, x, t)
    BY <1>9
  <2>5. PICK word2 : /\ Spelled(arena2, word2) /\ Kept(arena, word, arena2, word2)
                     /\ Len(arena2) = Len(arena) + 1 /\ word2[Len(arena) + 1] = word[c]
                     /\ Starts(word2[c], word[c]) /\ Len(word2[c]) = Len(word[x]) + common
                     /\ \A y \in 1 .. Len(arena) : y # c => word2[y] = word[y]
    BY <1>6, <1>7, <1>20, <2>2, <2>3, <2>4, SplitTrie, SMTT(60)
  <2>6. ToChild(walk, p, c) = Step(arena2, c, a + common)
    BY <1>1, <1>3, <1>12, <1>13, <1>18, <2>1, <2>2 DEF ToChild, Step
  <2>7. PICK walk2 : walk2 = Step(arena2, c, a + common)
    OBVIOUS
  <2>8. arena2 \in Seq(Node)
    BY <2>5, SpelledTypes
  <2>9. walk2.arena = arena2 /\ walk2.at = c /\ walk2.used = a + common /\ walk2 \in Walks
    BY <1>23, <2>7, <2>8 DEF Step, Walks
  <2>10. c \in 1 .. Len(arena2) /\ \A y \in 1 .. Len(arena2) : y = n + 1 \/ y = c \/ (y \in 1 .. n /\ y # c)
    <3>1. Len(arena2) = n + 1
      BY <1>4, <2>5
    <3> QED
      BY <1>4, <1>10, <3>1
  <2>11. PICK f \in Seq(PatternToken) : f = word2[c] /\ Len(f) = a + common /\ Starts(f, w)
    BY <1>5, <1>11, <2>5, <2>10, SpelledTypes
  <2>12. Starts(f, p)
    BY <1>21, <1>23, <2>11 DEF Starts
  <2>13. PICK v \in known : Starts(w, v)
    <3>1. Len(w) > 0
      BY <1>5, <1>15, <1>17
    <3> QED
      BY <1>10, <1>11, <1>22, <3>1
  <2>14. Known(arena2, word2, known)
    <3>1. Starts(f, v)
      BY <2>11, <2>13, StartsFurther
    <3>2. ASSUME NEW y \in 1 .. n, y # c, Len(word2[y]) > 0 PROVE \E v2 \in known : Starts(word2[y], v2)
      BY <1>4, <1>22, <2>5, <3>2
    <3>3. Starts(word2[n + 1], v) /\ Starts(word2[c], v)
      BY <1>4, <1>11, <2>5, <2>11, <2>13, <3>1
    <3> QED
      BY <2>10, <2>13, <3>2, <3>3 DEF Known
  <2>15. WalkOk(walk2, word2, p, known)
    BY <2>5, <2>9, <2>10, <2>11, <2>12, <2>14 DEF WalkOk
  <2> QED
    BY <1>1, <1>3, <1>23, <2>5, <2>6, <2>7, <2>9, <2>15 DEF Goes
<1> QED
  BY <1>24, <1>25

\* Every step of a walk goes on, until the pattern is used.
LEMMA Descends ==
    ASSUME NEW p \in Seq(PatternToken), NEW known \in SUBSET Seq(PatternToken), p \in known,
           \A v \in known : Agreed(v, p),
           NEW walk, NEW word, WalkOk(walk, word, p, known)
    PROVE  \/ walk.used = Len(p) /\ Descend(walk, p) = walk
           \/ \E word2 : Goes(walk, word, Descend(walk, p), word2, p, known)
<1>1. CASE walk.used = Len(p)
  BY <1>1 DEF Descend
<1>2. CASE walk.used # Len(p)
  <2>1. walk.used < Len(p)
    <3>1. walk.used \in Nat /\ walk.used <= Len(p)
      BY WalkTypes
    <3>2. Len(p) \in Nat
      OBVIOUS
    <3> QED
      BY <1>2, <3>1, <3>2
  <2>2. \E word2 : Goes(walk, word, Descend(walk, p), word2, p, known)
    <3>1. CASE IsParam(p[walk.used + 1])
      <4>1. Descend(walk, p) = ToParam(walk, p)
        BY <1>2, <3>1 DEF Descend
      <4> QED
        BY <2>1, <3>1, <4>1, GoesToParam
    <3>2. CASE ~IsParam(p[walk.used + 1]) /\ p[walk.used + 1] \in DOMAIN walk.arena[walk.at].children
      <4>1. PICK c : c = walk.arena[walk.at].children[p[walk.used + 1]]
        OBVIOUS
      <4>2. Descend(walk, p) = ToChild(walk, p, c)
        BY <1>2, <3>2, <4>1 DEF Descend
      <4>3. NextChild(c, walk, p)
        BY <3>2, <4>1 DEF NextChild
      <4> QED
        BY <2>1, <3>2, <4>2, <4>3, GoesToChild
    <3>3. CASE ~IsParam(p[walk.used + 1]) /\ p[walk.used + 1] \notin DOMAIN walk.arena[walk.at].children
      <4>1. Descend(walk, p) = ToNewChild(walk, p)
        BY <1>2, <3>3 DEF Descend
      <4> QED
        BY <2>1, <3>3, <4>1, GoesToNewChild
    <3> QED
      BY <3>1, <3>2, <3>3
  <2> QED
    BY <2>2
<1> QED
  BY <1>1, <1>2

-----------------------------------------------------------------------------
(* insert as a whole *)

\* The walks on the way of an insert into the arena.
Reached(arena, word, p, known) ==
    {walk \in Walks : \E word2 : WalkOk(walk, word2, p, known) /\ Kept(arena, word, walk.arena, word2)}

\* A step from a reached walk reaches one, with more of the pattern used.
LEMMA DescendsReached ==
    ASSUME NEW p \in Seq(PatternToken), NEW known \in SUBSET Seq(PatternToken), p \in known,
           \A v \in known : Agreed(v, p),
           NEW arena, NEW word, NEW walk \in Reached(arena, word, p, known)
    PROVE  /\ Descend(walk, p) \in Reached(arena, word, p, known)
           /\ walk.used \in Nat /\ Descend(walk, p).used \in Nat
           /\ walk.used <= Len(p) /\ Descend(walk, p).used <= Len(p)
           /\ Descend(walk, p).used > walk.used \/ Descend(walk, p).used = Len(p)
<1>1. PICK word2 : WalkOk(walk, word2, p, known) /\ Kept(arena, word, walk.arena, word2)
  BY DEF Reached
<1>2. walk.used \in Nat /\ walk.used <= Len(p)
  BY <1>1, WalkTypes
<1>3. CASE walk.used = Len(p) /\ Descend(walk, p) = walk
  BY <1>2, <1>3
<1>4. ASSUME NEW word3, Goes(walk, word2, Descend(walk, p), word3, p, known)
      PROVE  /\ Descend(walk, p) \in Reached(arena, word, p, known)
             /\ Descend(walk, p).used \in Nat /\ Descend(walk, p).used <= Len(p)
             /\ Descend(walk, p).used > walk.used
  <2>1. PICK walk2 : walk2 = Descend(walk, p)
    OBVIOUS
  <2>2. WalkOk(walk2, word3, p, known) /\ Kept(walk.arena, word2, walk2.arena, word3) /\ walk2.used > walk.used
    BY <1>4, <2>1 DEF Goes
  <2>3. walk2 \in Walks /\ walk2.used \in Nat /\ walk2.used <= Len(p)
    BY <2>2, WalkTypes
  <2>4. Kept(arena, word, walk2.arena, word3)
    BY <1>1, <2>2 DEF Kept
  <2> QED
    BY <2>1, <2>2, <2>3, <2>4 DEF Reached
<1>5. \/ walk.used = Len(p) /\ Descend(walk, p) = walk
      \/ \E word3 : Goes(walk, word2, Descend(walk, p), word3, p, known)
  BY <1>1, Descends
<1> QED
  BY <1>2, <1>3, <1>4, <1>5

Valued(arena2, arena, x, route) == arena2 = [arena EXCEPT ![x].value = route]

\* There are enough steps to use the whole pattern.
LEMMA InsertReaches ==
    ASSUME NEW p \in Seq(PatternToken), NEW known \in SUBSET Seq(PatternToken), p \in known,
           \A v \in known : Agreed(v, p),
           NEW arena, NEW word, Spelled(arena, word), Known(arena, word, known), NEW route
    PROVE  \E end \in Reached(arena, word, p, known) :
               end.used = Len(p) /\ Valued(insert(arena, p, route), end.arena, end.at, route)
<1>1. PICK last \in Nat : last = Len(p)
  OBVIOUS
<1>2. PICK S : S = Reached(arena, word, p, known)
  OBVIOUS
<1>3. PICK start : start = Step(arena, 1, 0)
  OBVIOUS
<1>4. start \in S /\ start.used = 0
  <2>1. arena \in Seq(Node) /\ Len(arena) \in Nat /\ Len(arena) > 0
    BY SpelledTypes
  <2>2. start.arena = arena /\ start.at = 1 /\ start.used = 0 /\ start \in Walks
    BY <1>3, <2>1 DEF Step, Walks
  <2>3. 1 \in 1 .. Len(arena)
    BY <2>1
  <2>4. word[1] \in Seq(PatternToken) /\ Len(word[1]) = 0
    BY <2>3, SpelledTypes DEF Spelled
  <2>5. Starts(word[1], p)
    BY <1>1, <2>4 DEF Starts
  <2>6. WalkOk(start, word, p, known)
    BY <2>2, <2>3, <2>4, <2>5 DEF WalkOk
  <2>7. Kept(arena, word, start.arena, word)
    BY <2>2 DEF Kept
  <2> QED
    BY <1>2, <2>2, <2>6, <2>7 DEF Reached
<1>5. \A walk \in S : Descend(walk, p) \in S
  BY <1>2, DescendsReached
<1> DEFINE step == [n \in 1 .. last |-> [walk \in S |-> Descend(walk, p)]]
<1>6. step \in [1 .. last -> [S -> S]]
  BY <1>5
<1>7. PICK run : IsRun(run, last, S, start, step)
  <2> HIDE DEF step
  <2> QED
    BY <1>4, <1>6, Iteration
<1>8. run \in [0 .. last -> S] /\ run[0] = start /\ \A n \in 1 .. last : run[n] = Descend(run[n - 1], p)
  <2>1. run \in [0 .. last -> S] /\ run[0] = start
    BY <1>7 DEF IsRun
  <2>2. ASSUME NEW n \in 1 .. last PROVE run[n] = Descend(run[n - 1], p)
    <3>1. n - 1 \in 0 .. last
      OBVIOUS
    <3>2. run[n - 1] \in S
      BY <2>1, <3>1
    <3> QED
      BY <1>7, <3>2 DEF IsRun
  <2> QED
    BY <2>1, <2>2
<1> HIDE DEF step
<1> DEFINE body(f, n) == IF n = 0 THEN [arena |-> arena, at |-> 1, used |-> 0] ELSE Descend(f[n - 1], p)
           walk[n \in 0 .. Len(p)] == body(walk, n)
<1>9. run = [n \in 0 .. Len(p) |-> body(run, n)]
  <2>1. run = [n \in 0 .. last |-> run[n]]
    BY <1>8
  <2>2. \A n \in 0 .. last : n = 0 \/ n \in 1 .. last
    OBVIOUS
  <2>3. \A n \in 0 .. last : run[n] = body(run, n)
    BY <1>3, <1>8, <2>2 DEF Step
  <2> HIDE DEF body
  <2> QED
    BY <1>1, <2>1, <2>3
<1>10. walk = [n \in 0 .. Len(p) |-> body(walk, n)]
  BY <1>9
<1>11. insert(arena, p, route) = [walk[Len(p)].arena EXCEPT ![walk[Len(p)].at].value = route]
  BY DEF insert
<1> HIDE DEF walk
<1>12. \A n \in 0 .. last : walk[n] = body(walk, n)
  <2> DEFINE round(n) == body(walk, n)
  <2>1. walk = [n \in 0 .. Len(p) |-> round(n)]
    BY <1>10
  <2> HIDE DEF round
  <2>2. \A n \in 0 .. last : walk[n] = round(n)
    BY <1>1, <2>1
  <2> QED
    BY <2>2 DEF round
<1> DEFINE rounds == {n \in 0 .. last : walk[n] = run[n] /\ run[n].used >= n}
<1>13. 0 \in rounds
  <2>1. 0 \in 0 .. last
    OBVIOUS
  <2>2. walk[0] = body(walk, 0)
    BY <1>12, <2>1, Zenon
  <2>3. walk[0] = run[0] /\ run[0].used >= 0
    BY <1>3, <1>4, <1>8, <2>2 DEF Step
  <2> QED
    BY <2>1, <2>3
<1>14. ASSUME NEW n \in 1 .. last, n - 1 \in rounds PROVE n \in rounds
  <2>1. n \in 0 .. last /\ n # 0 /\ n - 1 \in 0 .. last
    OBVIOUS
  <2>2. walk[n] = Descend(walk[n - 1], p)
    BY <1>12, <2>1
  <2>3. walk[n] = run[n]
    BY <1>8, <1>14, <2>2
  <2>4. PICK before \in S : before = run[n - 1] /\ before.used >= n - 1
    BY <1>8, <1>14, <2>1
  <2>5. PICK after : after = Descend(before, p)
    OBVIOUS
  <2>6. /\ before.used \in Nat /\ after.used \in Nat /\ after.used <= Len(p)
        /\ after.used > before.used \/ after.used = Len(p)
    BY <1>2, <2>4, <2>5, DescendsReached
  <2>7. after.used >= n
    BY <1>1, <2>4, <2>6
  <2>8. run[n] = after
    BY <1>8, <2>4, <2>5
  <2> QED
    BY <2>1, <2>3, <2>7, <2>8
<1>15. \A n \in 0 .. last : n \in rounds
  <2> HIDE DEF rounds
  <2> QED
    BY <1>13, <1>14, RoundByRound
<1>16. last \in 0 .. last /\ walk[last] = run[last] /\ run[last].used >= last
  <2>1. last \in 0 .. last
    OBVIOUS
  <2> QED
    BY <1>15, <2>1
<1>17. PICK end \in S : end = run[last]
  BY <1>8, <1>16
<1>18. end.used \in Nat /\ end.used <= Len(p)
  BY <1>2, <1>17, DescendsReached
<1>19. end.used = Len(p)
  BY <1>1, <1>16, <1>17, <1>18
<1>20. Valued(insert(arena, p, route), end.arena, end.at, route)
  BY <1>1, <1>11, <1>16, <1>17 DEF Valued
<1> QED
  BY <1>2, <1>17, <1>19, <1>20

\* A value at a node leaves the words as they are.
LEMMA ValueTrie ==
    ASSUME NEW arena, NEW word, Spelled(arena, word), NEW x \in 1 .. Len(arena), NEW route \in Nat,
           NEW arena2, Valued(arena2, arena, x, route)
    PROVE  /\ Spelled(arena2, word) /\ Len(arena2) = Len(arena)
           /\ arena2[x].value = route
           /\ \A y \in 1 .. Len(arena) : y # x => arena2[y].value = arena[y].value
<1>1. PICK n \in Nat : n = Len(arena) /\ n > 0 /\ arena \in Seq(Node) /\ x \in 1 .. n
  BY SpelledTypes
<1>2. PICK old \in Node : old = arena[x]
  BY <1>1
<1>3. PICK node : node = [old EXCEPT !.value = route]
  OBVIOUS
<1>4. /\ node \in Node /\ node.prefix = old.prefix /\ node.children = old.children
      /\ node.param = old.param /\ node.name = old.name /\ node.value = route
  BY <1>3 DEF Node
<1>5. arena2 = [arena EXCEPT ![x] = node]
  BY <1>2, <1>3 DEF Valued
<1>6. /\ arena2 \in Seq(Node) /\ Len(arena2) = n /\ arena2[x] = node
      /\ \A y \in 1 .. n : y # x => arena2[y] = arena[y]
  BY <1>1, <1>4, <1>5
<1>7. \A y \in 1 .. n : /\ arena2[y].prefix = arena[y].prefix /\ arena2[y].children = arena[y].children
                        /\ arena2[y].param = arena[y].param /\ arena2[y].name = arena[y].name
  BY <1>2, <1>4, <1>6
<1>8. Marked(arena, word)
  BY DEF Spelled
<1>9. \A y \in 1 .. n : arena[y].param # NoNode =>
          arena[y].param \in 1 .. n /\ IsParam(arena[arena[y].param].name)
  BY <1>1, <1>8 DEF Marked
<1>10. ASSUME NEW y \in 1 .. n, NEW t \in PatternToken PROVE EdgeOf(arena2, y, t) = EdgeOf(arena, y, t)
  BY <1>7, <1>9 DEF EdgeOf
<1>11. EdgesOf(arena2) = EdgesOf(arena)
  <2>1. /\ EdgesOf(arena2) = [y \in 1 .. n |-> [t \in PatternToken |-> EdgeOf(arena2, y, t)]]
        /\ EdgesOf(arena) = [y \in 1 .. n |-> [t \in PatternToken |-> EdgeOf(arena, y, t)]]
    BY <1>1, <1>6 DEF EdgesOf
  <2> QED
    BY <1>10, <2>1
<1>12. Marked(arena2, word)
  <2>1. ASSUME NEW y \in 1 .. n, arena2[y].param # NoNode
        PROVE  arena2[y].param \in 1 .. n /\ IsParam(arena2[arena2[y].param].name)
    <3>1. PICK z : z = arena[y].param /\ z = arena2[y].param
      BY <1>7
    <3>2. z \in 1 .. n /\ IsParam(arena[z].name)
      BY <1>9, <2>1, <3>1
    <3>3. arena2[z].name = arena[z].name
      BY <1>7, <3>2
    <3> QED
      BY <3>1, <3>2, <3>3
  <2>2. ASSUME NEW y \in 1 .. n, NEW b \in DOMAIN arena2[y].children PROVE arena2[y].children[b] # NoNode
    BY <1>1, <1>7, <1>8, <2>2 DEF Marked
  <2>3. ASSUME NEW y \in 1 .. n, NEW t \in PatternToken, EdgeOf(arena2, y, t) # NoNode
        PROVE  Mark(arena2[EdgeOf(arena2, y, t)].prefix, word[y], word[EdgeOf(arena2, y, t)], t)
    <3>1. PICK e : e = EdgeOf(arena, y, t)
      OBVIOUS
    <3>2. EdgeOf(arena2, y, t) = e /\ e # NoNode
      BY <1>10, <2>3, <3>1
    <3>3. e \in 1 .. n /\ Mark(arena[e].prefix, word[y], word[e], t)
      BY <1>1, <1>8, <3>1, <3>2, SpelledTypes DEF Marked
    <3> QED
      BY <1>7, <3>2, <3>3
  <2> QED
    BY <1>6, <2>1, <2>2, <2>3 DEF Marked
<1>13. 1 \in 1 .. n
  BY <1>1
<1>14. Spelled(arena2, word)
  BY <1>1, <1>6, <1>7, <1>11, <1>12, <1>13 DEF Spelled
<1> QED
  BY <1>1, <1>4, <1>6, <1>14

\* After the insert, the pattern has the route, and the others what they had.
Inserted(arena, word, arena2, word2, p, route) ==
    /\ \A r : r # NoRoute => (Holds(arena2, word2, p, r) <=> r = route)
    /\ \A q, r : q # p /\ r # NoRoute => (Holds(arena2, word2, q, r) <=> Holds(arena, word, q, r))

\* insert: the pattern has its node and its route, all others have theirs.
LEMMA InsertTrie ==
    ASSUME NEW p \in Seq(PatternToken), NEW known \in SUBSET Seq(PatternToken), p \in known,
           \A v \in known : Agreed(v, p),
           NEW arena, NEW word, Spelled(arena, word), Known(arena, word, known),
           NEW route \in Nat, route # NoRoute
    PROVE  \E word2 : /\ Spelled(insert(arena, p, route), word2)
                      /\ Known(insert(arena, p, route), word2, known)
                      /\ Inserted(arena, word, insert(arena, p, route), word2, p, route)
<1>0. PICK arena2 : arena2 = insert(arena, p, route)
  OBVIOUS
<1>1. PICK end \in Reached(arena, word, p, known) :
          end.used = Len(p) /\ Valued(insert(arena, p, route), end.arena, end.at, route)
  BY InsertReaches
<1>2. PICK word2 : WalkOk(end, word2, p, known) /\ Kept(arena, word, end.arena, word2)
  BY <1>1 DEF Reached
<1>3. PICK middle : middle = end.arena
  OBVIOUS
<1>4. PICK x : x = end.at
  OBVIOUS
<1>5. /\ x \in 1 .. Len(middle) /\ Spelled(middle, word2) /\ Known(middle, word2, known)
      /\ word2[x] \in Seq(PatternToken) /\ Len(word2[x]) = Len(p) /\ Starts(word2[x], p)
  BY <1>1, <1>2, <1>3, <1>4, WalkTypes
<1>6. word2[x] = p
  <2>1. PICK w \in Seq(PatternToken) : w = word2[x]
    BY <1>5
  <2>2. \A i \in 1 .. Len(w) : w[i] = p[i]
    BY <1>5, <2>1 DEF Starts
  <2>3. Len(w) = Len(p)
    BY <1>5, <2>1
  <2> QED
    BY <2>1, <2>2, <2>3, SeqEqual
<1>7. Valued(arena2, middle, x, route)
  BY <1>0, <1>1, <1>3, <1>4
<1>8. /\ Spelled(arena2, word2) /\ Len(arena2) = Len(middle)
      /\ arena2[x].value = route
      /\ \A y \in 1 .. Len(middle) : y # x => arena2[y].value = middle[y].value
  BY <1>5, <1>7, ValueTrie
<1>9. Known(arena2, word2, known)
  BY <1>5, <1>8 DEF Known
<1>10. ASSUME NEW y \in 1 .. Len(middle), word2[y] = p PROVE y = x
  <2>1. Starts(word2[y], word2[x]) /\ Len(word2[y]) = Len(word2[x])
    BY <1>5, <1>6, <1>10, StartsItself
  <2> QED
    BY <1>5, <2>1 DEF Spelled, Tree, Once
<1>11. ASSUME NEW r, r # NoRoute PROVE Holds(arena2, word2, p, r) <=> r = route
  BY <1>5, <1>6, <1>8, <1>10 DEF Holds
<1>12. ASSUME NEW q, NEW r, q # p, r # NoRoute
       PROVE  Holds(arena2, word2, q, r) <=> Holds(arena, word, q, r)
  <2>1. Holds(middle, word2, q, r) <=> Holds(arena, word, q, r)
    BY <1>2, <1>3, <1>12 DEF Kept
  <2>2. Holds(arena2, word2, q, r) <=> Holds(middle, word2, q, r)
    BY <1>6, <1>8, <1>12 DEF Holds
  <2> QED
    BY <2>1, <2>2
<1>13. Inserted(arena, word, arena2, word2, p, route)
  BY <1>11, <1>12 DEF Inserted
<1> QED
  BY <1>0, <1>8, <1>9, <1>13

-----------------------------------------------------------------------------
(* The trie of a table *)

\* A lone root is spelled and holds nothing.
LEMMA RootTrie ==
    ASSUME NEW known, NEW arena, arena = <<NewNode(<<>>, NoName)>>
    PROVE  \E word : /\ Spelled(arena, word) /\ Known(arena, word, known)
                     /\ \A q, r : r # NoRoute => ~Holds(arena, word, q, r)
<1>1. PICK root \in Node : /\ root = NewNode(<<>>, NoName) /\ DOMAIN root.children = {} /\ root.prefix = <<>>
                           /\ root.param = NoNode /\ root.value = NoRoute
  <2>0. <<>> \in Seq(Byte)
    OBVIOUS
  <2>1. NoName \in Name \cup {NoName}
    OBVIOUS
  <2>2. ASSUME NEW none \in Seq(Byte)
        PROVE  LET root == NewNode(none, NoName)
               IN  root \in Node /\ DOMAIN root.children = {} /\ root.prefix = none /\ root.param = NoNode /\ root.value = NoRoute
    BY <2>1, NewNodeOk
  <2>3. PICK root : root = NewNode(<<>>, NoName)
    OBVIOUS
  <2>4. root \in Node /\ DOMAIN root.children = {} /\ root.prefix = <<>> /\ root.param = NoNode /\ root.value = NoRoute
    BY <2>0, <2>2, <2>3
  <2> QED
    BY <2>3, <2>4
<1>2. arena \in Seq(Node) /\ Len(arena) = 1 /\ arena[1] = root /\ \A x \in 1 .. Len(arena) : x = 1
  BY <1>1
<1>3. PICK word : word = [x \in 1 .. 1 |-> <<>>]
  OBVIOUS
<1>4. /\ word \in [1 .. 1 -> Seq(PatternToken)] /\ \A x \in 1 .. 1 : x = 1 /\ word[x] = <<>> /\ Len(word[x]) = 0
      /\ word[1] = <<>> /\ Len(word[1]) = 0
  BY <1>3
<1>5. ASSUME NEW x \in 1 .. 1, NEW t \in PatternToken PROVE EdgeOf(arena, x, t) = NoNode
  BY <1>1, <1>2 DEF EdgeOf
<1>6. PICK edge : edge = EdgesOf(arena)
  OBVIOUS
<1>7. edge = [x \in 1 .. 1 |-> [t \in PatternToken |-> EdgeOf(arena, x, t)]]
  BY <1>2, <1>6 DEF EdgesOf
<1>8. edge \in [1 .. 1 -> [PatternToken -> 0 .. 1]] /\ \A x \in 1 .. 1, t \in PatternToken : edge[x][t] = NoNode
  BY <1>5, <1>7 DEF NoNode
<1>9. Once(1, word)
  BY <1>4 DEF Once
<1>10. \A x, y \in 1 .. 1 : ~Within(word[x], word[y])
  BY <1>4 DEF Within
<1>11. Tree(1, edge, word)
  BY <1>4, <1>8, <1>9, <1>10 DEF Tree
<1>12. Marked(arena, word)
  BY <1>1, <1>2, <1>5 DEF Marked
<1>13. Spelled(arena, word)
  BY <1>1, <1>2, <1>4, <1>6, <1>11, <1>12 DEF Spelled
<1>14. Known(arena, word, known)
  BY <1>2, <1>4 DEF Known
<1>15. \A q, r : r # NoRoute => ~Holds(arena, word, q, r)
  BY <1>1, <1>2 DEF Holds
<1> QED
  BY <1>13, <1>14, <1>15

\* The patterns of the trie.
Dynamic(table) == {i \in DOMAIN table : is_dynamic(table[i])}
DynamicPatterns(table) == {table[i] : i \in Dynamic(table)}

\* The trie of the first n routes.
Stands(table, n, arena, word) ==
    /\ Spelled(arena, word) /\ Known(arena, word, DynamicPatterns(table))
    /\ \A q, r : r # NoRoute /\ Holds(arena, word, q, r) => r \in 1 .. n /\ r \in Dynamic(table) /\ q = table[r]
    /\ \A i \in 1 .. n : i \in Dynamic(table) => \E r : r # NoRoute /\ Holds(arena, word, table[i], r)

Rooted(known) == {arena \in Seq(Node) : \E word : Spelled(arena, word) /\ Known(arena, word, known)}

\* A route more: the arena holds the dynamic routes so far.
LEMMA BuiltStep ==
    ASSUME NEW table, \A i \in DOMAIN table : table[i] \in Seq(PatternToken),
           \A v, w \in DynamicPatterns(table) : Agreed(v, w),
           NEW n \in Nat, n > 0, n \in DOMAIN table, n \in Dynamic(table),
           NEW arena, NEW word, Stands(table, n - 1, arena, word)
    PROVE  \E word2 : Stands(table, n, insert(arena, table[n], n), word2)
<1>1. PICK known : known = DynamicPatterns(table)
  OBVIOUS
<1>2. PICK p \in Seq(PatternToken) : p = table[n]
  OBVIOUS
<1>3. known \in SUBSET Seq(PatternToken) /\ p \in known /\ \A v \in known : Agreed(v, p)
  BY <1>1, <1>2 DEF DynamicPatterns, Dynamic
<1>4. Spelled(arena, word) /\ Known(arena, word, known)
  BY <1>1 DEF Stands
<1>5. n # NoRoute
  BY DEF NoRoute
<1>6. PICK arena2 : arena2 = insert(arena, p, n)
  OBVIOUS
<1>7. PICK word2 : /\ Spelled(arena2, word2) /\ Known(arena2, word2, known)
                   /\ \A r : r # NoRoute => (Holds(arena2, word2, p, r) <=> r = n)
                   /\ \A q, r : q # p /\ r # NoRoute =>
                          (Holds(arena2, word2, q, r) <=> Holds(arena, word, q, r))
  <2>1. PICK word2 : /\ Spelled(insert(arena, p, n), word2) /\ Known(insert(arena, p, n), word2, known)
                     /\ Inserted(arena, word, insert(arena, p, n), word2, p, n)
    BY <1>2, <1>3, <1>4, <1>5, InsertTrie
  <2> QED
    BY <1>6, <2>1 DEF Inserted
<1>8. \A i \in 1 .. n : i = n \/ i \in 1 .. n - 1
  OBVIOUS
<1>9. ASSUME NEW q, NEW r, r # NoRoute, Holds(arena2, word2, q, r)
      PROVE  r \in 1 .. n /\ r \in Dynamic(table) /\ q = table[r]
  <2>1. CASE q = p
    <3>1. r = n
      BY <1>7, <1>9, <2>1
    <3> QED
      BY <1>2, <2>1, <3>1
  <2>2. CASE q # p
    <3>1. Holds(arena, word, q, r)
      BY <1>7, <1>9, <2>2
    <3>2. r \in 1 .. n - 1 /\ r \in Dynamic(table) /\ q = table[r]
      BY <1>9, <3>1 DEF Stands
    <3> QED
      BY <3>2
  <2> QED
    BY <2>1, <2>2
<1>10. ASSUME NEW i \in 1 .. n, i \in Dynamic(table)
       PROVE  \E r : r # NoRoute /\ Holds(arena2, word2, table[i], r)
  <2>1. CASE table[i] = p
    BY <1>5, <1>7, <2>1
  <2>2. CASE table[i] # p
    <3>1. i \in 1 .. n - 1
      BY <1>2, <1>8, <2>2
    <3>2. PICK r : r # NoRoute /\ Holds(arena, word, table[i], r)
      BY <1>10, <3>1 DEF Stands
    <3> QED
      BY <1>7, <2>2, <3>2
  <2> QED
    BY <2>1, <2>2
<1>11. Stands(table, n, arena2, word2)
  BY <1>1, <1>7, <1>9, <1>10 DEF Stands
<1> QED
  BY <1>2, <1>6, <1>11

\* BuildTrie holds the dynamic routes of the table, of one pattern the last.
LEMMA Built ==
    ASSUME NEW table \in Seq(Seq(PatternToken)), \A v, w \in DynamicPatterns(table) : Agreed(v, w)
    PROVE  \E word : Stands(table, Len(table), BuildTrie(table), word)
<1>1. PICK last \in Nat : last = Len(table)
  OBVIOUS
<1>2. DOMAIN table = 1 .. last /\ \A i \in DOMAIN table : table[i] \in Seq(PatternToken)
  BY <1>1
<1>3. PICK known : known = DynamicPatterns(table)
  OBVIOUS
<1>4. PICK S : S = Rooted(known)
  OBVIOUS
<1>5. PICK start : start = <<NewNode(<<>>, NoName)>>
  OBVIOUS
<1>6. start \in S /\ \E word : Stands(table, 0, start, word)
  <2>1. PICK word : /\ Spelled(start, word) /\ Known(start, word, known)
                    /\ \A q, r : r # NoRoute => ~Holds(start, word, q, r)
    BY <1>5, RootTrie
  <2>2. start \in Seq(Node)
    BY <2>1, SpelledTypes
  <2>3. start \in S
    BY <1>4, <2>1, <2>2 DEF Rooted
  <2>4. Stands(table, 0, start, word)
    BY <1>3, <2>1 DEF Stands
  <2> QED
    BY <2>3, <2>4
<1>7. ASSUME NEW n \in 1 .. last, n \in Dynamic(table), NEW arena \in S PROVE insert(arena, table[n], n) \in S
  <2>1. PICK word : Spelled(arena, word) /\ Known(arena, word, known)
    BY <1>4 DEF Rooted
  <2>2. PICK p \in Seq(PatternToken) : p = table[n]
    BY <1>2
  <2>3. known \in SUBSET Seq(PatternToken) /\ p \in known /\ \A v \in known : Agreed(v, p)
    BY <1>2, <1>3, <1>7, <2>2 DEF DynamicPatterns, Dynamic
  <2>4. n \in Nat /\ n # NoRoute
    BY DEF NoRoute
  <2>5. PICK arena2 : arena2 = insert(arena, p, n)
    OBVIOUS
  <2>6. PICK word2 : Spelled(insert(arena, p, n), word2) /\ Known(insert(arena, p, n), word2, known)
    BY <2>1, <2>2, <2>3, <2>4, InsertTrie
  <2>7. arena2 \in Seq(Node)
    BY <2>5, <2>6, SpelledTypes
  <2> QED
    BY <1>4, <2>2, <2>5, <2>6, <2>7 DEF Rooted
<1> DEFINE Add(arena, n) == IF n \in Dynamic(table) THEN insert(arena, table[n], n) ELSE arena
           step == [n \in 1 .. last |-> [arena \in S |-> Add(arena, n)]]
<1>8. step \in [1 .. last -> [S -> S]]
  BY <1>7
<1>9. PICK run : IsRun(run, last, S, start, step)
  <2> HIDE DEF step
  <2> QED
    BY <1>6, <1>8, Iteration
<1>10. run \in [0 .. last -> S] /\ run[0] = start /\ \A n \in 1 .. last : run[n] = Add(run[n - 1], n)
  <2>1. run \in [0 .. last -> S] /\ run[0] = start
    BY <1>9 DEF IsRun
  <2>2. ASSUME NEW n \in 1 .. last PROVE run[n] = Add(run[n - 1], n)
    <3>1. n - 1 \in 0 .. last
      OBVIOUS
    <3>2. run[n - 1] \in S
      BY <2>1, <3>1
    <3> QED
      BY <1>9, <3>2 DEF IsRun
  <2> QED
    BY <2>1, <2>2
<1> HIDE DEF step
<1> DEFINE body(f, n) == IF n = 0 THEN <<NewNode(<<>>, NoName)>>
                         ELSE IF is_dynamic(table[n]) THEN insert(f[n - 1], table[n], n)
                         ELSE f[n - 1]
           built[n \in 0 .. Len(table)] == body(built, n)
<1>11. run = [n \in 0 .. Len(table) |-> body(run, n)]
  <2>1. run = [n \in 0 .. last |-> run[n]]
    BY <1>10
  <2>2. \A n \in 0 .. last : n = 0 \/ n \in 1 .. last
    OBVIOUS
  <2>3. \A n \in 1 .. last : n \in Dynamic(table) <=> is_dynamic(table[n])
    BY <1>2 DEF Dynamic
  <2>4. \A n \in 0 .. last : run[n] = body(run, n)
    BY <1>5, <1>10, <2>2, <2>3
  <2> HIDE DEF body
  <2> QED
    BY <1>1, <2>1, <2>4
<1>12. built = [n \in 0 .. Len(table) |-> body(built, n)]
  BY <1>11
<1>13. BuildTrie(table) = built[Len(table)]
  BY DEF BuildTrie
<1> HIDE DEF built
<1>14. \A n \in 0 .. last : built[n] = body(built, n)
  <2> DEFINE round(n) == body(built, n)
  <2>1. built = [n \in 0 .. Len(table) |-> round(n)]
    BY <1>12
  <2> HIDE DEF round
  <2>2. \A n \in 0 .. last : built[n] = round(n)
    BY <1>1, <2>1
  <2> QED
    BY <2>2 DEF round
<1> DEFINE rounds == {n \in 0 .. last : \E word : Stands(table, n, built[n], word)}
<1>15. 0 \in rounds
  <2>1. 0 \in 0 .. last
    OBVIOUS
  <2>2. built[0] = body(built, 0)
    BY <1>14, <2>1, Zenon
  <2>3. built[0] = start
    BY <1>5, <2>2
  <2> QED
    BY <1>6, <2>1, <2>3
<1>16. ASSUME NEW n \in 1 .. last, n - 1 \in rounds PROVE n \in rounds
  <2>1. n \in 0 .. last /\ n # 0 /\ n \in Nat /\ n > 0 /\ n \in DOMAIN table
    BY <1>2
  <2>2. built[n] = body(built, n)
    BY <1>14, <2>1, Zenon
  <2>3. PICK word : Stands(table, n - 1, built[n - 1], word)
    BY <1>16
  <2>4. CASE n \in Dynamic(table)
    <3>1. built[n] = insert(built[n - 1], table[n], n)
      BY <2>1, <2>2, <2>4 DEF Dynamic
    <3>2. \E word2 : Stands(table, n, insert(built[n - 1], table[n], n), word2)
      BY <1>2, <2>1, <2>3, <2>4, BuiltStep
    <3> QED
      BY <2>1, <3>1, <3>2
  <2>5. CASE n \notin Dynamic(table)
    <3>1. built[n] = built[n - 1]
      BY <2>1, <2>2, <2>5 DEF Dynamic
    <3>2. \A i \in 1 .. n : i = n \/ i \in 1 .. n - 1
      OBVIOUS
    <3>3. \A i \in 1 .. n - 1 : i \in 1 .. n
      OBVIOUS
    <3>4. Stands(table, n, built[n], word)
      BY <2>3, <2>5, <3>1, <3>2, <3>3 DEF Stands
    <3> QED
      BY <2>1, <3>4
  <2> QED
    BY <2>4, <2>5
<1>17. \A n \in 0 .. last : n \in rounds
  <2> HIDE DEF rounds
  <2> QED
    BY <1>15, <1>16, RoundByRound
<1>18. last \in rounds
  BY <1>17
<1> QED
  BY <1>1, <1>13, <1>18

\* Names that do not conflict agree.
LEMMA NamesAgree ==
    ASSUME NEW table \in Seq(Seq(PatternToken)), ~ConflictingNames(table)
    PROVE  \A v, w \in DynamicPatterns(table) : Agreed(v, w)
<1> SUFFICES ASSUME NEW i \in Dynamic(table), NEW j \in Dynamic(table) PROVE Agreed(table[i], table[j])
  BY DEF DynamicPatterns
<1>1. PICK v \in Seq(PatternToken) : v = table[i]
  BY DEF Dynamic
<1>2. PICK w \in Seq(PatternToken) : w = table[j]
  BY DEF Dynamic
<1> SUFFICES ASSUME NEW n \in Nat, n < Len(v), n < Len(w), \A k \in 1 .. n : v[k] = w[k],
                    IsParam(v[n + 1]), IsParam(w[n + 1]), v[n + 1] # w[n + 1]
             PROVE  FALSE
  BY <1>1, <1>2 DEF Agreed
<1>3. PICK m : m = common_prefix_len(v, w, 0)
  OBVIOUS
<1>4. /\ m \in 0 .. Len(v) /\ 0 + m <= Len(w) /\ \A k \in 1 .. m : v[k] = w[0 + k]
      /\ m < Len(v) /\ 0 + m < Len(w) => v[m + 1] # w[0 + m + 1]
  <2>1. 0 \in 0 .. Len(w)
    OBVIOUS
  <2> QED
    BY <1>3, <2>1, CommonIs DEF CommonAt
<1>5. m = n
  <2>1. ~(m < n)
    <3> SUFFICES ASSUME m < n PROVE FALSE
      OBVIOUS
    <3>1. m + 1 \in 1 .. n /\ 0 + m + 1 = m + 1 /\ m < Len(v) /\ 0 + m < Len(w)
      BY <1>4
    <3>2. v[m + 1] = w[m + 1]
      BY <3>1
    <3> QED
      BY <1>4, <3>1, <3>2
  <2>2. ~(n < m)
    <3> SUFFICES ASSUME n < m PROVE FALSE
      OBVIOUS
    <3>1. n + 1 \in 1 .. m /\ 0 + (n + 1) = n + 1
      BY <1>4
    <3> QED
      BY <1>4, <3>1
  <2> QED
    BY <1>4, <2>1, <2>2
<1>6. n + 1 <= Len(v) /\ n + 1 <= Len(w)
  OBVIOUS
<1>7. ConflictingNames(table)
  <2>1. i \in {k \in DOMAIN table : is_dynamic(table[k])} /\ j \in {k \in DOMAIN table : is_dynamic(table[k])}
    BY DEF Dynamic
  <2>2. common_prefix_len(table[i], table[j], 0) + 1 = n + 1
    BY <1>1, <1>2, <1>3, <1>5
  <2> QED
    BY <1>1, <1>2, <1>6, <2>1, <2>2 DEF ConflictingNames
<1> QED
  BY <1>7

-----------------------------------------------------------------------------
(* Reading over the prefix of a node *)

\* The tokens of w behind the first a are those of the bytes.
Continues(w, a, bytes) == \A i \in 1 .. Len(bytes) : w[a + i] = bytes[i]

\* The bytes are those of the path at a place.
Over(path, from, bytes) ==
    from + Len(bytes) <= Len(path) /\ \A i \in 1 .. Len(bytes) : path[from + i] = bytes[i]

\* Reading goes over bytes one by one.
LEMMA BytesTaken ==
    ASSUME NEW w, NEW m \in Nat, NEW path \in Seq(Byte), NEW pos, Reads(w, m, path, pos),
           NEW a \in Nat, NEW bytes \in Seq(Byte), Continues(w, a, bytes), a + Len(bytes) <= m,
           NEW from, from = pos[a]
    PROVE  Over(path, from, bytes) /\ pos[a + Len(bytes)] = from + Len(bytes)
<1>1. PICK k \in Nat : k = Len(bytes)
  OBVIOUS
<1>2. from \in Nat
  <2>1. a \in 0 .. m
    BY <1>1
  <2>2. pos[a] \in 0 .. Len(path)
    BY <2>1, ReadsTyped
  <2> QED
    BY <2>2
<1>3. ASSUME NEW i \in 1 .. k
      PROVE  /\ pos[a + i] = pos[a + (i - 1)] + 1 /\ path[pos[a + (i - 1)] + 1] = bytes[i]
             /\ pos[a + i] \in 0 .. Len(path)
  <2>1. a + i \in 1 .. m /\ (a + i) - 1 = a + (i - 1) /\ a + i \in 0 .. m
    BY <1>1
  <2>2. bytes[i] \in Byte /\ w[a + i] = bytes[i]
    <3>1. i \in 1 .. Len(bytes)
      BY <1>1
    <3>2. bytes[i] \in Byte
      BY <3>1
    <3>3. w[a + i] = bytes[i]
      BY <3>1 DEF Continues
    <3> QED
      BY <3>2, <3>3
  <2>3. ~IsParam(w[a + i])
    BY <2>2, RouterAssumption DEF IsParam
  <2>4. Takes(w[a + i], path, pos[a + (i - 1)], pos[a + i])
    BY <2>1 DEF Reads
  <2>5. pos[a + i] \in 0 .. Len(path)
    BY <2>1, ReadsTyped
  <2> QED
    BY <2>2, <2>3, <2>4, <2>5 DEF Takes
<1> DEFINE rounds == {i \in 0 .. k : pos[a + i] = from + i}
<1>4. 0 \in rounds
  <2>1. a + 0 = a /\ from + 0 = from /\ 0 \in 0 .. k
    BY <1>2
  <2> QED
    BY <2>1
<1>5. ASSUME NEW i \in 1 .. k, i - 1 \in rounds PROVE i \in rounds
  <2>1. pos[a + (i - 1)] = from + (i - 1)
    BY <1>5
  <2>2. i \in 0 .. k
    OBVIOUS
  <2>3. pos[a + i] = from + i
    <3>1. pos[a + i] = pos[a + (i - 1)] + 1
      BY <1>3
    <3>2. pos[a + i] = (from + (i - 1)) + 1
      BY <2>1, <3>1, Zenon
    <3>3. (from + (i - 1)) + 1 = from + i
      BY <1>2
    <3> QED
      BY <3>2, <3>3, Zenon
  <2> QED
    BY <2>2, <2>3
<1>6. \A i \in 0 .. k : i \in rounds
  <2> HIDE DEF rounds
  <2> QED
    BY <1>4, <1>5, RoundByRound
<1>7. \A i \in 0 .. k : pos[a + i] = from + i
  BY <1>6
<1>8. ASSUME NEW i \in 1 .. k PROVE path[from + i] = bytes[i]
  <2>1. i - 1 \in 0 .. k
    OBVIOUS
  <2>2. pos[a + (i - 1)] + 1 = from + i
    <3>1. pos[a + (i - 1)] = from + (i - 1)
      BY <1>7, <2>1, Zenon
    <3>2. (from + (i - 1)) + 1 = from + i
      BY <1>2
    <3> QED
      BY <3>1, <3>2, Zenon
  <2> QED
    BY <1>3, <2>2
<1>9. from + k <= Len(path) /\ pos[a + k] = from + k
  <2>1. k \in 0 .. k /\ a + k \in 0 .. m
    BY <1>1
  <2>2. pos[a + k] \in 0 .. Len(path)
    BY <2>1, ReadsTyped
  <2>3. pos[a + k] = from + k
    BY <1>7, <2>1
  <2> QED
    BY <1>2, <2>2, <2>3
<1> QED
  BY <1>1, <1>8, <1>9 DEF Over

\* Over bytes the path is read as far as the word.
LEMMA BytesCounted ==
    ASSUME NEW w, NEW m \in Nat, NEW path \in Seq(Byte), NEW pos, Reads(w, m, path, pos),
           NEW a \in Nat, NEW bytes \in Seq(Byte), Continues(w, a, bytes), a + Len(bytes) <= m,
           NEW from, from = pos[a], NEW last, last = a + Len(bytes), NEW k, k = Len(bytes)
    PROVE  pos[last] = from + k
  BY BytesTaken

AsMuch(w, n, at, a, pos, path) == Bound(w, n, path, at) = Bound(w, a, path, pos)

\* Bytes that are those of the path are read, and bind nothing.
LEMMA BytesOn ==
    ASSUME NEW w, NEW path \in Seq(Byte), NEW a \in Nat, NEW pos, Reads(w, a, path, pos),
           NEW bytes \in Seq(Byte), Continues(w, a, bytes),
           NEW from, from = pos[a], Over(path, from, bytes)
    PROVE  \E at : /\ Reads(w, a + Len(bytes), path, at) /\ at[a + Len(bytes)] = from + Len(bytes)
                   /\ AsMuch(w, a + Len(bytes), at, a, pos, path)
<1>1. PICK k \in Nat : k = Len(bytes)
  OBVIOUS
<1>2. PICK m \in Nat : m = Len(path)
  OBVIOUS
<1>0. from + Len(bytes) <= Len(path) /\ \A i \in 1 .. Len(bytes) : path[from + i] = bytes[i]
  BY DEF Over
<1>3. from \in 0 .. m /\ from + k <= m /\ \A i \in 0 .. a : pos[i] \in 0 .. m
  <2>1. a \in 0 .. a
    OBVIOUS
  <2>2. \A i \in 0 .. a : pos[i] \in 0 .. Len(path)
    BY ReadsTyped
  <2> QED
    BY <1>0, <1>1, <1>2, <2>1, <2>2
<1>4. PICK at : at = [i \in 0 .. a + k |-> IF i <= a THEN pos[i] ELSE from + (i - a)]
  OBVIOUS
<1>5. \A i \in 0 .. a : at[i] = pos[i]
  BY <1>4
<1>6. \A i \in 0 .. k : at[a + i] = from + i
  <2> TAKE i \in 0 .. k
  <2>1. a + i \in 0 .. a + k /\ (a + i) - a = i
    OBVIOUS
  <2>2. CASE i = 0
    BY <1>3, <1>4, <2>1, <2>2
  <2>3. CASE i # 0
    <3>1. ~(a + i <= a)
      BY <2>3
    <3> QED
      BY <1>4, <2>1, <3>1
  <2> QED
    BY <2>2, <2>3
<1>7. \A i \in 0 .. a + k : i \in 0 .. a \/ \E j \in 1 .. k : i = a + j
  <2> TAKE i \in 0 .. a + k
  <2>1. CASE ~(i <= a)
    <3>1. i - a \in 1 .. k /\ i = a + (i - a)
      BY <2>1
    <3> QED
      BY <3>1
  <2> QED
    BY <2>1
<1>8. at \in [0 .. a + k -> 0 .. m]
  <2>1. \A i \in 0 .. a + k : at[i] \in 0 .. m
    <3> TAKE i \in 0 .. a + k
    <3>1. CASE i \in 0 .. a
      BY <1>3, <1>5, <3>1
    <3>2. ASSUME NEW j \in 1 .. k, i = a + j PROVE at[i] \in 0 .. m
      <4>1. j \in 0 .. k
        OBVIOUS
      <4>2. at[i] = from + j
        BY <1>6, <3>2, <4>1
      <4> QED
        BY <1>3, <4>2
    <3> QED
      BY <1>7, <3>1, <3>2
  <2> QED
    BY <1>4, <2>1
<1>9. ASSUME NEW i \in 1 .. k PROVE ~IsParam(w[a + i]) /\ w[a + i] = path[from + i]
  <2>1. bytes[i] \in Byte /\ w[a + i] = bytes[i] /\ path[from + i] = bytes[i]
    BY <1>0, <1>1 DEF Continues
  <2> QED
    BY <2>1, RouterAssumption DEF IsParam
<1>10. ASSUME NEW i \in 1 .. a + k PROVE Takes(w[i], path, at[i - 1], at[i])
  <2>1. CASE i \in 1 .. a
    <3>1. i \in 0 .. a /\ i - 1 \in 0 .. a
      BY <2>1
    <3>2. Takes(w[i], path, pos[i - 1], pos[i])
      BY <2>1 DEF Reads
    <3> QED
      BY <1>5, <3>1, <3>2
  <2>2. ASSUME NEW j \in 1 .. k, i = a + j PROVE Takes(w[i], path, at[i - 1], at[i])
    <3>1. j \in 0 .. k /\ j - 1 \in 0 .. k /\ i - 1 = a + (j - 1)
      BY <2>2
    <3>2. at[i] = from + j /\ at[i - 1] = from + (j - 1)
      BY <1>6, <2>2, <3>1
    <3>3. at[i - 1] < m /\ at[i - 1] + 1 = from + j
      <4>0. from \in Nat /\ from + k <= m
        BY <1>3
      <4>1. PICK before \in Nat : before = from + (j - 1)
        BY ONLY j \in 1 .. k, k \in Nat, <4>0
      <4>2. before + 1 = from + j /\ before + 1 <= m
        BY ONLY j \in 1 .. k, k \in Nat, m \in Nat, <4>0, <4>1
      <4>3. before < m
        BY ONLY m \in Nat, <4>1, <4>2
      <4> QED
        BY ONLY <3>2, <4>1, <4>2, <4>3
    <3>4. ~IsParam(w[i]) /\ path[from + j] = w[i]
      BY <1>9, <2>2
    <3> QED
      BY <1>2, <3>2, <3>3, <3>4 DEF Takes
  <2>3. i \in 0 .. a + k /\ (i \in 0 .. a => i \in 1 .. a)
    OBVIOUS
  <2> QED
    BY <1>7, <2>1, <2>2, <2>3
<1>11. 0 \in 0 .. a /\ at[0] = 0
  BY <1>5 DEF Reads
<1>12. Reads(w, a + k, path, at)
  BY <1>2, <1>8, <1>10, <1>11 DEF Reads
<1>13. AsMuch(w, a + k, at, a, pos, path)
  <2>1. \A i \in 1 .. a + k : IsParam(w[i]) <=> i \in 1 .. a /\ IsParam(w[i])
    <3> TAKE i \in 1 .. a + k
    <3>1. i \in 0 .. a + k /\ (i \in 0 .. a => i \in 1 .. a)
      OBVIOUS
    <3>2. ASSUME NEW j \in 1 .. k, i = a + j PROVE ~IsParam(w[i])
      BY <1>9, <3>2
    <3> QED
      BY <1>7, <3>1, <3>2
  <2>2. PICK ks : ks = {i \in 1 .. a : IsParam(w[i])}
    OBVIOUS
  <2>3. {i \in 1 .. a + k : IsParam(w[i])} = ks
    <3>1. \A i \in 1 .. a : i \in 1 .. a + k
      OBVIOUS
    <3> QED
      BY <2>1, <2>2, <3>1
  <2>4. \A i \in ks : at[i] = pos[i] /\ at[i - 1] = pos[i - 1]
    <3> TAKE i \in ks
    <3>1. i \in 0 .. a /\ i - 1 \in 0 .. a
      BY <2>2
    <3> QED
      BY <1>5, <3>1
  <2>5. /\ Bound(w, a + k, path, at) = {Binding(w[i], SubSeq(path, at[i - 1] + 1, at[i])) : i \in ks}
        /\ Bound(w, a, path, pos) = {Binding(w[i], SubSeq(path, pos[i - 1] + 1, pos[i])) : i \in ks}
    BY <2>2, <2>3 DEF Bound
  <2> QED
    BY <2>4, <2>5 DEF AsMuch
<1>14. k \in 0 .. k
  OBVIOUS
<1>15. at[a + k] = from + k
  BY <1>6, <1>14
<1> QED
  BY <1>1, <1>12, <1>13, <1>15

-----------------------------------------------------------------------------
(* Calls of the lookup *)

Entry == [name : Name, value : Seq(Byte)]
Result == [route : Nat, params : Seq(Entry)]

\* What Found returns is a result.
LEMMA ResultIs ==
    ASSUME NEW route \in Nat, NEW params \in Seq(Entry)
    PROVE  Found(route, params) \in Result /\ Found(route, params).route = route
           /\ Found(route, params).params = params
  BY DEF Found, Result

\* With a new entry in front of the end, nothing else changes.
LEMMA Pushed ==
    ASSUME NEW params \in Seq(Entry), NEW entry \in Entry
    PROVE  /\ Append(params, entry) \in Seq(Entry) /\ Len(Append(params, entry)) = Len(params) + 1
           /\ Append(params, entry)[Len(params) + 1] = entry
           /\ \A i \in 1 .. Len(params) : Append(params, entry)[i] = params[i]
  BY AppendProperties

\* Removed leaves a sequence of entries.
LEMMA RemovedIs ==
    ASSUME NEW params \in Seq(Entry), NEW name
    PROVE  Removed(params, name) \in Seq(Entry)
<1>1. PICK last \in Nat : last = Len(params)
  OBVIOUS
<1>2. DOMAIN params = 1 .. last
  BY <1>1
<1>3. CASE \A i \in DOMAIN params : params[i].name # name
  BY <1>3 DEF Removed
<1>4. CASE ~(\A i \in DOMAIN params : params[i].name # name)
  <2>1. PICK first : first = CHOOSE i \in DOMAIN params :
                                 /\ params[i].name = name
                                 /\ \A j \in 1 .. i - 1 : params[j].name # name
    OBVIOUS
  <2>2. PICK rest : rest = [i \in 1 .. last - 1 |-> IF i = first THEN params[last] ELSE params[i]]
    OBVIOUS
  <2>3. last > 0
    BY <1>2, <1>4
  <2>4. \A i \in 1 .. last - 1 : rest[i] \in Entry
    <3>1. last \in 1 .. last
      BY <2>3
    <3>2. params[last] \in Entry /\ \A i \in 1 .. last - 1 : params[i] \in Entry
      BY <1>1, <3>1
    <3> QED
      BY <2>2, <3>2
  <2>5. rest \in Seq(Entry)
    <3>1. last - 1 \in Nat
      BY <2>3
    <3> QED
      BY <2>2, <2>4, <3>1
  <2>6. Removed(params, name) = rest
    BY <1>1, <1>4, <2>1, <2>2 DEF Removed
  <2> QED
    BY <2>5, <2>6
<1> QED
  BY <1>3, <1>4

\* What was pushed is taken away again.
LEMMA PushedRemoved ==
    ASSUME NEW params \in Seq(Entry), NEW entry \in Entry,
           \A i \in 1 .. Len(params) : params[i].name # entry.name
    PROVE  Removed(Append(params, entry), entry.name) = params
<1>1. PICK n \in Nat : n = Len(params)
  OBVIOUS
<1>2. PICK more : more = Append(params, entry)
  OBVIOUS
<1>3. /\ more \in Seq(Entry) /\ Len(more) = n + 1 /\ more[n + 1] = entry
      /\ \A i \in 1 .. n : more[i] = params[i]
  BY <1>1, <1>2, Pushed
<1>4. DOMAIN more = 1 .. n + 1 /\ n + 1 \in 1 .. n + 1 /\ \A i \in 1 .. n + 1 : i = n + 1 \/ i \in 1 .. n
  BY <1>3
<1>5. PICK name : name = entry.name
  OBVIOUS
<1>6. ~(\A i \in DOMAIN more : more[i].name # name)
  BY <1>3, <1>4, <1>5
<1>7. \A i \in 1 .. n : more[i].name # name
  BY <1>1, <1>3, <1>5
<1>8. (CHOOSE i \in DOMAIN more : /\ more[i].name = name
                                  /\ \A j \in 1 .. i - 1 : more[j].name # name) = n + 1
  <2>1. \A i \in DOMAIN more : more[i].name = name => i = n + 1
    BY <1>4, <1>7
  <2>2. n + 1 \in DOMAIN more /\ more[n + 1].name = name /\ (n + 1) - 1 = n
    BY <1>3, <1>4, <1>5
  <2>3. \A j \in 1 .. (n + 1) - 1 : more[j].name # name
    BY <1>7, <2>2
  <2> QED
    BY <2>1, <2>2, <2>3
<1>9. Removed(more, name) = [i \in 1 .. n |-> params[i]]
  <2>1. Removed(more, name) = [i \in 1 .. (n + 1) - 1 |-> IF i = n + 1 THEN more[n + 1] ELSE more[i]]
    BY <1>3, <1>6, <1>8 DEF Removed
  <2>2. (n + 1) - 1 = n /\ \A i \in 1 .. n : i # n + 1
    OBVIOUS
  <2> QED
    BY <1>3, <2>1, <2>2
<1>10. params = [i \in 1 .. n |-> params[i]]
  BY <1>1
<1> QED
  BY <1>2, <1>5, <1>9, <1>10

\* A call for a child of a node.
CallAt(node, from, params) == [node |-> node, from |-> from, params |-> params]

\* A node, a place and entries make a call.
LEMMA CallIs ==
    ASSUME NEW arena, NEW path, NEW node, NEW from, NEW params,
           node \in 1 .. Len(arena), from \in 0 .. Len(path), params \in Seq(Entry)
    PROVE  /\ CallAt(node, from, params) \in Call(arena, path)
           /\ CallAt(node, from, params).node = node /\ CallAt(node, from, params).from = from
           /\ CallAt(node, from, params).params = params
  BY DEF CallAt, Call, Entry

\* The parts of a call, where its node is passed.
Passed(arena, path, call, node, from) ==
    /\ node = arena[call.node] /\ from = call.from + Len(node.prefix)
    /\ ~(common_prefix_len(node.prefix, path, call.from) < Len(node.prefix))

\* The fields of a call have their types.
LEMMA CallTypes ==
    ASSUME NEW arena, NEW word, Spelled(arena, word), NEW path \in Seq(Byte), NEW call \in Call(arena, path)
    PROVE  /\ call.node \in 1 .. Len(arena) /\ call.from \in 0 .. Len(path) /\ call.params \in Seq(Entry)
           /\ arena[call.node] \in Node
  BY SpelledTypes DEF Call, Entry

\* A call that passes its node's prefix found it in the path.
LEMMA PassedIs ==
    ASSUME NEW arena, NEW word, Spelled(arena, word), NEW path \in Seq(Byte), NEW call \in Call(arena, path),
           NEW node, NEW from, Passed(arena, path, call, node, from)
    PROVE  /\ from \in 0 .. Len(path)
           /\ \A i \in 1 .. Len(node.prefix) : path[call.from + i] = node.prefix[i]
<1>1. PICK prefix \in Seq(Byte) : prefix = node.prefix
  BY CallTypes, NodeIs DEF Passed
<1>2. prefix \in Seq(PatternToken) /\ path \in Seq(PatternToken)
  BY DEF PatternToken
<1>3. PICK start : start = call.from
  OBVIOUS
<1>4. start \in 0 .. Len(path)
  BY <1>3, CallTypes
<1>5. CommonAt(prefix, path, start, common_prefix_len(prefix, path, start))
  BY <1>2, <1>4, CommonIs
<1>6. PICK n : n = common_prefix_len(prefix, path, start)
  OBVIOUS
<1>7. n \in 0 .. Len(prefix) /\ start + n <= Len(path) /\ \A i \in 1 .. n : prefix[i] = path[start + i]
  BY <1>5, <1>6 DEF CommonAt
<1>8. n = Len(prefix)
  <2>1. ~(n < Len(prefix))
    BY <1>1, <1>3, <1>6 DEF Passed
  <2>2. Len(prefix) \in Nat
    OBVIOUS
  <2> QED
    BY <1>7, <2>1, <2>2
<1>9. from = start + n
  BY <1>1, <1>3, <1>8 DEF Passed
<1>10. from \in 0 .. Len(path)
  BY <1>4, <1>7, <1>9
<1> QED
  BY <1>1, <1>3, <1>7, <1>8, <1>10

\* The child for the next byte, and the child for a parameter.
LEMMA ChildrenAre ==
    ASSUME NEW arena, NEW word, Spelled(arena, word), NEW x \in 1 .. Len(arena)
    PROVE  /\ \A b \in Byte : b \in DOMAIN arena[x].children =>
                 /\ arena[x].children[b] \in 1 .. Len(arena)
                 /\ arena[x].children[b] # NoNode
                 /\ EdgeOf(arena, x, b) = arena[x].children[b]
           /\ \A b \in Byte : b \notin DOMAIN arena[x].children => EdgeOf(arena, x, b) = NoNode
           /\ arena[x].param # NoNode =>
                 /\ arena[x].param \in 1 .. Len(arena)
                 /\ arena[arena[x].param].name \in Name
                 /\ EdgeOf(arena, x, arena[arena[x].param].name) = arena[x].param
           /\ \A t \in Name : EdgeOf(arena, x, t) # NoNode =>
                 arena[x].param # NoNode /\ t = arena[arena[x].param].name
<1>1. Marked(arena, word)
  BY DEF Spelled
<1>2. \A b \in Byte : ~IsParam(b) /\ b \in PatternToken
  BY RouterAssumption DEF IsParam, PatternToken
<1>3. ASSUME NEW b \in Byte, b \in DOMAIN arena[x].children
      PROVE  /\ arena[x].children[b] \in 1 .. Len(arena) /\ arena[x].children[b] # NoNode
             /\ EdgeOf(arena, x, b) = arena[x].children[b]
  <2>1. EdgeOf(arena, x, b) = arena[x].children[b] /\ arena[x].children[b] # NoNode
    BY <1>1, <1>2, <1>3 DEF EdgeOf, Marked
  <2> QED
    BY <1>2, <2>1, SpelledTypes
<1>4. ASSUME NEW b \in Byte, b \notin DOMAIN arena[x].children PROVE EdgeOf(arena, x, b) = NoNode
  BY <1>2, <1>4 DEF EdgeOf
<1>5. ASSUME arena[x].param # NoNode
      PROVE  /\ arena[x].param \in 1 .. Len(arena) /\ arena[arena[x].param].name \in Name
             /\ EdgeOf(arena, x, arena[arena[x].param].name) = arena[x].param
  BY <1>1, <1>5 DEF Marked, IsParam, EdgeOf
<1>6. ASSUME NEW t \in Name, EdgeOf(arena, x, t) # NoNode
      PROVE  arena[x].param # NoNode /\ t = arena[arena[x].param].name
  BY <1>6 DEF IsParam, EdgeOf
<1> QED
  BY <1>3, <1>4, <1>5, <1>6

\* The value that a parameter takes makes an entry.
LEMMA EntryIs ==
    ASSUME NEW path \in Seq(Byte), NEW from \in 0 .. Len(path), NEW name \in Name
    PROVE  /\ End(path, from, {"/"}) \in from .. Len(path)
           /\ Binding(name, SubSeq(path, from + 1, End(path, from, {"/"}))) \in Entry
           /\ Binding(name, SubSeq(path, from + 1, End(path, from, {"/"}))).name = name
<1>1. PICK end : end = End(path, from, {"/"})
  OBVIOUS
<1>2. end \in from .. Len(path)
  BY <1>1, EndIs
<1>3. from \in Nat /\ end \in Nat /\ from <= end /\ end <= Len(path)
  BY <1>2
<1>4. SubSeq(path, from + 1, end) \in Seq(Byte)
  BY <1>3, StretchOf
<1> QED
  BY <1>1, <1>2, <1>4 DEF Binding, Entry

-----------------------------------------------------------------------------
(* What one call makes of its calls *)

\* The results of the calls that a call makes.
StaticPart(arena, path, deeper, call, from) ==
    IF path[from + 1] \in DOMAIN arena[call.node].children
    THEN deeper[CallAt(arena[call.node].children[path[from + 1]], from, call.params)]
    ELSE Found(NoRoute, call.params)

ParamEntry(arena, path, x, from) ==
    Binding(arena[arena[x].param].name, SubSeq(path, from + 1, End(path, from, {"/"})))

DynamicPart(arena, path, deeper, call, from, static) ==
    deeper[CallAt(arena[call.node].param, End(path, from, {"/"}),
                  Append(static.params, ParamEntry(arena, path, call.node, from)))]

LookedUp(result, arena, path, call, node, from, static, dynamic) ==
    result = IF common_prefix_len(node.prefix, path, call.from) < Len(node.prefix) THEN Found(NoRoute, call.params)
             ELSE IF from = Len(path) THEN Found(node.value, call.params)
             ELSE IF static.route # NoRoute \/ node.param = NoNode THEN static
             ELSE IF dynamic.route # NoRoute THEN dynamic
             ELSE Found(NoRoute, Removed(dynamic.params, arena[node.param].name))

\* lookup_recursive, with the results of its calls by name.
LEMMA LookupIs ==
    ASSUME NEW arena, NEW path, NEW f, NEW call,
           NEW node, node = arena[call.node], NEW from, from = call.from + Len(node.prefix),
           NEW static, static = StaticPart(arena, path, f, call, from),
           NEW dynamic, dynamic = DynamicPart(arena, path, f, call, from, static),
           NEW result, result = lookup_recursive(arena, path, f, call)
    PROVE  LookedUp(result, arena, path, call, node, from, static, dynamic)
  BY DEF LookedUp, lookup_recursive, StaticPart, DynamicPart, ParamEntry, CallAt

\* lookup_recursive returns a result.
LEMMA LookupTyped ==
    ASSUME NEW arena, NEW word, Spelled(arena, word), NEW path \in Seq(Byte),
           NEW deeper \in [Call(arena, path) -> Result], NEW call \in Call(arena, path)
    PROVE  lookup_recursive(arena, path, deeper, call) \in Result
<1>1. PICK node \in Node : node = arena[call.node]
  BY CallTypes
<1>2. PICK from : from = call.from + Len(node.prefix)
  OBVIOUS
<1>3. PICK x : x = call.node
  OBVIOUS
<1>4. PICK params \in Seq(Entry) : params = call.params
  BY CallTypes
<1>5. PICK static : static = StaticPart(arena, path, deeper, call, from)
  OBVIOUS
<1>6. PICK dynamic : dynamic = DynamicPart(arena, path, deeper, call, from, static)
  OBVIOUS
<1>7. PICK result : result = lookup_recursive(arena, path, deeper, call)
  OBVIOUS
<1>8. result = IF common_prefix_len(node.prefix, path, call.from) < Len(node.prefix) THEN Found(NoRoute, params)
               ELSE IF from = Len(path) THEN Found(node.value, params)
               ELSE IF static.route # NoRoute \/ node.param = NoNode THEN static
               ELSE IF dynamic.route # NoRoute THEN dynamic
               ELSE Found(NoRoute, Removed(dynamic.params, arena[node.param].name))
  <2>1. LookedUp(result, arena, path, call, node, from, static, dynamic)
    BY <1>1, <1>2, <1>5, <1>6, <1>7, LookupIs
  <2> QED
    BY <1>4, <2>1 DEF LookedUp
<1>9. NoRoute \in Nat /\ node.value \in Nat /\ x \in 1 .. Len(arena)
  BY <1>3, NodeIs, CallTypes DEF NoRoute
<1>10. Found(NoRoute, params) \in Result /\ Found(node.value, params) \in Result
  BY <1>9, ResultIs
<1>11. CASE ~Passed(arena, path, call, node, from) \/ from = Len(path)
  <2>1. ~Passed(arena, path, call, node, from) => common_prefix_len(node.prefix, path, call.from) < Len(node.prefix)
    BY <1>1, <1>2 DEF Passed
  <2>2. result = Found(NoRoute, params) \/ result = Found(node.value, params)
    BY <1>8, <1>11, <2>1
  <2> QED
    BY <1>7, <1>10, <2>2
<1>12. CASE Passed(arena, path, call, node, from) /\ from # Len(path)
  <2>1. from \in 0 .. Len(path)
    BY <1>12, PassedIs
  <2>2. from + 1 \in 1 .. Len(path)
    BY <1>12, <2>1
  <2>3. PICK next \in Byte : next = path[from + 1]
    BY <2>2
  <2>4. static \in Result
    <3>1. CASE next \in DOMAIN node.children
      <4>1. PICK c : c = node.children[next]
        OBVIOUS
      <4>2. c \in 1 .. Len(arena)
        BY <1>1, <1>3, <1>9, <2>3, <3>1, <4>1, ChildrenAre
      <4>3. CallAt(c, from, params) \in Call(arena, path)
        BY <1>4, <2>1, <4>2, CallIs
      <4>4. static = deeper[CallAt(c, from, params)]
        BY <1>1, <1>4, <1>5, <2>3, <3>1, <4>1 DEF StaticPart
      <4> QED
        BY <4>3, <4>4
    <3>2. CASE next \notin DOMAIN node.children
      BY <1>1, <1>4, <1>5, <1>10, <2>3, <3>2 DEF StaticPart
    <3> QED
      BY <3>1, <3>2
  <2>5. ASSUME node.param # NoNode PROVE dynamic \in Result
    <3>1. PICK c : c = node.param
      OBVIOUS
    <3>2. c \in 1 .. Len(arena) /\ arena[c].name \in Name
      BY <1>1, <1>3, <1>9, <2>5, <3>1, ChildrenAre
    <3>3. PICK end : end = End(path, from, {"/"})
      OBVIOUS
    <3>4. PICK entry : entry = ParamEntry(arena, path, x, from)
      OBVIOUS
    <3>5. end \in from .. Len(path) /\ entry \in Entry
      BY <1>1, <1>3, <2>1, <3>1, <3>2, <3>3, <3>4, EntryIs DEF ParamEntry
    <3>6. end \in 0 .. Len(path)
      BY <2>1, <3>5
    <3>7. static.params \in Seq(Entry)
      BY <2>4 DEF Result
    <3>8. PICK pushed : pushed = Append(static.params, entry)
      OBVIOUS
    <3>9. pushed \in Seq(Entry)
      BY <3>5, <3>7, <3>8, Pushed
    <3>10. CallAt(c, end, pushed) \in Call(arena, path)
      BY <3>2, <3>6, <3>9, CallIs
    <3>11. dynamic = deeper[CallAt(c, end, pushed)]
      BY <1>1, <1>3, <1>6, <3>1, <3>3, <3>4, <3>8 DEF DynamicPart
    <3> QED
      BY <3>10, <3>11
  <2>6. ~(common_prefix_len(node.prefix, path, call.from) < Len(node.prefix))
    BY <1>12 DEF Passed
  <2>7. CASE static.route # NoRoute \/ node.param = NoNode
    BY <1>7, <1>8, <1>12, <2>4, <2>6, <2>7
  <2>8. CASE ~(static.route # NoRoute \/ node.param = NoNode)
    <3>1. dynamic \in Result
      BY <2>5, <2>8
    <3>2. CASE dynamic.route # NoRoute
      BY <1>7, <1>8, <1>12, <2>6, <2>8, <3>1, <3>2
    <3>3. CASE dynamic.route = NoRoute
      <4>1. dynamic.params \in Seq(Entry)
        BY <3>1 DEF Result
      <4>2. PICK rest : rest = Removed(dynamic.params, arena[node.param].name)
        OBVIOUS
      <4>3. rest \in Seq(Entry)
        BY <4>1, <4>2, RemovedIs
      <4>4. result = Found(NoRoute, rest)
        BY <1>8, <1>12, <2>6, <2>8, <3>3, <4>2
      <4> QED
        BY <1>7, <1>9, <4>3, <4>4, ResultIs
    <3> QED
      BY <3>2, <3>3
  <2> QED
    BY <2>7, <2>8
<1> QED
  BY <1>11, <1>12

\* The results by depth.
IsFound(found, arena, path) ==
    /\ found \in [0 .. MaxDepth(path) -> [Call(arena, path) -> Result]]
    /\ \A depth \in 1 .. MaxDepth(path), call \in Call(arena, path) :
           found[depth][call] = lookup_recursive(arena, path, found[depth - 1], call)

\* Lookup is the call at the root, as deep as calls go.
LEMMA LookupFound ==
    ASSUME NEW arena, NEW word, Spelled(arena, word), NEW path \in Seq(Byte)
    PROVE  \E found : /\ IsFound(found, arena, path)
                      /\ Lookup(arena, path) = found[MaxDepth(path)][CallAt(1, 0, <<>>)]
<1>1. PICK last \in Nat : last = MaxDepth(path)
  BY DEF MaxDepth
<1>2. PICK C : C = Call(arena, path)
  OBVIOUS
<1>3. PICK S : S = [C -> Result]
  OBVIOUS
<1>4. PICK start : start = [call \in C |-> Found(NoRoute, call.params)]
  OBVIOUS
<1>5. start \in S
  <2>1. \A call \in C : Found(NoRoute, call.params) \in Result
    <3> TAKE call \in C
    <3>1. call.params \in Seq(Entry) /\ NoRoute \in Nat
      BY <1>2, CallTypes DEF NoRoute
    <3> QED
      BY <3>1, ResultIs
  <2> QED
    BY <1>3, <1>4, <2>1
<1> DEFINE Deepen(f) == [call \in C |-> lookup_recursive(arena, path, f, call)]
<1>6. \A f \in S : Deepen(f) \in S
  <2> TAKE f \in S
  <2>1. \A call \in C : lookup_recursive(arena, path, f, call) \in Result
    BY <1>2, <1>3, LookupTyped
  <2> QED
    BY <1>3, <2>1
<1> HIDE DEF Deepen
<1> DEFINE step == [n \in 1 .. last |-> [f \in S |-> Deepen(f)]]
<1>7. step \in [1 .. last -> [S -> S]]
  BY <1>6
<1>8. PICK run : IsRun(run, last, S, start, step)
  <2> HIDE DEF step
  <2> QED
    BY <1>5, <1>7, Iteration
<1>9. run \in [0 .. last -> S] /\ run[0] = start /\ \A n \in 1 .. last : run[n] = Deepen(run[n - 1])
  <2>1. run \in [0 .. last -> S] /\ run[0] = start
    BY <1>8 DEF IsRun
  <2>2. ASSUME NEW n \in 1 .. last PROVE run[n] = Deepen(run[n - 1])
    <3>1. n - 1 \in 0 .. last
      OBVIOUS
    <3>2. run[n - 1] \in S
      BY <2>1, <3>1
    <3> QED
      BY <1>8, <3>2 DEF IsRun
  <2> QED
    BY <2>1, <2>2
<1> HIDE DEF step
<1> DEFINE body(f, n) == [call \in Call(arena, path) |->
                             IF n = 0 THEN Found(NoRoute, call.params)
                             ELSE lookup_recursive(arena, path, f[n - 1], call)]
           found[n \in 0 .. MaxDepth(path)] == body(found, n)
<1>10. run = [n \in 0 .. MaxDepth(path) |-> body(run, n)]
  <2>1. run = [n \in 0 .. last |-> run[n]]
    BY <1>9
  <2>2. \A n \in 0 .. last : n = 0 \/ (n \in 1 .. last /\ n # 0)
    OBVIOUS
  <2>3. run[0] = body(run, 0)
    BY <1>2, <1>4, <1>9
  <2>4. ASSUME NEW n \in 1 .. last PROVE run[n] = body(run, n)
    <3>1. n # 0
      OBVIOUS
    <3>2. run[n] = [call \in C |-> lookup_recursive(arena, path, run[n - 1], call)]
      BY <1>9 DEF Deepen
    <3> QED
      BY <1>2, <3>1, <3>2
  <2>5. \A n \in 0 .. last : run[n] = body(run, n)
    BY <2>2, <2>3, <2>4
  <2> HIDE DEF body
  <2> QED
    BY <1>1, <2>1, <2>5
<1>11. found = [n \in 0 .. MaxDepth(path) |-> body(found, n)]
  BY <1>10
<1>12. Lookup(arena, path) = found[MaxDepth(path)][CallAt(1, 0, <<>>)]
  BY DEF Lookup, CallAt
<1> HIDE DEF found
<1>13. \A n \in 0 .. last : found[n] = body(found, n)
  <2> DEFINE round(n) == body(found, n)
  <2>1. found = [n \in 0 .. MaxDepth(path) |-> round(n)]
    BY <1>11
  <2> HIDE DEF round
  <2>2. \A n \in 0 .. last : found[n] = round(n)
    BY <1>1, <2>1
  <2> QED
    BY <2>2 DEF round
<1>14. found[0] = start
  <2>1. 0 \in 0 .. last
    OBVIOUS
  <2>2. found[0] = body(found, 0)
    BY <1>13, <2>1, Zenon
  <2> QED
    BY <1>2, <1>4, <2>2
<1>15. ASSUME NEW n \in 1 .. last PROVE found[n] = Deepen(found[n - 1])
  <2>1. n \in 0 .. last /\ n # 0
    OBVIOUS
  <2>2. found[n] = body(found, n)
    BY <1>13, <2>1, Zenon
  <2> QED
    BY <1>2, <2>1, <2>2 DEF Deepen
<1> DEFINE rounds == {n \in 0 .. last : found[n] \in S}
<1>16. \A n \in 0 .. last : n \in rounds
  <2>1. 0 \in rounds
    BY <1>5, <1>14
  <2>2. \A n \in 1 .. last : n - 1 \in rounds => n \in rounds
    BY <1>6, <1>15
  <2> HIDE DEF rounds
  <2> QED
    BY <2>1, <2>2, RoundByRound
<1>17. found \in [0 .. last -> S]
  <2>1. \A n \in 0 .. last : found[n] \in S
    BY <1>16
  <2>2. found = [n \in 0 .. last |-> found[n]]
    <3> HIDE DEF body
    <3>1. found = [n \in 0 .. last |-> body(found, n)]
      BY <1>1, <1>11
    <3> QED
      BY <1>13, <3>1
  <2> QED
    BY <2>1, <2>2
<1>18. \A n \in 1 .. last, call \in C : found[n][call] = lookup_recursive(arena, path, found[n - 1], call)
  BY <1>15 DEF Deepen
<1>19. IsFound(found, arena, path)
  BY <1>1, <1>2, <1>3, <1>17, <1>18 DEF IsFound
<1> QED
  BY <1>12, <1>19

-----------------------------------------------------------------------------
(* What a call answers for *)

\* The nodes at and behind x, and those behind x whose next token is t.
Beyond(arena, word, x) == {y \in 1 .. Len(arena) : Starts(word[x], word[y])}

Onward(arena, word, x, t) ==
    {y \in 1 .. Len(arena) : Within(word[x], word[y]) /\ Behind(word[x], word[y]) = t}

\* What is behind a node with a token is at and behind the child for it.
LEMMA OnwardIs ==
    ASSUME NEW arena, NEW word, Spelled(arena, word), NEW x \in 1 .. Len(arena), NEW t \in PatternToken, NEW y
    PROVE  y \in Onward(arena, word, x, t) <=>
               EdgeOf(arena, x, t) # NoNode /\ y \in Beyond(arena, word, EdgeOf(arena, x, t))
<1>1. PICK n \in Nat : n = Len(arena) /\ \A z \in 1 .. n : word[z] \in Seq(PatternToken)
  BY SpelledTypes
<1>2. PICK c : c = EdgeOf(arena, x, t)
  OBVIOUS
<1>3. ASSUME y \in Onward(arena, word, x, t) PROVE c # NoNode /\ y \in Beyond(arena, word, c)
  <2>1. y \in 1 .. n /\ Within(word[x], word[y]) /\ Behind(word[x], word[y]) = t
    BY <1>1, <1>3 DEF Onward
  <2>2. PICK edge : edge = EdgesOf(arena)
    OBVIOUS
  <2>3. Leads(edge, word, x, y)
    BY <1>1, <2>1, <2>2 DEF Spelled, Tree
  <2>4. edge[x][t] = c
    BY <1>2, <2>2 DEF EdgesOf
  <2> QED
    BY <1>1, <2>1, <2>3, <2>4 DEF Leads, Beyond
<1>4. ASSUME c # NoNode, y \in Beyond(arena, word, c) PROVE y \in Onward(arena, word, x, t)
  <2>1. c \in 1 .. n /\ Hangs(word, x, t, c)
    BY <1>1, <1>2, <1>4, SpelledTypes
  <2>2. y \in 1 .. n /\ Starts(word[c], word[y])
    BY <1>1, <1>4 DEF Beyond
  <2>3. Within(word[x], word[c]) /\ Behind(word[x], word[c]) = t
    BY <2>1 DEF Hangs
  <2>4. Within(word[x], word[y]) /\ Behind(word[x], word[y]) = t
    BY <1>1, <2>1, <2>2, <2>3, WithinStarts
  <2> QED
    BY <1>1, <2>2, <2>4 DEF Onward
<1> QED
  BY <1>2, <1>3, <1>4

Reader(arena, word, path, y) == arena[y].value # NoRoute /\ \E q : ReadsAll(word[y], path, q)

\* Of the nodes whose words read the path, y is the one that is preferred.
Best(arena, word, path, among, y, result) ==
    /\ y \in among /\ arena[y].value = result.route
    /\ \E q : ReadsAll(word[y], path, q) /\ ToSet(result.params) = Bound(word[y], Len(word[y]), path, q)
    /\ \A z \in among : z # y /\ Reader(arena, word, path, z) => Preferred(word[y], word[z])

\* Without a result nothing reads the path, and the parameters are as they were.
Answers(arena, word, path, among, params, result) ==
    IF result.route = NoRoute
    THEN result.params = params /\ \A y \in among : ~Reader(arena, word, path, y)
    ELSE \E y : Best(arena, word, path, among, y, result)

\* A call whose path was read with the first a tokens of the word of its node.
Ready(arena, word, path, call, a, pos) ==
    /\ call \in Call(arena, path)
    /\ Len(word[call.node]) = a + Len(arena[call.node].prefix)
    /\ Continues(word[call.node], a, arena[call.node].prefix)
    /\ Reads(word[call.node], a, path, pos) /\ pos[a] = call.from
    /\ ToSet(call.params) = Bound(word[call.node], a, path, pos)
    /\ Len(arena[call.node].prefix) > 0 => call.from < Len(path)
    /\ Len(arena[call.node].prefix) = 0 /\ call.node # 1 => a > 0 /\ IsParam(word[call.node][a])

\* A pattern behind a node that reads the path reads the node's prefix there.
LEMMA ReaderPasses ==
    ASSUME NEW arena, NEW word, Spelled(arena, word), NEW path \in Seq(Byte),
           NEW call, NEW a \in Nat, NEW pos, Ready(arena, word, path, call, a, pos),
           NEW y \in Beyond(arena, word, call.node), NEW q, ReadsAll(word[y], path, q),
           NEW prefix, prefix = arena[call.node].prefix
    PROVE  Over(path, call.from, prefix) /\ q[a + Len(prefix)] = call.from + Len(prefix)
<1>1. PICK x : x = call.node
  OBVIOUS
<1>2. x \in 1 .. Len(arena) /\ prefix \in Seq(Byte)
  <2>1. call \in Call(arena, path)
    BY DEF Ready
  <2>2. x \in 1 .. Len(arena) /\ arena[x] \in Node
    BY <1>1, <2>1, CallTypes
  <2> QED
    BY <1>1, <2>2, NodeIs
<1>3. PICK w \in Seq(PatternToken) : w = word[x]
  BY <1>2, SpelledTypes
<1>4. PICK v \in Seq(PatternToken) : v = word[y] /\ Starts(w, v)
  BY <1>1, <1>3, SpelledTypes DEF Beyond
<1>5. PICK k \in Nat : k = Len(prefix)
  BY <1>2
<1>6. Len(w) = a + k /\ Continues(w, a, prefix) /\ Reads(w, a, path, pos) /\ pos[a] = call.from
  BY <1>1, <1>3, <1>5 DEF Ready
<1>7. a + k <= Len(v) /\ \A i \in 1 .. a + k : v[i] = w[i]
  BY <1>4, <1>6 DEF Starts
<1>8. \A i \in 1 .. a : w[i] = v[i]
  <2>1. \A i \in 1 .. a : i \in 1 .. a + k
    BY <1>5
  <2> QED
    BY <1>7, <2>1
<1>9. Continues(v, a, prefix)
  <2>1. \A i \in 1 .. k : a + i \in 1 .. a + k
    BY <1>5
  <2> QED
    BY <1>5, <1>6, <1>7, <2>1 DEF Continues
<1>10. PICK m \in Nat : m = Len(v)
  OBVIOUS
<1>11. Reads(v, m, path, q)
  BY <1>4, <1>10 DEF ReadsAll
<1>12. pos[a] = q[a]
  <2>1. a <= m /\ m \in Nat
    BY <1>5, <1>7, <1>10
  <2>2. Reads(w, a, path, pos)
    BY <1>6
  <2> QED
    BY <1>8, <1>11, <2>1, <2>2, ReadsAgain
<1>13. q[a] = call.from /\ a + Len(prefix) <= m
  BY <1>5, <1>6, <1>7, <1>10, <1>12
<1>14. PICK from : from = q[a] /\ from = call.from
  BY <1>13
<1>15. Over(path, from, prefix) /\ q[a + Len(prefix)] = from + Len(prefix)
  <2>1. a + Len(prefix) <= m /\ a \in Nat /\ m \in Nat
    BY <1>10, <1>13
  <2>2. prefix \in Seq(Byte) /\ path \in Seq(Byte)
    BY <1>2
  <2>3. from = q[a]
    BY <1>14
  <2>4. Over(path, from, prefix)
    BY <1>9, <1>11, <2>1, <2>2, <2>3, BytesTaken
  <2>5. PICK last : last = a + Len(prefix)
    OBVIOUS
  <2>6. PICK count : count = Len(prefix)
    OBVIOUS
  <2>7. q[last] = from + count
    BY <1>9, <1>11, <2>1, <2>2, <2>3, <2>5, <2>6, BytesCounted
  <2> QED
    BY <2>4, <2>5, <2>6, <2>7, Zenon
<1> QED
  BY <1>14, <1>15, Zenon

\* A node whose prefix the path does not go over.
LEMMA NonePasses ==
    ASSUME NEW arena, NEW word, Spelled(arena, word), NEW path \in Seq(Byte),
           NEW call, NEW a \in Nat, NEW pos, Ready(arena, word, path, call, a, pos),
           common_prefix_len(arena[call.node].prefix, path, call.from) < Len(arena[call.node].prefix),
           NEW y \in Beyond(arena, word, call.node)
    PROVE  ~Reader(arena, word, path, y)
<1> SUFFICES ASSUME NEW q, ReadsAll(word[y], path, q) PROVE FALSE
  BY DEF Reader
<1>1. PICK start : start = call.from
  OBVIOUS
<1>2. PICK prefix : prefix = arena[call.node].prefix
  OBVIOUS
<1>3. prefix \in Seq(Byte) /\ start \in 0 .. Len(path)
  <2>1. call \in Call(arena, path)
    BY DEF Ready
  <2>2. arena[call.node] \in Node /\ start \in 0 .. Len(path)
    BY <1>1, <2>1, CallTypes
  <2> QED
    BY <1>2, <2>2, NodeIs
<1>4. /\ start + Len(prefix) <= Len(path)
      /\ \A i \in 1 .. Len(prefix) : path[start + i] = prefix[i]
  <2>1. Over(path, call.from, prefix)
    BY <1>2, ReaderPasses
  <2> QED
    BY <1>1, <2>1 DEF Over
<1>5. PICK n : n = common_prefix_len(prefix, path, start)
  OBVIOUS
<1>6. prefix \in Seq(PatternToken) /\ path \in Seq(PatternToken)
  BY <1>3 DEF PatternToken
<1>7. CommonAt(prefix, path, start, n)
  BY <1>3, <1>5, <1>6, CommonIs
<1>8. n \in Nat /\ n < Len(prefix) /\ (start + n < Len(path) => prefix[n + 1] # path[start + n + 1])
  BY <1>1, <1>2, <1>5, <1>7 DEF CommonAt
<1>9. n + 1 \in 1 .. Len(prefix) /\ start + n < Len(path) /\ start + (n + 1) = start + n + 1
  BY <1>3, <1>4, <1>8
<1>10. path[start + (n + 1)] = prefix[n + 1]
  BY <1>4, <1>9
<1> QED
  BY <1>8, <1>9, <1>10

\* Where the prefix is passed, the whole word of the node is read.
LEMMA PassedReads ==
    ASSUME NEW arena, NEW word, Spelled(arena, word), NEW path \in Seq(Byte),
           NEW call, NEW a \in Nat, NEW pos, Ready(arena, word, path, call, a, pos),
           NEW node, NEW from, Passed(arena, path, call, node, from),
           NEW w, w = word[call.node]
    PROVE  \E at : /\ Reads(w, Len(w), path, at) /\ at[Len(w)] = from
                   /\ ToSet(call.params) = Bound(w, Len(w), path, at)
<1>1. call \in Call(arena, path)
  BY DEF Ready
<1>2. node \in Node /\ node = arena[call.node] /\ from = call.from + Len(node.prefix)
  BY <1>1, CallTypes DEF Passed
<1>3. PICK prefix \in Seq(Byte) : prefix = node.prefix
  BY <1>2, NodeIs
<1>4. PICK start : start = call.from
  OBVIOUS
<1>5. /\ Continues(w, a, prefix) /\ Reads(w, a, path, pos) /\ pos[a] = start
      /\ Len(w) = a + Len(prefix) /\ ToSet(call.params) = Bound(w, a, path, pos)
  BY <1>2, <1>3, <1>4 DEF Ready
<1>6. from \in 0 .. Len(path) /\ \A i \in 1 .. Len(prefix) : path[start + i] = prefix[i]
  BY <1>1, <1>3, <1>4, PassedIs
<1>7. from = start + Len(prefix) /\ start + Len(prefix) <= Len(path)
  BY <1>2, <1>3, <1>4, <1>6
<1>9. Over(path, start, prefix) /\ start = pos[a]
  BY <1>5, <1>6, <1>7 DEF Over
<1>8. PICK at : /\ Reads(w, a + Len(prefix), path, at) /\ at[a + Len(prefix)] = start + Len(prefix)
                /\ AsMuch(w, a + Len(prefix), at, a, pos, path)
  BY ONLY path \in Seq(Byte), prefix \in Seq(Byte), a \in Nat, <1>5, <1>9, BytesOn
<1> QED
  BY <1>5, <1>7, <1>8 DEF AsMuch

\* At the end of the path, the route of the node is the answer.
LEMMA AnswersAtEnd ==
    ASSUME NEW arena, NEW word, Spelled(arena, word), NEW path \in Seq(Byte),
           NEW x \in 1 .. Len(arena), NEW at, ReadsAll(word[x], path, at),
           NEW params \in Seq(Entry), ToSet(params) = Bound(word[x], Len(word[x]), path, at)
    PROVE  Answers(arena, word, path, Beyond(arena, word, x), params, Found(arena[x].value, params))
<1>1. \A y \in 1 .. Len(arena) : word[y] \in Seq(PatternToken)
  BY SpelledTypes
<1>2. PICK result : result = Found(arena[x].value, params)
  OBVIOUS
<1>3. result.route = arena[x].value /\ result.params = params
  BY <1>2 DEF Found
<1>4. ASSUME NEW z \in Beyond(arena, word, x), Reader(arena, word, path, z) PROVE z = x
  <2>1. PICK q : ReadsAll(word[z], path, q)
    BY <1>4 DEF Reader
  <2>2. z \in 1 .. Len(arena) /\ Starts(word[x], word[z])
    BY DEF Beyond
  <2>3. PICK v \in Seq(PatternToken) : v = word[z]
    BY <1>1, <2>2
  <2>4. PICK w \in Seq(PatternToken) : w = word[x]
    BY <1>1
  <2>5. Len(w) <= Len(v) /\ \A i \in 1 .. Len(w) : w[i] = v[i]
    BY <2>2, <2>3, <2>4 DEF Starts
  <2>6. ~(Len(w) < Len(v))
    BY <2>1, <2>3, <2>4, <2>5, ReadsNoFurther
  <2>7. Len(w) = Len(v)
    BY <2>5, <2>6
  <2> QED
    BY <2>2, <2>3, <2>4, <2>7 DEF Spelled, Tree, Once
<1>5. x \in Beyond(arena, word, x)
  BY <1>1, StartsItself DEF Beyond
<1>6. CASE arena[x].value = NoRoute
  <2>1. \A z \in Beyond(arena, word, x) : ~Reader(arena, word, path, z)
    BY <1>4, <1>6 DEF Reader
  <2> QED
    BY <1>2, <1>3, <1>6, <2>1 DEF Answers
<1>7. CASE arena[x].value # NoRoute
  <2>1. Best(arena, word, path, Beyond(arena, word, x), x, result)
    BY <1>3, <1>4, <1>5 DEF Best
  <2> QED
    BY <1>2, <1>3, <1>7, <2>1 DEF Answers
<1> QED
  BY <1>6, <1>7

\* Before the end, a reader goes on with the next byte or with a parameter.
LEMMA ReadersGoOn ==
    ASSUME NEW arena, NEW word, Spelled(arena, word), NEW path \in Seq(Byte),
           NEW x \in 1 .. Len(arena), NEW at, Reads(word[x], Len(word[x]), path, at),
           NEW from, at[Len(word[x])] = from, from # Len(path),
           NEW y \in Beyond(arena, word, x), Reader(arena, word, path, y)
    PROVE  \/ y \in Onward(arena, word, x, path[from + 1])
           \/ \E t \in Name : y \in Onward(arena, word, x, t)
<1>1. PICK q : ReadsAll(word[y], path, q)
  BY DEF Reader
<1>2. y \in 1 .. Len(arena) /\ Starts(word[x], word[y])
  BY DEF Beyond
<1>3. PICK v \in Seq(PatternToken) : v = word[y]
  BY <1>2, SpelledTypes
<1>4. PICK w \in Seq(PatternToken) : w = word[x]
  BY SpelledTypes
<1>5. PICK n \in Nat : n = Len(w)
  OBVIOUS
<1>6. PICK m \in Nat : m = Len(v)
  OBVIOUS
<1>7. n <= m /\ \A i \in 1 .. n : w[i] = v[i]
  BY <1>2, <1>3, <1>4, <1>5, <1>6 DEF Starts
<1>8. Reads(v, m, path, q) /\ q[m] = Len(path) /\ Reads(w, n, path, at) /\ at[n] = from
  BY <1>1, <1>3, <1>4, <1>5, <1>6 DEF ReadsAll
<1>9. at[n] = q[n]
  <2>1. n <= n
    OBVIOUS
  <2> QED
    BY <1>7, <1>8, <2>1, ReadsOnce
<1>10. n < m
  BY <1>7, <1>8, <1>9
<1>11. n + 1 \in 1 .. m /\ (n + 1) - 1 = n
  BY <1>10
<1>12. PICK t : t = v[n + 1]
  OBVIOUS
<1>13. Takes(t, path, from, q[n + 1])
  BY <1>8, <1>9, <1>11, <1>12 DEF Reads
<1>14. Within(word[x], word[y]) /\ Behind(word[x], word[y]) = t
  BY <1>2, <1>3, <1>4, <1>5, <1>6, <1>10, <1>12 DEF Within, Behind
<1>15. y \in Onward(arena, word, x, t)
  BY <1>2, <1>14 DEF Onward
<1>16. t \in Name \/ t = path[from + 1]
  BY <1>13 DEF Takes, IsParam
<1> QED
  BY <1>15, <1>16

-----------------------------------------------------------------------------
(* The way to a static child and to a parameter *)

\* Patterns that are the same at the front take the same there.
Likewise(v, w, n, path, at) == Bound(v, n, path, at) = Bound(w, n, path, at)

\* Patterns that are the same at the front read the same there.
LEMMA ReadsLikewise ==
    ASSUME NEW w, NEW v, NEW n \in Nat, \A k \in 1 .. n : v[k] = w[k],
           NEW path, NEW at, Reads(w, n, path, at)
    PROVE  Reads(v, n, path, at) /\ Likewise(v, w, n, path, at)
<1>1. Reads(v, n, path, at)
  BY DEF Reads
<1>2. PICK ks : ks = {k \in 1 .. n : IsParam(w[k])}
  OBVIOUS
<1>3. {k \in 1 .. n : IsParam(v[k])} = ks
  BY <1>2
<1>4. /\ Bound(w, n, path, at) = {Binding(w[k], SubSeq(path, at[k - 1] + 1, at[k])) : k \in ks}
      /\ Bound(v, n, path, at) = {Binding(v[k], SubSeq(path, at[k - 1] + 1, at[k])) : k \in ks}
  BY <1>2, <1>3 DEF Bound
<1>5. \A k \in ks : v[k] = w[k]
  BY <1>2
<1> QED
  BY <1>1, <1>4, <1>5 DEF Likewise

\* The word of a node was read, as far as `from`, and the parameters are its.
AtNode(arena, word, path, x, from, params, at) ==
    /\ x \in 1 .. Len(arena) /\ params \in Seq(Entry)
    /\ Reads(word[x], Len(word[x]), path, at) /\ at[Len(word[x])] = from
    /\ ToSet(params) = Bound(word[x], Len(word[x]), path, at)

\* A reading up to a node is at a place of the path.
LEMMA AtNodeTypes ==
    ASSUME NEW arena, NEW word, Spelled(arena, word), NEW path \in Seq(Byte),
           NEW x, NEW from, NEW params, NEW at, AtNode(arena, word, path, x, from, params, at)
    PROVE  /\ x \in 1 .. Len(arena) /\ params \in Seq(Entry) /\ word[x] \in Seq(PatternToken)
           /\ from \in 0 .. Len(path)
<1>1. word[x] \in Seq(PatternToken)
  BY SpelledTypes DEF AtNode
<1>2. Len(word[x]) \in 0 .. Len(word[x]) /\ Len(word[x]) \in Nat
  BY <1>1
<1>3. at[Len(word[x])] \in 0 .. Len(path)
  BY <1>2, ReadsTyped DEF AtNode
<1> QED
  BY <1>1, <1>3 DEF AtNode

\* Going on to a static child.
LEMMA StaticReady ==
    ASSUME NEW arena, NEW word, Spelled(arena, word), NEW path \in Seq(Byte),
           NEW x, NEW from, NEW params, NEW at, AtNode(arena, word, path, x, from, params, at),
           from # Len(path), path[from + 1] \in DOMAIN arena[x].children,
           NEW c, c = arena[x].children[path[from + 1]]
    PROVE  /\ Ready(arena, word, path, CallAt(c, from, params), Len(word[x]), at)
           /\ c # 1 /\ Len(arena[c].prefix) > 0
<1>1. /\ x \in 1 .. Len(arena) /\ params \in Seq(Entry) /\ word[x] \in Seq(PatternToken)
      /\ from \in 0 .. Len(path) /\ from + 1 \in 1 .. Len(path) /\ from < Len(path)
  BY AtNodeTypes
<1>2. PICK b \in Byte : b = path[from + 1]
  BY <1>1
<1>3. c \in 1 .. Len(arena) /\ EdgeOf(arena, x, b) = c /\ c # NoNode
  BY <1>1, <1>2, ChildrenAre
<1>4. b \in PatternToken /\ ~IsParam(b)
  BY RouterAssumption DEF PatternToken, IsParam
<1>5. Hangs(word, x, b, c)
  BY <1>1, <1>3, <1>4, SpelledTypes
<1>6. PICK w \in Seq(PatternToken) : w = word[x]
  BY <1>1
<1>7. PICK v \in Seq(PatternToken) : v = word[c]
  BY <1>3, SpelledTypes
<1>8. Within(w, v)
  BY <1>5, <1>6, <1>7 DEF Hangs
<1>9. PICK n \in Nat : n = Len(w)
  OBVIOUS
<1>10. n < Len(v) /\ \A k \in 1 .. n : v[k] = w[k]
  BY <1>8, <1>9 DEF Within, Starts
<1>11. PICK prefix \in Seq(Byte) : prefix = arena[c].prefix
  BY <1>3, SpelledTypes, NodeIs
<1>12. Mark(prefix, w, v, b)
  <2>1. Mark(arena[EdgeOf(arena, x, b)].prefix, word[x], word[EdgeOf(arena, x, b)], b)
    BY <1>1, <1>3, <1>4 DEF Spelled, Marked
  <2> QED
    BY <1>3, <1>6, <1>7, <1>11, <2>1
<1>13. Len(v) = n + Len(prefix) /\ Continues(v, n, prefix)
  BY <1>4, <1>9, <1>12 DEF Mark, Continues
<1>14. Len(prefix) > 0
  BY <1>10, <1>13
<1>15. c # 1
  <2>1. Len(word[1]) = 0
    BY DEF Spelled
  <2>2. Len(v) > 0
    BY <1>9, <1>10
  <2> QED
    BY <1>7, <2>1, <2>2
<1>16. Reads(w, n, path, at) /\ at[n] = from /\ ToSet(params) = Bound(w, n, path, at)
  BY <1>6, <1>9 DEF AtNode
<1>17. Reads(v, n, path, at) /\ Likewise(v, w, n, path, at)
  BY <1>10, <1>16, ReadsLikewise
<1>18. ToSet(params) = Bound(v, n, path, at)
  BY <1>16, <1>17 DEF Likewise
<1>19. PICK call : call = CallAt(c, from, params)
  OBVIOUS
<1>20. call \in Call(arena, path) /\ call.node = c /\ call.from = from /\ call.params = params
  <2>1. call \in Call(arena, path)
    BY <1>1, <1>3, <1>19, CallIs
  <2> QED
    BY <1>19, <2>1 DEF CallAt
<1>21. Ready(arena, word, path, call, n, at)
  <2>1. word[call.node] = v /\ arena[call.node].prefix = prefix
    BY <1>7, <1>11, <1>20
  <2>2. (Len(prefix) > 0 => call.from < Len(path)) /\ ~(Len(prefix) = 0)
    BY <1>1, <1>14, <1>20
  <2> HIDE DEF Reads, Continues, Bound, CallAt
  <2> QED
    BY <1>13, <1>16, <1>17, <1>18, <1>20, <2>1, <2>2 DEF Ready
<1> QED
  BY <1>6, <1>9, <1>11, <1>14, <1>15, <1>19, <1>21

\* A parameter more, and what it takes.
FurtherBy(v, n, path, at, pos, end) ==
    /\ Reads(v, n + 1, path, pos) /\ pos[n + 1] = end
    /\ Bound(v, n + 1, path, pos) =
           Bound(v, n, path, at) \cup {Binding(v[n + 1], SubSeq(path, at[n] + 1, end))}

\* A reading goes on over a parameter.
LEMMA ReadsParam ==
    ASSUME NEW v, NEW n \in Nat, NEW path \in Seq(Byte), NEW at, Reads(v, n, path, at),
           NEW end, Takes(v[n + 1], path, at[n], end), IsParam(v[n + 1])
    PROVE  \E pos : FurtherBy(v, n, path, at, pos, end)
<1>0. PICK pos : GoesOn(v, n, path, at, end, pos)
  BY ReadsFurther
<1>1. /\ Reads(v, n + 1, path, pos) /\ pos[n + 1] = end
      /\ \A k \in 0 .. n : pos[k] = at[k]
  BY <1>0 DEF GoesOn
<1>2. n + 1 > 0 /\ (n + 1) - 1 = n /\ n + 1 \in Nat
  OBVIOUS
<1>3. Bound(v, n + 1, path, pos) = Bound(v, (n + 1) - 1, path, pos) \cup
             (IF IsParam(v[n + 1]) THEN {Binding(v[n + 1], SubSeq(path, pos[(n + 1) - 1] + 1, pos[n + 1]))} ELSE {})
  BY <1>2, BoundOn
<1>4. n \in 0 .. n
  OBVIOUS
<1>5. Bound(v, n + 1, path, pos) = Bound(v, n, path, pos) \cup {Binding(v[n + 1], SubSeq(path, at[n] + 1, end))}
  BY <1>1, <1>2, <1>3, <1>4
<1>6. Bound(v, n, path, pos) = Bound(v, n, path, at)
  <2>1. \A k \in 1 .. n : pos[k] = at[k] /\ pos[k - 1] = at[k - 1]
    <3> TAKE k \in 1 .. n
    <3>1. k \in 0 .. n /\ k - 1 \in 0 .. n
      OBVIOUS
    <3> QED
      BY <1>1, <3>1
  <2> QED
    BY <2>1 DEF Bound
<1> QED
  BY <1>1, <1>5, <1>6 DEF FurtherBy

\* Going on to the child for a parameter.
LEMMA DynamicReady ==
    ASSUME NEW arena, NEW word, Spelled(arena, word), NEW path \in Seq(Byte),
           NEW x, NEW from, NEW params, NEW at, AtNode(arena, word, path, x, from, params, at),
           from # Len(path), arena[x].param # NoNode,
           NEW c, c = arena[x].param, NEW end, end = End(path, from, {"/"}),
           NEW pushed, pushed = Append(params, ParamEntry(arena, path, x, from))
    PROVE  /\ \E pos : Ready(arena, word, path, CallAt(c, end, pushed), Len(word[x]) + 1, pos)
           /\ c # 1 /\ Len(arena[c].prefix) = 0 /\ end \in from .. Len(path)
           /\ CallAt(c, end, pushed) \in Call(arena, path)
<1>1. /\ x \in 1 .. Len(arena) /\ params \in Seq(Entry) /\ word[x] \in Seq(PatternToken)
      /\ from \in 0 .. Len(path) /\ from < Len(path)
  BY AtNodeTypes
<1>2. PICK name \in Name : name = arena[c].name /\ EdgeOf(arena, x, name) = c
  BY <1>1, ChildrenAre
<1>3. c \in 1 .. Len(arena) /\ c # NoNode
  BY <1>1, ChildrenAre
<1>4. name \in PatternToken /\ IsParam(name)
  BY DEF PatternToken, IsParam
<1>5. Hangs(word, x, name, c)
  BY <1>1, <1>2, <1>3, <1>4, SpelledTypes
<1>6. PICK w \in Seq(PatternToken) : w = word[x]
  BY <1>1
<1>7. PICK v \in Seq(PatternToken) : v = word[c]
  BY <1>3, SpelledTypes
<1>8. Within(w, v) /\ Behind(w, v) = name
  BY <1>5, <1>6, <1>7 DEF Hangs
<1>9. PICK n \in Nat : n = Len(w)
  OBVIOUS
<1>10. v[n + 1] = name /\ \A k \in 1 .. n : v[k] = w[k]
  BY <1>8, <1>9 DEF Within, Starts, Behind
<1>11. PICK prefix \in Seq(Byte) : prefix = arena[c].prefix
  BY <1>3, SpelledTypes, NodeIs
<1>12. Mark(prefix, w, v, name)
  <2>1. Mark(arena[EdgeOf(arena, x, name)].prefix, word[x], word[EdgeOf(arena, x, name)], name)
    BY <1>1, <1>2, <1>3, <1>4 DEF Spelled, Marked
  <2> QED
    BY <1>2, <1>6, <1>7, <1>11, <2>1
<1>13. Len(v) = n + 1 /\ Len(prefix) = 0
  BY <1>4, <1>9, <1>12 DEF Mark
<1>14. Continues(v, n + 1, prefix) /\ Len(v) = n + 1 + Len(prefix)
  BY <1>13 DEF Continues
<1>15. c # 1
  <2>1. Len(word[1]) = 0
    BY DEF Spelled
  <2> QED
    BY <1>7, <1>13, <2>1
<1>16. Reads(w, n, path, at) /\ at[n] = from /\ ToSet(params) = Bound(w, n, path, at)
  BY <1>6, <1>9 DEF AtNode
<1>17. Reads(v, n, path, at) /\ Likewise(v, w, n, path, at)
  BY <1>10, <1>16, ReadsLikewise
<1>18. Takes(v[n + 1], path, at[n], end)
  BY <1>1, <1>4, <1>10, <1>16 DEF Takes
<1>19. PICK pos : FurtherBy(v, n, path, at, pos, end)
  BY <1>4, <1>9, <1>10, <1>17, <1>18, ReadsParam
<1>20. PICK entry : entry = ParamEntry(arena, path, x, from)
  OBVIOUS
<1>21. entry = Binding(name, SubSeq(path, from + 1, end))
  BY <1>2, <1>20 DEF ParamEntry
<1>22. end \in from .. Len(path) /\ entry \in Entry
  BY <1>1, <1>21, EntryIs
<1>23. Bound(v, n + 1, path, pos) = Bound(w, n, path, at) \cup {entry}
  BY <1>10, <1>16, <1>17, <1>19, <1>21 DEF FurtherBy, Likewise
<1>24. pushed = Append(params, entry)
  BY <1>20
<1>25. ToSet(pushed) = ToSet(params) \cup {entry}
  <2>1. PICK h \in Nat : h = Len(params)
    BY <1>1
  <2>2. /\ pushed \in Seq(Entry) /\ Len(pushed) = h + 1 /\ pushed[h + 1] = entry
        /\ \A i \in 1 .. h : pushed[i] = params[i]
    BY <1>1, <1>22, <1>24, <2>1, Pushed
  <2>3. DOMAIN pushed = 1 .. h + 1 /\ DOMAIN params = 1 .. h
    BY <1>1, <2>1, <2>2
  <2>4. \A i \in 1 .. h + 1 : i \in 1 .. h \/ i = h + 1
    OBVIOUS
  <2>5. \A i \in 1 .. h : i \in 1 .. h + 1
    OBVIOUS
  <2>6. h + 1 \in 1 .. h + 1
    OBVIOUS
  <2>7. ToSet(pushed) \subseteq ToSet(params) \cup {entry}
    BY <2>2, <2>3, <2>4 DEF ToSet
  <2>8. ToSet(params) \cup {entry} \subseteq ToSet(pushed)
    BY <2>2, <2>3, <2>5, <2>6 DEF ToSet
  <2> QED
    BY <2>7, <2>8
<1>26. ToSet(pushed) = Bound(v, n + 1, path, pos)
  BY <1>16, <1>23, <1>25
<1>27. PICK call : call = CallAt(c, end, pushed)
  OBVIOUS
<1>28. call \in Call(arena, path) /\ call.node = c /\ call.from = end /\ call.params = pushed
  <2>1. pushed \in Seq(Entry) /\ end \in 0 .. Len(path)
    BY <1>1, <1>22, <1>24, Pushed
  <2>2. call \in Call(arena, path)
    BY <1>3, <1>27, <2>1, CallIs
  <2> QED
    BY <1>27, <2>2 DEF CallAt
<1>29. PICK m \in Nat : m = n + 1
  OBVIOUS
<1>30. m > 0 /\ IsParam(v[m]) /\ Len(v) = m + Len(prefix) /\ ~(Len(prefix) > 0)
  BY <1>4, <1>10, <1>13, <1>14, <1>29
<1>31. Ready(arena, word, path, call, m, pos)
  <2>1. word[call.node] = v /\ arena[call.node].prefix = prefix
    BY <1>7, <1>11, <1>28
  <2>2. Reads(v, m, path, pos) /\ pos[m] = call.from /\ ToSet(call.params) = Bound(v, m, path, pos)
    BY <1>19, <1>26, <1>28, <1>29 DEF FurtherBy
  <2>3. Continues(v, m, prefix)
    BY <1>14, <1>29
  <2> QED
    BY <1>28, <1>30, <2>1, <2>2, <2>3 DEF Ready
<1> QED
  BY <1>6, <1>9, <1>11, <1>13, <1>15, <1>22, <1>27, <1>28, <1>29, <1>31

-----------------------------------------------------------------------------
(* Depth of the calls *)

\* No word names two of its parameters alike, nor has one parameter behind another.
Wellformed(arena, word) ==
    \A y \in 1 .. Len(arena) :
        /\ \A i, j \in 1 .. Len(word[y]) : i # j /\ IsParam(word[y][i]) => word[y][i] # word[y][j]
        /\ \A i \in 1 .. Len(word[y]) - 1 : ~(IsParam(word[y][i]) /\ IsParam(word[y][i + 1]))

\* How deep the calls of a call go.
Need(arena, path, call) ==
    IF call.node = 1 THEN MaxDepth(path)
    ELSE IF Len(arena[call.node].prefix) = 0 THEN 2 * (Len(path) - call.from) + 1
    ELSE 2 * (Len(path) - call.from)

\* The results at a depth answer the calls that go no deeper.
Deep(arena, word, path, f, d) ==
    \A call \in Call(arena, path), a \in Nat : \A pos :
        Ready(arena, word, path, call, a, pos) /\ Need(arena, path, call) <= d =>
            Answers(arena, word, path, Beyond(arena, word, call.node), call.params, f[call])

\* At a depth that is enough, a call answers.
LEMMA DeepIs ==
    ASSUME NEW arena, NEW word, NEW path, NEW f, NEW d, Deep(arena, word, path, f, d),
           NEW call, NEW a \in Nat, NEW pos, Ready(arena, word, path, call, a, pos),
           Need(arena, path, call) <= d
    PROVE  Answers(arena, word, path, Beyond(arena, word, call.node), call.params, f[call])
<1>1. call \in Call(arena, path)
  BY DEF Ready
<1> QED
  BY <1>1 DEF Deep

\* What the static child answers.
LEMMA StaticAnswers ==
    ASSUME NEW arena, NEW word, Spelled(arena, word), NEW path \in Seq(Byte),
           NEW x, NEW from, NEW params, NEW at, AtNode(arena, word, path, x, from, params, at),
           from # Len(path), NEW f, NEW d \in Nat, Deep(arena, word, path, f, d),
           2 * (Len(path) - from) <= d,
           NEW call, call.node = x, call.params = params
    PROVE  Answers(arena, word, path, Onward(arena, word, x, path[from + 1]), params,
                   StaticPart(arena, path, f, call, from))
<1>1. /\ x \in 1 .. Len(arena) /\ params \in Seq(Entry) /\ word[x] \in Seq(PatternToken)
      /\ from \in 0 .. Len(path) /\ from + 1 \in 1 .. Len(path)
  BY AtNodeTypes
<1>2. PICK b \in Byte : b = path[from + 1]
  BY <1>1
<1>3. b \in PatternToken
  BY DEF PatternToken
<1>4. PICK static : static = StaticPart(arena, path, f, call, from)
  OBVIOUS
<1>5. CASE b \in DOMAIN arena[x].children
  <2>1. PICK c : c = arena[x].children[b]
    OBVIOUS
  <2>2. PICK down : down = CallAt(c, from, params)
    OBVIOUS
  <2>3. Ready(arena, word, path, down, Len(word[x]), at) /\ c # 1 /\ Len(arena[c].prefix) > 0
    BY <1>2, <1>5, <2>1, <2>2, StaticReady
  <2>4. down.node = c /\ down.from = from /\ down.params = params
    BY <2>2 DEF CallAt
  <2>5. Need(arena, path, down) <= d
    BY <2>3, <2>4 DEF Need
  <2>6. Len(word[x]) \in Nat
    BY <1>1
  <2>7. Answers(arena, word, path, Beyond(arena, word, down.node), down.params, f[down])
    BY <2>3, <2>5, <2>6, DeepIs
  <2>8. static = f[down]
    BY <1>2, <1>4, <1>5, <2>1, <2>2 DEF StaticPart
  <2>9. EdgeOf(arena, x, b) = c /\ c # NoNode
    BY <1>1, <1>5, <2>1, ChildrenAre
  <2>10. Onward(arena, word, x, b) = Beyond(arena, word, c)
    <3>1. \A y : y \in Onward(arena, word, x, b) <=> y \in Beyond(arena, word, c)
      BY <1>1, <1>3, <2>9, OnwardIs
    <3> QED
      BY <3>1
  <2> QED
    BY <1>2, <1>4, <2>4, <2>7, <2>8, <2>10
<1>6. CASE b \notin DOMAIN arena[x].children
  <2>1. static = Found(NoRoute, params)
    BY <1>2, <1>4, <1>6 DEF StaticPart
  <2>2. static.route = NoRoute /\ static.params = params
    BY <2>1 DEF Found
  <2>3. EdgeOf(arena, x, b) = NoNode
    BY <1>1, <1>6, ChildrenAre
  <2>4. \A y : y \notin Onward(arena, word, x, b)
    BY <1>1, <1>3, <2>3, OnwardIs
  <2> QED
    BY <1>2, <1>4, <2>2, <2>4 DEF Answers
<1> QED
  BY <1>5, <1>6

\* What the child for a parameter answers, if the static child has no answer.
LEMMA DynamicAnswers ==
    ASSUME NEW arena, NEW word, Spelled(arena, word), NEW path \in Seq(Byte),
           NEW x, NEW from, NEW params, NEW at, AtNode(arena, word, path, x, from, params, at),
           from # Len(path), NEW f, NEW d \in Nat, Deep(arena, word, path, f, d),
           arena[x].param # NoNode, 2 * (Len(path) - from) + 1 <= d,
           NEW call, call.node = x, NEW static, static.params = params,
           NEW pushed, pushed = Append(params, ParamEntry(arena, path, x, from))
    PROVE  Answers(arena, word, path, Beyond(arena, word, arena[x].param), pushed,
                   DynamicPart(arena, path, f, call, from, static))
<1>1. /\ x \in 1 .. Len(arena) /\ word[x] \in Seq(PatternToken) /\ from \in 0 .. Len(path)
  BY AtNodeTypes
<1>2. PICK c : c = arena[x].param
  OBVIOUS
<1>3. PICK end : end = End(path, from, {"/"})
  OBVIOUS
<1>4. PICK down : down = CallAt(c, end, pushed)
  OBVIOUS
<1>5. /\ \E pos : Ready(arena, word, path, down, Len(word[x]) + 1, pos)
      /\ c # 1 /\ Len(arena[c].prefix) = 0 /\ end \in from .. Len(path)
  <2>1. /\ \E pos : Ready(arena, word, path, CallAt(c, end, pushed), Len(word[x]) + 1, pos)
        /\ c # 1 /\ Len(arena[c].prefix) = 0 /\ end \in from .. Len(path)
    BY ONLY Spelled(arena, word), path \in Seq(Byte), AtNode(arena, word, path, x, from, params, at),
            from # Len(path), arena[x].param # NoNode, <1>2, <1>3,
            pushed = Append(params, ParamEntry(arena, path, x, from)), DynamicReady
  <2> QED
    BY ONLY <1>4, <2>1
<1>6. PICK pos : Ready(arena, word, path, down, Len(word[x]) + 1, pos)
  BY <1>5
<1>7. down.node = c /\ down.from = end /\ down.params = pushed
  BY <1>4 DEF CallAt
<1>8. Need(arena, path, down) <= d
  <2>1. Need(arena, path, down) = 2 * (Len(path) - end) + 1
    BY <1>5, <1>7 DEF Need
  <2>2. 2 * (Len(path) - end) + 1 <= 2 * (Len(path) - from) + 1
    BY <1>1, <1>5
  <2> QED
    BY <1>1, <1>5, <2>1, <2>2
<1>9. Len(word[x]) + 1 \in Nat
  BY <1>1
<1>10. Answers(arena, word, path, Beyond(arena, word, down.node), down.params, f[down])
  BY <1>6, <1>8, <1>9, DeepIs
<1>11. DynamicPart(arena, path, f, call, from, static) = f[down]
  BY <1>2, <1>3, <1>4 DEF DynamicPart
<1> QED
  BY <1>2, <1>7, <1>10, <1>11

\* The name of the parameter is none of those before.
LEMMA NewName ==
    ASSUME NEW arena, NEW word, Spelled(arena, word), Wellformed(arena, word), NEW path \in Seq(Byte),
           NEW x, NEW from, NEW params, NEW at, AtNode(arena, word, path, x, from, params, at),
           arena[x].param # NoNode, NEW i \in 1 .. Len(params)
    PROVE  params[i].name # arena[arena[x].param].name
<1>1. x \in 1 .. Len(arena) /\ params \in Seq(Entry) /\ word[x] \in Seq(PatternToken)
  BY AtNodeTypes
<1>2. PICK c : c = arena[x].param
  OBVIOUS
<1>3. PICK name \in Name : name = arena[c].name /\ EdgeOf(arena, x, name) = c
  BY <1>1, <1>2, ChildrenAre
<1>4. c \in 1 .. Len(arena) /\ c # NoNode
  BY <1>1, <1>2, ChildrenAre
<1>5. name \in PatternToken /\ IsParam(name)
  BY DEF PatternToken, IsParam
<1>6. Hangs(word, x, name, c)
  BY <1>1, <1>3, <1>4, <1>5, SpelledTypes
<1>7. PICK w \in Seq(PatternToken) : w = word[x]
  BY <1>1
<1>8. PICK v \in Seq(PatternToken) : v = word[c]
  BY <1>4, SpelledTypes
<1>9. PICK n \in Nat : n = Len(w)
  OBVIOUS
<1>10. n < Len(v) /\ v[n + 1] = name /\ \A k \in 1 .. n : v[k] = w[k]
  BY <1>6, <1>7, <1>8, <1>9 DEF Hangs, Within, Starts, Behind
<1>11. params[i] \in ToSet(params)
  <2>1. i \in DOMAIN params
    BY <1>1
  <2> QED
    BY <2>1 DEF ToSet
<1>12. params[i] \in Bound(w, n, path, at)
  BY <1>7, <1>9, <1>11 DEF AtNode
<1>13. PICK k \in 1 .. n : IsParam(w[k]) /\ params[i].name = w[k]
  BY <1>12 DEF Bound, Binding
<1>14. k \in 1 .. Len(v) /\ n + 1 \in 1 .. Len(v) /\ k # n + 1 /\ v[k] = w[k]
  BY <1>10, <1>13
<1>15. v[k] # v[n + 1]
  BY <1>4, <1>8, <1>13, <1>14 DEF Wellformed
<1> QED
  BY <1>2, <1>3, <1>10, <1>13, <1>14, <1>15

\* A node for a parameter has no child for one.
LEMMA NoParamTwice ==
    ASSUME NEW arena, NEW word, Spelled(arena, word), Wellformed(arena, word),
           NEW x \in 1 .. Len(arena), arena[x].param # NoNode,
           NEW a \in Nat, a > 0, a = Len(word[x])
    PROVE  ~IsParam(word[x][a])
<1>2. PICK c : c = arena[x].param
  OBVIOUS
<1>3. PICK name \in Name : name = arena[c].name /\ EdgeOf(arena, x, name) = c
  BY <1>2, ChildrenAre
<1>4. c \in 1 .. Len(arena) /\ c # NoNode
  BY <1>2, ChildrenAre
<1>5. name \in PatternToken /\ IsParam(name)
  BY DEF PatternToken, IsParam
<1>6. Hangs(word, x, name, c)
  BY <1>3, <1>4, <1>5, SpelledTypes
<1>8. PICK v \in Seq(PatternToken) : v = word[c]
  BY <1>4, SpelledTypes
<1>10. a < Len(v) /\ v[a + 1] = name /\ v[a] = word[x][a]
  BY <1>6, <1>8 DEF Hangs, Within, Starts, Behind
<1>11. a \in 1 .. Len(v) - 1
  BY <1>10
<1>12. ~(IsParam(v[a]) /\ IsParam(v[a + 1]))
  BY <1>4, <1>8, <1>11 DEF Wellformed
<1> QED
  BY <1>5, <1>10, <1>12

-----------------------------------------------------------------------------
(* Which of two children answers *)

\* A call leaves enough depth for its calls.
LEMMA Room ==
    ASSUME NEW arena, NEW word, Spelled(arena, word), Wellformed(arena, word), NEW path \in Seq(Byte),
           NEW call, NEW a \in Nat, NEW pos, Ready(arena, word, path, call, a, pos),
           NEW node, NEW from, Passed(arena, path, call, node, from),
           NEW d \in Nat, d > 0, Need(arena, path, call) <= d
    PROVE  /\ 2 * (Len(path) - from) <= d - 1
           /\ node.param # NoNode => 2 * (Len(path) - from) + 1 <= d - 1
<1>1. call \in Call(arena, path)
  BY DEF Ready
<1>2. node \in Node /\ node = arena[call.node] /\ from = call.from + Len(node.prefix) /\ call.node \in 1 .. Len(arena)
  BY <1>1, CallTypes DEF Passed
<1>3. PICK start \in 0 .. Len(path) : start = call.from
  BY <1>1, CallTypes
<1>4. PICK k \in Nat : k = Len(node.prefix)
  BY <1>2, NodeIs
<1>5. PICK l \in Nat : l = Len(path)
  OBVIOUS
<1>6. from = start + k /\ from \in 0 .. l /\ start \in 0 .. l
  BY <1>1, <1>2, <1>3, <1>4, <1>5, PassedIs
<1>7. CASE call.node = 1
  <2>1. Len(arena[1].prefix) = 0
    BY DEF Spelled
  <2>2. k = 0 /\ 2 * l + 2 <= d
    BY <1>2, <1>4, <1>5, <1>7, <2>1 DEF Need, MaxDepth
  <2> QED
    BY <1>5, <1>6, <2>2
<1>8. CASE call.node # 1 /\ k = 0
  <2>1. 2 * (l - start) + 1 <= d
    BY <1>2, <1>3, <1>4, <1>5, <1>8 DEF Need
  <2>2. node.param = NoNode
    <3>1. a > 0 /\ IsParam(word[call.node][a]) /\ Len(word[call.node]) = a + 0
      BY <1>2, <1>4, <1>8 DEF Ready
    <3>2. a = Len(word[call.node])
      BY <3>1
    <3> QED
      BY <1>2, <3>1, <3>2, NoParamTwice
  <2> QED
    BY <1>5, <1>6, <1>8, <2>1, <2>2
<1>9. CASE call.node # 1 /\ k # 0
  <2>1. 2 * (l - start) <= d
    BY <1>2, <1>3, <1>4, <1>5, <1>9 DEF Need
  <2> QED
    BY <1>5, <1>6, <1>9, <2>1
<1> QED
  BY <1>7, <1>8, <1>9

\* The answers of the children make that of the node.
LEMMA StaticFirst ==
    ASSUME NEW arena, NEW word, Spelled(arena, word), NEW path \in Seq(Byte),
           NEW x, NEW from, NEW params, NEW at, AtNode(arena, word, path, x, from, params, at),
           from # Len(path), NEW static, static.route # NoRoute,
           Answers(arena, word, path, Onward(arena, word, x, path[from + 1]), params, static)
    PROVE  Answers(arena, word, path, Beyond(arena, word, x), params, static)
<1>1. x \in 1 .. Len(arena) /\ word[x] \in Seq(PatternToken) /\ from \in 0 .. Len(path)
  BY AtNodeTypes
<1>2. PICK b \in Byte : b = path[from + 1]
  BY <1>1
<1>3. PICK y : Best(arena, word, path, Onward(arena, word, x, b), y, static)
  BY <1>2 DEF Answers
<1>4. y \in 1 .. Len(arena) /\ Within(word[x], word[y]) /\ Behind(word[x], word[y]) = b
  BY <1>3 DEF Best, Onward
<1>5. y \in Beyond(arena, word, x)
  BY <1>4 DEF Within, Beyond
<1>6. ASSUME NEW z \in Beyond(arena, word, x), z # y, Reader(arena, word, path, z)
      PROVE  Preferred(word[y], word[z])
  <2>1. z \in Onward(arena, word, x, b) \/ \E t \in Name : z \in Onward(arena, word, x, t)
    <3>1. Reads(word[x], Len(word[x]), path, at) /\ at[Len(word[x])] = from
      BY DEF AtNode
    <3> QED
      BY <1>1, <1>2, <1>6, <3>1, ReadersGoOn
  <2>2. CASE z \in Onward(arena, word, x, b)
    BY <1>3, <1>6, <2>2 DEF Best
  <2>3. ASSUME NEW t \in Name, z \in Onward(arena, word, x, t) PROVE Preferred(word[y], word[z])
    <3>1. z \in 1 .. Len(arena) /\ Within(word[x], word[z]) /\ Behind(word[x], word[z]) = t
      BY <2>3 DEF Onward
    <3>2. PICK u \in Seq(PatternToken) : u = word[x]
      BY <1>1
    <3>3. PICK v \in Seq(PatternToken) : v = word[y]
      BY <1>4, SpelledTypes
    <3>4. PICK w \in Seq(PatternToken) : w = word[z]
      BY <3>1, SpelledTypes
    <3>5. PICK n \in Nat : n = Len(u)
      OBVIOUS
    <3>6. n < Len(v) /\ v[n + 1] = b /\ \A i \in 1 .. n : v[i] = u[i]
      BY <1>4, <3>2, <3>3, <3>5 DEF Within, Behind, Starts
    <3>7. n < Len(w) /\ w[n + 1] = t /\ \A i \in 1 .. n : w[i] = u[i]
      BY <3>1, <3>2, <3>4, <3>5 DEF Within, Behind, Starts
    <3>8. ~IsParam(b) /\ IsParam(t)
      BY RouterAssumption DEF IsParam
    <3> QED
      BY <3>3, <3>4, <3>6, <3>7, <3>8 DEF Preferred
  <2> QED
    BY <2>1, <2>2, <2>3
<1>7. Best(arena, word, path, Beyond(arena, word, x), y, static)
  BY <1>3, <1>5, <1>6 DEF Best
<1> QED
  BY <1>7 DEF Answers

\* A reader behind the node that the static child did not find.
LEMMA ParamReaders ==
    ASSUME NEW arena, NEW word, Spelled(arena, word), NEW path \in Seq(Byte),
           NEW x, NEW from, NEW params, NEW at, AtNode(arena, word, path, x, from, params, at),
           from # Len(path), NEW static, static.route = NoRoute,
           Answers(arena, word, path, Onward(arena, word, x, path[from + 1]), params, static),
           NEW z \in Beyond(arena, word, x), Reader(arena, word, path, z)
    PROVE  arena[x].param # NoNode /\ z \in Beyond(arena, word, arena[x].param)
<1>1. x \in 1 .. Len(arena) /\ word[x] \in Seq(PatternToken) /\ from \in 0 .. Len(path)
  BY AtNodeTypes
<1>2. z \notin Onward(arena, word, x, path[from + 1])
  BY DEF Answers
<1>3. PICK t \in Name : z \in Onward(arena, word, x, t)
  <2>1. Reads(word[x], Len(word[x]), path, at) /\ at[Len(word[x])] = from
    BY DEF AtNode
  <2> QED
    BY <1>1, <1>2, <2>1, ReadersGoOn
<1>4. t \in PatternToken
  BY DEF PatternToken
<1>5. EdgeOf(arena, x, t) # NoNode /\ z \in Beyond(arena, word, EdgeOf(arena, x, t))
  BY <1>1, <1>3, <1>4, OnwardIs
<1>6. arena[x].param # NoNode /\ t = arena[arena[x].param].name
  BY <1>1, <1>5, ChildrenAre
<1>7. EdgeOf(arena, x, t) = arena[x].param
  BY <1>1, <1>6, ChildrenAre
<1> QED
  BY <1>5, <1>6, <1>7

\* What is behind the parameter of a node is behind the node.
LEMMA ParamBeyond ==
    ASSUME NEW arena, NEW word, Spelled(arena, word), NEW x \in 1 .. Len(arena),
           arena[x].param # NoNode, NEW y \in Beyond(arena, word, arena[x].param)
    PROVE  y \in Beyond(arena, word, x)
<1>1. PICK t \in Name : t = arena[arena[x].param].name /\ EdgeOf(arena, x, t) = arena[x].param
  BY ChildrenAre
<1>2. t \in PatternToken
  BY DEF PatternToken
<1>3. y \in Onward(arena, word, x, t)
  BY <1>1, <1>2, OnwardIs
<1> QED
  BY <1>3 DEF Onward, Within, Beyond

-----------------------------------------------------------------------------
(* The lookup as a whole *)

\* A call whose calls answer answers: the static child first, then the parameter.
LEMMA CallAnswers ==
    ASSUME NEW arena, NEW word, Spelled(arena, word), Wellformed(arena, word), NEW path \in Seq(Byte),
           NEW d \in Nat, d > 0, NEW f, Deep(arena, word, path, f, d - 1),
           NEW call, NEW a \in Nat, NEW pos, Ready(arena, word, path, call, a, pos),
           Need(arena, path, call) <= d
    PROVE  Answers(arena, word, path, Beyond(arena, word, call.node), call.params,
                   lookup_recursive(arena, path, f, call))
<1>1. call \in Call(arena, path)
  BY DEF Ready
<1>2. PICK x \in 1 .. Len(arena) : x = call.node
  BY <1>1, CallTypes
<1>3. PICK params \in Seq(Entry) : params = call.params
  BY <1>1, CallTypes
<1>4. PICK node \in Node : node = arena[x]
  BY SpelledTypes
<1>5. PICK from : from = call.from + Len(node.prefix)
  OBVIOUS
<1>6. PICK static : static = StaticPart(arena, path, f, call, from)
  OBVIOUS
<1>7. PICK dynamic : dynamic = DynamicPart(arena, path, f, call, from, static)
  OBVIOUS
<1>8. PICK result : result = lookup_recursive(arena, path, f, call)
  OBVIOUS
<1>9. result = IF common_prefix_len(node.prefix, path, call.from) < Len(node.prefix) THEN Found(NoRoute, params)
               ELSE IF from = Len(path) THEN Found(node.value, params)
               ELSE IF static.route # NoRoute \/ node.param = NoNode THEN static
               ELSE IF dynamic.route # NoRoute THEN dynamic
               ELSE Found(NoRoute, Removed(dynamic.params, arena[node.param].name))
  <2>1. node = arena[call.node] /\ from = call.from + Len(node.prefix)
    BY <1>2, <1>4, <1>5
  <2>2. LookedUp(result, arena, path, call, node, from, static, dynamic)
    BY <1>6, <1>7, <1>8, <2>1, LookupIs
  <2> QED
    BY <1>3, <2>2 DEF LookedUp
<1> SUFFICES Answers(arena, word, path, Beyond(arena, word, x), params, result)
  BY <1>2, <1>3, <1>8
<1>10. CASE common_prefix_len(node.prefix, path, call.from) < Len(node.prefix)
  <2>1. result = Found(NoRoute, params)
    BY <1>9, <1>10
  <2>2. result.route = NoRoute /\ result.params = params
    BY <2>1 DEF Found
  <2>3. \A y \in Beyond(arena, word, x) : ~Reader(arena, word, path, y)
    BY <1>2, <1>4, <1>10, NonePasses
  <2> QED
    BY <2>2, <2>3 DEF Answers
<1>11. CASE ~(common_prefix_len(node.prefix, path, call.from) < Len(node.prefix))
  <2>1. Passed(arena, path, call, node, from)
    BY <1>2, <1>4, <1>5, <1>11 DEF Passed
  <2>2. PICK at : /\ Reads(word[x], Len(word[x]), path, at) /\ at[Len(word[x])] = from
                  /\ ToSet(call.params) = Bound(word[x], Len(word[x]), path, at)
    BY <1>2, <2>1, PassedReads
  <2>3. AtNode(arena, word, path, x, from, params, at)
    BY <1>2, <1>3, <2>2 DEF AtNode
  <2>4. CASE from = Len(path)
    <3>1. result = Found(arena[x].value, params)
      BY <1>4, <1>9, <1>11, <2>4
    <3>2. ReadsAll(word[x], path, at)
      BY <2>2, <2>4 DEF ReadsAll
    <3>3. Answers(arena, word, path, Beyond(arena, word, x), params, Found(arena[x].value, params))
      BY <1>2, <1>3, <2>2, <3>2, AnswersAtEnd
    <3> QED
      BY <3>1, <3>3
  <2>5. CASE from # Len(path)
    <3>1. /\ 2 * (Len(path) - from) <= d - 1
          /\ node.param # NoNode => 2 * (Len(path) - from) + 1 <= d - 1
      BY <2>1, Room
    <3>2. PICK less \in Nat : less = d - 1
      OBVIOUS
    <3>3. Deep(arena, word, path, f, less)
      BY <3>2
    <3>4. Answers(arena, word, path, Onward(arena, word, x, path[from + 1]), params, static)
      <4>1. 2 * (Len(path) - from) <= less
        BY <3>1, <3>2
      <4> QED
        BY <1>2, <1>3, <1>6, <2>3, <2>5, <3>3, <4>1, StaticAnswers
    <3>5. CASE static.route # NoRoute
      <4>1. result = static
        BY <1>9, <1>11, <2>5, <3>5
      <4> QED
        BY <2>3, <2>5, <3>4, <3>5, <4>1, StaticFirst
    <3>6. CASE static.route = NoRoute
      <4>1. static.params = params
        BY <3>4, <3>6 DEF Answers
      <4>2. \A z \in Beyond(arena, word, x) : Reader(arena, word, path, z) =>
                arena[x].param # NoNode /\ z \in Beyond(arena, word, arena[x].param)
        BY <2>3, <2>5, <3>4, <3>6, ParamReaders
      <4>3. CASE node.param = NoNode
        <5>1. result = static
          BY <1>9, <1>11, <2>5, <4>3
        <5>2. \A z \in Beyond(arena, word, x) : ~Reader(arena, word, path, z)
          BY <1>4, <4>2, <4>3
        <5> QED
          BY <3>6, <4>1, <5>1, <5>2 DEF Answers
      <4>4. CASE node.param # NoNode
        <5>1. PICK c : c = arena[x].param
          OBVIOUS
        <5>2. PICK entry : entry = ParamEntry(arena, path, x, from)
          OBVIOUS
        <5>3. PICK pushed : pushed = Append(params, entry)
          OBVIOUS
        <5>4. Answers(arena, word, path, Beyond(arena, word, c), pushed, dynamic)
          <6>1. 2 * (Len(path) - from) + 1 <= less /\ arena[x].param # NoNode
            BY <1>4, <3>1, <3>2, <4>4
          <6>2. call.node = x /\ pushed = Append(params, ParamEntry(arena, path, x, from))
            BY <1>2, <5>2, <5>3
          <6> QED
            BY <1>7, <2>3, <2>5, <3>2, <3>3, <4>1, <5>1, <6>1, <6>2, DynamicAnswers
        <5>5. CASE dynamic.route # NoRoute
          <6>1. result = dynamic
            BY <1>9, <1>11, <2>5, <3>6, <4>4, <5>5
          <6>2. PICK y : Best(arena, word, path, Beyond(arena, word, c), y, dynamic)
            BY <5>4, <5>5 DEF Answers
          <6>3. y \in Beyond(arena, word, x)
            BY <1>4, <4>4, <5>1, <6>2, ParamBeyond DEF Best
          <6>4. Best(arena, word, path, Beyond(arena, word, x), y, dynamic)
            BY <4>2, <5>1, <6>2, <6>3 DEF Best
          <6> QED
            BY <5>5, <6>1, <6>4 DEF Answers
        <5>6. CASE dynamic.route = NoRoute
          <6>1. dynamic.params = pushed /\ \A z \in Beyond(arena, word, c) : ~Reader(arena, word, path, z)
            BY <5>4, <5>6 DEF Answers
          <6>2. PICK name : name = arena[c].name
            OBVIOUS
          <6>3. name \in Name
            BY <1>4, <4>4, <5>1, <6>2, ChildrenAre
          <6>4. entry \in Entry /\ entry.name = name
            <7>1. from \in 0 .. Len(path)
              BY <2>3, AtNodeTypes
            <7> QED
              BY <5>1, <5>2, <6>2, <6>3, <7>1, EntryIs DEF ParamEntry
          <6>5. \A i \in 1 .. Len(params) : params[i].name # entry.name
            BY <1>4, <2>3, <4>4, <5>1, <6>2, <6>4, NewName
          <6>6. Removed(pushed, name) = params
            <7>1. Removed(Append(params, entry), entry.name) = params
              BY <6>4, <6>5, PushedRemoved
            <7> QED
              BY <5>3, <6>4, <7>1
          <6>7. result = Found(NoRoute, params)
            <7>1. result = Found(NoRoute, Removed(dynamic.params, arena[node.param].name))
              BY <1>9, <1>11, <2>5, <3>6, <4>4, <5>6
            <7> QED
              BY <1>4, <5>1, <6>1, <6>2, <6>6, <7>1
          <6>8. result.route = NoRoute /\ result.params = params
            BY <6>7 DEF Found
          <6>9. \A z \in Beyond(arena, word, x) : ~Reader(arena, word, path, z)
            BY <4>2, <5>1, <6>1
          <6> QED
            BY <6>8, <6>9 DEF Answers
        <5> QED
          BY <5>5, <5>6
      <4> QED
        BY <4>3, <4>4
    <3> QED
      BY <3>5, <3>6
  <2> QED
    BY <2>4, <2>5
<1> QED
  BY <1>10, <1>11

\* At every depth, the calls that need no more answer.
LEMMA DeepRounds ==
    ASSUME NEW arena, NEW word, Spelled(arena, word), Wellformed(arena, word), NEW path \in Seq(Byte),
           NEW found, IsFound(found, arena, path), NEW d \in Nat, d <= MaxDepth(path)
    PROVE  Deep(arena, word, path, found[d], d)
<1>1. PICK last \in Nat : last = MaxDepth(path)
  BY DEF MaxDepth
<1> DEFINE rounds == {n \in 0 .. last : Deep(arena, word, path, found[n], n)}
<1>2. 0 \in rounds
  <2>1. ASSUME NEW call \in Call(arena, path), NEW a \in Nat, NEW pos,
               Ready(arena, word, path, call, a, pos), Need(arena, path, call) <= 0
        PROVE  FALSE
    <3>1. PICK start \in 0 .. Len(path) : start = call.from
      BY CallTypes
    <3>2. PICK k \in Nat : k = Len(arena[call.node].prefix)
      BY CallTypes, NodeIs
    <3>3. k > 0 => start < Len(path)
      BY <2>1, <3>1, <3>2 DEF Ready
    <3>4. CASE call.node = 1
      BY <2>1, <3>4 DEF Need, MaxDepth
    <3>5. CASE call.node # 1 /\ k = 0
      <4>1. 2 * (Len(path) - start) + 1 <= 0
        BY <2>1, <3>1, <3>2, <3>5 DEF Need
      <4> QED
        BY <3>1, <4>1
    <3>6. CASE call.node # 1 /\ k # 0
      <4>1. 2 * (Len(path) - start) <= 0
        BY <2>1, <3>1, <3>2, <3>6 DEF Need
      <4>2. start < Len(path)
        BY <3>2, <3>3, <3>6
      <4> QED
        BY <3>1, <4>1, <4>2
    <3> QED
      BY <3>4, <3>5, <3>6
  <2>2. Deep(arena, word, path, found[0], 0)
    BY <2>1 DEF Deep
  <2> QED
    BY <2>2
<1>3. ASSUME NEW n \in 1 .. last, n - 1 \in rounds PROVE n \in rounds
  <2>1. Deep(arena, word, path, found[n - 1], n - 1)
    BY <1>3
  <2>2. n \in Nat /\ n > 0
    OBVIOUS
  <2>3. PICK f : f = found[n - 1]
    OBVIOUS
  <2>4. \A call \in Call(arena, path) : found[n][call] = lookup_recursive(arena, path, f, call)
    BY <1>1, <2>3 DEF IsFound
  <2>5. ASSUME NEW call \in Call(arena, path), NEW a \in Nat, NEW pos,
               Ready(arena, word, path, call, a, pos), Need(arena, path, call) <= n
        PROVE  Answers(arena, word, path, Beyond(arena, word, call.node), call.params, found[n][call])
    <3>1. Answers(arena, word, path, Beyond(arena, word, call.node), call.params,
                  lookup_recursive(arena, path, f, call))
      BY <2>1, <2>2, <2>3, <2>5, CallAnswers
    <3> QED
      BY <2>4, <3>1
  <2>6. Deep(arena, word, path, found[n], n)
    BY <2>5 DEF Deep
  <2>7. n \in 0 .. last
    OBVIOUS
  <2> QED
    BY <2>6, <2>7
<1>4. \A n \in 0 .. last : n \in rounds
  <2> HIDE DEF rounds
  <2> QED
    BY <1>2, <1>3, RoundByRound
<1>5. d \in 0 .. last
  BY <1>1
<1> QED
  BY <1>4, <1>5

\* The lookup answers with the preferred of the nodes that read the path.
LEMMA LookupAnswers ==
    ASSUME NEW arena, NEW word, Spelled(arena, word), Wellformed(arena, word), NEW path \in Seq(Byte)
    PROVE  Answers(arena, word, path, 1 .. Len(arena), <<>>, Lookup(arena, path))
<1>1. PICK found : /\ IsFound(found, arena, path)
                   /\ Lookup(arena, path) = found[MaxDepth(path)][CallAt(1, 0, <<>>)]
  BY LookupFound
<1>2. PICK last \in Nat : last = MaxDepth(path)
  BY DEF MaxDepth
<1>3. Deep(arena, word, path, found[last], last)
  BY <1>1, <1>2, DeepRounds
<1>4. PICK call : call = CallAt(1, 0, <<>>)
  OBVIOUS
<1>5. call.node = 1 /\ call.from = 0 /\ call.params = <<>>
  BY <1>4 DEF CallAt
<1>6. PICK n \in Nat : n = Len(arena) /\ n > 0 /\ 1 \in 1 .. n
  BY SpelledTypes
<1>7. call \in Call(arena, path)
  <2>1. <<>> \in Seq(Entry) /\ 0 \in 0 .. Len(path) /\ 1 \in 1 .. Len(arena)
    BY <1>6
  <2> QED
    BY <1>4, <2>1, CallIs
<1>8. PICK u \in Seq(PatternToken) : u = word[1] /\ Len(u) = 0 /\ Len(arena[1].prefix) = 0
  BY <1>6, SpelledTypes DEF Spelled
<1>9. PICK pos : pos = [i \in 0 .. 0 |-> 0]
  OBVIOUS
<1>10. Reads(u, 0, path, pos) /\ pos[0] = 0 /\ Bound(u, 0, path, pos) = {}
  <2>1. pos[0] = 0 /\ pos \in [0 .. 0 -> 0 .. Len(path)]
    BY <1>9
  <2> QED
    BY <2>1 DEF Reads, Bound
<1>11. ToSet(call.params) = {}
  BY <1>5 DEF ToSet
<1>12. Ready(arena, word, path, call, 0, pos)
  <2>1. word[call.node] = u /\ arena[call.node].prefix = arena[1].prefix
    BY <1>5, <1>8
  <2>2. PICK prefix : prefix = arena[1].prefix
    OBVIOUS
  <2>3. Continues(u, 0, prefix) /\ Len(u) = 0 + Len(prefix)
    BY <1>8, <2>2 DEF Continues
  <2>4. Reads(u, 0, path, pos) /\ pos[0] = call.from /\ ToSet(call.params) = Bound(u, 0, path, pos)
    BY <1>5, <1>10, <1>11
  <2>5. ~(Len(prefix) > 0) /\ ~(call.node # 1) /\ arena[call.node].prefix = prefix
    BY <1>5, <1>8, <2>2
  <2> HIDE DEF Reads, Continues, Bound
  <2> QED
    BY <1>7, <2>1, <2>3, <2>4, <2>5 DEF Ready
<1>13. Need(arena, path, call) <= last
  BY <1>2, <1>5 DEF Need
<1>14. Answers(arena, word, path, Beyond(arena, word, 1), <<>>, found[last][call])
  <2>1. 0 \in Nat
    OBVIOUS
  <2> QED
    BY <1>3, <1>5, <1>12, <1>13, <2>1, DeepIs
<1>15. Beyond(arena, word, 1) = 1 .. Len(arena)
  <2>1. \A y \in 1 .. Len(arena) : Starts(word[1], word[y])
    <3> TAKE y \in 1 .. Len(arena)
    <3>1. word[y] \in Seq(PatternToken)
      BY SpelledTypes
    <3>2. Len(word[y]) \in Nat
      BY <3>1
    <3> QED
      BY <1>8, <3>2 DEF Starts
  <2> QED
    BY <2>1 DEF Beyond
<1> QED
  BY <1>1, <1>2, <1>4, <1>14, <1>15

-----------------------------------------------------------------------------
(* The static map and the sorted table *)

\* The sorted routes.
Table(table) ==
    /\ table \in Seq(Seq(PatternToken))
    /\ \A i \in 1 .. Len(table) : Len(table[i]) > 0 /\ FullSegments(table[i])

Sorted(table) ==
    \A i, j \in 1 .. Len(table) : i < j =>
        \/ Below(route_specificity(table[i]), route_specificity(table[j]))
        \/ route_specificity(table[i]) = route_specificity(table[j])

\* A table is a sequence of patterns.
LEMMA TableIs ==
    ASSUME NEW table, Table(table)
    PROVE  /\ Len(table) \in Nat /\ DOMAIN table = 1 .. Len(table)
           /\ \A i \in 1 .. Len(table) : /\ table[i] \in Seq(PatternToken) /\ Len(table[i]) > 0
                                         /\ FullSegments(table[i])
  BY DEF Table

\* No later route is preferred to an earlier one.
LEMMA EarlierFirst ==
    ASSUME NEW table, Table(table), Sorted(table),
           NEW i \in 1 .. Len(table), NEW k \in 1 .. Len(table), i <= k, Preferred(table[k], table[i])
    PROVE  FALSE
<1>1. PICK v \in Seq(PatternToken) : v = table[i] /\ FullSegments(v)
  BY TableIs
<1>2. PICK w \in Seq(PatternToken) : w = table[k]
  BY TableIs
<1>3. Preferred(w, v)
  BY <1>1, <1>2
<1>4. Below(route_specificity(w), route_specificity(v))
  BY <1>1, <1>3, PreferredBelow
<1>5. route_specificity(w) # route_specificity(v) /\ ~Below(route_specificity(v), route_specificity(w))
  BY <1>4, BelowOnce
<1>6. CASE i = k
  BY <1>1, <1>2, <1>5, <1>6
<1>7. CASE i < k
  BY <1>1, <1>2, <1>5, <1>7 DEF Sorted
<1> QED
  BY <1>6, <1>7

\* What is in the static map, and that every static pattern is.
LEMMA StaticMapIs ==
    ASSUME NEW table, Table(table), NEW e \in BuildStatic(table)
    PROVE  e.route \in 1 .. Len(table) /\ e.path = table[e.route] /\ ~is_dynamic(table[e.route])
<1>1. PICK i \in DOMAIN table : e = [path |-> table[i], route |-> i] /\ ~is_dynamic(table[i])
  BY DEF BuildStatic
<1> QED
  BY <1>1, TableIs

\* Every static route has its pattern in the map.
LEMMA StaticMapHas ==
    ASSUME NEW table, Table(table), NEW j \in 1 .. Len(table), ~is_dynamic(table[j])
    PROVE  \E e \in BuildStatic(table) : e.path = table[j]
<1>1. PICK n \in Nat : n = Len(table) /\ DOMAIN table = 1 .. n
  BY TableIs
<1> DEFINE mirrored == {m \in 1 .. n : table[n + 1 - m] = table[j]}
<1>2. mirrored \subseteq 1 .. n
  OBVIOUS
<1>3. mirrored # {}
  <2>1. PICK m : m = n + 1 - j
    OBVIOUS
  <2>2. m \in 1 .. n /\ n + 1 - m = j
    BY <1>1, <2>1
  <2> QED
    BY <2>2
<1> HIDE DEF mirrored
<1>4. PICK least \in mirrored : \A other \in mirrored : least <= other
  BY <1>2, <1>3, LeastPlace
<1>5. PICK k : k = n + 1 - least
  OBVIOUS
<1>6. least \in 1 .. n /\ table[k] = table[j] /\ k \in 1 .. n
  BY <1>4, <1>5 DEF mirrored
<1>7. \A i \in 1 .. n : i > k => table[i] # table[k]
  <2> SUFFICES ASSUME NEW i \in 1 .. n, i > k, table[i] = table[k] PROVE FALSE
    OBVIOUS
  <2>1. PICK m : m = n + 1 - i
    OBVIOUS
  <2>2. m \in 1 .. n /\ n + 1 - m = i /\ m < least
    BY <1>5, <1>6, <2>1
  <2>3. m \in mirrored
    BY <1>6, <2>2 DEF mirrored
  <2>4. least <= m
    BY <1>4, <2>3
  <2> QED
    BY <1>6, <2>2, <2>4
<1>8. PICK e : e = [path |-> table[k], route |-> k]
  OBVIOUS
<1>9. e \in BuildStatic(table)
  <2>1. k \in DOMAIN table /\ ~is_dynamic(table[k])
    BY <1>1, <1>6
  <2>2. \A i \in DOMAIN table : i > k => table[i] # table[k]
    BY <1>1, <1>7
  <2> QED
    BY <1>8, <2>1, <2>2 DEF BuildStatic
<1> QED
  BY <1>6, <1>8, <1>9

\* The words of the nodes are fronts of patterns.
LEMMA KnownWellformed ==
    ASSUME NEW table, Table(table), \A i \in 1 .. Len(table) : NamesOnce(table[i]),
           NEW arena, NEW word, Spelled(arena, word), Known(arena, word, DynamicPatterns(table))
    PROVE  Wellformed(arena, word)
<1> SUFFICES ASSUME NEW y \in 1 .. Len(arena)
             PROVE  /\ \A i, j \in 1 .. Len(word[y]) : i # j /\ IsParam(word[y][i]) => word[y][i] # word[y][j]
                    /\ \A i \in 1 .. Len(word[y]) - 1 : ~(IsParam(word[y][i]) /\ IsParam(word[y][i + 1]))
  BY DEF Wellformed
<1>1. PICK w \in Seq(PatternToken) : w = word[y]
  BY SpelledTypes
<1>2. CASE Len(w) = 0
  BY <1>1, <1>2
<1>3. CASE Len(w) > 0
  <2>1. PICK k \in 1 .. Len(table) : Starts(w, table[k])
    BY <1>1, <1>3, TableIs DEF Known, DynamicPatterns, Dynamic
  <2>2. PICK v \in Seq(PatternToken) : v = table[k] /\ FullSegments(v) /\ NamesOnce(v)
    BY TableIs
  <2>3. Len(w) <= Len(v) /\ \A i \in 1 .. Len(w) : v[i] = w[i]
    BY <2>1, <2>2 DEF Starts
  <2>4. ASSUME NEW i \in 1 .. Len(w), NEW j \in 1 .. Len(w), i # j, IsParam(w[i]) PROVE w[i] # w[j]
    <3>1. i \in DOMAIN v /\ j \in DOMAIN v /\ v[i] = w[i] /\ v[j] = w[j]
      BY <2>3
    <3> QED
      BY <2>2, <2>4, <3>1 DEF NamesOnce
  <2>5. ASSUME NEW i \in 1 .. Len(w) - 1, IsParam(w[i]), IsParam(w[i + 1]) PROVE FALSE
    <3>1. i \in 1 .. Len(v) /\ i < Len(v) /\ i \in 1 .. Len(w) /\ i + 1 \in 1 .. Len(w)
      BY <2>3
    <3>2. v[i] = w[i] /\ v[i + 1] = w[i + 1]
      BY <2>3, <3>1
    <3>3. v[i + 1] = "/"
      BY <2>2, <2>5, <3>1, <3>2 DEF FullSegments
    <3> QED
      BY <2>5, <3>2, <3>3, RouterAssumption DEF IsParam
  <2> QED
    BY <1>1, <2>4, <2>5
<1>4. Len(w) = 0 \/ Len(w) > 0
  OBVIOUS
<1> QED
  BY <1>2, <1>3, <1>4

-----------------------------------------------------------------------------
(* The first route that matches is the preferred one *)

\* The routes that match a path, but for an empty value at its end.
Matching(table, path) == {i \in 1 .. Len(table) : \E pos : ReadsAll(table[i], path, pos)}

FirstMatch(table, path, i) == i \in Matching(table, path) /\ \A j \in Matching(table, path) : i <= j

\* The linear scan takes the first of them.
LEMMA LinearFirst ==
    ASSUME Table(routes), NEW path \in Seq(Byte), Len(path) > 0,
           NEW candidates, candidates = {i \in DOMAIN routes : ~Left(routes[i], path)},
           NEW linear, linear = resolve_linear(path, candidates)
    PROVE  \/ Matching(routes, path) = {} /\ linear = NotFound
           \/ \E i : /\ FirstMatch(routes, path, i)
                     /\ linear = Found(i, extract_path_params(routes[i], path)[1])
<1>1. PICK n \in Nat : n = Len(routes) /\ DOMAIN routes = 1 .. n
  BY TableIs
<1>2. PICK matches : matches = {i \in candidates : extract_path_params(routes[i], path) # <<>>}
  OBVIOUS
<1>3. matches = Matching(routes, path)
  <2>1. ASSUME NEW i \in 1 .. n PROVE i \in matches <=> i \in Matching(routes, path)
    <3>1. routes[i] \in Seq(PatternToken) /\ Len(routes[i]) > 0 /\ FullSegments(routes[i])
      BY <1>1, TableIs
    <3>2. i \in matches <=> extract_path_params(routes[i], path) # <<>> /\ ~Left(routes[i], path)
      BY <1>1, <1>2
    <3>3. i \in Matching(routes, path) <=> \E pos : ReadsAll(routes[i], path, pos)
      BY <1>1 DEF Matching
    <3>4. extract_path_params(routes[i], path) # <<>> /\ ~Left(routes[i], path) => \E pos : ReadsAll(routes[i], path, pos)
      BY <3>1, LinearReads
    <3>5. (\E pos : ReadsAll(routes[i], path, pos)) => extract_path_params(routes[i], path) # <<>> /\ ~Left(routes[i], path)
      BY <3>1, LinearReads
    <3> QED
      BY <3>2, <3>3, <3>4, <3>5
  <2>2. matches \subseteq 1 .. n /\ Matching(routes, path) \subseteq 1 .. n
    BY <1>1, <1>2 DEF Matching
  <2> QED
    BY <2>1, <2>2
<1>4. linear = IF matches = {} THEN NotFound
               ELSE LET i == CHOOSE i \in matches : \A j \in matches : i <= j
                    IN  Found(i, extract_path_params(routes[i], path)[1])
  BY <1>2 DEF resolve_linear
<1>5. CASE matches = {}
  BY <1>3, <1>4, <1>5
<1>6. CASE matches # {}
  <2>1. matches \subseteq 1 .. n
    BY <1>1, <1>2
  <2>2. \E i \in matches : \A j \in matches : i <= j
    BY <1>6, <2>1, LeastPlace
  <2>3. PICK i : i = CHOOSE least \in matches : \A j \in matches : least <= j
    OBVIOUS
  <2>4. i \in matches /\ \A j \in matches : i <= j
    BY <2>2, <2>3
  <2>5. linear = Found(i, extract_path_params(routes[i], path)[1])
    BY <1>4, <1>6, <2>3
  <2> QED
    BY <1>3, <2>4, <2>5 DEF FirstMatch
<1> QED
  BY <1>5, <1>6

\* A path that is one of the patterns.
LEMMA PathItself ==
    ASSUME NEW table, Table(table), NEW path \in Seq(Byte), NEW k \in 1 .. Len(table), table[k] = path
    PROVE  k \in Matching(table, path)
<1>1. PICK pos : ReadsAll(path, path, pos)
  BY BytesRead
<1> QED
  BY <1>1 DEF Matching

\* If a static route is the path itself, so is the first route that matches.
LEMMA StaticMatch ==
    ASSUME NEW table, Table(table), Sorted(table), NEW path \in Seq(Byte),
           NEW k \in 1 .. Len(table), table[k] = path, NEW i, FirstMatch(table, path, i)
    PROVE  i <= k /\ table[i] = path
<1>1. i \in 1 .. Len(table) /\ i <= k
  BY PathItself DEF FirstMatch, Matching
<1>2. PICK at : ReadsAll(table[i], path, at)
  BY DEF FirstMatch, Matching
<1>3. PICK v \in Seq(PatternToken) : v = table[i]
  BY <1>1, TableIs
<1>4. path \in Seq(PatternToken)
  BY DEF PatternToken
<1>5. PICK pos : ReadsAll(path, path, pos)
  BY BytesRead
<1>6. \A m \in 1 .. Len(path) : ~IsParam(path[m])
  BY RouterAssumption DEF IsParam
<1>7. \A m \in Nat : m < Len(path) => ~IsParam(path[m + 1])
  <2> TAKE m \in Nat
  <2>1. m < Len(path) => m + 1 \in 1 .. Len(path)
    OBVIOUS
  <2> QED
    BY <1>6, <2>1
<1>8. Agreed(path, v)
  BY <1>7 DEF Agreed
<1>9. path = v \/ Preferred(path, v) \/ Preferred(v, path)
  BY <1>2, <1>3, <1>4, <1>5, <1>8, ReadersDiffer
<1>10. ~Preferred(v, path)
  BY <1>7 DEF Preferred
<1>11. ~Preferred(path, v)
  BY <1>1, <1>3, EarlierFirst
<1> QED
  BY <1>1, <1>3, <1>9, <1>10, <1>11

\* Without a static route for the path, what matches is in the trie.
LEMMA DynamicMatch ==
    ASSUME NEW table, Table(table), NEW path \in Seq(Byte), NEW i \in Matching(table, path),
           \A e \in BuildStatic(table) : e.path # path
    PROVE  i \in 1 .. Len(table) /\ i \in Dynamic(table)
<1>1. i \in 1 .. Len(table) /\ DOMAIN table = 1 .. Len(table)
  BY TableIs DEF Matching
<1>2. PICK pos : ReadsAll(table[i], path, pos)
  BY DEF Matching
<1>3. PICK v \in Seq(PatternToken) : v = table[i] /\ FullSegments(v)
  BY <1>1, TableIs
<1>4. ASSUME ~is_dynamic(v) PROVE FALSE
  <2>1. \A m \in 1 .. Len(v) : ~IsParam(v[m])
    BY <1>3, <1>4, ParamIsDynamic
  <2>2. v = path
    BY <1>2, <1>3, <2>1, BytesReadThemselves
  <2>3. \E e \in BuildStatic(table) : e.path = path
    BY <1>1, <1>3, <1>4, <2>2, StaticMapHas
  <2> QED
    BY <2>3
<1> QED
  BY <1>1, <1>3, <1>4 DEF Dynamic

\* The answer of the trie.
LEMMA TrieMatch ==
    ASSUME NEW table, Table(table), Sorted(table), NEW path \in Seq(Byte),
           \A i \in 1 .. Len(table) : NamesOnce(table[i]), \A v, w \in DynamicPatterns(table) : Agreed(v, w),
           NEW result, result = Lookup(BuildTrie(table), path)
    PROVE  /\ result.route # NoRoute => result.route \in Matching(table, path)
           /\ \A i : FirstMatch(table, path, i) /\ i \in Dynamic(table) =>
                 /\ result.route # NoRoute /\ table[result.route] = table[i]
                 /\ \E q : ReadsAll(table[i], path, q) /\ ToSet(result.params) = Bound(table[i], Len(table[i]), path, q)
<1>1. PICK arena : arena = BuildTrie(table)
  OBVIOUS
<1>2. PICK n \in Nat : n = Len(table) /\ DOMAIN table = 1 .. n
  BY TableIs
<1>3. PICK word : Stands(table, n, arena, word)
  <2>1. table \in Seq(Seq(PatternToken))
    BY DEF Table
  <2> QED
    BY <1>1, <1>2, <2>1, Built
<1>4. Spelled(arena, word) /\ Wellformed(arena, word)
  BY <1>2, <1>3, KnownWellformed DEF Stands
<1>5. Answers(arena, word, path, 1 .. Len(arena), <<>>, result)
  BY <1>1, <1>4, LookupAnswers
<1>6. ASSUME NEW y \in 1 .. Len(arena), arena[y].value # NoRoute
      PROVE  arena[y].value \in 1 .. n /\ word[y] = table[arena[y].value]
  <2>1. Holds(arena, word, word[y], arena[y].value)
    BY DEF Holds
  <2> QED
    BY <1>3, <1>6, <2>1 DEF Stands
<1>7. ASSUME result.route # NoRoute PROVE result.route \in Matching(table, path)
  <2>1. PICK y : Best(arena, word, path, 1 .. Len(arena), y, result)
    BY <1>5, <1>7 DEF Answers
  <2>2. y \in 1 .. Len(arena) /\ arena[y].value = result.route /\ \E q : ReadsAll(word[y], path, q)
    BY <2>1 DEF Best
  <2>3. result.route \in 1 .. n /\ word[y] = table[result.route]
    BY <1>6, <1>7, <2>2
  <2> QED
    BY <1>2, <2>2, <2>3 DEF Matching
<1>8. ASSUME NEW i, FirstMatch(table, path, i), i \in Dynamic(table)
      PROVE  /\ result.route # NoRoute /\ table[result.route] = table[i]
             /\ \E q : ReadsAll(table[i], path, q) /\ ToSet(result.params) = Bound(table[i], Len(table[i]), path, q)
  <2>1. i \in 1 .. n /\ \E q : ReadsAll(table[i], path, q)
    BY <1>2, <1>8 DEF FirstMatch, Matching
  <2>2. PICK r : r # NoRoute /\ Holds(arena, word, table[i], r)
    BY <1>3, <1>8, <2>1 DEF Stands
  <2>3. PICK z \in 1 .. Len(arena) : arena[z].value = r /\ word[z] = table[i]
    BY <2>2 DEF Holds
  <2>4. Reader(arena, word, path, z)
    BY <2>1, <2>2, <2>3 DEF Reader
  <2>5. result.route # NoRoute
    BY <1>5, <2>4 DEF Answers
  <2>6. PICK y : Best(arena, word, path, 1 .. Len(arena), y, result)
    BY <1>5, <2>5 DEF Answers
  <2>7. y \in 1 .. Len(arena) /\ arena[y].value = result.route
    BY <2>6 DEF Best
  <2>8. PICK k : k = result.route
    OBVIOUS
  <2>9. k \in 1 .. n /\ word[y] = table[k] /\ k \in Matching(table, path)
    BY <1>6, <1>7, <2>5, <2>7, <2>8
  <2>10. i <= k
    BY <1>8, <2>9 DEF FirstMatch
  <2>11. word[y] = table[i]
    <3>1. CASE z = y
      BY <2>3, <3>1
    <3>2. CASE z # y
      <4>1. Preferred(table[k], table[i])
        BY <2>3, <2>4, <2>6, <2>9, <3>2 DEF Best
      <4> QED
        BY <1>2, <2>1, <2>9, <2>10, <4>1, EarlierFirst
    <3> QED
      BY <3>1, <3>2
  <2>12. \E q : ReadsAll(word[y], path, q) /\ ToSet(result.params) = Bound(word[y], Len(word[y]), path, q)
    BY <2>6 DEF Best
  <2> QED
    BY <2>5, <2>8, <2>9, <2>11, <2>12
<1> QED
  BY <1>7, <1>8

-----------------------------------------------------------------------------
(* resolve against resolve_linear *)

Agrees(linear, found) ==
    IF linear.route = NoRoute THEN found = NotFound
    ELSE /\ found.route >= linear.route
         /\ routes[found.route] = routes[linear.route]
         /\ ToSet(found.params) = linear.params

\* After freeze the routes are sorted, and the map and the trie are built from them.
Frozen ==
    /\ Sorted(routes) /\ ~ConflictingNames(routes)
    /\ static_map = BuildStatic(routes) /\ trie = BuildTrie(routes)

\* After freeze, resolve answers what the linear scan answers.
LEMMA FrozenAgrees ==
    ASSUME Table(routes), Frozen, \A i \in 1 .. Len(routes) : NamesOnce(routes[i]),
           NEW path \in Seq(Byte), Len(path) > 0,
           NEW candidates, candidates = {i \in DOMAIN routes : ~Left(routes[i], path)}
    PROVE  Agrees(resolve_linear(path, candidates), resolve(path))
<1>1. PICK linear : linear = resolve_linear(path, candidates)
  OBVIOUS
<1>2. PICK found : found = resolve(path)
  OBVIOUS
<1>3. PICK hits : hits = {e \in static_map : e.path = path}
  OBVIOUS
<1>4. PICK dynamic : dynamic = Lookup(trie, path)
  OBVIOUS
<1>5. found = IF hits # {} THEN Found((CHOOSE e \in hits : TRUE).route, <<>>)
              ELSE IF dynamic.route # NoRoute THEN dynamic ELSE NotFound
  BY <1>2, <1>3, <1>4 DEF resolve
<1>6. \A e \in hits : e.route \in 1 .. Len(routes) /\ routes[e.route] = path
  BY <1>3, StaticMapIs DEF Frozen
<1>7. \A v, w \in DynamicPatterns(routes) : Agreed(v, w)
  BY NamesAgree DEF Frozen, Table
<1>8. dynamic = Lookup(BuildTrie(routes), path) /\ Sorted(routes)
  BY <1>4 DEF Frozen
<1>9. dynamic.route # NoRoute => dynamic.route \in Matching(routes, path)
  BY <1>7, <1>8, TrieMatch
<1>10. \A i : FirstMatch(routes, path, i) /\ i \in Dynamic(routes) =>
          /\ dynamic.route # NoRoute /\ routes[dynamic.route] = routes[i]
          /\ \E q : ReadsAll(routes[i], path, q) /\ ToSet(dynamic.params) = Bound(routes[i], Len(routes[i]), path, q)
  BY <1>7, <1>8, TrieMatch
<1>11. NotFound.route = NoRoute
  BY DEF NotFound, Found
<1>12. CASE Matching(routes, path) = {} /\ linear = NotFound
  <2>1. hits = {}
    BY <1>6, <1>12, PathItself
  <2>2. dynamic.route = NoRoute
    BY <1>9, <1>12
  <2>3. found = NotFound
    BY <1>5, <2>1, <2>2
  <2> QED
    BY <1>1, <1>2, <1>11, <1>12, <2>3 DEF Agrees
<1>13. ASSUME NEW i, FirstMatch(routes, path, i), linear = Found(i, extract_path_params(routes[i], path)[1])
       PROVE  Agrees(linear, found)
  <2>1. i \in 1 .. Len(routes)
    BY <1>13 DEF FirstMatch, Matching
  <2>2. PICK w \in Seq(PatternToken) : w = routes[i] /\ Len(w) > 0 /\ FullSegments(w)
    BY <2>1, TableIs
  <2>3. linear.route = i /\ linear.params = extract_path_params(w, path)[1]
    BY <1>13, <2>2 DEF Found
  <2>4. \A q : ReadsAll(w, path, q) => linear.params = Bound(w, Len(w), path, q)
    BY <2>2, <2>3, LinearReads
  <2>5. i # NoRoute
    BY <2>1 DEF NoRoute
  <2>6. CASE hits # {}
    <3>1. PICK e \in hits : e = CHOOSE hit \in hits : TRUE
      BY <2>6
    <3>2. PICK k : k = e.route
      OBVIOUS
    <3>3. found.route = k /\ found.params = <<>>
      BY <1>5, <2>6, <3>1, <3>2 DEF Found
    <3>4. k \in 1 .. Len(routes) /\ routes[k] = path
      BY <1>6, <3>1, <3>2
    <3>5. i <= k /\ routes[i] = path
      BY <1>8, <1>13, <3>4, StaticMatch
    <3>6. linear.params = {}
      <4>1. PICK q : ReadsAll(path, path, q) /\ Bound(path, Len(path), path, q) = {}
        BY BytesRead
      <4> QED
        BY <2>2, <2>4, <3>5, <4>1
    <3>7. ToSet(found.params) = {}
      BY <3>3 DEF ToSet
    <3>8. found.route >= linear.route
      BY <2>1, <2>3, <3>3, <3>4, <3>5
    <3>9. routes[found.route] = routes[linear.route]
      BY <2>3, <3>3, <3>4, <3>5
    <3> QED
      BY <2>3, <2>5, <3>6, <3>7, <3>8, <3>9 DEF Agrees
  <2>7. CASE hits = {}
    <3>1. \A e \in BuildStatic(routes) : e.path # path
      BY <1>3, <2>7 DEF Frozen
    <3>2. i \in Dynamic(routes)
      BY <1>13, <3>1, DynamicMatch DEF FirstMatch
    <3>3. /\ dynamic.route # NoRoute /\ routes[dynamic.route] = routes[i]
          /\ \E q : ReadsAll(routes[i], path, q) /\ ToSet(dynamic.params) = Bound(routes[i], Len(routes[i]), path, q)
      BY <1>10, <1>13, <3>2
    <3>4. found = dynamic
      BY <1>5, <2>7, <3>3
    <3>5. dynamic.route \in Matching(routes, path)
      BY <1>9, <3>3
    <3>6. PICK k : k = dynamic.route
      OBVIOUS
    <3>7. i <= k /\ k \in 1 .. Len(routes)
      BY <1>13, <3>5, <3>6 DEF FirstMatch, Matching
    <3>8. k >= i
      BY <2>1, <3>7
    <3>9. ToSet(dynamic.params) = linear.params
      BY <2>2, <2>4, <3>3
    <3> QED
      BY <2>3, <2>5, <3>3, <3>4, <3>6, <3>8, <3>9 DEF Agrees
  <2> QED
    BY <2>6, <2>7
<1>14. \/ Matching(routes, path) = {} /\ linear = NotFound
       \/ \E i : FirstMatch(routes, path, i) /\ linear = Found(i, extract_path_params(routes[i], path)[1])
  BY <1>1, LinearFirst
<1> QED
  BY <1>1, <1>2, <1>12, <1>13, <1>14

-----------------------------------------------------------------------------
(* The patterns of the table *)

\* Part of a pattern, from the token behind m to the n-th.
LEMMA PartFull ==
    ASSUME NEW s \in Seq(PatternToken), FullSegments(s), NEW m \in Nat, NEW n \in Nat, m <= n, n <= Len(s)
    PROVE  SubSeq(s, m + 1, n) \in Seq(PatternToken) /\ FullSegments(SubSeq(s, m + 1, n))
<1>1. PICK part : part = SubSeq(s, m + 1, n)
  OBVIOUS
<1>2. /\ part \in Seq(PatternToken) /\ Len(part) = n - m
      /\ \A i \in 1 .. n - m : part[i] = s[m + i]
  BY <1>1, StretchOf
<1>3. ASSUME NEW i \in 1 .. n - m, IsParam(part[i])
      PROVE  (i > 1 => part[i - 1] = "/") /\ (i < n - m => part[i + 1] = "/")
  <2>1. m + i \in 1 .. Len(s) /\ part[i] = s[m + i]
    BY <1>2
  <2>2. (m + i > 1 => s[(m + i) - 1] = "/") /\ (m + i < Len(s) => s[(m + i) + 1] = "/")
    BY <1>3, <2>1 DEF FullSegments
  <2>3. ASSUME i > 1 PROVE part[i - 1] = "/"
    <3>1. i - 1 \in 1 .. n - m /\ m + (i - 1) = (m + i) - 1 /\ m + i > 1
      BY <2>3
    <3>2. part[i - 1] = s[(m + i) - 1]
      BY <1>2, <3>1
    <3> QED
      BY <2>2, <3>1, <3>2
  <2>4. ASSUME i < n - m PROVE part[i + 1] = "/"
    <3>1. i + 1 \in 1 .. n - m /\ m + (i + 1) = (m + i) + 1 /\ m + i < Len(s)
      BY <2>4
    <3>2. part[i + 1] = s[(m + i) + 1]
      BY <1>2, <3>1
    <3> QED
      BY <2>2, <3>1, <3>2
  <2> QED
    BY <2>3, <2>4
<1>4. FullSegments(part)
  BY <1>2, <1>3 DEF FullSegments
<1> QED
  BY <1>1, <1>2, <1>4

\* Without its slashes at an end a pattern's parameters are full segments,
LEMMA TrimmedFull ==
    ASSUME NEW s \in Seq(PatternToken), FullSegments(s)
    PROVE  /\ TrimEnd(s) \in Seq(PatternToken) /\ FullSegments(TrimEnd(s))
           /\ TrimStart(s) \in Seq(PatternToken) /\ FullSegments(TrimStart(s))
<1>1. PICK l \in Nat : l = Len(s)
  OBVIOUS
<1>2. TrimEnd(s) \in Seq(PatternToken) /\ FullSegments(TrimEnd(s))
  <2> DEFINE ends == {n \in 0 .. l : \A i \in n + 1 .. l : s[i] = "/"}
  <2>1. l \in ends /\ ends \subseteq Nat
    OBVIOUS
  <2>2. \A n \in ends : n > 0 /\ s[n] = "/" => n - 1 \in ends
    <3> SUFFICES ASSUME NEW n \in ends, n > 0, s[n] = "/" PROVE n - 1 \in ends
      OBVIOUS
    <3>1. n \in 0 .. l /\ n - 1 \in 0 .. l /\ \A i \in (n - 1) + 1 .. l : i = n \/ i \in n + 1 .. l
      OBVIOUS
    <3> QED
      BY <3>1
  <2> HIDE DEF ends
  <2>3. PICK least \in ends : \A other \in ends : least <= other
    BY <2>1, LeastOne
  <2>4. least > 0 => s[least] # "/"
    <3> SUFFICES ASSUME least > 0, s[least] = "/" PROVE FALSE
      OBVIOUS
    <3>1. least - 1 \in ends
      BY <2>2
    <3>2. least <= least - 1 /\ least \in Nat
      BY <2>1, <2>3, <3>1
    <3> QED
      BY <3>2
  <2>5. \E n \in 0 .. Len(s) : (n > 0 => s[n] # "/") /\ \A i \in n + 1 .. Len(s) : s[i] = "/"
    BY <1>1, <2>4 DEF ends
  <2>6. PICK n : n = CHOOSE end \in 0 .. Len(s) :
                         (end > 0 => s[end] # "/") /\ \A i \in end + 1 .. Len(s) : s[i] = "/"
    OBVIOUS
  <2>7. n \in 0 .. Len(s)
    BY <2>5, <2>6
  <2>8. TrimEnd(s) = SubSeq(s, 0 + 1, n)
    BY <2>6 DEF TrimEnd
  <2>9. 0 \in Nat /\ n \in Nat /\ 0 <= n /\ n <= Len(s)
    BY <2>7
  <2> QED
    BY <2>8, <2>9, PartFull
<1>3. TrimStart(s) \in Seq(PatternToken) /\ FullSegments(TrimStart(s))
  <2>1. PICK m : m = End(s, 0, PatternToken \ {"/"})
    OBVIOUS
  <2>2. 0 \in 0 .. Len(s)
    BY <1>1
  <2>3. m \in 0 .. Len(s)
    BY <2>1, <2>2, EndIs
  <2>4. TrimStart(s) = SubSeq(s, m + 1, Len(s))
    BY <2>1 DEF TrimStart, Drop
  <2>5. m \in Nat /\ Len(s) \in Nat /\ m <= Len(s) /\ Len(s) <= Len(s)
    BY <1>1, <2>3
  <2> QED
    BY <2>4, <2>5, PartFull
<1> QED
  BY <1>2, <1>3

\* Two patterns with a slash between them.
LEMMA JoinedFull ==
    ASSUME NEW u \in Seq(PatternToken), FullSegments(u), NEW v \in Seq(PatternToken), FullSegments(v),
           NEW s, s = u \o <<"/">> \o v
    PROVE  s \in Seq(PatternToken) /\ Len(s) > 0 /\ FullSegments(s)
<1>1. PICK m \in Nat : m = Len(u)
  OBVIOUS
<1>2. PICK k \in Nat : k = Len(v)
  OBVIOUS
<1>3. <<"/">> \in Seq(PatternToken)
  BY RouterAssumption DEF PatternToken
<1>4. s \in Seq(PatternToken) /\ Len(s) = m + 1 + k
  BY <1>1, <1>2, <1>3
<1>5. /\ \A i \in 1 .. m : s[i] = u[i]
      /\ s[m + 1] = "/"
      /\ \A i \in 1 .. k : s[m + 1 + i] = v[i]
  BY <1>1, <1>2, <1>3
<1>6. ~IsParam("/")
  BY RouterAssumption DEF IsParam
<1>7. ASSUME NEW i \in 1 .. m + 1 + k, IsParam(s[i])
      PROVE  (i > 1 => s[i - 1] = "/") /\ (i < m + 1 + k => s[i + 1] = "/")
  <2>1. CASE i \in 1 .. m
    <3>1. IsParam(u[i])
      BY <1>5, <1>7, <2>1
    <3>2. (i > 1 => u[i - 1] = "/") /\ (i < m => u[i + 1] = "/")
      BY <1>1, <2>1, <3>1 DEF FullSegments
    <3>3. (i > 1 => i - 1 \in 1 .. m) /\ (i < m => i + 1 \in 1 .. m) /\ (~(i < m) => i = m)
      BY <2>1
    <3> QED
      BY <1>5, <3>2, <3>3
  <2>2. CASE i = m + 1
    BY <1>5, <1>6, <1>7, <2>2
  <2>3. CASE i \in m + 2 .. m + 1 + k
    <3>1. PICK j \in 1 .. k : i = m + 1 + j
      <4>1. i - (m + 1) \in 1 .. k /\ i = m + 1 + (i - (m + 1))
        BY <2>3
      <4> QED
        BY <4>1
    <3>2. IsParam(v[j])
      BY <1>5, <1>7, <3>1
    <3>3. (j > 1 => v[j - 1] = "/") /\ (j < k => v[j + 1] = "/")
      BY <1>2, <3>2 DEF FullSegments
    <3>4. s[i - 1] = "/"
      <4>1. CASE j = 1
        <5>1. i - 1 = m + 1
          BY <3>1, <4>1
        <5> QED
          BY <1>5, <5>1
      <4>2. CASE j > 1
        <5>1. j - 1 \in 1 .. k /\ i - 1 = m + 1 + (j - 1)
          BY <3>1, <4>2
        <5> QED
          BY <1>5, <3>3, <4>2, <5>1
      <4>3. j = 1 \/ j > 1
        BY <3>1
      <4> QED
        BY <4>1, <4>2, <4>3
    <3>5. ASSUME i < m + 1 + k PROVE s[i + 1] = "/"
      <4>1. j < k /\ j + 1 \in 1 .. k /\ i + 1 = m + 1 + (j + 1)
        BY <3>1, <3>5
      <4> QED
        BY <1>5, <3>3, <4>1
    <3> QED
      BY <3>4, <3>5
  <2>4. i \in 1 .. m \/ i = m + 1 \/ i \in m + 2 .. m + 1 + k
    OBVIOUS
  <2> QED
    BY <2>1, <2>2, <2>3, <2>4
<1>8. FullSegments(s)
  BY <1>4, <1>7 DEF FullSegments
<1> QED
  BY <1>4, <1>8

\* and so they are in the pattern of a group.
LEMMA GroupFull ==
    ASSUME NEW prefix \in Seq(PatternToken), FullSegments(prefix),
           NEW pattern \in Seq(PatternToken), FullSegments(pattern),
           NEW s, s = join_group_route_pattern(prefix, pattern)
    PROVE  s \in Seq(PatternToken) /\ Len(s) > 0 /\ FullSegments(s)
<1>1. PICK front \in Seq(PatternToken) : front = TrimEnd(prefix) /\ FullSegments(front)
  BY TrimmedFull
<1>2. PICK rest \in Seq(PatternToken) : rest = TrimStart(pattern) /\ FullSegments(rest)
  BY TrimmedFull
<1>3. s = IF front = <<>> THEN <<"/">> \o rest
          ELSE IF rest = <<>> THEN front ELSE front \o <<"/">> \o rest
  BY <1>1, <1>2 DEF join_group_route_pattern
<1>4. CASE front = <<>>
  <2>1. <<"/">> \in Seq(PatternToken)
    BY RouterAssumption DEF PatternToken
  <2>2. s = front \o <<"/">> \o rest
    BY <1>3, <1>4, <2>1
  <2> QED
    BY <1>1, <1>2, <2>2, JoinedFull
<1>5. CASE front # <<>> /\ rest = <<>>
  <2>1. s = front
    BY <1>3, <1>5
  <2>2. Len(front) > 0
    BY <1>5
  <2> QED
    BY <1>1, <2>1, <2>2
<1>6. CASE front # <<>> /\ rest # <<>>
  <2>1. s = front \o <<"/">> \o rest
    BY <1>3, <1>6
  <2> QED
    BY <1>1, <1>2, <2>1, JoinedFull
<1> QED
  BY <1>4, <1>5, <1>6

-----------------------------------------------------------------------------
(* The router *)

RouterIInv ==
    /\ Table(routes)
    /\ phase = "frozen" => Frozen

\* A table with a pattern more is a table.
LEMMA TableGrows ==
    ASSUME NEW table, Table(table), NEW s \in Seq(PatternToken), Len(s) > 0, FullSegments(s)
    PROVE  Table(Append(table, s))
<1>1. PICK n \in Nat : n = Len(table)
  BY TableIs
<1>2. PICK more : more = Append(table, s)
  OBVIOUS
<1>3. /\ more \in Seq(Seq(PatternToken)) /\ Len(more) = n + 1 /\ more[n + 1] = s
      /\ \A i \in 1 .. n : more[i] = table[i]
  BY <1>1, <1>2, AppendProperties DEF Table
<1>4. \A i \in 1 .. n + 1 : i \in 1 .. n \/ i = n + 1
  OBVIOUS
<1>5. \A i \in 1 .. n + 1 : Len(more[i]) > 0 /\ FullSegments(more[i])
  <2> TAKE i \in 1 .. n + 1
  <2>1. CASE i \in 1 .. n
    <3>1. Len(table[i]) > 0 /\ FullSegments(table[i]) /\ more[i] = table[i]
      BY <1>1, <1>3, <2>1, TableIs
    <3> QED
      BY <3>1
  <2>2. CASE i = n + 1
    BY <1>3, <2>2
  <2> QED
    BY <1>4, <2>1, <2>2
<1> QED
  BY <1>2, <1>3, <1>5 DEF Table

\* A stable sort keeps the patterns, and its order is one.
LEMMA TableSorted ==
    ASSUME NEW table, Table(table), NEW order \in SortedOrders(table),
           NEW sorted, sorted = [i \in DOMAIN table |-> table[order[i]]]
    PROVE  Table(sorted) /\ Sorted(sorted)
<1>1. PICK n \in Nat : n = Len(table) /\ DOMAIN table = 1 .. n
  BY TableIs
<1>2. order \in [1 .. n -> 1 .. n]
  BY <1>1 DEF SortedOrders
<1>3. \A i \in 1 .. n : table[i] \in Seq(PatternToken) /\ Len(table[i]) > 0 /\ FullSegments(table[i])
  BY <1>1, TableIs
<1>4. \A i \in 1 .. n : order[i] \in 1 .. n /\ sorted[i] = table[order[i]]
  BY <1>1, <1>2
<1>5. sorted \in Seq(Seq(PatternToken)) /\ Len(sorted) = n
  <2>1. \A i \in 1 .. n : sorted[i] \in Seq(PatternToken)
    BY <1>3, <1>4
  <2>2. sorted = [i \in 1 .. n |-> sorted[i]]
    BY <1>1
  <2> QED
    BY <2>1, <2>2
<1>6. Table(sorted)
  BY <1>3, <1>4, <1>5 DEF Table
<1>7. Sorted(sorted)
  <2> SUFFICES ASSUME NEW i \in 1 .. n, NEW j \in 1 .. n, i < j
               PROVE  \/ Below(route_specificity(sorted[i]), route_specificity(sorted[j]))
                      \/ route_specificity(sorted[i]) = route_specificity(sorted[j])
    BY <1>5 DEF Sorted
  <2>1. \/ Below(route_specificity(table[order[i]]), route_specificity(table[order[j]]))
        \/ route_specificity(table[order[i]]) = route_specificity(table[order[j]])
    BY <1>1 DEF SortedOrders
  <2> QED
    BY <1>4, <2>1
<1> QED
  BY <1>6, <1>7

\* Every registration keeps a table of patterns; freeze sorts it and builds from it.
LEMMA RouterInductive == RouterSpec => []RouterIInv
<1>1. RouterInit => RouterIInv
  <2> SUFFICES ASSUME RouterInit PROVE RouterIInv
    OBVIOUS
  <2>1. routes = <<>> /\ phase # "frozen"
    BY DEF RouterInit
  <2>2. <<>> \in Seq(Seq(PatternToken)) /\ Len(<<>>) = 0
    OBVIOUS
  <2> QED
    BY <2>1, <2>2 DEF RouterIInv, Table
<1>2. RouterIInv /\ [RouterNext]_routerVars => RouterIInv'
  <2> SUFFICES ASSUME RouterIInv, [RouterNext]_routerVars PROVE RouterIInv'
    OBVIOUS
  <2>1. \A s \in Pattern \cup Group : s \in Seq(PatternToken) /\ Len(s) > 0 /\ FullSegments(s)
    BY RouterAssumption
  <2>2. CASE AddRoute
    <3>1. PICK pattern \in Pattern : routes' = Append(routes, pattern)
      BY <2>2 DEF AddRoute
    <3>2. Table(routes')
      BY <2>1, <3>1, TableGrows DEF RouterIInv
    <3>3. phase' # "frozen"
      BY <2>2 DEF AddRoute
    <3> QED
      BY <3>2, <3>3 DEF RouterIInv
  <2>3. CASE AddGroup
    <3>1. PICK prefix \in Group, pattern \in Pattern :
              routes' = Append(routes, join_group_route_pattern(prefix, pattern))
      BY <2>3 DEF AddGroup
    <3>2. PICK s : s = join_group_route_pattern(prefix, pattern)
      OBVIOUS
    <3>3. s \in Seq(PatternToken) /\ Len(s) > 0 /\ FullSegments(s)
      BY <2>1, <3>2, GroupFull
    <3>4. Table(routes')
      BY <3>1, <3>2, <3>3, TableGrows DEF RouterIInv
    <3>5. phase' # "frozen"
      BY <2>3 DEF AddGroup
    <3> QED
      BY <3>4, <3>5 DEF RouterIInv
  <2>4. CASE Freeze
    <3>1. PICK order \in SortedOrders(routes) : routes' = [i \in DOMAIN routes |-> routes[order[i]]]
      BY <2>4 DEF Freeze
    <3>2. Table(routes') /\ Sorted(routes')
      BY <3>1, TableSorted DEF RouterIInv
    <3>3. ~ConflictingNames(routes') /\ static_map' = BuildStatic(routes') /\ trie' = BuildTrie(routes')
      BY <2>4 DEF Freeze
    <3> QED
      BY <3>2, <3>3 DEF RouterIInv, Frozen
  <2>5. CASE Panic
    <3>1. routes' = routes /\ phase' # "frozen"
      BY <2>5 DEF Panic
    <3> QED
      BY <3>1 DEF RouterIInv
  <2>6. CASE UNCHANGED routerVars
    BY <2>6 DEF routerVars, RouterIInv, Frozen
  <2> QED
    BY <2>2, <2>3, <2>4, <2>5, <2>6 DEF RouterNext
<1> QED
  BY <1>1, <1>2, PTL DEF RouterSpec

\* ResolveAgrees: after freeze, the static map and the trie answer every path
\* like the linear scan, whatever the routes and the order they came in.
THEOREM TrieAgreesWithScan == RouterSpec => []ResolveAgrees
<1>1. RouterIInv => ResolveAgrees
  <2> SUFFICES ASSUME RouterIInv, phase = "frozen", \A i \in DOMAIN routes : NamesOnce(routes[i]),
                      NEW path \in RequestPath
               PROVE  LET linear == resolve_linear(path, {i \in DOMAIN routes : ~Left(routes[i], path)})
                          found == resolve(path)
                      IN  IF linear.route = NoRoute THEN found = NotFound
                          ELSE /\ found.route >= linear.route
                               /\ routes[found.route] = routes[linear.route]
                               /\ ToSet(found.params) = linear.params
    BY DEF ResolveAgrees, Left, Last
  <2>1. path \in Seq(Byte) /\ Len(path) > 0
    BY RouterAssumption
  <2>2. Table(routes) /\ Frozen /\ \A i \in 1 .. Len(routes) : NamesOnce(routes[i])
    BY TableIs DEF RouterIInv
  <2>3. PICK candidates : candidates = {i \in DOMAIN routes : ~Left(routes[i], path)}
    OBVIOUS
  <2>4. Agrees(resolve_linear(path, candidates), resolve(path))
    BY <2>1, <2>2, <2>3, FrozenAgrees
  <2> QED
    BY <2>3, <2>4 DEF Agrees
<1> QED
  BY <1>1, RouterInductive, PTL
=============================================================================
