---------------------------- MODULE DetectorProofs ----------------------------
(***************************************************************************)
(* Theorems about the detector for every network, picture, limit and       *)
(* failure: what post_process reports, and what is allocated.              *)
(*                                                                         *)
(* The argument for the first: each loop has its invariant, and each is    *)
(* stated of the values of the variables so that a step of the loop is a   *)
(* lemma about lists.  The sort is right because the list with the key put *)
(* back into its hole is always a permutation of the candidates, which     *)
(* every turn changes by one exchange inside the range in hand, and two    *)
(* places outside a common range still to be sorted are in order.          *)
(***************************************************************************)
EXTENDS Detector, SequenceTheorems, FiniteSetTheorems, TLAPS

\* A candidate as the loops see it.
Candidate == [score : Nat, class : UNION {DOMAIN cell.probs : cell \in Cells},
              box : {cell.box : cell \in Cells}]

Before == {"convert", "inputs", "run", "outputs", "decode"}
Sorting == {"sort", "down", "up"}
Around == {"free", "return", "crashed", "client", "model", "rknn_init", "query", "undo", "alloc"}

\* o has every candidate once.
Permutes(o, n) ==
    /\ o \in [1..n -> 1..n]
    /\ \A i, j \in 1..n : o[i] = o[j] => i = j
    /\ \A m \in 1..n : \E i \in 1..n : o[i] = m

\* Each place has the score of its candidate.
ScoresMatch(f, p, o, n) ==
    /\ p \in [1..n -> Nat]
    /\ \A i \in 1..n : o[i] # 0 => p[i] = f[o[i]].score

\* The ranges lie one after the other.
Ascending(rs, n) ==
    /\ rs \in Seq(Int \X Int)
    /\ \A k \in 1..Len(rs) : 1 <= rs[k][1] /\ rs[k][1] <= rs[k][2] + 1 /\ rs[k][2] <= n
    /\ \A k, l \in 1..Len(rs) : k < l => rs[k][2] < rs[l][1]

\* Two places are in order, or a call that is still to be made has both.
Settled(p, n, rs) ==
    \A i, j \in 1..n : i < j =>
        \/ p[i] >= p[j]
        \/ \E k \in 1..Len(rs) : rs[k][1] <= i /\ j <= rs[k][2]

\* A list with the value that was taken out of its hole.
Filled(f, hole, v) == [f EXCEPT ![hole] = v]

SortedSoFar(f, p, o, rs, n) ==
    /\ Permutes(o, n)
    /\ ScoresMatch(f, p, o, n)
    /\ Ascending(rs, n)
    /\ Settled(p, n, rs)

\* The call in hand: what it has passed on the left is no less than its key,
\* and on the right no greater.
Split(p, rs, lo, hi, k, n) ==
    /\ rs # <<>>
    /\ rs[1][1] <= lo /\ lo <= hi /\ hi <= rs[1][2] /\ rs[1][1] < rs[1][2]
    /\ \A x \in rs[1][1]..(lo - 1) : p[x] >= k
    /\ \A x \in (hi + 1)..rs[1][2] : p[x] <= k

SortInv ==
    /\ dpc = "sort" => SortedSoFar(found, probs, order, ranges, Len(found))
    /\ dpc = "down" =>
          /\ probs \in [1..Len(found) -> Nat] /\ order \in [1..Len(found) -> 1..Len(found)]
          /\ low \in 1..Len(found) /\ high \in 1..Len(found)
          /\ key \in Nat /\ keyIndex \in 1..Len(found)
          /\ SortedSoFar(found, Filled(probs, low, key), Filled(order, low, keyIndex), ranges,
                         Len(found))
          /\ Split(probs, ranges, low, high, key, Len(found))
    /\ dpc = "up" =>
          /\ probs \in [1..Len(found) -> Nat] /\ order \in [1..Len(found) -> 1..Len(found)]
          /\ low \in 1..Len(found) /\ high \in 1..Len(found)
          /\ key \in Nat /\ keyIndex \in 1..Len(found)
          /\ SortedSoFar(found, Filled(probs, high, key), Filled(order, high, keyIndex), ranges,
                         Len(found))
          /\ Split(probs, ranges, low, high, key, Len(found))

\* n suppresses m, of the candidates f.
Close(f, n, m) == f[n].class = f[m].class /\ Overlap(f[n].box, f[m].box)

\* The list is sorted and has a candidate at most once.
Ranked(f, p, o, n) ==
    /\ o \in [1..n -> 0..n]
    /\ \A i, j \in 1..n : o[i] = o[j] /\ o[i] # 0 => i = j
    /\ ScoresMatch(f, p, o, n)
    /\ \A i, j \in 1..n : i < j => p[i] >= p[j]

\* After the places before a: what has no place any more is suppressed by one
\* that has, and none of them suppresses what comes later.
Thinned(f, o, a, n) ==
    /\ \A m \in 1..n :
          \/ \E i \in 1..n : o[i] = m
          \/ \E k \in 1..(a - 1) : o[k] # 0 /\ Close(f, o[k], m) /\ f[o[k]].score >= f[m].score
    /\ \A k \in 1..(a - 1) : \A j \in (k + 1)..n :
          o[k] # 0 /\ o[j] # 0 => ~Close(f, o[k], o[j])

\* What is reported stands before a, and in that order; what stands before a
\* and is not reported found the list full of better ones.
Reported(f, p, o, res, a, n) ==
    /\ Len(res) <= MaxResults
    /\ \A x \in 1..Len(res) : \E k \in 1..(a - 1) :
          k <= n /\ o[k] # 0 /\ res[x].of = o[k] /\ res[x].score = p[k]
    /\ \A x, y \in 1..Len(res) : \A k, l \in 1..n :
          x < y /\ res[x].of = o[k] /\ res[y].of = o[l] => k < l
    /\ \A k \in 1..n : k < a /\ o[k] # 0 =>
          \/ \E x \in 1..Len(res) : res[x].of = o[k]
          \/ /\ Len(res) = MaxResults
             /\ \A x \in 1..Len(res) : res[x].score >= p[k]

ListInv ==
    /\ dpc = "nms" =>
          /\ at \in 1..(Len(found) + 1)
          /\ Ranked(found, probs, order, Len(found))
          /\ Thinned(found, order, at, Len(found))
    /\ dpc = "results" =>
          /\ at \in 1..(Len(found) + 1)
          /\ Ranked(found, probs, order, Len(found))
          /\ Thinned(found, order, Len(found) + 1, Len(found))
          /\ Reported(found, probs, order, results, at, Len(found))

\* What is reported of a picture.
Detection == [of : Nat, score : Nat, class : UNION {DOMAIN cell.probs : cell \in Cells},
           box : {MappedBack(cell.box) : cell \in Cells}]

PostTypes ==
    /\ dpc \in Before \cup Sorting \cup {"nms", "results", "release"} \cup Around
    /\ found \in Seq(Candidate)
    /\ results \in Seq(Detection)
    /\ dpc \notin {"results", "release", "free", "return"} => results = <<>>

-----------------------------------------------------------------------------
(* Lemmas about one step of the sort, on the values of the variables.      *)

\* t is s with two places exchanged.
Swapped(s, t, a, b, n) ==
    /\ t[a] = s[b] /\ t[b] = s[a]
    /\ \A x \in 1..n : x # a /\ x # b => t[x] = s[x]

LEMMA RangeTyped ==
    ASSUME NEW rs \in Seq(Int \X Int), NEW k \in 1..Len(rs)
    PROVE  rs[k][1] \in Int /\ rs[k][2] \in Int
<1>1. rs[k] \in Int \X Int
  BY ElementOfSeq
<1> QED
  BY <1>1

LEMMA RangesTail ==
    ASSUME NEW rs \in Seq(Int \X Int), rs # <<>>
    PROVE  /\ Tail(rs) \in Seq(Int \X Int)
           /\ Len(rs) \in Nat /\ Len(rs) >= 1
           /\ Len(Tail(rs)) = Len(rs) - 1
           /\ \A k \in 1..Len(Tail(rs)) : Tail(rs)[k] = rs[k + 1]
  BY HeadTailProperties, LenProperties

LEMMA SwapPermutes ==
    ASSUME NEW n \in Nat, NEW o, NEW r, Permutes(o, n), NEW a \in 1..n, NEW b \in 1..n,
           r \in [1..n -> 1..n], Swapped(o, r, a, b, n)
    PROVE  Permutes(r, n)
<1> DEFINE From(i) == IF i = a THEN b ELSE IF i = b THEN a ELSE i
<1>0. \A i \in 1..n : From(i) \in 1..n /\ r[i] = o[From(i)]
  BY DEF Swapped
<1>1. \A i, j \in 1..n : r[i] = r[j] => i = j
  <2> SUFFICES ASSUME NEW i \in 1..n, NEW j \in 1..n, r[i] = r[j] PROVE i = j
    OBVIOUS
  <2>1. From(i) \in 1..n /\ From(j) \in 1..n /\ o[From(i)] = o[From(j)]
    BY <1>0
  <2>2. From(i) = From(j)
    <3> HIDE DEF From
    <3> QED
      BY <2>1 DEF Permutes
  <2> QED
    BY <2>2
<1>2. ASSUME NEW m \in 1..n PROVE \E i \in 1..n : r[i] = m
  <2>1. PICK i \in 1..n : o[i] = m
    BY DEF Permutes
  <2>2. CASE i = a
    BY <2>1, <2>2 DEF Swapped
  <2>3. CASE i = b
    BY <2>1, <2>3 DEF Swapped
  <2>4. CASE i # a /\ i # b
    BY <2>1, <2>4 DEF Swapped
  <2> QED
    BY <2>2, <2>3, <2>4
<1> QED
  BY <1>1, <1>2 DEF Permutes

LEMMA SwapMatches ==
    ASSUME NEW n \in Nat, NEW f, NEW p, NEW o, NEW q, NEW r, ScoresMatch(f, p, o, n),
           o \in [1..n -> 1..n], r \in [1..n -> 1..n],
           NEW a \in 1..n, NEW b \in 1..n, q \in [1..n -> Nat],
           Swapped(p, q, a, b, n), Swapped(o, r, a, b, n)
    PROVE  ScoresMatch(f, q, r, n)
<1>1. ASSUME NEW i \in 1..n PROVE q[i] = f[r[i]].score
  <2>0. \A j \in 1..n : o[j] # 0
    OBVIOUS
  <2>1. \A j \in 1..n : p[j] = f[o[j]].score
    BY <2>0 DEF ScoresMatch
  <2>2. CASE i = a
    BY <2>1, <2>2 DEF Swapped
  <2>3. CASE i = b
    BY <2>1, <2>3 DEF Swapped
  <2>4. CASE i # a /\ i # b
    BY <2>1, <2>4 DEF Swapped
  <2> QED
    BY <2>2, <2>3, <2>4
<1> QED
  BY <1>1 DEF ScoresMatch

\* What lies outside the range in hand is settled against the whole of it.
LEMMA SwapSettles ==
    ASSUME NEW n \in Nat, NEW p, NEW q, NEW rs, Ascending(rs, n), rs # <<>>,
           p \in [1..n -> Nat], q \in [1..n -> Nat], Settled(p, n, rs),
           NEW a \in 1..n, NEW b \in 1..n,
           rs[1][1] <= a, a <= rs[1][2], rs[1][1] <= b, b <= rs[1][2],
           Swapped(p, q, a, b, n)
    PROVE  Settled(q, n, rs)
<1>1. Len(rs) \in Nat /\ 1 \in 1..Len(rs)
  <2>1. rs \in Seq(Int \X Int)
    BY DEF Ascending
  <2>2. Len(rs) \in Nat /\ Len(rs) >= 1
    BY <2>1, RangesTail
  <2> QED
    BY <2>2
<1>2. \A k \in 1..Len(rs) : rs[k][1] \in Int /\ rs[k][2] \in Int
  <2>1. rs \in Seq(Int \X Int)
    BY DEF Ascending
  <2> QED
    BY <2>1, RangeTyped
<1> DEFINE L == rs[1][1]
           R == rs[1][2]
           In(i) == L <= i /\ i <= R
<1>3. L \in Int /\ R \in Int /\ In(a) /\ In(b)
  BY <1>1, <1>2
<1>4. ASSUME NEW k \in 1..Len(rs), k # 1 PROVE R < rs[k][1]
  <2>1. 1 < k
    BY <1>1, <1>4
  <2> QED
    BY <2>1, <1>1 DEF Ascending
<1> SUFFICES ASSUME NEW i \in 1..n, NEW j \in 1..n, i < j
             PROVE  \/ q[i] >= q[j]
                    \/ \E k \in 1..Len(rs) : rs[k][1] <= i /\ j <= rs[k][2]
  BY DEF Settled
<1>5. \A x, y \in 1..n : x < y =>
          \/ p[x] >= p[y]
          \/ \E k \in 1..Len(rs) : rs[k][1] <= x /\ y <= rs[k][2]
  BY DEF Settled
<1>10. rs[1][1] = L /\ rs[1][2] = R
  OBVIOUS
<1>11. /\ q[a] = p[b] /\ q[b] = p[a]
       /\ \A x \in 1..n : x # a /\ x # b => q[x] = p[x]
  BY DEF Swapped
<1>12. \A x \in 1..n : p[x] \in Nat /\ q[x] \in Nat
  OBVIOUS
<1> HIDE DEF L, R
<1>6. CASE In(i) /\ In(j)
  BY <1>1, <1>6, <1>10
<1>7. CASE ~In(i) /\ ~In(j)
  <2>1. q[i] = p[i] /\ q[j] = p[j]
    BY <1>7, <1>3, <1>11
  <2> QED
    BY <2>1, <1>5
<1>8. CASE In(i) /\ ~In(j)
  <2>1. R < j /\ j # a /\ j # b
    BY <1>8, <1>3
  <2>2. q[j] = p[j]
    BY <2>1, <1>11
  <2>3. PICK x \in 1..n : In(x) /\ q[i] = p[x]
    BY <1>8, <1>3, <1>11
  <2>4. ASSUME NEW k \in 1..Len(rs), rs[k][1] <= x, j <= rs[k][2] PROVE FALSE
    <3>1. CASE k = 1
      BY <3>1, <2>1, <2>4, <1>3, <1>10
    <3>2. CASE k # 1
      <4>1. R < rs[k][1] /\ rs[k][1] \in Int
        BY <3>2, <1>4, <1>2
      <4>2. x \in Int /\ x <= R
        BY <2>3
      <4> QED
        BY <4>1, <4>2, <2>4, <1>3
    <3> QED
      BY <3>1, <3>2
  <2>5. x < j
    BY <2>1, <2>3, <1>3
  <2>6. p[x] >= p[j]
    BY <2>4, <2>5, <1>5
  <2> QED
    BY <2>2, <2>3, <2>6
<1>9. CASE ~In(i) /\ In(j)
  <2>1. i < L /\ i # a /\ i # b
    BY <1>9, <1>3
  <2>2. q[i] = p[i]
    BY <2>1, <1>11
  <2>3. PICK x \in 1..n : In(x) /\ q[j] = p[x]
    BY <1>9, <1>3, <1>11
  <2>4. ASSUME NEW k \in 1..Len(rs), rs[k][1] <= i, x <= rs[k][2] PROVE FALSE
    <3>1. CASE k = 1
      BY <3>1, <2>1, <2>4, <1>3, <1>10
    <3>2. CASE k # 1
      <4>1. R < rs[k][1] /\ rs[k][1] \in Int
        BY <3>2, <1>4, <1>2
      <4>2. i \in Int /\ L <= R
        BY <1>3
      <4> QED
        BY <4>1, <4>2, <2>1, <2>4, <1>3
    <3> QED
      BY <3>1, <3>2
  <2>5. i < x
    BY <2>1, <2>3, <1>3
  <2>6. p[i] >= p[x]
    BY <2>4, <2>5, <1>5
  <2> QED
    BY <2>2, <2>3, <2>6
<1> QED
  BY <1>6, <1>7, <1>8, <1>9

LEMMA SwapKeeps ==
    ASSUME NEW n \in Nat, NEW f, NEW p, NEW o, NEW q, NEW r, NEW rs,
           SortedSoFar(f, p, o, rs, n), rs # <<>>,
           NEW a \in 1..n, NEW b \in 1..n,
           rs[1][1] <= a, a <= rs[1][2], rs[1][1] <= b, b <= rs[1][2],
           q \in [1..n -> Nat], r \in [1..n -> 1..n],
           Swapped(p, q, a, b, n), Swapped(o, r, a, b, n)
    PROVE  SortedSoFar(f, q, r, rs, n)
<1>1. Permutes(r, n)
  BY SwapPermutes DEF SortedSoFar
<1>2. o \in [1..n -> 1..n] /\ p \in [1..n -> Nat]
  BY DEF SortedSoFar, Permutes, ScoresMatch
<1>3. ScoresMatch(f, q, r, n)
  BY <1>2, SwapMatches DEF SortedSoFar
<1>4. Ascending(rs, n) /\ Settled(p, n, rs)
  BY DEF SortedSoFar
<1>5. Settled(q, n, rs)
  BY <1>2, <1>4, SwapSettles
<1> QED
  BY <1>1, <1>3, <1>4, <1>5 DEF SortedSoFar

\* The range in hand is replaced by two.
LEMMA RangesSplit ==
    ASSUME NEW rs \in Seq(Int \X Int), rs # <<>>, NEW u \in Int \X Int, NEW v \in Int \X Int,
           NEW t, t = <<u, v>> \o Tail(rs)
    PROVE  /\ t \in Seq(Int \X Int)
           /\ Len(t) \in Nat
           /\ Len(t) = Len(rs) + 1
           /\ t[1] = u /\ t[2] = v
           /\ \A k \in 3..Len(t) : t[k] = rs[k - 1]
<1>1. Tail(rs) \in Seq(Int \X Int) /\ Len(Tail(rs)) = Len(rs) - 1 /\ Len(rs) \in Nat
  BY RangesTail
<1>2. <<u, v>> \in Seq(Int \X Int) /\ Len(<<u, v>>) = 2
  OBVIOUS
<1>3. t \in Seq(Int \X Int) /\ Len(t) = Len(rs) + 1
  BY <1>1, <1>2, ConcatProperties
<1>4. t[1] = u /\ t[2] = v
  BY <1>1, <1>2, ConcatProperties
<1>5. ASSUME NEW k \in 3..Len(t) PROVE t[k] = rs[k - 1]
  <2>1. t[k] = Tail(rs)[k - 2]
    BY <1>1, <1>2, <1>3, ConcatProperties
  <2>2. k - 2 \in 1..Len(Tail(rs)) /\ (k - 2) + 1 = k - 1
    BY <1>1, <1>3
  <2> QED
    BY <2>1, <2>2, RangesTail
<1> QED
  BY <1>1, <1>3, <1>4, <1>5

LEMMA StartSorted ==
    ASSUME NEW n \in Nat, n >= 1, NEW f, NEW p, NEW o, NEW rs,
           p = [i \in 1..n |-> f[i].score], o = [i \in 1..n |-> i],
           \A i \in 1..n : f[i].score \in Nat, rs = <<<<1, n>>>>
    PROVE  SortedSoFar(f, p, o, rs, n)
<1>1. Permutes(o, n)
  BY DEF Permutes
<1>2. ScoresMatch(f, p, o, n)
  BY DEF ScoresMatch
<1>3. rs \in Seq(Int \X Int) /\ Len(rs) = 1 /\ rs[1][1] = 1 /\ rs[1][2] = n
  OBVIOUS
<1>4. Ascending(rs, n)
  BY <1>3 DEF Ascending
<1>5. Settled(p, n, rs)
  BY <1>3 DEF Settled
<1> QED
  BY <1>1, <1>2, <1>4, <1>5 DEF SortedSoFar

LEMMA SkipKeeps ==
    ASSUME NEW n \in Nat, NEW f, NEW p, NEW o, NEW rs,
           SortedSoFar(f, p, o, rs, n), rs # <<>>, rs[1][1] >= rs[1][2]
    PROVE  SortedSoFar(f, p, o, Tail(rs), n)
<1>1. Ascending(rs, n) /\ Settled(p, n, rs)
  BY DEF SortedSoFar
<1>2. rs \in Seq(Int \X Int)
  BY <1>1 DEF Ascending
<1> DEFINE t == Tail(rs)
<1>3. /\ t \in Seq(Int \X Int)
      /\ Len(rs) \in Nat /\ Len(t) = Len(rs) - 1 /\ Len(rs) >= 1
      /\ \A k \in 1..Len(t) : t[k] = rs[k + 1] /\ k + 1 \in 1..Len(rs)
  BY <1>2, RangesTail
<1>4. \A k \in 1..Len(rs) : rs[k][1] \in Int /\ rs[k][2] \in Int
  BY <1>2, RangeTyped
<1>5. Ascending(t, n)
  <2> HIDE DEF t
  <2>1. \A k \in 1..Len(t) : 1 <= t[k][1] /\ t[k][1] <= t[k][2] + 1 /\ t[k][2] <= n
    BY <1>1, <1>3 DEF Ascending
  <2>2. ASSUME NEW k \in 1..Len(t), NEW l \in 1..Len(t), k < l PROVE t[k][2] < t[l][1]
    <3>1. k + 1 \in 1..Len(rs) /\ l + 1 \in 1..Len(rs) /\ k + 1 < l + 1
      BY <2>2, <1>3
    <3>2. rs[k + 1][2] < rs[l + 1][1]
      BY <3>1, <1>1 DEF Ascending
    <3> QED
      BY <3>2, <1>3
  <2> QED
    BY <1>3, <2>1, <2>2 DEF Ascending
<1>6. Settled(p, n, t)
  <2> HIDE DEF t
  <2> SUFFICES ASSUME NEW i \in 1..n, NEW j \in 1..n, i < j, ~(p[i] >= p[j])
               PROVE  \E k \in 1..Len(t) : t[k][1] <= i /\ j <= t[k][2]
    BY DEF Settled
  <2>1. PICK k \in 1..Len(rs) : rs[k][1] <= i /\ j <= rs[k][2]
    BY <1>1 DEF Settled
  <2>2. k # 1
    BY <2>1, <1>4
  <2>3. k - 1 \in 1..Len(t) /\ (k - 1) + 1 = k
    BY <2>2, <1>3
  <2>4. t[k - 1] = rs[k]
    BY <2>3, <1>3
  <2> QED
    BY <2>1, <2>3, <2>4
<1> QED
  BY <1>5, <1>6 DEF SortedSoFar

\* The key is at c: what was to be settled is left of it, or right of it.
LEMMA PlaceKeeps ==
    ASSUME NEW n \in Nat, NEW f, NEW p, NEW o, NEW rs, NEW t, NEW c \in 1..n,
           SortedSoFar(f, p, o, rs, n), rs # <<>>,
           t = <<<<rs[1][1], c - 1>>, <<c + 1, rs[1][2]>>>> \o Tail(rs),
           rs[1][1] <= c, c <= rs[1][2],
           \A x \in rs[1][1]..(c - 1) : p[x] >= p[c],
           \A x \in (c + 1)..rs[1][2] : p[x] <= p[c]
    PROVE  SortedSoFar(f, p, o, t, n)
<1>1. Ascending(rs, n) /\ Settled(p, n, rs) /\ p \in [1..n -> Nat]
  BY DEF SortedSoFar, ScoresMatch
<1>2. rs \in Seq(Int \X Int) /\ Len(rs) \in Nat /\ Len(rs) >= 1
  BY <1>1, RangesTail DEF Ascending
<1>3. \A k \in 1..Len(rs) : rs[k][1] \in Int /\ rs[k][2] \in Int
  BY <1>2, RangeTyped
<1> DEFINE L == rs[1][1]
           R == rs[1][2]
<1>4. L \in Int /\ R \in Int /\ L <= c /\ c <= R /\ 1 <= L /\ R <= n
  BY <1>1, <1>2, <1>3 DEF Ascending
<1>5. rs[1][1] = L /\ rs[1][2] = R
  OBVIOUS
<1>6. /\ \A x \in L..(c - 1) : p[x] >= p[c]
      /\ \A x \in (c + 1)..R : p[x] <= p[c]
  OBVIOUS
<1>7. t = <<<<L, c - 1>>, <<c + 1, R>>>> \o Tail(rs)
  OBVIOUS
<1> HIDE DEF L, R
<1>8. <<L, c - 1>> \in Int \X Int /\ <<c + 1, R>> \in Int \X Int
  BY <1>4
<1>9. /\ t \in Seq(Int \X Int)
      /\ Len(t) \in Nat /\ Len(t) = Len(rs) + 1
      /\ t[1] = <<L, c - 1>> /\ t[2] = <<c + 1, R>>
      /\ \A k \in 3..Len(t) : t[k] = rs[k - 1] /\ k - 1 \in 2..Len(rs)
  <2>1. /\ t \in Seq(Int \X Int)
        /\ Len(t) \in Nat /\ Len(t) = Len(rs) + 1
        /\ t[1] = <<L, c - 1>> /\ t[2] = <<c + 1, R>>
        /\ \A k \in 3..Len(t) : t[k] = rs[k - 1]
    BY <1>2, <1>7, <1>8, RangesSplit
  <2>2. ASSUME NEW k \in 3..Len(t) PROVE k - 1 \in 2..Len(rs)
    <3>1. k \in Int /\ 3 <= k /\ k <= Len(rs) + 1
      BY <1>2, <2>1
    <3> QED
      BY <3>1, <1>2
  <2> QED
    BY <2>1, <2>2
<1>10. /\ t[1][1] = L /\ t[1][2] = c - 1 /\ t[2][1] = c + 1 /\ t[2][2] = R
  BY <1>9
<1>14. \A k, l \in 1..Len(rs) : k < l => rs[k][2] < rs[l][1]
  BY <1>1 DEF Ascending
<1>11. ASSUME NEW k \in 2..Len(rs) PROVE R < rs[k][1]
  <2>1. 1 \in 1..Len(rs) /\ k \in 1..Len(rs) /\ 1 < k
    BY <1>2
  <2> QED
    BY <2>1, <1>5, <1>14
<1>12. Ascending(t, n)
  <2>1. \A k \in 3..Len(t) : 1 <= t[k][1] /\ t[k][1] <= t[k][2] + 1 /\ t[k][2] <= n
    BY <1>1, <1>2, <1>9 DEF Ascending
  <2>2. \A k \in {1, 2} : 1 <= t[k][1] /\ t[k][1] <= t[k][2] + 1 /\ t[k][2] <= n
    BY <1>4, <1>10
  <2>3. ASSUME NEW k \in 3..Len(t), NEW l \in 3..Len(t), k < l PROVE t[k][2] < t[l][1]
    <3>3. k \in Int /\ l \in Int
      OBVIOUS
    <3>1. k - 1 \in 1..Len(rs) /\ l - 1 \in 1..Len(rs) /\ k - 1 < l - 1
      BY <2>3, <3>3, <1>2, <1>9
    <3>2. rs[k - 1][2] < rs[l - 1][1]
      BY <3>1, <1>14
    <3> QED
      BY <3>2, <1>9
  <2>4. \A l \in 3..Len(t) : t[1][2] < t[l][1] /\ t[2][2] < t[l][1]
    <3> SUFFICES ASSUME NEW l \in 3..Len(t) PROVE t[1][2] < t[l][1] /\ t[2][2] < t[l][1]
      OBVIOUS
    <3>1. R < t[l][1] /\ t[l][1] \in Int
      <4>1. l - 1 \in 2..Len(rs) /\ l - 1 \in 1..Len(rs) /\ t[l] = rs[l - 1]
        BY <1>2, <1>9
      <4> QED
        BY <4>1, <1>3, <1>11
    <3> QED
      BY <3>1, <1>4, <1>10
  <2>5. t[1][2] < t[2][1]
    BY <1>4, <1>10
  <2>6. \A k \in 1..Len(t) : k \in {1, 2} \/ k \in 3..Len(t)
    BY <1>9
  <2>7. \A k \in 1..Len(t) : 1 <= t[k][1] /\ t[k][1] <= t[k][2] + 1 /\ t[k][2] <= n
    BY <2>1, <2>2, <2>6
  <2>8. ASSUME NEW k \in 1..Len(t), NEW l \in 1..Len(t), k < l PROVE t[k][2] < t[l][1]
    <3>1. CASE k \in 3..Len(t)
      BY <3>1, <2>3, <2>8, <1>9
    <3>2. CASE k \in {1, 2} /\ l \in 3..Len(t)
      BY <3>2, <2>4
    <3>3. CASE k = 1 /\ l = 2
      BY <3>3, <2>5
    <3>4. k \in {1, 2} /\ l \notin 3..Len(t) => k = 1 /\ l = 2
      BY <2>6, <2>8
    <3> QED
      BY <3>1, <3>2, <3>3, <3>4, <2>6
  <2> QED
    BY <1>9, <2>7, <2>8 DEF Ascending
<1>13. Settled(p, n, t)
  <2> SUFFICES ASSUME NEW i \in 1..n, NEW j \in 1..n, i < j, ~(p[i] >= p[j])
               PROVE  \E k \in 1..Len(t) : t[k][1] <= i /\ j <= t[k][2]
    BY DEF Settled
  <2>1. PICK k \in 1..Len(rs) : rs[k][1] <= i /\ j <= rs[k][2]
    BY <1>1 DEF Settled
  <2>2. CASE k # 1
    <3>1. k + 1 \in 3..Len(t) /\ (k + 1) - 1 = k
      BY <2>2, <1>2, <1>9
    <3>2. t[k + 1] = rs[k]
      BY <3>1, <1>9
    <3>3. k + 1 \in 1..Len(t)
      BY <3>1
    <3> QED
      BY <2>1, <3>2, <3>3
  <2>3. CASE k = 1
    <3>1. L <= i /\ j <= R
      BY <2>1, <2>3, <1>5
    <3>2. p[i] \in Nat /\ p[j] \in Nat /\ p[c] \in Nat
      BY <1>1
    <3>3. CASE j <= c - 1
      <4>1. 1 \in 1..Len(t)
        BY <1>2, <1>9
      <4> QED
        BY <3>1, <3>3, <4>1, <1>10
    <3>4. CASE i >= c + 1
      <4>1. 2 \in 1..Len(t)
        BY <1>2, <1>9
      <4> QED
        BY <3>1, <3>4, <4>1, <1>10
    <3>5. CASE i <= c /\ c <= j
      <4>1. p[i] >= p[c]
        <5>1. CASE i = c
          BY <5>1, <3>2
        <5>2. CASE i # c
          <6>1. i \in L..(c - 1)
            BY <5>2, <3>1, <3>5, <1>4
          <6> QED
            BY <6>1, <1>6
        <5> QED
          BY <5>1, <5>2
      <4>2. p[j] <= p[c]
        <5>1. CASE j = c
          BY <5>1, <3>2
        <5>2. CASE j # c
          <6>1. j \in (c + 1)..R
            BY <5>2, <3>1, <3>5, <1>4
          <6> QED
            BY <6>1, <1>6
        <5> QED
          BY <5>1, <5>2
      <4>3. p[i] >= p[j]
        BY <4>1, <4>2, <3>2
      <4> QED
        BY <4>3
    <3>6. j <= c - 1 \/ i >= c + 1 \/ (i <= c /\ c <= j)
      OBVIOUS
    <3> QED
      BY <3>3, <3>4, <3>5, <3>6
  <2> QED
    BY <2>2, <2>3
<1> QED
  BY <1>12, <1>13 DEF SortedSoFar

LEMMA EndSorted ==
    ASSUME NEW n \in Nat, NEW f, NEW p, NEW o, SortedSoFar(f, p, o, <<>>, n)
    PROVE  Ranked(f, p, o, n) /\ Thinned(f, o, 1, n)
<1>1. Permutes(o, n) /\ ScoresMatch(f, p, o, n) /\ Settled(p, n, <<>>)
  BY DEF SortedSoFar
<1>2. \A i, j \in 1..n : i < j => p[i] >= p[j]
  BY <1>1 DEF Settled
<1>6. o \in [1..n -> 0..n]
  <2>1. o \in [1..n -> 1..n]
    BY <1>1 DEF Permutes
  <2>2. \A i \in 1..n : o[i] \in 0..n
    BY <2>1
  <2> QED
    BY <2>1, <2>2
<1>7. \A i, j \in 1..n : o[i] = o[j] => i = j
  BY <1>1 DEF Permutes
<1>3. Ranked(f, p, o, n)
  BY <1>1, <1>2, <1>6, <1>7 DEF Ranked
<1>4. \A m \in 1..n : \E i \in 1..n : o[i] = m
  BY <1>1 DEF Permutes
<1>5. Thinned(f, o, 1, n)
  BY <1>4 DEF Thinned
<1> QED
  BY <1>3, <1>5

-----------------------------------------------------------------------------
(* Lemmas about one step of nms, and of the loop over the results.         *)

LEMMA NmsKeeps ==
    ASSUME NEW n \in Nat, NEW f, NEW p, NEW o, NEW q, NEW a \in 1..n,
           Ranked(f, p, o, n), Thinned(f, o, a, n),
           q = [j \in 1..n |->
                   IF a < j /\ o[a] # 0 /\ o[j] # 0 /\ Close(f, o[a], o[j]) THEN 0 ELSE o[j]]
    PROVE  Ranked(f, p, q, n) /\ Thinned(f, q, a + 1, n)
<1>1. /\ o \in [1..n -> 0..n]
      /\ \A i, j \in 1..n : o[i] = o[j] /\ o[i] # 0 => i = j
      /\ ScoresMatch(f, p, o, n)
      /\ \A i, j \in 1..n : i < j => p[i] >= p[j]
  BY DEF Ranked
<1>2. /\ p \in [1..n -> Nat]
      /\ \A i \in 1..n : o[i] # 0 => p[i] = f[o[i]].score
  BY <1>1 DEF ScoresMatch
<1> DEFINE Gone(j) == a < j /\ o[a] # 0 /\ o[j] # 0 /\ Close(f, o[a], o[j])
<1>3. \A j \in 1..n : q[j] = IF Gone(j) THEN 0 ELSE o[j]
  OBVIOUS
<1>4. q = [j \in 1..n |-> IF Gone(j) THEN 0 ELSE o[j]]
  OBVIOUS
<1>5. \A j \in 1..n : j <= a => ~Gone(j)
  OBVIOUS
<1>6. \A j \in 1..n : Gone(j) => /\ a < j /\ o[a] # 0 /\ o[j] # 0
                                 /\ Close(f, o[a], o[j])
  OBVIOUS
<1>7. \A j \in 1..n : ~Gone(j) /\ a < j /\ o[a] # 0 /\ o[j] # 0 => ~Close(f, o[a], o[j])
  OBVIOUS
<1> HIDE DEF Gone
<1>8. q \in [1..n -> 0..n]
  BY <1>1, <1>4
<1>9. \A j \in 1..n : q[j] # 0 => q[j] = o[j] /\ ~Gone(j)
  BY <1>3
<1>10. Ranked(f, p, q, n)
  <2>1. \A i, j \in 1..n : q[i] = q[j] /\ q[i] # 0 => i = j
    BY <1>1, <1>9
  <2>2. ScoresMatch(f, p, q, n)
    BY <1>2, <1>9 DEF ScoresMatch
  <2> QED
    BY <1>1, <1>8, <2>1, <2>2 DEF Ranked
<1>11. \A k \in 1..a : q[k] = o[k] /\ k \in 1..n
  BY <1>3, <1>5
<1>12. (a + 1) - 1 = a /\ a \in 1..a
  OBVIOUS
<1>13. ASSUME NEW m \in 1..n
       PROVE  \/ \E i \in 1..n : q[i] = m
              \/ \E k \in 1..a : q[k] # 0 /\ Close(f, q[k], m) /\ f[q[k]].score >= f[m].score
  <2>1. CASE \E i \in 1..n : o[i] = m
    <3>1. PICK i \in 1..n : o[i] = m
      BY <2>1
    <3>2. CASE ~Gone(i)
      BY <3>1, <3>2, <1>3
    <3>3. CASE Gone(i)
      <4>1. a < i /\ o[a] # 0 /\ Close(f, o[a], m)
        BY <3>1, <3>3, <1>6
      <4>2. p[a] = f[o[a]].score /\ p[i] = f[m].score /\ p[a] >= p[i]
        BY <4>1, <3>1, <1>1, <1>2
      <4>3. q[a] # 0 /\ Close(f, q[a], m) /\ f[q[a]].score >= f[m].score
        BY <4>1, <4>2, <1>11, <1>12
      <4> QED
        BY <4>3, <1>12
    <3> QED
      BY <3>2, <3>3
  <2>2. CASE \E k \in 1..(a - 1) :
                 o[k] # 0 /\ Close(f, o[k], m) /\ f[o[k]].score >= f[m].score
    <3>1. PICK k \in 1..(a - 1) :
              o[k] # 0 /\ Close(f, o[k], m) /\ f[o[k]].score >= f[m].score
      BY <2>2
    <3>2. k \in 1..a
      OBVIOUS
    <3> QED
      BY <3>1, <3>2, <1>11
  <2> QED
    BY <2>1, <2>2 DEF Thinned
<1>14. ASSUME NEW k \in 1..a, NEW j \in (k + 1)..n, q[k] # 0, q[j] # 0
       PROVE  ~Close(f, q[k], q[j])
  <2>1. j \in 1..n /\ k \in 1..n /\ k < j
    OBVIOUS
  <2>2. q[k] = o[k] /\ q[j] = o[j] /\ ~Gone(j)
    BY <2>1, <1>9, <1>14
  <2>3. CASE k = a
    BY <2>1, <2>2, <2>3, <1>7, <1>14
  <2>4. CASE k # a
    <3>1. k \in 1..(a - 1)
      BY <2>4
    <3> QED
      BY <3>1, <2>2, <1>14 DEF Thinned
  <2> QED
    BY <2>3, <2>4
<1>15. Thinned(f, q, a + 1, n)
  BY <1>12, <1>13, <1>14 DEF Thinned
<1> QED
  BY <1>10, <1>15

LEMMA PassKeeps ==
    ASSUME NEW n \in Nat, NEW f, NEW p, NEW o, NEW res, NEW a \in 1..n,
           Ranked(f, p, o, n), Reported(f, p, o, res, a, n), Len(res) \in Nat,
           o[a] = 0 \/ Len(res) >= MaxResults
    PROVE  Reported(f, p, o, res, a + 1, n)
<1>1. /\ p \in [1..n -> Nat]
      /\ \A i, j \in 1..n : i < j => p[i] >= p[j]
  BY DEF Ranked, ScoresMatch
<1>2. /\ Len(res) <= MaxResults
      /\ \A x, y \in 1..Len(res) : \A k, l \in 1..n :
            x < y /\ res[x].of = o[k] /\ res[y].of = o[l] => k < l
  BY DEF Reported
<1>3. \A x \in 1..Len(res) : \E k \in 1..(a - 1) :
          k <= n /\ o[k] # 0 /\ res[x].of = o[k] /\ res[x].score = p[k]
  BY DEF Reported
<1>4. \A x \in 1..Len(res) : \E k \in 1..((a + 1) - 1) :
          k <= n /\ o[k] # 0 /\ res[x].of = o[k] /\ res[x].score = p[k]
  <2> SUFFICES ASSUME NEW x \in 1..Len(res)
               PROVE  \E k \in 1..((a + 1) - 1) :
                          k <= n /\ o[k] # 0 /\ res[x].of = o[k] /\ res[x].score = p[k]
    OBVIOUS
  <2>1. PICK k \in 1..(a - 1) :
            k <= n /\ o[k] # 0 /\ res[x].of = o[k] /\ res[x].score = p[k]
    BY <1>3
  <2>2. k \in 1..((a + 1) - 1)
    OBVIOUS
  <2> QED
    BY <2>1, <2>2
<1>5. ASSUME NEW k \in 1..n, k < a + 1, o[k] # 0
      PROVE  \/ \E x \in 1..Len(res) : res[x].of = o[k]
             \/ /\ Len(res) = MaxResults
                /\ \A x \in 1..Len(res) : res[x].score >= p[k]
  <2>1. CASE k < a
    BY <2>1, <1>5 DEF Reported
  <2>2. CASE k = a
    <3>1. Len(res) = MaxResults
      BY <2>2, <1>2, <1>5, DetectorAssumption
    <3>2. ASSUME NEW x \in 1..Len(res) PROVE res[x].score >= p[k]
      <4>1. PICK l \in 1..(a - 1) : l <= n /\ res[x].score = p[l]
        BY <1>3
      <4>2. l \in 1..n /\ l < k
        BY <4>1, <2>2
      <4> QED
        BY <4>1, <4>2, <1>1
    <3> QED
      BY <3>1, <3>2
  <2> QED
    BY <2>1, <2>2, <1>5
<1> QED
  BY <1>2, <1>4, <1>5 DEF Reported

LEMMA ReportKeeps ==
    ASSUME NEW n \in Nat, NEW f, NEW p, NEW o, NEW res, NEW new, NEW e, NEW a \in 1..n,
           Ranked(f, p, o, n), Reported(f, p, o, res, a, n),
           Len(res) \in Nat, Len(res) < MaxResults, o[a] # 0,
           Len(new) = Len(res) + 1, new[Len(res) + 1] = e,
           \A x \in 1..Len(res) : new[x] = res[x],
           e.of = o[a], e.score = p[a]
    PROVE  Reported(f, p, o, new, a + 1, n)
<1>1. /\ p \in [1..n -> Nat]
      /\ \A i, j \in 1..n : i < j => p[i] >= p[j]
      /\ \A i, j \in 1..n : o[i] = o[j] /\ o[i] # 0 => i = j
  BY DEF Ranked, ScoresMatch
<1>2. \A x, y \in 1..Len(res) : \A k, l \in 1..n :
          x < y /\ res[x].of = o[k] /\ res[y].of = o[l] => k < l
  BY DEF Reported
<1>3. \A x \in 1..Len(res) : \E k \in 1..(a - 1) :
          k <= n /\ o[k] # 0 /\ res[x].of = o[k] /\ res[x].score = p[k]
  BY DEF Reported
<1> DEFINE c == Len(res) + 1
<1>4. /\ c \in Nat /\ Len(new) = c /\ c - 1 = Len(res) /\ new[c] = e /\ c \in 1..c
      /\ \A x \in 1..(c - 1) : new[x] = res[x]
  OBVIOUS
<1>5. \A x \in 1..c : x = c \/ x \in 1..(c - 1)
  BY <1>4
<1>6. Len(new) <= MaxResults
  BY <1>4, DetectorAssumption
<1> HIDE DEF c
<1>7. ASSUME NEW x \in 1..c
      PROVE  \E k \in 1..((a + 1) - 1) :
                 k <= n /\ o[k] # 0 /\ new[x].of = o[k] /\ new[x].score = p[k]
  <2>1. CASE x = c
    <3>1. a \in 1..((a + 1) - 1) /\ a <= n
      OBVIOUS
    <3> QED
      BY <3>1, <2>1, <1>4
  <2>2. CASE x \in 1..(c - 1)
    <3>1. PICK k \in 1..(a - 1) :
              k <= n /\ o[k] # 0 /\ res[x].of = o[k] /\ res[x].score = p[k]
      BY <2>2, <1>3, <1>4
    <3>2. k \in 1..((a + 1) - 1)
      OBVIOUS
    <3> QED
      BY <3>1, <3>2, <2>2, <1>4
  <2> QED
    BY <2>1, <2>2, <1>5
<1>8. ASSUME NEW x \in 1..c, NEW y \in 1..c, NEW k \in 1..n, NEW l \in 1..n,
             x < y, new[x].of = o[k], new[y].of = o[l]
      PROVE  k < l
  <2>1. x \in 1..(c - 1)
    BY <1>4, <1>8
  <2>2. CASE y \in 1..(c - 1)
    BY <2>1, <2>2, <1>2, <1>4, <1>8
  <2>3. CASE y = c
    <3>1. o[l] = o[a] /\ o[a] # 0
      BY <2>3, <1>4, <1>8
    <3>2. l = a
      BY <3>1, <1>1
    <3>3. PICK i \in 1..(a - 1) : i <= n /\ o[i] # 0 /\ res[x].of = o[i]
      BY <2>1, <1>3, <1>4
    <3>4. o[i] = o[k] /\ i \in 1..n
      BY <3>3, <2>1, <1>4, <1>8
    <3>5. i = k
      BY <3>3, <3>4, <1>1
    <3> QED
      BY <3>2, <3>3, <3>5
  <2> QED
    BY <2>2, <2>3, <1>5
<1>9. ASSUME NEW k \in 1..n, k < a + 1, o[k] # 0
      PROVE  \E x \in 1..c : new[x].of = o[k]
  <2>1. CASE k < a
    <3>1. \E x \in 1..Len(res) : res[x].of = o[k]
      BY <2>1, <1>9, DetectorAssumption DEF Reported
    <3> QED
      BY <3>1, <1>4
  <2>2. CASE k = a
    BY <2>2, <1>4
  <2> QED
    BY <2>1, <2>2, <1>9
<1> QED
  BY <1>4, <1>6, <1>7, <1>8, <1>9 DEF Reported

\* What DetectionsAreGreedy says, of the values of the variables.
Greedy(f, res) ==
    LET reported == {res[x].of : x \in 1..Len(res)}
    IN  /\ Cardinality(reported) = Len(res)
        /\ Len(res) <= MaxResults
        /\ \A x \in 1..Len(res) : res[x].score = f[res[x].of].score
        /\ \A x, y \in 1..Len(res) :
              x < y => res[x].score >= res[y].score /\ ~Close(f, res[x].of, res[y].of)
        /\ \A m \in 1..Len(f) :
              \/ m \in reported
              \/ \E n \in reported : Close(f, n, m) /\ f[n].score >= f[m].score
              \/ /\ Len(res) = MaxResults
                 /\ \A n \in reported : f[n].score >= f[m].score

LEMMA DistinctReports ==
    ASSUME NEW res, Len(res) \in Nat,
           \A x, y \in 1..Len(res) : res[x].of = res[y].of => x = y
    PROVE  Cardinality({res[x].of : x \in 1..Len(res)}) = Len(res)
<1> DEFINE N == 1..Len(res)
           T == {res[x].of : x \in N}
           g == [x \in N |-> res[x].of]
<1>1. g \in Surjection(N, T)
  BY DEF Surjection
<1>2. g \in Injection(N, T)
  BY DEF Injection, IsInjective
<1>3. IsFiniteSet(N) /\ Cardinality(N) = Len(res)
  <2>1. 1 \in Int /\ Len(res) \in Int
    OBVIOUS
  <2>2. /\ IsFiniteSet(1..Len(res))
        /\ Cardinality(1..Len(res)) = IF 1 > Len(res) THEN 0 ELSE Len(res) - 1 + 1
    BY <2>1, FS_Interval
  <2> QED
    BY <2>2
<1>4. Cardinality(T) = Cardinality(N)
  <2> HIDE DEF N, T, g
  <2> QED
    BY <1>1, <1>2, <1>3, FS_Surjection
<1> QED
  BY <1>3, <1>4

LEMMA EndGreedy ==
    ASSUME NEW f, NEW p, NEW o, NEW res, NEW n \in Nat, n = Len(f), Len(res) \in Nat,
           \A i \in 1..n : f[i].score \in Nat,
           Ranked(f, p, o, n), Thinned(f, o, n + 1, n), Reported(f, p, o, res, n + 1, n)
    PROVE  Greedy(f, res)
<1> DEFINE T == {res[x].of : x \in 1..Len(res)}
<1>1. /\ p \in [1..n -> Nat]
      /\ \A i, j \in 1..n : i < j => p[i] >= p[j]
      /\ \A i \in 1..n : o[i] # 0 => p[i] = f[o[i]].score
      /\ \A i, j \in 1..n : o[i] = o[j] /\ o[i] # 0 => i = j
  BY DEF Ranked, ScoresMatch
<1>2. (n + 1) - 1 = n
  OBVIOUS
<1>3. \A x \in 1..Len(res) : \E k \in 1..n :
          o[k] # 0 /\ res[x].of = o[k] /\ res[x].score = p[k]
  BY <1>2 DEF Reported
<1>4. \A x, y \in 1..Len(res) : \A k, l \in 1..n :
          x < y /\ res[x].of = o[k] /\ res[y].of = o[l] => k < l
  BY DEF Reported
<1>5. \A k \in 1..n : o[k] # 0 =>
          \/ \E x \in 1..Len(res) : res[x].of = o[k]
          \/ /\ Len(res) = MaxResults
             /\ \A x \in 1..Len(res) : res[x].score >= p[k]
  <2>1. \A k \in 1..n : k < n + 1
    OBVIOUS
  <2> QED
    BY <2>1 DEF Reported
<1>6. \A x, y \in 1..Len(res) : res[x].of = res[y].of => x = y
  <2> SUFFICES ASSUME NEW x \in 1..Len(res), NEW y \in 1..Len(res), res[x].of = res[y].of
               PROVE  x = y
    OBVIOUS
  <2>1. PICK k \in 1..n : res[x].of = o[k]
    BY <1>3
  <2>2. ~(x < y)
    <3> SUFFICES ASSUME x < y PROVE FALSE
      OBVIOUS
    <3>1. k < k
      BY <2>1, <1>4
    <3> QED
      BY <3>1
  <2>3. ~(y < x)
    <3> SUFFICES ASSUME y < x PROVE FALSE
      OBVIOUS
    <3>1. k < k
      BY <2>1, <1>4
    <3> QED
      BY <3>1
  <2> QED
    BY <2>2, <2>3
<1>7. Cardinality(T) = Len(res)
  BY <1>6, DistinctReports
<1>8. \A x \in 1..Len(res) : res[x].score = f[res[x].of].score
  BY <1>1, <1>3
<1>9. ASSUME NEW x \in 1..Len(res), NEW y \in 1..Len(res), x < y
      PROVE  res[x].score >= res[y].score /\ ~Close(f, res[x].of, res[y].of)
  <2>1. PICK k \in 1..n : o[k] # 0 /\ res[x].of = o[k] /\ res[x].score = p[k]
    BY <1>3
  <2>2. PICK l \in 1..n : o[l] # 0 /\ res[y].of = o[l] /\ res[y].score = p[l]
    BY <1>3
  <2>3. k < l
    BY <2>1, <2>2, <1>4, <1>9
  <2>4. k \in 1..((n + 1) - 1) /\ l \in (k + 1)..n
    BY <2>3
  <2>5. ~Close(f, o[k], o[l])
    BY <2>1, <2>2, <2>4 DEF Thinned
  <2> QED
    BY <2>1, <2>2, <2>3, <2>5, <1>1
<1>10. \A k \in 1..n : o[k] # 0 =>
           \/ o[k] \in T
           \/ /\ Len(res) = MaxResults
              /\ \A m \in T : f[m].score >= p[k]
  BY <1>5, <1>8
<1>11. \A m \in T : f[m].score \in Nat
  <2> SUFFICES ASSUME NEW x \in 1..Len(res) PROVE f[res[x].of].score \in Nat
    OBVIOUS
  <2>1. PICK k \in 1..n : o[k] # 0 /\ res[x].of = o[k]
    BY <1>3
  <2> QED
    BY <2>1, <1>1
<1> HIDE DEF T
<1>12. ASSUME NEW m \in 1..n
       PROVE  \/ m \in T
              \/ \E i \in T : Close(f, i, m) /\ f[i].score >= f[m].score
              \/ /\ Len(res) = MaxResults
                 /\ \A i \in T : f[i].score >= f[m].score
  <2>1. CASE \E i \in 1..n : o[i] = m
    <3>1. PICK i \in 1..n : o[i] = m
      BY <2>1
    <3>2. o[i] # 0 /\ p[i] = f[m].score
      BY <3>1, <1>1
    <3> QED
      BY <3>1, <3>2, <1>10
  <2>2. CASE \E k \in 1..((n + 1) - 1) :
                 o[k] # 0 /\ Close(f, o[k], m) /\ f[o[k]].score >= f[m].score
    <3>1. PICK k \in 1..((n + 1) - 1) :
              o[k] # 0 /\ Close(f, o[k], m) /\ f[o[k]].score >= f[m].score
      BY <2>2
    <3>2. k \in 1..n /\ p[k] = f[o[k]].score /\ p[k] \in Nat
      BY <3>1, <1>1
    <3>3. CASE o[k] \in T
      BY <3>1, <3>3
    <3>4. CASE o[k] \notin T
      <4>1. Len(res) = MaxResults /\ \A i \in T : f[i].score >= p[k]
        BY <3>1, <3>2, <3>4, <1>10
      <4>2. f[m].score \in Int /\ p[k] >= f[m].score
        BY <3>1, <3>2
      <4>3. \A i \in T : f[i].score >= f[m].score
        BY <4>1, <4>2, <3>2, <1>11
      <4> QED
        BY <4>1, <4>3
    <3> QED
      BY <3>3, <3>4
  <2> QED
    BY <2>1, <2>2 DEF Thinned
<1>13. Len(res) <= MaxResults
  BY DEF Reported
<1> QED
  BY <1>7, <1>8, <1>9, <1>12, <1>13 DEF Greedy, T

PostInv ==
    /\ PostTypes
    /\ SortInv
    /\ ListInv
    /\ dpc = "release" => Greedy(found, results)

-----------------------------------------------------------------------------

\* Where no candidates are in hand only the types are to be kept.
LEMMA QuietStep ==
    ASSUME PostInv, dpc' \in Before \cup Around,
           found' \in {found, <<>>}, results' \in {results, <<>>},
           results' # <<>> => input' = input /\ dpc' \in {"free", "return"}
    PROVE  PostInv'
<1>1. found' \in Seq(Candidate)
  <2>1. found \in Seq(Candidate) /\ <<>> \in Seq(Candidate)
    BY DEF PostInv, PostTypes
  <2> QED
    BY <2>1
<1>2. (results \in Seq(Detection))'
  <2>1. CASE results' = <<>>
    BY <2>1
  <2>2. CASE results' # <<>>
    <3>1. results' = results /\ input' = input
      BY <2>2
    <3>2. Detection' = Detection
      BY <3>1 DEF Detection, MappedBack, DstBox
    <3> QED
      BY <3>1, <3>2 DEF PostInv, PostTypes
  <2> QED
    BY <2>1, <2>2
<1>3. PostTypes'
  BY <1>1, <1>2 DEF PostTypes
<1> QED
  BY <1>3 DEF PostInv, SortInv, ListInv, Before, Around

LEMMA FoundTyped ==
    ASSUME PostTypes
    PROVE  /\ Len(found) \in Nat
           /\ Len(results) \in Nat
           /\ \A i \in 1..Len(found) : found[i].score \in Nat
<1>1. found \in Seq(Candidate) /\ results \in Seq(Detection)
  BY DEF PostTypes
<1>2. \A i \in 1..Len(found) : found[i] \in Candidate
  BY <1>1
<1> QED
  BY <1>1, <1>2 DEF Candidate

\* A step of post_process keeps the types, but for what it adds.
LEMMA PostSame ==
    ASSUME PostTypes, UNCHANGED <<postRest, found, results>>,
           dpc' \in {"decode", "sort", "down", "up", "nms", "results", "release"},
           dpc' \notin {"results", "release"} => results = <<>>
    PROVE  PostTypes'
<1>1. Detection' = Detection
  BY DEF Detection, MappedBack, DstBox, postRest
<1>2. dpc' \in Before \cup Sorting \cup {"nms", "results", "release"} \cup Around
  BY DEF Before, Sorting
<1> QED
  BY <1>1, <1>2 DEF PostTypes

LEMMA DecodeStep == PostInv /\ Decode => PostInv'
<1> SUFFICES ASSUME PostInv, Decode PROVE PostInv'
  OBVIOUS
<1>1. PICK cell \in Cells : \E c \in DOMAIN cell.probs :
          found' = Append(found, [score |-> cell.conf * cell.probs[c], class |-> c,
                                  box |-> cell.box])
  BY DEF Decode
<1>2. PICK c \in DOMAIN cell.probs :
          found' = Append(found, [score |-> cell.conf * cell.probs[c], class |-> c,
                                  box |-> cell.box])
  BY <1>1
<1>3. cell.conf \in Nat /\ cell.probs[c] \in Nat
  BY DetectorAssumption
<1>4. cell.conf * cell.probs[c] \in Nat
  <2>1. \A x, y \in Nat : x * y \in Nat
    OBVIOUS
  <2> QED
    BY <1>3, <2>1
<1>5. c \in UNION {DOMAIN d.probs : d \in Cells} /\ cell.box \in {d.box : d \in Cells}
  OBVIOUS
<1>6. [score |-> cell.conf * cell.probs[c], class |-> c, box |-> cell.box] \in Candidate
  BY <1>4, <1>5 DEF Candidate
<1>7. found' \in Seq(Candidate)
  BY <1>2, <1>6, AppendProperties DEF PostInv, PostTypes
<1>8. dpc' = "decode" /\ results' = results /\ results = <<>>
  BY DEF Decode, DGoes, PostInv, PostTypes
<1>9. PostTypes'
  BY <1>7, <1>8 DEF PostTypes, Before
<1> QED
  BY <1>8, <1>9 DEF PostInv, SortInv, ListInv

LEMMA DecodeNothingStep == PostInv /\ DecodeNothing => PostInv'
<1> SUFFICES ASSUME PostInv, DecodeNothing PROVE PostInv'
  OBVIOUS
<1>1. dpc = "decode" /\ dpc' = "release" /\ results = <<>> /\ results' = <<>>
      /\ found = <<>> /\ found' = <<>>
  BY DEF DecodeNothing, DGoes, PostInv, PostTypes, postVars
<1>2. PostTypes'
  BY <1>1, PostSame DEF PostInv, DecodeNothing, postVars
<1>3. Cardinality({}) = 0
  BY FS_EmptySet
<1>4. Greedy(<<>>, <<>>)
  <2>1. {<<>>[x].of : x \in 1..Len(<<>>)} = {}
    OBVIOUS
  <2>2. Len(<<>>) = 0
    OBVIOUS
  <2> QED
    BY <1>3, <2>1, <2>2, DetectorAssumption DEF Greedy
<1> QED
  BY <1>1, <1>2, <1>4 DEF PostInv, SortInv, ListInv

LEMMA DecodeEndsStep == PostInv /\ DecodeEnds => PostInv'
<1> SUFFICES ASSUME PostInv, DecodeEnds PROVE PostInv'
  OBVIOUS
<1>1. dpc' = "sort" /\ results = <<>> /\ found' = found /\ found # <<>>
  BY DEF DecodeEnds, DGoes, PostInv, PostTypes
<1>2. PostTypes'
  BY <1>1, PostSame DEF PostInv, DecodeEnds
<1>3. Len(found) \in Nat /\ \A i \in 1..Len(found) : found[i].score \in Nat
  BY FoundTyped DEF PostInv
<1>4. Len(found) >= 1
  BY <1>1, <1>3, EmptySeq DEF PostInv, PostTypes
<1>5. SortedSoFar(found, probs', order', ranges', Len(found))
  <2>1. /\ probs' = [i \in 1..Len(found) |-> found[i].score]
        /\ order' = [i \in 1..Len(found) |-> i]
        /\ ranges' = <<<<1, Len(found)>>>>
    BY DEF DecodeEnds
  <2> QED
    BY <1>3, <1>4, <2>1, StartSorted
<1> QED
  BY <1>1, <1>2, <1>5 DEF PostInv, SortInv, ListInv

LEMMA SortRangeStep == PostInv /\ SortRange => PostInv'
<1> SUFFICES ASSUME PostInv, SortRange PROVE PostInv'
  OBVIOUS
<1> DEFINE n == Len(found)
<1>1. dpc = "sort" /\ dpc' = "down" /\ results = <<>> /\ UNCHANGED <<found, probs, order, ranges>>
  BY DEF SortRange, DGoes, PostInv, PostTypes
<1>2. PostTypes'
  BY <1>1, PostSame DEF PostInv, SortRange
<1>3. n \in Nat
  BY FoundTyped DEF PostInv
<1>4. SortedSoFar(found, probs, order, ranges, n)
  BY <1>1 DEF PostInv, SortInv
<1>5. /\ probs \in [1..n -> Nat] /\ order \in [1..n -> 1..n]
      /\ ranges \in Seq(Int \X Int) /\ ranges # <<>>
  BY <1>4 DEF SortedSoFar, Permutes, ScoresMatch, Ascending, SortRange
<1>6. 1 \in 1..Len(ranges)
  BY <1>5, RangesTail
<1>7. ranges[1][1] \in Int /\ ranges[1][2] \in Int
  BY <1>5, <1>6, RangeTyped
<1>8. 1 <= ranges[1][1] /\ ranges[1][2] <= n /\ ranges[1][1] < ranges[1][2]
  BY <1>4, <1>6 DEF SortedSoFar, Ascending, SortRange
<1>9. /\ low' = ranges[1][1] /\ high' = ranges[1][2]
      /\ key' = probs[low'] /\ keyIndex' = order[low']
  BY DEF SortRange
<1>10. low' \in 1..n /\ high' \in 1..n
  BY <1>7, <1>8, <1>9
<1>11. key' \in Nat /\ keyIndex' \in 1..n
  BY <1>5, <1>9, <1>10
<1>12. Filled(probs, low', key') = probs /\ Filled(order, low', keyIndex') = order
  BY <1>5, <1>9, <1>10 DEF Filled
<1>13. Split(probs, ranges, low', high', key', n)
  <2>1. /\ ranges[1][1]..(ranges[1][1] - 1) = {}
        /\ (ranges[1][2] + 1)..ranges[1][2] = {}
    BY <1>7
  <2>2. Split(probs, ranges, ranges[1][1], ranges[1][2], key', n)
    BY <2>1, <1>5, <1>7, <1>8 DEF Split
  <2> QED
    BY <2>2, <1>9
<1> QED
  BY <1>1, <1>2, <1>4, <1>5, <1>10, <1>11, <1>12, <1>13 DEF PostInv, SortInv, ListInv

LEMMA SkipRangeStep == PostInv /\ SkipRange => PostInv'
<1> SUFFICES ASSUME PostInv, SkipRange PROVE PostInv'
  OBVIOUS
<1>1. /\ dpc = "sort" /\ dpc' = "sort" /\ results = <<>> /\ UNCHANGED <<found, probs, order>>
      /\ ranges' = Tail(ranges) /\ ranges # <<>> /\ ranges[1][1] >= ranges[1][2]
  BY DEF SkipRange, DGoes, PostInv, PostTypes
<1>2. PostTypes'
  BY <1>1, PostSame DEF PostInv, SkipRange
<1>3. Len(found) \in Nat
  BY FoundTyped DEF PostInv
<1>4. SortedSoFar(found, probs, order, ranges, Len(found))
  BY <1>1 DEF PostInv, SortInv
<1>5. SortedSoFar(found, probs, order, ranges', Len(found))
  BY <1>1, <1>3, <1>4, SkipKeeps
<1> QED
  BY <1>1, <1>2, <1>5 DEF PostInv, SortInv, ListInv

\* The hole moves from a to b, and what was at b is at a.
LEMMA HoleMoves ==
    ASSUME NEW n \in Nat, NEW S, NEW s \in [1..n -> S], NEW v \in S,
           NEW a \in 1..n, NEW b \in 1..n, NEW t, t = [s EXCEPT ![a] = s[b]]
    PROVE  /\ t \in [1..n -> S]
           /\ Filled(t, b, v) \in [1..n -> S]
           /\ Swapped(Filled(s, a, v), Filled(t, b, v), a, b, n)
  BY DEF Filled, Swapped

LEMMA SeekDownStep == PostInv /\ SeekDown => PostInv'
<1> SUFFICES ASSUME PostInv, SeekDown PROVE PostInv'
  OBVIOUS
<1> DEFINE n == Len(found)
<1>1. /\ dpc = "down" /\ dpc' = "up" /\ results = <<>> /\ low < high
      /\ UNCHANGED <<found, ranges, low, key, keyIndex>>
  BY DEF SeekDown, DGoes, PostInv, PostTypes
<1>2. PostTypes'
  BY <1>1, PostSame DEF PostInv, SeekDown
<1>3. n \in Nat
  BY FoundTyped DEF PostInv
<1>4. /\ probs \in [1..n -> Nat] /\ order \in [1..n -> 1..n]
      /\ low \in 1..n /\ high \in 1..n /\ key \in Nat /\ keyIndex \in 1..n
      /\ SortedSoFar(found, Filled(probs, low, key), Filled(order, low, keyIndex), ranges, n)
      /\ Split(probs, ranges, low, high, key, n)
  BY <1>1 DEF PostInv, SortInv
<1>5. /\ ranges # <<>>
      /\ ranges[1][1] <= low /\ low <= high /\ high <= ranges[1][2]
      /\ ranges[1][1] < ranges[1][2]
      /\ \A x \in ranges[1][1]..(low - 1) : probs[x] >= key
      /\ \A x \in (high + 1)..ranges[1][2] : probs[x] <= key
  BY <1>4 DEF Split
<1>6. ranges \in Seq(Int \X Int) /\ 1 \in 1..Len(ranges)
  BY <1>4, <1>5, RangesTail DEF SortedSoFar, Ascending
<1>7. ranges[1][1] \in Int /\ ranges[1][2] \in Int
  BY <1>6, RangeTyped
<1>8. 1 <= ranges[1][1] /\ ranges[1][2] <= n
  BY <1>4, <1>6 DEF SortedSoFar, Ascending
<1>9. PICK h \in low..high :
          /\ \A x \in (h + 1)..high : probs[x] <= key
          /\ high' = h
          /\ Moves(h, low)
  BY DEF SeekDown
<1>10. h \in 1..n
  BY <1>4, <1>9
<1>11. probs' = [probs EXCEPT ![low] = probs[h]] /\ order' = [order EXCEPT ![low] = order[h]]
  BY <1>9 DEF Moves
<1>12. /\ probs' \in [1..n -> Nat] /\ order' \in [1..n -> 1..n]
       /\ Filled(probs', h, key) \in [1..n -> Nat]
       /\ Filled(order', h, keyIndex) \in [1..n -> 1..n]
       /\ Swapped(Filled(probs, low, key), Filled(probs', h, key), low, h, n)
       /\ Swapped(Filled(order, low, keyIndex), Filled(order', h, keyIndex), low, h, n)
  BY <1>3, <1>4, <1>10, <1>11, HoleMoves
<1>13. ranges[1][1] <= h /\ h <= ranges[1][2] /\ low <= ranges[1][2]
  BY <1>4, <1>5, <1>7, <1>10
<1>14. SortedSoFar(found, Filled(probs', h, key), Filled(order', h, keyIndex), ranges, n)
  <2> HIDE DEF n
  <2> QED
    BY <1>3, <1>4, <1>5, <1>10, <1>12, <1>13, SwapKeeps
<1>15. \A x \in ranges[1][1]..(low - 1) : probs'[x] >= key
  <2> SUFFICES ASSUME NEW x \in ranges[1][1]..(low - 1) PROVE probs'[x] >= key
    OBVIOUS
  <2>1. x \in 1..n /\ x # low
    BY <1>4, <1>7, <1>8
  <2>2. probs'[x] = probs[x]
    BY <2>1, <1>4, <1>11
  <2> QED
    BY <2>2, <1>5
<1>16. \A x \in (h + 1)..ranges[1][2] : probs'[x] <= key
  <2> SUFFICES ASSUME NEW x \in (h + 1)..ranges[1][2] PROVE probs'[x] <= key
    OBVIOUS
  <2>1. x \in 1..n /\ x # low /\ x > h
    BY <1>4, <1>7, <1>8, <1>9, <1>10
  <2>2. probs'[x] = probs[x]
    BY <2>1, <1>4, <1>11
  <2>3. x \in (h + 1)..high \/ x \in (high + 1)..ranges[1][2]
    BY <2>1, <1>4, <1>7, <1>10
  <2> QED
    BY <2>2, <2>3, <1>5, <1>9
<1>17. Split(probs', ranges, low, h, key, n)
  BY <1>5, <1>9, <1>13, <1>15, <1>16 DEF Split
<1> QED
  BY <1>1, <1>2, <1>4, <1>9, <1>10, <1>12, <1>14, <1>17 DEF PostInv, SortInv, ListInv

LEMMA SeekUpStep == PostInv /\ SeekUp => PostInv'
<1> SUFFICES ASSUME PostInv, SeekUp PROVE PostInv'
  OBVIOUS
<1> DEFINE n == Len(found)
<1>1. /\ dpc = "up" /\ dpc' = "down" /\ results = <<>>
      /\ UNCHANGED <<found, ranges, high, key, keyIndex>>
  BY DEF SeekUp, DGoes, PostInv, PostTypes
<1>2. PostTypes'
  BY <1>1, PostSame DEF PostInv, SeekUp
<1>3. n \in Nat
  BY FoundTyped DEF PostInv
<1>4. /\ probs \in [1..n -> Nat] /\ order \in [1..n -> 1..n]
      /\ low \in 1..n /\ high \in 1..n /\ key \in Nat /\ keyIndex \in 1..n
      /\ SortedSoFar(found, Filled(probs, high, key), Filled(order, high, keyIndex), ranges, n)
      /\ Split(probs, ranges, low, high, key, n)
  BY <1>1 DEF PostInv, SortInv
<1>5. /\ ranges # <<>>
      /\ ranges[1][1] <= low /\ low <= high /\ high <= ranges[1][2]
      /\ ranges[1][1] < ranges[1][2]
      /\ \A x \in ranges[1][1]..(low - 1) : probs[x] >= key
      /\ \A x \in (high + 1)..ranges[1][2] : probs[x] <= key
  BY <1>4 DEF Split
<1>6. ranges \in Seq(Int \X Int) /\ 1 \in 1..Len(ranges)
  BY <1>4, <1>5, RangesTail DEF SortedSoFar, Ascending
<1>7. ranges[1][1] \in Int /\ ranges[1][2] \in Int
  BY <1>6, RangeTyped
<1>8. 1 <= ranges[1][1] /\ ranges[1][2] <= n
  BY <1>4, <1>6 DEF SortedSoFar, Ascending
<1>9. PICK l \in low..high :
          /\ \A x \in low..(l - 1) : probs[x] >= key
          /\ low' = l
          /\ Moves(l, high)
  BY DEF SeekUp
<1>10. l \in 1..n
  BY <1>4, <1>9
<1>11. probs' = [probs EXCEPT ![high] = probs[l]] /\ order' = [order EXCEPT ![high] = order[l]]
  BY <1>9 DEF Moves
<1>12. /\ probs' \in [1..n -> Nat] /\ order' \in [1..n -> 1..n]
       /\ Filled(probs', l, key) \in [1..n -> Nat]
       /\ Filled(order', l, keyIndex) \in [1..n -> 1..n]
       /\ Swapped(Filled(probs, high, key), Filled(probs', l, key), high, l, n)
       /\ Swapped(Filled(order, high, keyIndex), Filled(order', l, keyIndex), high, l, n)
  BY <1>3, <1>4, <1>10, <1>11, HoleMoves
<1>13. ranges[1][1] <= l /\ l <= ranges[1][2] /\ ranges[1][1] <= high
  BY <1>4, <1>5, <1>7, <1>10
<1>14. SortedSoFar(found, Filled(probs', l, key), Filled(order', l, keyIndex), ranges, n)
  <2> HIDE DEF n
  <2> QED
    BY <1>3, <1>4, <1>5, <1>10, <1>12, <1>13, SwapKeeps
<1>15. \A x \in ranges[1][1]..(l - 1) : probs'[x] >= key
  <2> SUFFICES ASSUME NEW x \in ranges[1][1]..(l - 1) PROVE probs'[x] >= key
    OBVIOUS
  <2>1. x \in 1..n /\ x # high /\ x < l
    BY <1>4, <1>7, <1>8, <1>9, <1>10
  <2>2. probs'[x] = probs[x]
    BY <2>1, <1>4, <1>11
  <2>3. x \in ranges[1][1]..(low - 1) \/ x \in low..(l - 1)
    BY <2>1, <1>4, <1>7, <1>10
  <2> QED
    BY <2>2, <2>3, <1>5, <1>9
<1>16. \A x \in (high + 1)..ranges[1][2] : probs'[x] <= key
  <2> SUFFICES ASSUME NEW x \in (high + 1)..ranges[1][2] PROVE probs'[x] <= key
    OBVIOUS
  <2>1. x \in 1..n /\ x # high
    BY <1>4, <1>7, <1>8
  <2>2. probs'[x] = probs[x]
    BY <2>1, <1>4, <1>11
  <2> QED
    BY <2>2, <1>5
<1>17. Split(probs', ranges, l, high, key, n)
  BY <1>5, <1>9, <1>13, <1>15, <1>16 DEF Split
<1> QED
  BY <1>1, <1>2, <1>4, <1>9, <1>10, <1>12, <1>14, <1>17 DEF PostInv, SortInv, ListInv

LEMMA PlaceStep == PostInv /\ Place => PostInv'
<1> SUFFICES ASSUME PostInv, Place PROVE PostInv'
  OBVIOUS
<1> DEFINE n == Len(found)
<1>1. /\ dpc = "down" /\ dpc' = "sort" /\ results = <<>> /\ low >= high
      /\ UNCHANGED <<found, low>>
      /\ probs' = Filled(probs, low, key) /\ order' = Filled(order, low, keyIndex)
      /\ ranges' = <<<<ranges[1][1], low - 1>>, <<low + 1, ranges[1][2]>>>> \o Tail(ranges)
  BY DEF Place, DGoes, PostInv, PostTypes, Filled
<1>2. PostTypes'
  BY <1>1, PostSame DEF PostInv, Place
<1>3. n \in Nat
  BY FoundTyped DEF PostInv
<1>4. /\ probs \in [1..n -> Nat] /\ order \in [1..n -> 1..n]
      /\ low \in 1..n /\ high \in 1..n /\ key \in Nat
      /\ SortedSoFar(found, probs', order', ranges, n)
      /\ Split(probs, ranges, low, high, key, n)
  BY <1>1 DEF PostInv, SortInv
<1>5. /\ ranges # <<>>
      /\ ranges[1][1] <= low /\ low <= high /\ high <= ranges[1][2]
      /\ \A x \in ranges[1][1]..(low - 1) : probs[x] >= key
      /\ \A x \in (high + 1)..ranges[1][2] : probs[x] <= key
  BY <1>4 DEF Split
<1>6. ranges \in Seq(Int \X Int) /\ 1 \in 1..Len(ranges)
  BY <1>4, <1>5, RangesTail DEF SortedSoFar, Ascending
<1>7. ranges[1][1] \in Int /\ ranges[1][2] \in Int
  BY <1>6, RangeTyped
<1>8. 1 <= ranges[1][1] /\ ranges[1][2] <= n /\ low = high
  BY <1>1, <1>4, <1>5, <1>6 DEF SortedSoFar, Ascending
<1>9. \A x \in 1..n : probs'[x] = IF x = low THEN key ELSE probs[x]
  BY <1>1, <1>4 DEF Filled
<1>10. \A x \in ranges[1][1]..(low - 1) : probs'[x] >= probs'[low]
  <2> SUFFICES ASSUME NEW x \in ranges[1][1]..(low - 1) PROVE probs'[x] >= probs'[low]
    OBVIOUS
  <2>1. x \in 1..n /\ x # low
    BY <1>4, <1>7, <1>8
  <2> QED
    BY <2>1, <1>4, <1>5, <1>9
<1>11. \A x \in (low + 1)..ranges[1][2] : probs'[x] <= probs'[low]
  <2> SUFFICES ASSUME NEW x \in (low + 1)..ranges[1][2] PROVE probs'[x] <= probs'[low]
    OBVIOUS
  <2>1. x \in 1..n /\ x # low /\ x \in (high + 1)..ranges[1][2]
    BY <1>4, <1>7, <1>8
  <2> QED
    BY <2>1, <1>4, <1>5, <1>9
<1>12. SortedSoFar(found, probs', order', ranges', n)
  <2>1. ranges[1][1] <= low /\ low <= ranges[1][2] /\ low \in 1..n
    BY <1>4, <1>5, <1>8
  <2> HIDE DEF n
  <2> QED
    BY <2>1, <1>1, <1>3, <1>4, <1>5, <1>10, <1>11, PlaceKeeps
<1> QED
  BY <1>1, <1>2, <1>12 DEF PostInv, SortInv, ListInv

LEMMA SortEndsStep == PostInv /\ SortEnds => PostInv'
<1> SUFFICES ASSUME PostInv, SortEnds PROVE PostInv'
  OBVIOUS
<1>1. /\ dpc = "sort" /\ dpc' = "nms" /\ results = <<>> /\ ranges = <<>> /\ at' = 1
      /\ UNCHANGED <<found, probs, order>>
  BY DEF SortEnds, DGoes, PostInv, PostTypes
<1>2. PostTypes'
  BY <1>1, PostSame DEF PostInv, SortEnds
<1>3. Len(found) \in Nat
  BY FoundTyped DEF PostInv
<1>4. SortedSoFar(found, probs, order, <<>>, Len(found))
  BY <1>1 DEF PostInv, SortInv
<1>5. Ranked(found, probs, order, Len(found)) /\ Thinned(found, order, 1, Len(found))
  BY <1>3, <1>4, EndSorted
<1>6. at' \in 1..(Len(found) + 1)
  BY <1>1, <1>3
<1> QED
  BY <1>1, <1>2, <1>5, <1>6 DEF PostInv, SortInv, ListInv

LEMMA NmsStep == PostInv /\ Nms => PostInv'
<1> SUFFICES ASSUME PostInv, Nms PROVE PostInv'
  OBVIOUS
<1> DEFINE n == Len(found)
<1>1. /\ dpc = "nms" /\ dpc' = "nms" /\ results = <<>> /\ at <= n /\ at' = at + 1
      /\ UNCHANGED <<found, probs>>
  BY DEF Nms, DGoes, PostInv, PostTypes
<1>2. PostTypes'
  BY <1>1, PostSame DEF PostInv, Nms
<1>3. n \in Nat
  BY FoundTyped DEF PostInv
<1>4. /\ at \in 1..(n + 1)
      /\ Ranked(found, probs, order, n)
      /\ Thinned(found, order, at, n)
  BY <1>1 DEF PostInv, ListInv
<1>5. at \in 1..n /\ at + 1 \in 1..(n + 1)
  BY <1>1, <1>3, <1>4
<1>6. order' = [j \in 1..n |->
                   IF at < j /\ order[at] # 0 /\ order[j] # 0
                      /\ Close(found, order[at], order[j])
                   THEN 0 ELSE order[j]]
  BY DEF Nms, Covers, SameClass, Close
<1>7. Ranked(found, probs, order', n) /\ Thinned(found, order', at + 1, n)
  <2> HIDE DEF n
  <2> QED
    BY <1>3, <1>4, <1>5, <1>6, NmsKeeps
<1> QED
  BY <1>1, <1>2, <1>5, <1>7 DEF PostInv, SortInv, ListInv

LEMMA NmsEndsStep == PostInv /\ NmsEnds => PostInv'
<1> SUFFICES ASSUME PostInv, NmsEnds PROVE PostInv'
  OBVIOUS
<1> DEFINE n == Len(found)
<1>1. /\ dpc = "nms" /\ dpc' = "results" /\ results = <<>> /\ results' = <<>> /\ at > n /\ at' = 1
      /\ UNCHANGED <<found, probs, order>>
  BY DEF NmsEnds, DGoes, PostInv, PostTypes
<1>2. PostTypes'
  BY <1>1, PostSame DEF PostInv, NmsEnds
<1>3. n \in Nat
  BY FoundTyped DEF PostInv
<1>4. /\ at \in 1..(n + 1)
      /\ Ranked(found, probs, order, n)
      /\ Thinned(found, order, at, n)
  BY <1>1 DEF PostInv, ListInv
<1>5. at = n + 1 /\ 1 \in 1..(n + 1)
  BY <1>1, <1>3, <1>4
<1>6. Reported(found, probs, order, <<>>, 1, n)
  BY <1>3, DetectorAssumption DEF Reported
<1> QED
  BY <1>1, <1>2, <1>4, <1>5, <1>6 DEF PostInv, SortInv, ListInv

LEMMA PassOverStep == PostInv /\ PassOver => PostInv'
<1> SUFFICES ASSUME PostInv, PassOver PROVE PostInv'
  OBVIOUS
<1> DEFINE n == Len(found)
<1>1. /\ dpc = "results" /\ dpc' = "results" /\ at <= n /\ at' = at + 1
      /\ order[at] = 0 \/ Len(results) >= MaxResults
      /\ UNCHANGED <<found, probs, order, results>>
  BY DEF PassOver, DGoes
<1>2. PostTypes'
  BY <1>1, PostSame DEF PostInv, PassOver
<1>3. n \in Nat /\ Len(results) \in Nat
  BY FoundTyped DEF PostInv
<1>4. /\ at \in 1..(n + 1)
      /\ Ranked(found, probs, order, n)
      /\ Thinned(found, order, n + 1, n)
      /\ Reported(found, probs, order, results, at, n)
  BY <1>1 DEF PostInv, ListInv
<1>5. at \in 1..n /\ at + 1 \in 1..(n + 1)
  BY <1>1, <1>3, <1>4
<1>6. Reported(found, probs, order, results, at + 1, n)
  <2> HIDE DEF n
  <2> QED
    BY <1>1, <1>3, <1>4, <1>5, PassKeeps
<1> QED
  BY <1>1, <1>2, <1>4, <1>5, <1>6 DEF PostInv, SortInv, ListInv

LEMMA ReportStep == PostInv /\ Report => PostInv'
<1> SUFFICES ASSUME PostInv, Report PROVE PostInv'
  OBVIOUS
<1> DEFINE n == Len(found)
           e == [of |-> order[at], score |-> probs[at], class |-> found[order[at]].class,
                 box |-> MappedBack(found[order[at]].box)]
<1>1. /\ dpc = "results" /\ dpc' = "results" /\ at <= n /\ at' = at + 1
      /\ order[at] # 0 /\ Len(results) < MaxResults
      /\ results' = Append(results, e)
      /\ UNCHANGED <<found, probs, order>> /\ UNCHANGED postRest
  BY DEF Report, DGoes
<1>2. n \in Nat /\ Len(results) \in Nat
  BY FoundTyped DEF PostInv
<1>3. /\ at \in 1..(n + 1)
      /\ Ranked(found, probs, order, n)
      /\ Thinned(found, order, n + 1, n)
      /\ Reported(found, probs, order, results, at, n)
  BY <1>1 DEF PostInv, ListInv
<1>4. at \in 1..n /\ at + 1 \in 1..(n + 1)
  BY <1>1, <1>2, <1>3
<1>5. order[at] \in 1..n /\ probs[at] \in Nat
  BY <1>1, <1>2, <1>3, <1>4 DEF Ranked, ScoresMatch
<1>6. found[order[at]] \in Candidate
  BY <1>5 DEF PostInv, PostTypes
<1>7. e \in Detection
  <2>1. found[order[at]].class \in UNION {DOMAIN cell.probs : cell \in Cells}
    BY <1>6 DEF Candidate
  <2>2. PICK cell \in Cells : found[order[at]].box = cell.box
    BY <1>6 DEF Candidate
  <2>3. MappedBack(found[order[at]].box) \in {MappedBack(c.box) : c \in Cells}
    BY <2>2
  <2>4. order[at] \in Nat
    BY <1>5, <1>2
  <2> QED
    BY <2>1, <2>3, <2>4, <1>5 DEF Detection
<1>8. results \in Seq(Detection)
  BY DEF PostInv, PostTypes
<1>9. e.of = order[at] /\ e.score = probs[at]
  OBVIOUS
<1> HIDE DEF e
<1>10. results' \in Seq(Detection)
  BY <1>1, <1>7, <1>8, AppendProperties
<1>11. Detection' = Detection
  BY <1>1 DEF Detection, MappedBack, DstBox, postRest
<1>12. PostTypes'
  BY <1>1, <1>10, <1>11 DEF PostTypes, PostInv
<1>13. /\ Len(results') = Len(results) + 1
       /\ results'[Len(results) + 1] = e
       /\ \A x \in 1..Len(results) : results'[x] = results[x]
  BY <1>1, <1>7, <1>8, AppendProperties
<1>14. Reported(found, probs, order, results', at + 1, n)
  <2> HIDE DEF n
  <2> QED
    BY <1>1, <1>2, <1>3, <1>4, <1>9, <1>13, ReportKeeps
<1> QED
  BY <1>1, <1>12, <1>3, <1>4, <1>14 DEF PostInv, SortInv, ListInv

LEMMA ResultsEndStep == PostInv /\ ResultsEnd => PostInv'
<1> SUFFICES ASSUME PostInv, ResultsEnd PROVE PostInv'
  OBVIOUS
<1> DEFINE n == Len(found)
<1>1. /\ dpc = "results" /\ dpc' = "release" /\ at > n
      /\ UNCHANGED <<found, probs, order, results>>
  BY DEF ResultsEnd, DGoes, postVars
<1>2. PostTypes'
  BY <1>1, PostSame DEF PostInv, ResultsEnd
<1>3. n \in Nat /\ Len(results) \in Nat /\ \A i \in 1..n : found[i].score \in Nat
  BY FoundTyped DEF PostInv
<1>4. /\ at \in 1..(n + 1)
      /\ Ranked(found, probs, order, n)
      /\ Thinned(found, order, n + 1, n)
      /\ Reported(found, probs, order, results, at, n)
  BY <1>1 DEF PostInv, ListInv
<1>5. at = n + 1
  BY <1>1, <1>3, <1>4
<1>6. Greedy(found, results)
  BY <1>3, <1>4, <1>5, EndGreedy
<1> QED
  BY <1>1, <1>2, <1>6 DEF PostInv, SortInv, ListInv

Quiet ==
    \/ CallInit \/ CallInitAgain \/ ModelUnread \/ ReadModel \/ RknnInit \/ Query \/ UndoInit
    \/ ReadImage \/ ReadNothing \/ ReadRawShort \/ ReadNoJpeg \/ ReadBadJpeg
    \/ CallInfer \/ InferRefused \/ AllocInput \/ ConvertImage \/ RunNetwork \/ GetOutputs
    \/ EndOutputs \/ FreeInput \/ InferReturns \/ CallRelease

\* The calls of the client, and the steps of the others that are no part of
\* post_process.
LEMMA QuietKeeps == PostInv /\ Quiet => PostInv'
<1> SUFFICES ASSUME PostInv, Quiet PROVE PostInv'
  OBVIOUS
<1>0. dpc \notin {"results", "release", "free", "return"} => results = <<>>
  BY DEF PostInv, PostTypes
<1>1. CASE CallInit \/ CallInitAgain \/ InferRefused \/ CallRelease
  BY <1>0, <1>1, QuietStep
  DEF CallInit, CallInitAgain, InferRefused, CallRelease, ClientCalls, DGoes, postVars, Before,
      Around
<1>2. CASE ModelUnread \/ ReadModel \/ RknnInit
  BY <1>0, <1>2, QuietStep
  DEF ModelUnread, ReadModel, RknnInit, DGoes, postVars, Before, Around
<1>3. CASE Query \/ UndoInit
  BY <1>0, <1>3, QuietStep DEF Query, UndoInit, DGoes, postVars, Before, Around
<1>4. CASE ReadImage \/ ReadNothing \/ ReadRawShort \/ ReadNoJpeg \/ ReadBadJpeg
  BY <1>0, <1>4, QuietStep
  DEF ReadImage, ReadNothing, ReadRawShort, ReadNoJpeg, ReadBadJpeg, ClientCalls, DGoes, postVars,
      Before, Around
<1>5. CASE CallInfer
  BY <1>0, <1>5, QuietStep DEF CallInfer, ClientCalls, DGoes, postVars, Before, Around
<1>6. CASE AllocInput
  BY <1>0, <1>6, QuietStep DEF AllocInput, DGoes, Before, Around
<1>7. CASE ConvertImage
  BY <1>0, <1>7, QuietStep DEF ConvertImage, DGoes, postVars, Before, Around
<1>8. CASE RunNetwork
  BY <1>0, <1>8, QuietStep DEF RunNetwork, DGoes, postVars, Before, Around
<1>9. CASE GetOutputs
  BY <1>0, <1>9, QuietStep DEF GetOutputs, DGoes, postVars, Before, Around
<1>10. CASE EndOutputs
  BY <1>10, QuietStep DEF EndOutputs, DGoes, Before, Around
<1>11. CASE FreeInput
  BY <1>11, QuietStep DEF FreeInput, DGoes, postVars, Before, Around
<1>12. CASE InferReturns
  BY <1>12, QuietStep DEF InferReturns, DGoes, Before, Around
<1> QED
  BY <1>1, <1>2, <1>3, <1>4, <1>5, <1>6, <1>7, <1>8, <1>9, <1>10, <1>11, <1>12 DEF Quiet

LEMMA PostInvInit == DetectorInit => PostInv
<1> SUFFICES ASSUME DetectorInit PROVE PostInv
  OBVIOUS
<1>1. dpc = "client" /\ found = <<>> /\ results = <<>>
  BY DEF DetectorInit
<1>2. PostTypes
  BY <1>1 DEF PostTypes, Around
<1> QED
  BY <1>1, <1>2 DEF PostInv, SortInv, ListInv

LEMMA PostInvSame == PostInv /\ UNCHANGED detectorVars => PostInv'
<1> SUFFICES ASSUME PostInv, UNCHANGED detectorVars PROVE PostInv'
  OBVIOUS
<1>1. UNCHANGED <<dpc, input, found, probs, order, ranges, low, high, key, keyIndex, at,
                  results>>
  BY DEF detectorVars, postVars, sortVars
<1>2. Detection' = Detection
  BY <1>1 DEF Detection, MappedBack, DstBox
<1>3. PostTypes'
  BY <1>1, <1>2 DEF PostTypes, PostInv
<1>4. SortInv'
  BY <1>1 DEF SortInv, PostInv
<1>5. ListInv'
  BY <1>1 DEF ListInv, PostInv
<1>6. (dpc = "release" => Greedy(found, results))'
  BY <1>1 DEF PostInv
<1> QED
  BY <1>3, <1>4, <1>5, <1>6 DEF PostInv

LEMMA PostInvStep == PostInv /\ [DetectorNext]_detectorVars => PostInv'
<1> SUFFICES ASSUME PostInv, [DetectorNext]_detectorVars PROVE PostInv'
  OBVIOUS
<1>1. CASE Quiet
  BY <1>1, QuietKeeps
<1>2. CASE Decode \/ DecodeNothing \/ DecodeEnds
  BY <1>2, DecodeStep, DecodeNothingStep, DecodeEndsStep
<1>3. CASE SortRange \/ SkipRange \/ SeekDown \/ SeekUp \/ Place \/ SortEnds
  BY <1>3, SortRangeStep, SkipRangeStep, SeekDownStep, SeekUpStep, PlaceStep, SortEndsStep
<1>4. CASE Nms \/ NmsEnds \/ PassOver \/ Report \/ ResultsEnd
  BY <1>4, NmsStep, NmsEndsStep, PassOverStep, ReportStep, ResultsEndStep
<1>5. CASE UNCHANGED detectorVars
  BY <1>5, PostInvSame
<1> QED
  BY <1>1, <1>2, <1>3, <1>4, <1>5 DEF DetectorNext, Quiet

\* Types, and the invariant of each loop of post_process.
THEOREM PostProcessing == DetectorSpec => []PostInv
  BY PostInvInit, PostInvStep, PTL DEF DetectorSpec

\* Whatever the network saw, for every list of candidates and every limit, the
\* boxes that post_process reports are the best ones (postprocess.cc).
THEOREM DetectionsStayGreedy == DetectorSpec => []DetectionsAreGreedy
<1>1. PostInv => DetectionsAreGreedy
  BY DEF PostInv, DetectionsAreGreedy, Greedy, TooClose, Close
<1> QED
  BY <1>1, PostProcessing, PTL

-----------------------------------------------------------------------------
(* What is allocated.                                                      *)

Model == {"context", "attrs", "labels"}

PostStages == {"decode", "sort", "down", "up", "nms", "results", "release"}

HeldInv ==
    /\ lost \subseteq UNION {Forgotten(call) : call \in dfailed}
    /\ dpc \in {"model", "undo"} => ~initialized /\ allocated \subseteq {"labels"}
    /\ dpc = "rknn_init" => ~initialized /\ allocated \subseteq {"labels", "model"}
    /\ dpc = "query" =>
          ~initialized /\ allocated \subseteq {"labels", "context"} /\ "context" \in allocated
    /\ dpc = "client" =>
          /\ allocated \subseteq Model
          /\ ~initialized => allocated = {}
          /\ initialized => {"context", "attrs"} \subseteq allocated
    /\ dpc \in {"alloc", "return"} =>
          /\ initialized /\ {"context", "attrs"} \subseteq allocated
          /\ allocated \subseteq Model \cup {"nv12"}
    /\ dpc \in {"convert", "inputs", "run", "outputs", "free"} =>
          /\ initialized /\ {"context", "attrs"} \subseteq allocated
          /\ allocated \subseteq Model \cup {"nv12", "input"}
    /\ dpc \in PostStages =>
          /\ initialized /\ {"context", "attrs"} \subseteq allocated
          /\ allocated \subseteq Model \cup {"nv12", "input", "outputs"}

LEMMA LostIsForgotten ==
    ASSUME lost \subseteq UNION {Forgotten(call) : call \in dfailed},
           \/ lost' = lost /\ dfailed' = dfailed
           \/ lost' = lost /\ \E call : Failing(call)
           \/ \E call : \E r \in SUBSET Forgotten(call) : Failing(call) /\ lost' = lost \cup r
    PROVE  (lost \subseteq UNION {Forgotten(call) : call \in dfailed})'
<1>1. \A x : x \in lost' => \E call \in dfailed' : x \in Forgotten(call)
  BY DEF Failing
<1> QED
  BY <1>1

LEMMA WhatIsForgotten ==
    /\ {"context"} \subseteq Forgotten("rknn_query")
    /\ {"input"} \subseteq Forgotten("convert")
    /\ {"input"} \subseteq Forgotten("rknn_inputs_set")
    /\ {"input"} \subseteq Forgotten("rknn_run")
    /\ {"file"} \subseteq Forgotten("fread")
    /\ {"handle", "bytes"} \subseteq Forgotten("jpeg")
    /\ {"handle", "pixels"} \subseteq Forgotten("jpeg")
  BY DEF Forgotten

LEMMA HeldInvStep == HeldInv /\ [DetectorNext]_detectorVars => HeldInv'
<1> SUFFICES ASSUME HeldInv, [DetectorNext]_detectorVars PROVE HeldInv'
  OBVIOUS
<1> DEFINE LostOK == lost \subseteq UNION {Forgotten(call) : call \in dfailed}
<1> USE DEF HeldInv
<1>0. LostOK
  OBVIOUS
<1>s. ASSUME lost' = lost, dfailed' = dfailed PROVE LostOK'
  BY <1>0, <1>s, LostIsForgotten
<1>f. ASSUME lost' = lost, NEW call, Failing(call) PROVE LostOK'
  BY <1>0, <1>f, LostIsForgotten
<1>l. ASSUME NEW call, Failing(call), NEW r \in SUBSET Forgotten(call), lost' = lost \cup r
      PROVE  LostOK'
  BY <1>0, <1>l, LostIsForgotten
<1> HIDE DEF LostOK
<1>1. CASE CallInit
  <2>1. LostOK'
    BY <1>1, <1>s DEF CallInit, Holds
  <2> QED
    BY <1>1, <2>1 DEF CallInit, ClientCalls, DGoes, Holds, LostOK, PostStages
<1>2. CASE CallInitAgain \/ InferRefused
  <2>1. LostOK'
    BY <1>2, <1>s DEF CallInitAgain, InferRefused
  <2> QED
    BY <1>2, <2>1 DEF CallInitAgain, InferRefused, ClientCalls, DGoes, LostOK, PostStages, Model
<1>3. CASE ModelUnread
  <2>1. LostOK'
    BY <1>3, <1>f DEF ModelUnread
  <2> QED
    BY <1>3, <2>1 DEF ModelUnread, DGoes, LostOK, PostStages
<1>4. CASE ReadModel
  <2>1. LostOK'
    BY <1>4, <1>s DEF ReadModel, Holds
  <2> QED
    BY <1>4, <2>1 DEF ReadModel, DGoes, Holds, LostOK, PostStages
<1>5. CASE RknnInit
  <2>1. LostOK'
    BY <1>5, <1>s, <1>f DEF RknnInit, Frees
  <2> QED
    BY <1>5, <2>1 DEF RknnInit, DGoes, Frees, LostOK, PostStages
<1>6. CASE Query
  <2>1. LostOK'
    BY <1>6, <1>s, <1>l, WhatIsForgotten DEF Query, Holds, Loses
  <2> QED
    BY <1>6, <2>1 DEF Query, DGoes, Holds, Loses, LostOK, PostStages, Model
<1>7. CASE UndoInit
  <2>1. LostOK'
    BY <1>7, <1>s DEF UndoInit, Frees
  <2> QED
    BY <1>7, <2>1 DEF UndoInit, DGoes, Frees, LostOK, PostStages, Model
<1>8. CASE ReadImage
  <2>1. LostOK'
    BY <1>8, <1>s DEF ReadImage
  <2> QED
    BY <1>8, <2>1 DEF ReadImage, ClientCalls, DGoes, LostOK, PostStages, Model
<1>9. CASE ReadNothing
  <2>1. LostOK'
    BY <1>9, <1>f DEF ReadNothing
  <2> QED
    BY <1>9, <2>1 DEF ReadNothing, ClientCalls, DGoes, LostOK, PostStages, Model
<1>10. CASE ReadRawShort
  <2>1. LostOK'
    BY <1>10, <1>l, WhatIsForgotten DEF ReadRawShort, Loses
  <2> QED
    BY <1>10, <2>1 DEF ReadRawShort, ClientCalls, DGoes, Loses, LostOK, PostStages, Model
<1>11. CASE ReadNoJpeg
  <2>1. LostOK'
    BY <1>11, <1>s DEF ReadNoJpeg
  <2> QED
    BY <1>11, <2>1 DEF ReadNoJpeg, ClientCalls, DGoes, LostOK, PostStages
<1>12. CASE ReadBadJpeg
  <2>1. LostOK'
    BY <1>12, <1>l, WhatIsForgotten DEF ReadBadJpeg, Loses
  <2> QED
    BY <1>12, <2>1 DEF ReadBadJpeg, ClientCalls, DGoes, Loses, LostOK, PostStages, Model
<1>13. CASE CallInfer
  <2>1. LostOK'
    BY <1>13, <1>s DEF CallInfer, Holds
  <2> QED
    BY <1>13, <2>1 DEF CallInfer, ClientCalls, DGoes, Holds, LostOK, PostStages
<1>14. CASE AllocInput
  <2>1. LostOK'
    BY <1>14, <1>s, <1>f DEF AllocInput, Holds
  <2> QED
    BY <1>14, <2>1 DEF AllocInput, DGoes, Holds, LostOK, PostStages
<1>15. CASE ConvertImage
  <2>1. LostOK'
    BY <1>15, <1>s, <1>l, WhatIsForgotten DEF ConvertImage, Loses
  <2> QED
    BY <1>15, <2>1 DEF ConvertImage, DGoes, Loses, LostOK, PostStages
<1>16. CASE RunNetwork
  <2>1. LostOK'
    BY <1>16, <1>s, <1>l, WhatIsForgotten DEF RunNetwork, Loses
  <2> QED
    BY <1>16, <2>1 DEF RunNetwork, DGoes, Loses, LostOK, PostStages
<1>17. CASE GetOutputs
  <2>1. LostOK'
    BY <1>17, <1>s, <1>f DEF GetOutputs, Holds
  <2> QED
    BY <1>17, <2>1 DEF GetOutputs, DGoes, Holds, LostOK, PostStages
<1>18. CASE Decode \/ DecodeNothing \/ DecodeEnds \/ SortRange \/ SkipRange \/ SeekDown \/ SeekUp
            \/ Place \/ SortEnds \/ Nms \/ NmsEnds \/ PassOver \/ Report \/ ResultsEnd
  <2>1. dpc \in PostStages /\ dpc' \in PostStages /\ UNCHANGED postRest
    BY <1>18
    DEF Decode, DecodeNothing, DecodeEnds, SortRange, SkipRange, SeekDown, SeekUp, Place,
        SortEnds, Nms, NmsEnds, PassOver, Report, ResultsEnd, DGoes, PostStages
  <2>2. LostOK'
    BY <2>1, <1>s DEF postRest
  <2> QED
    BY <2>1, <2>2 DEF postRest, PostStages, LostOK
<1>19. CASE EndOutputs
  <2>1. LostOK'
    BY <1>19, <1>s DEF EndOutputs, Frees
  <2> QED
    BY <1>19, <2>1 DEF EndOutputs, DGoes, Frees, ReleaseOutputs, LostOK, PostStages, Model
<1>20. CASE FreeInput
  <2>1. LostOK'
    BY <1>20, <1>s DEF FreeInput, Frees
  <2> QED
    BY <1>20, <2>1 DEF FreeInput, DGoes, Frees, LostOK, PostStages, Model
<1>21. CASE InferReturns
  <2>1. LostOK'
    BY <1>21, <1>s DEF InferReturns, Frees
  <2> QED
    BY <1>21, <2>1 DEF InferReturns, DGoes, Frees, LostOK, PostStages, Model
<1>22. CASE CallRelease
  <2>1. LostOK'
    BY <1>22, <1>s DEF CallRelease, Frees
  <2> QED
    BY <1>22, <2>1 DEF CallRelease, ClientCalls, DGoes, Frees, LostOK, PostStages, Model
<1>23. CASE UNCHANGED detectorVars
  BY <1>23 DEF detectorVars
<1> QED
  BY <1>1, <1>2, <1>3, <1>4, <1>5, <1>6, <1>7, <1>8, <1>9, <1>10, <1>11, <1>12, <1>13, <1>14,
     <1>15, <1>16, <1>17, <1>18, <1>19, <1>20, <1>21, <1>22, <1>23 DEF DetectorNext

\* Between two calls only the model is held, and what the detector has lost a
\* pointer to is what six failures forget (yolov5.cc, image_utils.c).
THEOREM DetectorStaysBalanced == DetectorSpec => []DetectorBalances
<1>1. DetectorInit => HeldInv
  BY DEF DetectorInit, HeldInv, Model, PostStages
<1>2. HeldInv => DetectorBalances
  BY DEF HeldInv, DetectorBalances, Model
<1> QED
  BY <1>1, <1>2, HeldInvStep, PTL DEF DetectorSpec

=============================================================================
