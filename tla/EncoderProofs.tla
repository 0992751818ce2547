---------------------------- MODULE EncoderProofs ----------------------------
(***************************************************************************)
(* Proofs about Encoder, for any size of the queue and of pending_packets, *)
(* any codec, any number of frames and any set of faults.                  *)
(***************************************************************************)
EXTENDS Encoder, SequenceTheorems, TLAPS

evars == <<streamVars, encoderVars>>

Waiting == pending \o codec

-----------------------------------------------------------------------------
(* Sequences of packets.                                                   *)

Rising(s) == \A i, j \in 1..Len(s) : i < j => s[i].frame < s[j].frame
Below(s, t) == \A i \in 1..Len(s), j \in 1..Len(t) : s[i].frame < t[j].frame
UpTo(s, n) == \A i \in 1..Len(s) : s[i].frame <= n

\* t is the part of w that begins after its first k elements.
Part(t, w, k) ==
    /\ k + Len(t) <= Len(w)
    /\ \A i \in 1..Len(t) : t[i] = w[i + k]

\* What First and From make of a sequence.
LEMMA Split ==
    ASSUME NEW S, NEW s \in Seq(S), NEW n \in 0..Len(s)
    PROVE  /\ First(s, n) \in Seq(S)
           /\ Len(First(s, n)) = n
           /\ Part(First(s, n), s, 0)
           /\ From(s, n) \in Seq(S)
           /\ Len(From(s, n)) = Len(s) - n
           /\ Part(From(s, n), s, n)
<1>1. /\ Len(s) \in Nat
      /\ \A i \in 1..Len(s) : s[i] \in S
  BY LenProperties, ElementOfSeq
<1>2. \A i \in 1..n : s[i] \in S
  BY <1>1
<1>3. /\ First(s, n) \in Seq(S)
      /\ Len(First(s, n)) = n
      /\ \A i \in 1..n : First(s, n)[i] = s[i]
  BY <1>1, <1>2, SubSeqProperties DEF First
<1>4. \A i \in (n + 1)..Len(s) : s[i] \in S
  BY <1>1
<1>5. /\ From(s, n) \in Seq(S)
      /\ Len(From(s, n)) = Len(s) - n
      /\ \A i \in 1..(Len(s) - n) : From(s, n)[i] = s[n + i]
  BY <1>1, <1>4, SubSeqProperties DEF From
<1> QED
  BY <1>1, <1>3, <1>5 DEF Part

\* A part of an ascending sequence ascends, and so do two parts one after the
\* other; what is below the sequence is below its parts.
LEMMA Parts ==
    ASSUME NEW w \in Seq(Packets), Rising(w),
           NEW s \in Seq(Packets), NEW t \in Seq(Packets),
           NEW a \in Nat, NEW b \in Nat,
           Part(s, w, a), Part(t, w, b), a + Len(s) <= b
    PROVE  /\ Rising(s \o t)
           /\ \A e \in Seq(Packets) : Below(e, w) => Below(e, s \o t)
           /\ \A n \in Nat : UpTo(w, n) => UpTo(s \o t, n)
           /\ \A k \in 1..a, i \in 1..Len(s \o t) : w[k].frame < (s \o t)[i].frame
<1>1. Len(s) \in Nat /\ Len(t) \in Nat /\ Len(w) \in Nat
  BY LenProperties
<1>2. /\ Len(s \o t) = Len(s) + Len(t)
      /\ \A i \in 1..(Len(s) + Len(t)) :
            (s \o t)[i] = IF i <= Len(s) THEN s[i] ELSE t[i - Len(s)]
  BY ConcatProperties
<1> DEFINE g(i) == IF i <= Len(s) THEN i + a ELSE i - Len(s) + b
<1>3. ASSUME NEW i \in 1..Len(s \o t)
      PROVE  g(i) \in 1..Len(w) /\ (s \o t)[i] = w[g(i)]
  <2>1. /\ \A k \in 1..Len(s) : s[k] = w[k + a]
        /\ \A k \in 1..Len(t) : t[k] = w[k + b]
        /\ a + Len(s) <= Len(w)
        /\ b + Len(t) <= Len(w)
    BY DEF Part
  <2>2. CASE i <= Len(s)
    <3>1. i \in 1..Len(s) /\ g(i) = i + a /\ (s \o t)[i] = s[i]
      BY <1>1, <1>2, <2>2
    <3> QED
      BY <1>1, <2>1, <3>1
  <2>3. CASE ~(i <= Len(s))
    <3>1. /\ i - Len(s) \in 1..Len(t)
          /\ g(i) = i - Len(s) + b
          /\ (s \o t)[i] = t[i - Len(s)]
      BY <1>1, <1>2, <2>3
    <3> HIDE DEF g
    <3> QED
      BY <1>1, <2>1, <3>1
  <2> QED
    BY <2>2, <2>3
<1>4. \A i, j \in 1..Len(s \o t) : i < j => g(i) < g(j)
  BY <1>1, <1>2
<1>5. Rising(s \o t)
  BY <1>3, <1>4 DEF Rising
<1>6. ASSUME NEW e \in Seq(Packets), Below(e, w)
      PROVE  Below(e, s \o t)
  BY <1>3, <1>6 DEF Below
<1>7. ASSUME NEW n \in Nat, UpTo(w, n)
      PROVE  UpTo(s \o t, n)
  BY <1>3, <1>7 DEF UpTo
<1>8. ASSUME NEW k \in 1..a, NEW i \in 1..Len(s \o t)
      PROVE  w[k].frame < (s \o t)[i].frame
  <2>1. k < g(i) /\ k \in 1..Len(w)
    BY <1>1, <1>2 DEF Part
  <2> QED
    BY <1>3, <2>1 DEF Rising
<1> QED
  BY <1>5, <1>6, <1>7, <1>8

\* A packet of a later frame may be appended.
LEMMA Appended ==
    ASSUME NEW s \in Seq(Packets), NEW p \in Packets, NEW n \in Nat,
           Rising(s), UpTo(s, n), p.frame > n
    PROVE  Rising(Append(s, p)) /\ UpTo(Append(s, p), p.frame)
<1>1. Len(s) \in Nat /\ \A i \in 1..Len(s) : s[i] \in Packets
  BY LenProperties, ElementOfSeq
<1>2. /\ \A i \in 1..Len(s) : s[i].frame \in Nat
      /\ p.frame \in Nat
  BY <1>1 DEF Packets
<1>3. /\ Len(Append(s, p)) = Len(s) + 1
      /\ \A i \in 1..Len(s) : Append(s, p)[i] = s[i]
      /\ Append(s, p)[Len(s) + 1] = p
  BY AppendProperties
<1> QED
  BY <1>1, <1>2, <1>3 DEF Rising, UpTo

-----------------------------------------------------------------------------
(* What a receive does to pending and codec.                               *)

\* pending and codec become parts of w, the first a packets of which are gone
\* from the front, and possibly some more between the two.
Moved(w, a) ==
    /\ pending' \in Seq(Packets)
    /\ codec' \in Seq(Packets)
    /\ Len(pending') <= PendingCount
    /\ \E b \in Nat : /\ Part(pending', w, a)
                      /\ Part(codec', w, b)
                      /\ a + Len(pending') <= b

\* A sequence put before another shifts the parts of that one.
LEMMA Prefixed ==
    ASSUME NEW s \in Seq(Packets), NEW u \in Seq(Packets),
           NEW f \in Seq(Packets), Part(f, u, 0),
           NEW r \in Seq(Packets), NEW n \in Nat, Part(r, u, n)
    PROVE  /\ Part(s \o f, s \o u, 0)
           /\ Part(r, s \o u, Len(s) + n)
<1>1. Len(s) \in Nat /\ Len(u) \in Nat /\ Len(f) \in Nat /\ Len(r) \in Nat
  BY LenProperties
<1>2. /\ Len(f) <= Len(u)
      /\ \A i \in 1..Len(f) : f[i] = u[i]
      /\ n + Len(r) <= Len(u)
      /\ \A i \in 1..Len(r) : r[i] = u[i + n]
  BY <1>1 DEF Part
<1>3. /\ Len(s \o u) = Len(s) + Len(u)
      /\ \A i \in 1..(Len(s) + Len(u)) :
            (s \o u)[i] = IF i <= Len(s) THEN s[i] ELSE u[i - Len(s)]
  BY ConcatProperties
<1>4. /\ Len(s \o f) = Len(s) + Len(f)
      /\ \A i \in 1..(Len(s) + Len(f)) :
            (s \o f)[i] = IF i <= Len(s) THEN s[i] ELSE f[i - Len(s)]
  BY ConcatProperties
<1>5. ASSUME NEW i \in 1..Len(s \o f)
      PROVE  (s \o f)[i] = (s \o u)[i + 0]
  <2>1. CASE i <= Len(s)
    BY <1>1, <1>2, <1>3, <1>4, <2>1
  <2>2. CASE ~(i <= Len(s))
    <3>1. i - Len(s) \in 1..Len(f)
      BY <1>1, <1>4, <2>2
    <3>2. f[i - Len(s)] = u[i - Len(s)]
      BY <1>2, <3>1
    <3> QED
      BY <1>1, <1>2, <1>3, <1>4, <2>2, <3>2
  <2> QED
    BY <2>1, <2>2
<1>6. ASSUME NEW i \in 1..Len(r)
      PROVE  r[i] = (s \o u)[i + (Len(s) + n)]
  <2>1. /\ i + (Len(s) + n) \in 1..(Len(s) + Len(u))
        /\ ~(i + (Len(s) + n) <= Len(s))
        /\ i + (Len(s) + n) - Len(s) = i + n
    BY <1>1, <1>2
  <2> QED
    BY <1>2, <1>3, <2>1
<1> QED
  BY <1>1, <1>2, <1>3, <1>4, <1>5, <1>6 DEF Part

\* The packets that are ready, and those that stay with the codec, are parts
\* of all the packets.
LEMMA Ready ==
    ASSUME NEW s \in Seq(Packets), NEW inside \in Seq(Packets),
           NEW n \in 0..Len(inside), NEW w, w = s \o inside
    PROVE  /\ w \in Seq(Packets)
           /\ Len(w) = Len(s) + Len(inside)
           /\ s \o First(inside, n) \in Seq(Packets)
           /\ Len(s \o First(inside, n)) = Len(s) + n
           /\ Part(s \o First(inside, n), w, 0)
           /\ From(inside, n) \in Seq(Packets)
           /\ Len(From(inside, n)) = Len(inside) - n
           /\ Part(From(inside, n), w, Len(s) + n)
<1>1. /\ First(inside, n) \in Seq(Packets)
      /\ Len(First(inside, n)) = n
      /\ Part(First(inside, n), inside, 0)
      /\ From(inside, n) \in Seq(Packets)
      /\ Len(From(inside, n)) = Len(inside) - n
      /\ Part(From(inside, n), inside, n)
  BY Split
<1>2. n \in Nat
  BY LenProperties
<1>3. /\ w \in Seq(Packets)
      /\ Len(w) = Len(s) + Len(inside)
  BY ConcatProperties
<1>4. /\ s \o First(inside, n) \in Seq(Packets)
      /\ Len(s \o First(inside, n)) = Len(s) + Len(First(inside, n))
  BY <1>1, ConcatProperties
<1>5. /\ Part(s \o First(inside, n), s \o inside, 0)
      /\ Part(From(inside, n), s \o inside, Len(s) + n)
  BY <1>1, <1>2, Prefixed
<1> QED
  BY <1>1, <1>3, <1>4, <1>5

\* Without its first packet, a part begins one later.
LEMMA TailPart ==
    ASSUME NEW t \in Seq(Packets), NEW w \in Seq(Packets), t # <<>>, Part(t, w, 0)
    PROVE  /\ Head(t) = w[1]
           /\ Head(t) \in Packets
           /\ Tail(t) \in Seq(Packets)
           /\ Len(Tail(t)) = Len(t) - 1
           /\ Part(Tail(t), w, 1)
<1>1. /\ Len(t) \in Nat \ {0}
      /\ Len(w) \in Nat
      /\ Head(t) = t[1]
  BY EmptySeq, LenProperties
<1>2. /\ Head(t) \in Packets
      /\ Tail(t) \in Seq(Packets)
      /\ Len(Tail(t)) = Len(t) - 1
      /\ \A i \in 1..Len(Tail(t)) : Tail(t)[i] = t[i + 1]
  BY HeadTailProperties
<1>3. /\ Len(t) <= Len(w)
      /\ \A i \in 1..Len(t) : t[i] = w[i]
  BY <1>1 DEF Part
<1>4. \A i \in 1..Len(Tail(t)) : Tail(t)[i] = w[i + 1]
  BY <1>1, <1>2, <1>3
<1> QED
  BY <1>1, <1>2, <1>3, <1>4 DEF Part

\* A receive that succeeds hands out the first of all the packets, or there is
\* none to hand out and the codec keeps what it is allowed to keep.
LEMMA ReceiveMoves ==
    ASSUME EncoderTypeOK, NEW inside \in Seq(Packets), NEW kept \in Nat,
           NEW some, NEW none, Receive(inside, kept, some, none),
           NEW w, w = pending \o inside
    PROVE  \/ /\ epc' = some
              /\ w # <<>>
              /\ out' = <<w[1]>>
              /\ w[1] \in Packets
              /\ Moved(w, 1)
              /\ Len(pending') + Len(codec') + 1 = Len(w)
           \/ /\ epc' = none
              /\ out' = out
              /\ Moved(w, 0)
              /\ Len(pending') = 0
              /\ Len(codec') = Len(w)
              /\ Len(codec') <= kept
<1>1. PICK n \in 0..Len(inside) :
         /\ Len(inside) - n <= kept
         /\ Len(pending \o First(inside, n)) <= PendingCount
         /\ codec' = From(inside, n)
         /\ IF pending \o First(inside, n) = <<>>
            THEN epc' = none /\ UNCHANGED <<pending, out>>
            ELSE /\ epc' = some
                 /\ out' = <<Head(pending \o First(inside, n))>>
                 /\ pending' = Tail(pending \o First(inside, n))
  BY DEF Receive
<1> DEFINE ready == pending \o First(inside, n)
<1>2. pending \in Seq(Packets) /\ Len(pending) \in Nat /\ Len(inside) \in Nat
  BY LenProperties DEF EncoderTypeOK
<1> HIDE DEF ready
<1>3. /\ w \in Seq(Packets)
      /\ Len(w) = Len(pending) + Len(inside)
  BY <1>2, ConcatProperties
<1>4. /\ pending \o First(inside, n) \in Seq(Packets)
      /\ Len(pending \o First(inside, n)) = Len(pending) + n
      /\ Part(pending \o First(inside, n), w, 0)
  BY <1>2, Ready
<1>5. /\ From(inside, n) \in Seq(Packets)
      /\ Len(From(inside, n)) = Len(inside) - n
      /\ Part(From(inside, n), w, Len(pending) + n)
  BY <1>2, <1>4, Ready
<1>6. /\ w \in Seq(Packets)
      /\ Len(w) = Len(pending) + Len(inside)
      /\ ready \in Seq(Packets)
      /\ Len(ready) = Len(pending) + n
      /\ Part(ready, w, 0)
      /\ codec' \in Seq(Packets)
      /\ Len(codec') = Len(inside) - n
      /\ Part(codec', w, Len(pending) + n)
  BY <1>1, <1>4, <1>5, <1>3 DEF ready
<1>7. Len(ready) = 0 <=> ready = <<>>
  BY <1>6, EmptySeq
<1>8. CASE ready = <<>>
  <2>1. /\ pending' = pending
        /\ out' = out
        /\ epc' = none
    BY <1>1, <1>8 DEF ready
  <2>2. n = 0 /\ Len(pending) = 0 /\ pending = ready
    BY <1>2, <1>6, <1>7, <1>8, EmptySeq
  <2>3. Moved(w, 0)
    BY <1>2, <1>6, <2>1, <2>2, EncoderAssumption DEF Moved
  <2>4. Len(pending') = 0 /\ Len(codec') = Len(w) /\ Len(codec') <= kept
    BY <1>1, <1>2, <1>6, <2>1, <2>2
  <2> QED
    BY <2>1, <2>3, <2>4
<1>9. CASE ready # <<>>
  <2>1. /\ epc' = some
        /\ out' = <<Head(ready)>>
        /\ pending' = Tail(ready)
    BY <1>1, <1>9 DEF ready
  <2>2. /\ Head(ready) = w[1]
        /\ Head(ready) \in Packets
        /\ Tail(ready) \in Seq(Packets)
        /\ Len(Tail(ready)) = Len(ready) - 1
        /\ Part(Tail(ready), w, 1)
    BY <1>6, <1>9, TailPart
  <2>3. Moved(w, 1)
    BY <1>1, <1>2, <1>6, <2>1, <2>2, EncoderAssumption DEF Moved, ready
  <2>4. w # <<>>
    BY <1>2, <1>6, <1>7, <1>9, EmptySeq
  <2>5. Len(pending') = Len(pending) + n - 1
    BY <1>6, <2>1, <2>2
  <2>6. Len(pending') + Len(codec') + 1 = Len(w)
    BY <1>2, <1>6, <2>5
  <2>7. out' = <<w[1]>> /\ w[1] \in Packets
    BY <2>1, <2>2
  <2>8. /\ epc' = some
        /\ w # <<>>
        /\ out' = <<w[1]>>
        /\ w[1] \in Packets
    BY <2>1, <2>4, <2>7
  <2>9. Moved(w, 1) /\ Len(pending') + Len(codec') + 1 = Len(w)
    BY <2>3, <2>6
  <2> QED
    BY <2>8, <2>9
<1> QED
  BY <1>8, <1>9

\* A receive that fails loses at most one packet, and one is refused for lack
\* of room only when there are more packets than places.
LEMMA ReceiveFailsMoves ==
    ASSUME EncoderTypeOK, NEW inside \in Seq(Packets), NEW kept, NEW label,
           ReceiveFails(inside, kept, label),
           NEW w, w = pending \o inside
    PROVE  /\ \E a \in {0, 1} : Moved(w, a)
           /\ Len(pending') + Len(codec') <= Len(w)
           /\ out' = out
           /\ epc' = label
           /\ closed' = TRUE
           /\ UNCHANGED <<emitted, taken>>
           /\ efailed' # {}
           /\ efailed' \subseteq EncoderFaults \cup {"full", "refused"}
           /\ "full" \in efailed' => "full" \in efailed \/ Len(w) > PendingCount
<1>1. /\ out' = out
      /\ epc' = label
      /\ closed' = TRUE
      /\ UNCHANGED <<emitted, taken>>
  BY DEF ReceiveFails, EncoderStops, Shut
<1>2. /\ pending \in Seq(Packets)
      /\ Len(pending) \in 0..PendingCount
      /\ Len(inside) \in Nat
      /\ PendingCount \in Nat
      /\ efailed \subseteq EncoderFaults \cup {"full", "refused"}
  BY LenProperties, EncoderAssumption DEF EncoderTypeOK
<1>3. PICK n \in 0..Len(inside) :
        /\ codec' = From(inside, n)
        /\ \/ /\ Len(pending) + n <= PendingCount
              /\ EncoderFault("receive")
              /\ pending' = pending \o First(inside, n)
           \/ /\ n > 0
              /\ Len(pending) + n <= PendingCount
              /\ EncoderFault("store")
              /\ pending' = pending \o First(inside, n - 1)
           \/ /\ Len(pending) + n \in 1..PendingCount
              /\ EncoderFault("fill")
              /\ pending' = Tail(pending \o First(inside, n))
           \/ /\ n > 0
              /\ ~NoRoom(n - 1)
              /\ NoRoom(n)
              /\ efailed' = efailed \cup {"full"}
              /\ pending' = pending \o First(inside, n - 1)
  BY DEF ReceiveFails
<1>4. /\ w \in Seq(Packets)
       /\ Len(w) = Len(pending) + Len(inside)
  BY <1>2, ConcatProperties
<1>5. /\ pending \o First(inside, n) \in Seq(Packets)
       /\ Len(pending \o First(inside, n)) = Len(pending) + n
       /\ Part(pending \o First(inside, n), w, 0)
  BY <1>2, Ready
<1>6. /\ From(inside, n) \in Seq(Packets)
       /\ Len(From(inside, n)) = Len(inside) - n
       /\ Part(From(inside, n), w, Len(pending) + n)
  BY <1>2, <1>5, Ready
<1>7. /\ w \in Seq(Packets)
      /\ Len(w) = Len(pending) + Len(inside)
      /\ codec' \in Seq(Packets)
      /\ Len(codec') = Len(inside) - n
      /\ Part(codec', w, Len(pending) + n)
      /\ pending \o First(inside, n) \in Seq(Packets)
      /\ Len(pending \o First(inside, n)) = Len(pending) + n
      /\ Part(pending \o First(inside, n), w, 0)
  BY <1>3, <1>5, <1>6, <1>4
<1>8. n > 0 => /\ pending \o First(inside, n - 1) \in Seq(Packets)
               /\ Len(pending \o First(inside, n - 1)) = Len(pending) + n - 1
               /\ Part(pending \o First(inside, n - 1), w, 0)
  <2> SUFFICES ASSUME n > 0
               PROVE  /\ pending \o First(inside, n - 1) \in Seq(Packets)
                      /\ Len(pending \o First(inside, n - 1)) = Len(pending) + n - 1
                      /\ Part(pending \o First(inside, n - 1), w, 0)
    OBVIOUS
  <2>1. n - 1 \in 0..Len(inside)
    BY <1>2
  <2> QED
    BY <1>2, <2>1, Ready
<1>9. \A f : EncoderFault(f) =>
         /\ efailed' # {}
         /\ efailed' \subseteq EncoderFaults \cup {"full", "refused"}
         /\ "full" \in efailed' => "full" \in efailed
  BY <1>2 DEF EncoderFault, EncoderFaults
<1>10. CASE /\ Len(pending) + n <= PendingCount
           /\ EncoderFault("receive")
           /\ pending' = pending \o First(inside, n)
  <2>1. Moved(w, 0)
    BY <1>2, <1>7, <1>10 DEF Moved
  <2> QED
    BY <1>1, <1>2, <1>7, <1>9, <1>10, <2>1
<1>11. CASE /\ n > 0
           /\ Len(pending) + n <= PendingCount
           /\ EncoderFault("store")
           /\ pending' = pending \o First(inside, n - 1)
  <2>1. Moved(w, 0)
    BY <1>2, <1>7, <1>8, <1>11 DEF Moved
  <2> QED
    BY <1>1, <1>2, <1>7, <1>8, <1>9, <1>11, <2>1
<1>12. CASE /\ Len(pending) + n \in 1..PendingCount
           /\ EncoderFault("fill")
           /\ pending' = Tail(pending \o First(inside, n))
  <2>1. pending \o First(inside, n) # <<>>
    BY <1>7, <1>12, EmptySeq
  <2>2. /\ pending' \in Seq(Packets)
        /\ Len(pending') = Len(pending \o First(inside, n)) - 1
        /\ Part(pending', w, 1)
    BY <1>7, <1>12, <2>1, TailPart
  <2>3. Moved(w, 1)
    BY <1>2, <1>7, <1>12, <2>2 DEF Moved
  <2> QED
    BY <1>1, <1>2, <1>7, <1>9, <1>12, <2>2, <2>3
<1>13. CASE /\ n > 0
            /\ ~NoRoom(n - 1)
            /\ NoRoom(n)
            /\ efailed' = efailed \cup {"full"}
            /\ pending' = pending \o First(inside, n - 1)
  <2>1. Len(pending) + n = PendingCount + 1
    BY <1>2, <1>13 DEF NoRoom
  <2>2. Moved(w, 0)
    BY <1>2, <1>7, <1>8, <1>13, <2>1 DEF Moved
  <2>3. Len(w) > PendingCount
    BY <1>2, <1>7, <2>1
  <2> QED
    BY <1>1, <1>2, <1>7, <1>8, <1>13, <2>2, <2>3
<1> QED
  BY <1>3, <1>10, <1>11, <1>12, <1>13
-----------------------------------------------------------------------------
(* Types.                                                                  *)

\* A frame that is encoded becomes a packet with the number of that frame.
LEMMA Coming ==
    ASSUME EncoderTypeOK, NEW packet \in Coded
    PROVE  /\ packet \in Packets
           /\ packet.frame = sent + 1
           /\ Append(codec, packet) \in Seq(Packets)
           /\ Len(Append(codec, packet)) = Len(codec) + 1
<1>1. sent \in Nat /\ codec \in Seq(Packets)
  BY DEF EncoderTypeOK
<1>2. PICK k \in BOOLEAN : packet = [frame |-> sent + 1, key |-> k]
  BY DEF Coded
<1>3. packet \in Packets /\ packet.frame = sent + 1
  BY <1>1, <1>2 DEF Packets
<1> QED
  BY <1>1, <1>3, AppendProperties

\* What the encoder does to its own state is within the types.
LEMMA TypeInit == StreamInit /\ EncoderInit => EncoderTypeOK
<1> SUFFICES ASSUME StreamInit, EncoderInit PROVE EncoderTypeOK
  OBVIOUS
<1>1. <<>> \in Seq(Packets) /\ Len(<<>>) = 0
  BY EmptySeq
<1>2. /\ emitted \in Seq(Packets)
      /\ codec \in Seq(Packets)
      /\ pending \in Seq(Packets)
      /\ out \in Seq(Packets)
      /\ Len(pending) = 0 /\ Len(out) = 0
  BY <1>1 DEF StreamInit, EncoderInit
<1>3. epc = "loop" /\ Len(pending) <= PendingCount
  BY <1>2, EncoderAssumption DEF EncoderInit
<1>4. closed \in BOOLEAN /\ flushing \in BOOLEAN
  BY Zenon DEF StreamInit, EncoderInit
<1>5. taken \in Nat /\ sent \in Nat /\ since \in Nat /\ delay \in Delays
  BY DEF StreamInit, EncoderInit
<1>6. efailed = {}
  BY DEF EncoderInit
<1> QED
  BY <1>2, <1>3, <1>4, <1>5, <1>6 DEF EncoderTypeOK, Labels

\* The part of the type invariant that a receive may disturb.
CodecOK ==
    /\ codec \in Seq(Packets)
    /\ pending \in Seq(Packets)
    /\ Len(pending) <= PendingCount
    /\ out \in Seq(Packets)
    /\ Len(out) = IF epc \in {"push", "push_flush"} THEN 1 ELSE 0
    /\ efailed \subseteq EncoderFaults \cup {"full", "refused"}

\* A receive keeps the types when no packet is in hand.
LEMMA ReceiveType ==
    ASSUME EncoderTypeOK, out = <<>>,
           NEW inside \in Seq(Packets), NEW kept \in Nat,
           NEW some \in {"push", "push_flush"}, NEW none \in {"loop", "exit"},
           Receive(inside, kept, some, none)
    PROVE  CodecOK'
<1> DEFINE w == pending \o inside
<1> HIDE DEF w
<1>1. \/ /\ epc' = some
         /\ out' = <<w[1]>>
         /\ w[1] \in Packets
         /\ Moved(w, 1)
      \/ /\ epc' = none
         /\ out' = out
         /\ Moved(w, 0)
  BY ReceiveMoves DEF w
<1>2. /\ codec' \in Seq(Packets)
      /\ pending' \in Seq(Packets)
      /\ Len(pending') <= PendingCount
  BY <1>1 DEF Moved
<1>3. efailed' = efailed
  BY DEF Receive
<1>4. CASE epc' = some /\ out' = <<w[1]>> /\ w[1] \in Packets
  BY <1>2, <1>3, <1>4 DEF EncoderTypeOK, CodecOK
<1>5. CASE epc' = none /\ out' = out
  BY <1>2, <1>3, <1>5, EmptySeq DEF EncoderTypeOK, CodecOK
<1> QED
  BY <1>1, <1>4, <1>5

\* So does one that fails.
LEMMA ReceiveFailsType ==
    ASSUME EncoderTypeOK, out = <<>>,
           NEW inside \in Seq(Packets), NEW kept, NEW label \in {"flush", "exit"},
           ReceiveFails(inside, kept, label)
    PROVE  CodecOK'
<1> DEFINE w == pending \o inside
<1> HIDE DEF w
<1>1. /\ \E a \in {0, 1} : Moved(w, a)
      /\ out' = out
      /\ epc' = label
      /\ efailed' \subseteq EncoderFaults \cup {"full", "refused"}
  BY ReceiveFailsMoves DEF w
<1>2. /\ codec' \in Seq(Packets)
      /\ pending' \in Seq(Packets)
      /\ Len(pending') <= PendingCount
  BY <1>1 DEF Moved
<1> QED
  BY <1>1, <1>2, EmptySeq DEF EncoderTypeOK, CodecOK

\* Every step of the encode thread, of its teardown and of the others keeps
\* the types.
LEMMA TypeNext ==
    ASSUME EncoderTypeOK, [EncoderNext]_evars
    PROVE  EncoderTypeOK'
<1> DEFINE Rest == /\ emitted \in Seq(Packets)
                   /\ taken \in Nat
                   /\ closed \in BOOLEAN
                   /\ epc \in Labels
                   /\ delay \in Delays
                   /\ sent \in Nat
                   /\ since \in Nat
                   /\ flushing \in BOOLEAN
<1>1. EncoderTypeOK' <=> CodecOK' /\ Rest'
  BY Zenon DEF EncoderTypeOK, CodecOK
<1>2. CodecOK /\ Rest
  BY Zenon DEF EncoderTypeOK, CodecOK
<1>3. epc \notin {"push", "push_flush"} => out = <<>>
  BY EmptySeq DEF EncoderTypeOK
<1>4. delay \in Nat
  BY EncoderAssumption DEF EncoderTypeOK
<1>5. \A f : EncoderFault(f) => efailed' \subseteq EncoderFaults \cup {"full", "refused"}
  BY <1>2 DEF EncoderFault, CodecOK
<1>6. <<>> \in Seq(Packets) /\ Len(<<>>) = 0
  BY EmptySeq
<1> HIDE DEF Rest
<1>7. CASE Encode
  <2>1. PICK packet \in Coded :
          /\ since' = IF packet.key THEN 0 ELSE since + 1
          /\ \/ Receive(Append(codec, packet), delay, "push", "loop")
             \/ ReceiveFails(Append(codec, packet), delay, "flush")
    BY <1>7 DEF Encode
  <2>2. Append(codec, packet) \in Seq(Packets) /\ out = <<>>
    BY <1>3, <1>7, Coming DEF Encode
  <2>3. /\ sent' = sent + 1
        /\ UNCHANGED <<delay, flushing>>
    BY <1>7 DEF Encode
  <2>4. CASE Receive(Append(codec, packet), delay, "push", "loop")
    <3>1. CodecOK'
      BY <1>4, <2>2, <2>4, ReceiveType
    <3>2. UNCHANGED streamVars /\ epc' \in {"push", "loop"}
      BY <2>4 DEF Receive
    <3> QED
      BY <1>1, <1>2, <2>1, <2>3, <3>1, <3>2 DEF Rest, Labels, streamVars
  <2>5. CASE ReceiveFails(Append(codec, packet), delay, "flush")
    <3>1. CodecOK'
      BY <2>2, <2>5, ReceiveFailsType
    <3>2. UNCHANGED <<emitted, taken>> /\ closed' = TRUE /\ epc' = "flush"
      BY <2>5 DEF ReceiveFails, EncoderStops, Shut
    <3> QED
      BY <1>1, <1>2, <2>1, <2>3, <3>1, <3>2 DEF Rest, Labels
  <2> QED
    BY <2>1, <2>4, <2>5
<1>8. CASE EncodeRejects
  BY <1>1, <1>2, <1>5, <1>8
  DEF EncodeRejects, EncoderStops, Shut, codecVars, CodecOK, Rest, Labels
<1>9. CASE InputEnds
  BY <1>1, <1>2, <1>9
  DEF InputEnds, streamVars, codecVars, CodecOK, Rest, Labels
<1>10. CASE InputFails
  BY <1>1, <1>2, <1>5, <1>10
  DEF InputFails, EncoderStops, Shut, codecVars, CodecOK, Rest, Labels
<1>11. CASE PushPacket
  <2>1. /\ out' = <<>>
        /\ epc' \in {"loop", "flush"}
        /\ emitted' = Append(emitted, Head(out))
        /\ UNCHANGED <<taken, closed, PushFrame, efailed>>
    BY <1>11 DEF PushPacket, Accept, AfterPush
  <2>2. out # <<>>
    <3>1. Len(out) = 1
      BY <1>11 DEF PushPacket, EncoderTypeOK
    <3> QED
      BY <1>6, <3>1
  <2>3. Head(out) \in Packets
    BY <2>2, HeadTailProperties DEF EncoderTypeOK
  <2>4. emitted' \in Seq(Packets)
    BY <2>1, <2>3, AppendProperties DEF EncoderTypeOK
  <2> QED
    BY <1>1, <1>2, <1>6, <2>1, <2>4 DEF PushFrame, codecVars, CodecOK, Rest, Labels
<1>12. CASE PushRefused
  BY <1>1, <1>2, <1>6, <1>12
  DEF PushRefused, AfterNoPush, PushFrame, streamVars, codecVars, CodecOK, Rest, Labels
<1>13. CASE PushFails
  BY <1>1, <1>2, <1>5, <1>6, <1>13
  DEF PushFails, AfterNoPush, EncoderStops, Shut, PushFrame, codecVars, CodecOK, Rest, Labels
<1>14. CASE Flush
  <2>1. codec \in Seq(Packets) /\ out = <<>> /\ Receive(codec, 0, "push_flush", "exit")
    BY <1>2, <1>3, <1>14 DEF Flush, CodecOK
  <2>2. CodecOK'
    BY <2>1, ReceiveType
  <2>3. UNCHANGED streamVars /\ epc' \in {"push_flush", "exit"}
    BY <2>1 DEF Receive
  <2>4. flushing' = TRUE /\ UNCHANGED <<delay, sent, since>>
    BY <1>14 DEF Flush
  <2> QED
    BY <1>1, <1>2, <2>2, <2>3, <2>4 DEF Rest, Labels, streamVars
<1>15. CASE FlushFails
  <2>1. CASE flushing' = TRUE /\ ReceiveFails(codec, 0, "exit")
    <3>1. codec \in Seq(Packets) /\ out = <<>>
      BY <1>2, <1>3, <1>15 DEF FlushFails, CodecOK
    <3>2. CodecOK'
      BY <2>1, <3>1, ReceiveFailsType
    <3>3. UNCHANGED <<emitted, taken>> /\ closed' = TRUE /\ epc' = "exit"
      BY <2>1 DEF ReceiveFails, EncoderStops, Shut
    <3>4. UNCHANGED <<delay, sent, since>>
      BY <1>15 DEF FlushFails
    <3> QED
      BY <1>1, <1>2, <2>1, <3>2, <3>3, <3>4 DEF Rest, Labels
  <2>2. CASE /\ EncoderFault("drain")
             /\ EncoderStops("exit")
             /\ UNCHANGED <<codecVars, out, flushing>>
    BY <1>1, <1>2, <1>5, <1>15, <2>2
    DEF FlushFails, EncoderStops, Shut, codecVars, CodecOK, Rest, Labels
  <2> QED
    BY <1>15, <2>1, <2>2 DEF FlushFails
<1>16. CASE EncoderExit
  BY <1>1, <1>2, <1>16
  DEF EncoderExit, EncoderStops, Shut, codecVars, CodecOK, Rest, Labels
<1>17. CASE EncoderDeinit
  BY <1>1, <1>2, <1>6, <1>17, EncoderAssumption
  DEF EncoderDeinit, streamVars, CodecOK, Rest, Labels
<1>18. CASE Others
  <2>1. UNCHANGED <<epc, delay, sent, since, codec, pending, out, flushing, efailed>>
    BY <1>18 DEF Others, encoderVars, codecVars
  <2>2. emitted' = emitted /\ taken' \in {taken, taken + 1}
    BY <1>18 DEF Others, TakeNext, Shut
  <2>3. closed' \in BOOLEAN
    <3>1. closed' = closed \/ closed' = TRUE
      BY <1>18 DEF Others, TakeNext, Shut
    <3> QED
      BY <1>2, <3>1 DEF Rest
  <2>4. CodecOK'
    BY <1>2, <2>1 DEF CodecOK
  <2> QED
    BY <1>1, <1>2, <2>1, <2>2, <2>4, <2>3 DEF Rest, Labels
<1>19. CASE UNCHANGED evars
  BY <1>1, <1>2, <1>19
  DEF evars, streamVars, encoderVars, codecVars, CodecOK, Rest
<1> QED
  BY <1>7, <1>8, <1>9, <1>10, <1>11, <1>12, <1>13, <1>14, <1>15, <1>16, <1>17, <1>18, <1>19
  DEF EncoderNext, EncodeThread

\* The encoder and its queue keep their types; in particular pending_packets
\* never holds more packets than it has places.
THEOREM EncoderTypeCorrect == EncoderSpec => []EncoderTypeOK
<1>1. EncoderTypeOK /\ [EncoderNext]_evars => EncoderTypeOK'
  BY TypeNext
<1> QED
  BY <1>1, TypeInit, PTL DEF EncoderSpec, evars
-----------------------------------------------------------------------------
(* The places of pending_packets.                                          *)

\* Between two frames the codec and pending_packets together hold no more than
\* the codec may keep back; after a failure, one more.
Bound == Len(pending) + Len(codec) <= delay + (IF epc \in {"loop", "push"} THEN 0 ELSE 1)

\* Steps that neither touch the packets nor overflow.
Calm ==
    /\ UNCHANGED <<codec, pending, delay>>
    /\ epc' \in {"loop", "push"} => epc \in {"loop", "push"}
    /\ "full" \in efailed' => "full" \in efailed

\* The bound holds after each step, and so there is room for every packet
\* unless the codec keeps back as many as there are places.
LEMMA BoundNext ==
    ASSUME EncoderTypeOK, Bound, PendingFits, [EncoderNext]_evars
    PROVE  Bound' /\ PendingFits'
<1>1. /\ pending \in Seq(Packets) /\ Len(pending) \in Nat
      /\ codec \in Seq(Packets) /\ Len(codec) \in Nat
      /\ delay \in Nat
      /\ PendingCount \in Nat
  BY LenProperties, EncoderAssumption DEF EncoderTypeOK
<1>2. ASSUME Calm PROVE Bound' /\ PendingFits'
  <2>1. Len(pending') = Len(pending) /\ Len(codec') = Len(codec) /\ delay' = delay
    BY <1>2 DEF Calm
  <2>2. Bound'
    BY <1>1, <1>2, <2>1 DEF Calm, Bound
  <2> QED
    BY <1>2, <2>1, <2>2 DEF Calm, PendingFits
<1>3. \A f : EncoderFault(f) => ("full" \in efailed' => "full" \in efailed)
  BY DEF EncoderFault, EncoderFaults
<1>4. CASE Encode
  <2>1. PICK packet \in Coded :
          \/ Receive(Append(codec, packet), delay, "push", "loop")
          \/ ReceiveFails(Append(codec, packet), delay, "flush")
    BY <1>4 DEF Encode
  <2>2. /\ Append(codec, packet) \in Seq(Packets)
        /\ Len(Append(codec, packet)) = Len(codec) + 1
    BY Coming
  <2> DEFINE w == pending \o Append(codec, packet)
  <2>3. Len(w) = Len(pending) + Len(codec) + 1
    BY <1>1, <2>2, ConcatProperties
  <2>4. epc = "loop" /\ delay' = delay
    BY <1>4 DEF Encode
  <2>5. Len(w) <= delay + 1
    BY <1>1, <2>3, <2>4 DEF Bound
  <2> HIDE DEF w
  <2>6. CASE Receive(Append(codec, packet), delay, "push", "loop")
    <3>1. \/ /\ epc' = "push"
             /\ Moved(w, 1)
             /\ Len(pending') + Len(codec') + 1 = Len(w)
          \/ /\ epc' = "loop"
             /\ Moved(w, 0)
             /\ Len(pending') = 0
             /\ Len(codec') <= delay
      BY <1>1, <2>2, <2>6, ReceiveMoves DEF w
    <3>2. pending' \in Seq(Packets) /\ codec' \in Seq(Packets)
      BY <3>1 DEF Moved
    <3>3. Len(pending') \in Nat /\ Len(codec') \in Nat
      BY <3>2, LenProperties
    <3>4. Bound'
      BY <1>1, <2>3, <2>4, <2>5, <3>1, <3>3 DEF Bound
    <3> QED
      BY <2>4, <2>6, <3>4 DEF Receive, PendingFits
  <2>7. CASE ReceiveFails(Append(codec, packet), delay, "flush")
    <3>1. /\ Len(pending') + Len(codec') <= Len(w)
          /\ epc' = "flush"
          /\ "full" \in efailed' => "full" \in efailed \/ Len(w) > PendingCount
      BY <2>2, <2>7, ReceiveFailsMoves DEF w
    <3>2. pending' \in Seq(Packets) /\ codec' \in Seq(Packets)
      BY TypeNext DEF EncoderTypeOK
    <3>3. Len(pending') \in Nat /\ Len(codec') \in Nat
      BY <3>2, LenProperties
    <3>4. Bound'
      BY <1>1, <2>3, <2>4, <2>5, <3>1, <3>3 DEF Bound
    <3> QED
      BY <1>1, <2>3, <2>4, <2>5, <3>1, <3>4 DEF PendingFits
  <2> QED
    BY <2>1, <2>6, <2>7
<1> DEFINE v == pending \o codec
<1>5. Len(v) = Len(pending) + Len(codec) /\ Len(v) <= delay + 1
  BY <1>1, ConcatProperties DEF Bound
<1> HIDE DEF v
<1>6. CASE Flush
  <2>1. Receive(codec, 0, "push_flush", "exit") /\ delay' = delay
    BY <1>6 DEF Flush
  <2>2. \/ /\ epc' = "push_flush"
           /\ Moved(v, 1)
           /\ Len(pending') + Len(codec') + 1 = Len(v)
        \/ /\ epc' = "exit"
           /\ Moved(v, 0)
           /\ Len(pending') = 0
           /\ Len(codec') <= 0
    BY <1>1, <2>1, ReceiveMoves DEF v
  <2>3. pending' \in Seq(Packets) /\ codec' \in Seq(Packets)
    BY <2>2 DEF Moved
  <2>4. Len(pending') \in Nat /\ Len(codec') \in Nat
    BY <2>3, LenProperties
  <2>5. Bound'
    BY <1>1, <1>5, <2>1, <2>2, <2>4 DEF Bound
  <2> QED
    BY <2>1, <2>5 DEF Receive, PendingFits
<1>7. CASE FlushFails
  <2>1. CASE ReceiveFails(codec, 0, "exit")
    <3>1. /\ Len(pending') + Len(codec') <= Len(v)
          /\ epc' = "exit"
          /\ "full" \in efailed' => "full" \in efailed \/ Len(v) > PendingCount
      BY <1>1, <2>1, ReceiveFailsMoves DEF v
    <3>2. pending' \in Seq(Packets) /\ codec' \in Seq(Packets) /\ delay' = delay
      BY <1>7, TypeNext DEF EncoderTypeOK, FlushFails
    <3>3. Len(pending') \in Nat /\ Len(codec') \in Nat
      BY <3>2, LenProperties
    <3>4. Bound'
      BY <1>1, <1>5, <3>1, <3>2, <3>3 DEF Bound
    <3> QED
      BY <1>1, <1>5, <3>1, <3>2, <3>4 DEF PendingFits
  <2>2. CASE EncoderFault("drain") /\ EncoderStops("exit") /\ UNCHANGED <<codecVars, out, flushing>>
    BY <1>2, <1>3, <1>7, <2>2 DEF FlushFails, EncoderStops, codecVars, Calm
  <2> QED
    BY <1>7, <2>1, <2>2 DEF FlushFails
<1>8. CASE EncoderDeinit
  <2>1. /\ epc' = "gone" /\ codec' = <<>> /\ pending' = <<>>
        /\ UNCHANGED <<delay, efailed>>
    BY <1>8 DEF EncoderDeinit
  <2>2. Len(pending') = 0 /\ Len(codec') = 0
    BY <2>1, EmptySeq
  <2> QED
    BY <1>1, <2>1, <2>2 DEF Bound, PendingFits
<1>9. CASE EncodeRejects \/ InputEnds \/ InputFails
  BY <1>2, <1>3, <1>9
  DEF EncodeRejects, InputEnds, InputFails, EncoderStops, codecVars, Calm
<1>10. CASE PushPacket \/ PushRefused \/ PushFails
  BY <1>2, <1>3, <1>10
  DEF PushPacket, PushRefused, PushFails, AfterPush, AfterNoPush, EncoderStops,
      PushFrame, codecVars, Calm
<1>11. CASE EncoderExit
  BY <1>2, <1>11 DEF EncoderExit, EncoderStops, codecVars, Calm
<1>12. CASE Others
  BY <1>2, <1>12 DEF Others, encoderVars, codecVars, Calm
<1>13. CASE UNCHANGED evars
  BY <1>2, <1>13 DEF evars, encoderVars, codecVars, Calm
<1> QED
  BY <1>4, <1>6, <1>7, <1>8, <1>9, <1>10, <1>11, <1>12, <1>13 DEF EncoderNext, EncodeThread

\* pending_packets overflows only with a codec that keeps back as many frames
\* as there are places.
THEOREM PendingNeverOverflows == EncoderSpec => []PendingFits
<1>1. StreamInit /\ EncoderInit => Bound /\ PendingFits
  <2> SUFFICES ASSUME StreamInit, EncoderInit PROVE Bound /\ PendingFits
    OBVIOUS
  <2>1. Len(pending) = 0 /\ Len(codec) = 0 /\ delay \in Nat /\ efailed = {}
    BY EmptySeq, EncoderAssumption DEF EncoderInit
  <2> QED
    BY <2>1 DEF Bound, PendingFits
<1>2. EncoderTypeOK /\ Bound /\ PendingFits /\ [EncoderNext]_evars => Bound' /\ PendingFits'
  BY BoundNext
<1> QED
  BY <1>1, <1>2, EncoderTypeCorrect, PTL DEF EncoderSpec, evars
-----------------------------------------------------------------------------
(* The order of the packets.                                               *)

\* Emitted packets, the one in hand and the waiting ones ascend, one group
\* after the other, up to the last frame that was taken.
Order ==
    /\ Rising(emitted) /\ UpTo(emitted, sent)
    /\ UpTo(out, sent)
    /\ Rising(Waiting) /\ UpTo(Waiting, sent)
    /\ Below(emitted, out)
    /\ Below(emitted, Waiting)
    /\ Below(out, Waiting)

\* While nothing has failed each frame is in one of the groups, and none waits
\* when the thread ends.
Count ==
    epc # "gone" /\ efailed = {} =>
        /\ Len(emitted) + Len(out) + Len(pending) + Len(codec) = sent
        /\ epc \in {"exit", "done"} => Len(pending) = 0 /\ Len(codec) = 0

\* A receive takes packets from w, which ascends and follows the emitted ones.
LEMMA ReceiveOrder ==
    ASSUME EncoderTypeOK, emitted' = emitted, Rising(emitted),
           NEW n \in Nat, sent' = n, UpTo(emitted, n),
           NEW w \in Seq(Packets), Rising(w), UpTo(w, n), Below(emitted, w),
           NEW a \in {0, 1}, Moved(w, a),
           \/ out' = <<>>
           \/ a = 1 /\ w # <<>> /\ out' = <<w[1]>>
    PROVE  Order'
<1>1. emitted \in Seq(Packets)
  BY DEF EncoderTypeOK
<1>2. /\ pending' \in Seq(Packets)
      /\ codec' \in Seq(Packets)
      /\ a \in Nat
  BY DEF Moved
<1>3. PICK b \in Nat : /\ Part(pending', w, a)
                       /\ Part(codec', w, b)
                       /\ a + Len(pending') <= b
  BY DEF Moved
<1> DEFINE v == pending' \o codec'
<1>4. /\ Rising(v)
      /\ \A e \in Seq(Packets) : Below(e, w) => Below(e, v)
      /\ \A m \in Nat : UpTo(w, m) => UpTo(v, m)
      /\ \A k \in 1..a, i \in 1..Len(v) : w[k].frame < v[i].frame
  BY <1>2, <1>3, Parts
<1> HIDE DEF v
<1>5. Rising(v) /\ Below(emitted, v) /\ UpTo(v, n)
  BY <1>1, <1>4
<1>6. UpTo(out', n) /\ Below(emitted, out') /\ Below(out', v)
  <2>1. CASE out' = <<>>
    <3>1. 1..Len(out') = {}
      BY <2>1
    <3> QED
      BY <3>1 DEF UpTo, Below
  <2>2. CASE a = 1 /\ w # <<>> /\ out' = <<w[1]>>
    <3>1. 1 \in 1..Len(w)
      BY <2>2, EmptySeq
    <3>2. Len(out') = 1 /\ out'[1] = w[1]
      BY <2>2
    <3>3. w[1].frame <= n /\ \A i \in 1..Len(emitted) : emitted[i].frame < w[1].frame
      BY <3>1 DEF UpTo, Below
    <3>4. \A i \in 1..Len(v) : w[1].frame < v[i].frame
      BY <1>4, <2>2
    <3>5. \A i \in 1..Len(out') : out'[i] = w[1]
      BY <3>2
    <3> QED
      BY <3>3, <3>4, <3>5 DEF UpTo, Below
  <2> QED
    BY <2>1, <2>2
<1> QED
  BY <1>5, <1>6 DEF Order, Waiting, v

\* What waits, and the frame that is added to it, ascend.
LEMMA Comes ==
    ASSUME EncoderTypeOK, Order, NEW packet \in Coded
    PROVE  /\ pending \o Append(codec, packet) \in Seq(Packets)
           /\ Len(pending \o Append(codec, packet)) = Len(pending) + Len(codec) + 1
           /\ Rising(pending \o Append(codec, packet))
           /\ UpTo(pending \o Append(codec, packet), sent + 1)
           /\ Below(emitted, pending \o Append(codec, packet))
<1>1. /\ pending \in Seq(Packets) /\ Len(pending) \in Nat
      /\ codec \in Seq(Packets) /\ Len(codec) \in Nat
      /\ emitted \in Seq(Packets)
      /\ sent \in Nat
  BY LenProperties DEF EncoderTypeOK
<1>2. /\ packet \in Packets
      /\ packet.frame = sent + 1
      /\ Append(codec, packet) \in Seq(Packets)
      /\ Len(Append(codec, packet)) = Len(codec) + 1
  BY Coming
<1>3. Waiting \in Seq(Packets) /\ Len(Waiting) = Len(pending) + Len(codec)
  BY <1>1, ConcatProperties DEF Waiting
<1>4. pending \o Append(codec, packet) = Append(Waiting, packet)
  <2>1. <<packet>> \in Seq(Packets)
    BY <1>2
  <2>2. Append(codec, packet) = codec \o <<packet>>
    BY <1>1, <1>2, AppendIsConcat
  <2>3. Append(Waiting, packet) = Waiting \o <<packet>>
    BY <1>2, <1>3, AppendIsConcat
  <2> QED
    BY <1>1, <2>1, <2>2, <2>3, ConcatAssociative DEF Waiting
<1>5. /\ Rising(Append(Waiting, packet))
      /\ UpTo(Append(Waiting, packet), sent + 1)
  <2>1. Rising(Waiting) /\ UpTo(Waiting, sent) /\ packet.frame > sent
    BY <1>1, <1>2 DEF Order
  <2> QED
    BY <1>1, <1>2, <1>3, <2>1, Appended
<1>6. Below(emitted, Append(Waiting, packet))
  <2>1. /\ Len(Append(Waiting, packet)) = Len(Waiting) + 1
        /\ \A i \in 1..Len(Waiting) : Append(Waiting, packet)[i] = Waiting[i]
        /\ Append(Waiting, packet)[Len(Waiting) + 1] = packet
    BY <1>2, <1>3, AppendProperties
  <2>2. \A i \in 1..Len(emitted) : emitted[i].frame < packet.frame
    <3>1. \A i \in 1..Len(emitted) : emitted[i] \in Packets
      BY <1>1, ElementOfSeq
    <3> QED
      BY <1>1, <1>2, <3>1 DEF Order, UpTo, Packets
  <2>3. \A i \in 1..Len(emitted), j \in 1..Len(Waiting) : emitted[i].frame < Waiting[j].frame
    BY DEF Order, Below
  <2> QED
    BY <1>1, <1>3, <2>1, <2>2, <2>3 DEF Below
<1>7. /\ pending \o Append(codec, packet) \in Seq(Packets)
      /\ Len(pending \o Append(codec, packet)) = Len(pending) + Len(codec) + 1
  BY <1>1, <1>2, ConcatProperties
<1> QED
  BY <1>4, <1>5, <1>6, <1>7

\* Every step keeps the order.
LEMMA OrderNext ==
    ASSUME EncoderTypeOK, Order, [EncoderNext]_evars
    PROVE  Order'
<1>1. /\ emitted \in Seq(Packets) /\ Len(emitted) \in Nat
      /\ out \in Seq(Packets)
      /\ pending \in Seq(Packets) /\ codec \in Seq(Packets)
      /\ Waiting \in Seq(Packets) /\ Len(Waiting) \in Nat
      /\ sent \in Nat /\ delay \in Nat
  BY LenProperties, ConcatProperties, EncoderAssumption DEF EncoderTypeOK, Waiting
<1>2. /\ \A i \in 1..Len(emitted) : emitted[i] \in Packets /\ emitted[i].frame \in Nat
      /\ \A i \in 1..Len(out) : out[i] \in Packets /\ out[i].frame \in Nat
      /\ \A i \in 1..Len(Waiting) : Waiting[i] \in Packets /\ Waiting[i].frame \in Nat
  <2>1. \A q \in Packets : q.frame \in Nat
    BY DEF Packets
  <2>2. \A q \in Seq(Packets) : \A i \in 1..Len(q) : q[i] \in Packets
    BY ElementOfSeq
  <2> QED
    BY <1>1, <2>1, <2>2
<1>3. epc \notin {"push", "push_flush"} => out = <<>>
  BY EmptySeq DEF EncoderTypeOK
<1>4. ASSUME emitted' = emitted, Waiting' = Waiting,
             sent' \in {sent, sent + 1}, out' \in {out, <<>>}
      PROVE  Order'
  <2>1. UpTo(emitted, sent') /\ UpTo(Waiting, sent') /\ UpTo(out, sent')
    BY <1>1, <1>2, <1>4 DEF Order, UpTo
  <2>2. CASE out' = out
    BY <1>4, <2>1, <2>2 DEF Order
  <2>3. CASE out' = <<>>
    <3>1. 1..Len(out') = {}
      BY <2>3
    <3>2. UpTo(out', sent') /\ Below(emitted, out') /\ Below(out', Waiting)
      BY <3>1 DEF UpTo, Below
    <3> QED
      BY <1>4, <2>1, <3>2 DEF Order
  <2> QED
    BY <1>4, <2>2, <2>3
<1>5. CASE Encode
  <2>1. PICK packet \in Coded :
          \/ Receive(Append(codec, packet), delay, "push", "loop")
          \/ ReceiveFails(Append(codec, packet), delay, "flush")
    BY <1>5 DEF Encode
  <2> DEFINE w == pending \o Append(codec, packet)
  <2>2. /\ w \in Seq(Packets)
        /\ Rising(w) /\ UpTo(w, sent + 1) /\ Below(emitted, w)
        /\ Append(codec, packet) \in Seq(Packets)
    BY Comes, Coming
  <2>3. out = <<>> /\ sent' = sent + 1 /\ sent + 1 \in Nat
    BY <1>1, <1>3, <1>5 DEF Encode
  <2>4. Rising(emitted) /\ UpTo(emitted, sent + 1)
    BY <1>1, <1>2 DEF Order, UpTo
  <2> HIDE DEF w
  <2>5. CASE Receive(Append(codec, packet), delay, "push", "loop")
    <3>1. \/ w # <<>> /\ out' = <<w[1]>> /\ Moved(w, 1)
          \/ out' = out /\ Moved(w, 0)
      BY <1>1, <2>2, <2>5, ReceiveMoves DEF w
    <3>2. emitted' = emitted
      BY <2>5 DEF Receive, streamVars
    <3> QED
      BY <2>2, <2>3, <2>4, <3>1, <3>2, ReceiveOrder
  <2>6. CASE ReceiveFails(Append(codec, packet), delay, "flush")
    <3>1. PICK a \in {0, 1} : Moved(w, a)
      BY <2>2, <2>6, ReceiveFailsMoves DEF w
    <3>2. emitted' = emitted /\ out' = <<>>
      BY <2>3, <2>6 DEF ReceiveFails, EncoderStops, Shut
    <3> QED
      BY <2>2, <2>3, <2>4, <3>1, <3>2, ReceiveOrder
  <2> QED
    BY <2>1, <2>5, <2>6
<1> DEFINE w == Waiting
<1>6. /\ w = pending \o codec
      /\ w \in Seq(Packets)
      /\ Rising(w) /\ UpTo(w, sent) /\ Below(emitted, w)
      /\ Rising(emitted) /\ UpTo(emitted, sent)
  BY <1>1 DEF Waiting, Order
<1> HIDE DEF w
<1>7. CASE Flush
  <2>1. Receive(codec, 0, "push_flush", "exit") /\ out = <<>> /\ sent' = sent
    BY <1>3, <1>7 DEF Flush
  <2>2. \/ w # <<>> /\ out' = <<w[1]>> /\ Moved(w, 1)
        \/ out' = out /\ Moved(w, 0)
    BY <1>1, <1>6, <2>1, ReceiveMoves
  <2>3. emitted' = emitted
    BY <2>1 DEF Receive, streamVars
  <2> QED
    BY <1>1, <1>6, <2>1, <2>2, <2>3, ReceiveOrder
<1>8. CASE FlushFails
  <2>1. CASE ReceiveFails(codec, 0, "exit")
    <3>1. PICK a \in {0, 1} : Moved(w, a)
      BY <1>1, <1>6, <2>1, ReceiveFailsMoves
    <3>2. emitted' = emitted /\ out' = <<>> /\ sent' = sent
      BY <1>3, <1>8, <2>1 DEF FlushFails, ReceiveFails, EncoderStops, Shut
    <3> QED
      BY <1>1, <1>6, <3>1, <3>2, ReceiveOrder
  <2>2. CASE EncoderStops("exit") /\ UNCHANGED <<codecVars, out, flushing>>
    BY <1>4, <1>8, <2>2 DEF FlushFails, EncoderStops, Shut, codecVars, Waiting
  <2> QED
    BY <1>8, <2>1, <2>2 DEF FlushFails
<1>9. CASE PushPacket
  <2>1. /\ out' = <<>>
        /\ emitted' = Append(emitted, Head(out))
        /\ Waiting' = Waiting
        /\ sent' = sent
    BY <1>9 DEF PushPacket, Accept, PushFrame, codecVars, Waiting
  <2>2. Len(out) = 1 /\ 1 \in 1..Len(out)
    BY <1>9 DEF PushPacket, EncoderTypeOK
  <2>3. out # <<>>
    <3>1. Len(<<>>) = 0
      BY EmptySeq
    <3> QED
      BY <2>2, <3>1
  <2>4. Head(out) = out[1] /\ Head(out) \in Packets
    BY <1>1, <2>3, HeadTailProperties
  <2> DEFINE p == Head(out)
  <2>5. /\ Len(Append(emitted, p)) = Len(emitted) + 1
        /\ \A i \in 1..Len(emitted) : Append(emitted, p)[i] = emitted[i]
        /\ Append(emitted, p)[Len(emitted) + 1] = p
    BY <1>1, <2>4, AppendProperties
  <2>6. /\ p.frame <= sent
        /\ \A i \in 1..Len(emitted) : emitted[i].frame < p.frame
        /\ \A j \in 1..Len(Waiting) : p.frame < Waiting[j].frame
    BY <2>2, <2>4 DEF Order, UpTo, Below
  <2> HIDE DEF p
  <2>7. Rising(Append(emitted, p)) /\ UpTo(Append(emitted, p), sent)
    BY <1>1, <2>5, <2>6 DEF Order, Rising, UpTo
  <2>8. Below(Append(emitted, p), Waiting)
    BY <1>1, <2>5, <2>6 DEF Order, Below
  <2>9. 1..Len(out') = {}
    BY <2>1
  <2>10. UpTo(out', sent) /\ Below(Append(emitted, p), out') /\ Below(out', Waiting)
    BY <2>9 DEF UpTo, Below
  <2>11. emitted' = Append(emitted, p)
    BY <2>1 DEF p
  <2> QED
    BY <2>1, <2>7, <2>8, <2>10, <2>11 DEF Order
<1>10. CASE EncoderDeinit
  <2>1. /\ UNCHANGED <<emitted, out, sent>>
        /\ pending' = <<>> /\ codec' = <<>>
    BY <1>10 DEF EncoderDeinit, streamVars
  <2>2. Waiting' = <<>>
    <3>1. <<>> \o <<>> = <<>>
      BY EmptySeq, ConcatEmptySeq
    <3> QED
      BY <2>1, <3>1 DEF Waiting
  <2>3. 1..Len(Waiting') = {}
    BY <2>2
  <2>4. /\ Rising(Waiting') /\ UpTo(Waiting', sent)
        /\ Below(emitted, Waiting') /\ Below(out, Waiting')
    BY <2>3 DEF Rising, UpTo, Below
  <2> QED
    BY <2>1, <2>4 DEF Order
<1>11. CASE EncodeRejects \/ InputEnds \/ InputFails \/ EncoderExit
  BY <1>4, <1>11
  DEF EncodeRejects, InputEnds, InputFails, EncoderExit, EncoderStops, Shut,
      streamVars, codecVars, Waiting
<1>12. CASE PushRefused \/ PushFails
  BY <1>4, <1>12
  DEF PushRefused, PushFails, EncoderStops, Shut, streamVars, PushFrame, codecVars, Waiting
<1>13. CASE Others
  BY <1>4, <1>13 DEF Others, TakeNext, Shut, encoderVars, codecVars, Waiting
<1>14. CASE UNCHANGED evars
  BY <1>4, <1>14 DEF evars, streamVars, encoderVars, codecVars, Waiting
<1> QED
  BY <1>5, <1>7, <1>8, <1>9, <1>10, <1>11, <1>12, <1>13, <1>14
  DEF EncoderNext, EncodeThread

\* Every step keeps count of the packets.
LEMMA CountNext ==
    ASSUME EncoderTypeOK, Count, [EncoderNext]_evars
    PROVE  Count'
<1>1. /\ emitted \in Seq(Packets) /\ Len(emitted) \in Nat
      /\ out \in Seq(Packets) /\ Len(out) \in Nat
      /\ pending \in Seq(Packets) /\ Len(pending) \in Nat
      /\ codec \in Seq(Packets) /\ Len(codec) \in Nat
      /\ sent \in Nat /\ delay \in Nat
  BY LenProperties, EncoderAssumption DEF EncoderTypeOK
<1>2. /\ pending' \in Seq(Packets) /\ Len(pending') \in Nat
      /\ codec' \in Seq(Packets) /\ Len(codec') \in Nat
      /\ Len(out') = IF epc' \in {"push", "push_flush"} THEN 1 ELSE 0
  BY TypeNext, LenProperties DEF EncoderTypeOK
<1>3. \A f : EncoderFault(f) => efailed' # {}
  BY DEF EncoderFault
<1>4. ASSUME efailed' # {} \/ epc' = "gone" PROVE Count'
  BY <1>4 DEF Count
<1>5. CASE Encode
  <2>1. PICK packet \in Coded :
          \/ Receive(Append(codec, packet), delay, "push", "loop")
          \/ ReceiveFails(Append(codec, packet), delay, "flush")
    BY <1>5 DEF Encode
  <2> DEFINE w == pending \o Append(codec, packet)
  <2>2. Append(codec, packet) \in Seq(Packets) /\ Len(Append(codec, packet)) = Len(codec) + 1
    BY Coming
  <2>3. Len(w) = Len(pending) + Len(codec) + 1
    BY <1>1, <2>2, ConcatProperties
  <2>4. Len(out) = 0 /\ sent' = sent + 1 /\ epc = "loop"
    BY <1>5 DEF Encode, EncoderTypeOK
  <2> HIDE DEF w
  <2>5. CASE Receive(Append(codec, packet), delay, "push", "loop")
    <3>1. \/ epc' = "push" /\ Len(pending') + Len(codec') + 1 = Len(w)
          \/ epc' = "loop" /\ Len(pending') = 0 /\ Len(codec') = Len(w)
      BY <1>1, <2>2, <2>5, ReceiveMoves DEF w
    <3>2. Len(emitted') = Len(emitted) /\ efailed' = efailed
      BY <2>5 DEF Receive, streamVars
    <3>3. Len(out') + Len(pending') + Len(codec') = Len(w)
      <4>1. CASE epc' = "push" /\ Len(pending') + Len(codec') + 1 = Len(w)
        BY <1>2, <4>1
      <4>2. CASE epc' = "loop" /\ Len(pending') = 0 /\ Len(codec') = Len(w)
        BY <1>2, <4>2
      <4> QED
        BY <3>1, <4>1, <4>2
    <3>4. epc' \notin {"exit", "done"}
      BY <3>1
    <3>5. efailed' = {} => Len(emitted') + Len(out') + Len(pending') + Len(codec') = sent'
      <4> SUFFICES ASSUME efailed' = {}
                   PROVE  Len(emitted') + Len(out') + Len(pending') + Len(codec') = sent'
        OBVIOUS
      <4>1. Len(emitted) + Len(pending) + Len(codec) = sent
        BY <1>1, <2>4, <3>2 DEF Count
      <4>2. /\ Len(out') \in Nat /\ Len(pending') \in Nat /\ Len(codec') \in Nat
            /\ Len(emitted') \in Nat
        BY <1>1, <1>2, <3>2
      <4>3. Len(w) + Len(emitted') = sent'
        <5>1. sent' = sent + 1 /\ Len(emitted') = Len(emitted)
          BY <2>4, <3>2
        <5> QED
          BY <1>1, <2>3, <4>1, <5>1
      <4> QED
        BY <3>3, <4>2, <4>3
    <3> QED
      BY <3>4, <3>5 DEF Count
  <2>6. CASE ReceiveFails(Append(codec, packet), delay, "flush")
    BY <1>4, <2>2, <2>6, ReceiveFailsMoves
  <2> QED
    BY <2>1, <2>5, <2>6
<1>6. CASE Flush
  <2> DEFINE w == pending \o codec
  <2>1. Len(w) = Len(pending) + Len(codec)
    BY <1>1, ConcatProperties
  <2>2. Len(out) = 0 /\ sent' = sent /\ epc = "flush"
    BY <1>6 DEF Flush, EncoderTypeOK
  <2> HIDE DEF w
  <2>3. Receive(codec, 0, "push_flush", "exit")
    BY <1>6 DEF Flush
  <2>4. \/ epc' = "push_flush" /\ Len(pending') + Len(codec') + 1 = Len(w)
        \/ epc' = "exit" /\ Len(pending') = 0 /\ Len(codec') = Len(w) /\ Len(codec') <= 0
    BY <1>1, <2>3, ReceiveMoves DEF w
  <2>5. Len(emitted') = Len(emitted) /\ efailed' = efailed
    BY <2>3 DEF Receive, streamVars
  <2>6. Len(out') + Len(pending') + Len(codec') = Len(w)
    <3>1. CASE epc' = "push_flush" /\ Len(pending') + Len(codec') + 1 = Len(w)
      BY <1>2, <3>1
    <3>2. CASE epc' = "exit" /\ Len(pending') = 0 /\ Len(codec') = Len(w)
      BY <1>2, <3>2
    <3> QED
      BY <2>4, <3>1, <3>2
  <2>7. epc' \in {"exit", "done"} => Len(pending') = 0 /\ Len(codec') = 0
    BY <1>2, <2>4
  <2>8. efailed' = {} => Len(emitted') + Len(out') + Len(pending') + Len(codec') = sent'
    <3> SUFFICES ASSUME efailed' = {}
                 PROVE  Len(emitted') + Len(out') + Len(pending') + Len(codec') = sent'
      OBVIOUS
    <3>1. Len(emitted) + Len(pending) + Len(codec) = sent
      BY <1>1, <2>2, <2>5 DEF Count
    <3>2. /\ Len(out') \in Nat /\ Len(pending') \in Nat /\ Len(codec') \in Nat
          /\ Len(emitted') \in Nat
      BY <1>1, <1>2, <2>5
    <3>3. Len(w) + Len(emitted') = sent'
      BY <1>1, <2>1, <2>2, <2>5, <3>1
    <3> QED
      BY <2>6, <3>2, <3>3
  <2> QED
    BY <2>7, <2>8 DEF Count
<1>7. CASE FlushFails
  <2>1. CASE ReceiveFails(codec, 0, "exit")
    BY <1>1, <1>4, <2>1, ReceiveFailsMoves
  <2> QED
    BY <1>3, <1>4, <1>7, <2>1 DEF FlushFails
<1>8. CASE PushPacket
  <2>1. /\ emitted' = Append(emitted, Head(out))
        /\ UNCHANGED <<pending, codec, sent, efailed>>
        /\ epc' \in {"loop", "flush"}
        /\ epc \in {"push", "push_flush"}
    BY <1>8 DEF PushPacket, Accept, AfterPush, PushFrame, codecVars
  <2>2. Len(out) = 1
    BY <2>1 DEF EncoderTypeOK
  <2>3. out # <<>>
    <3>1. Len(<<>>) = 0
      BY EmptySeq
    <3> QED
      BY <2>2, <3>1
  <2>4. Head(out) \in Packets
    BY <1>1, <2>3, HeadTailProperties
  <2>5. Len(emitted') = Len(emitted) + 1
    BY <1>1, <2>1, <2>4, AppendProperties
  <2> QED
    BY <1>1, <1>2, <2>1, <2>2, <2>5 DEF Count
<1>9. CASE EncodeRejects \/ InputFails \/ PushFails \/ PushRefused \/ EncoderDeinit
  BY <1>3, <1>4, <1>9 DEF EncodeRejects, InputFails, PushFails, PushRefused, EncoderDeinit
<1>10. CASE InputEnds
  BY <1>10 DEF InputEnds, streamVars, codecVars, Count
<1>11. CASE EncoderExit
  BY <1>11 DEF EncoderExit, EncoderStops, Shut, codecVars, Count
<1>12. CASE Others
  BY <1>12 DEF Others, TakeNext, Shut, encoderVars, codecVars, Count
<1>13. CASE UNCHANGED evars
  BY <1>13 DEF evars, streamVars, encoderVars, codecVars, Count
<1> QED
  BY <1>5, <1>6, <1>7, <1>8, <1>9, <1>10, <1>11, <1>12, <1>13 DEF EncoderNext, EncodeThread

\* Emitted, in hand and waiting, put in a line, ascend and are all counted.
LEMMA LineInOrder ==
    ASSUME EncoderTypeOK, Order, Count
    PROVE  PacketsInOrder
<1>1. /\ emitted \in Seq(Packets) /\ Len(emitted) \in Nat
      /\ out \in Seq(Packets) /\ Len(out) \in Nat
      /\ pending \in Seq(Packets) /\ Len(pending) \in Nat
      /\ codec \in Seq(Packets) /\ Len(codec) \in Nat
      /\ Waiting \in Seq(Packets) /\ Len(Waiting) = Len(pending) + Len(codec)
  BY LenProperties, ConcatProperties DEF EncoderTypeOK, Waiting
<1> DEFINE front == emitted \o out
<1>2. /\ front \in Seq(Packets)
      /\ Len(front) = Len(emitted) + Len(out)
      /\ \A i \in 1..(Len(emitted) + Len(out)) :
            front[i] = IF i <= Len(emitted) THEN emitted[i] ELSE out[i - Len(emitted)]
  BY <1>1, ConcatProperties
<1> HIDE DEF front
<1>3. Line = front \o Waiting
  <2>1. (front \o pending) \o codec = front \o (pending \o codec)
    <3>1. front \in Seq(Packets) /\ pending \in Seq(Packets) /\ codec \in Seq(Packets)
      BY <1>1, <1>2
    <3> QED
      BY <3>1, ConcatAssociative
  <2>2. Line = (front \o pending) \o codec
    BY DEF Line, front
  <2> QED
    BY <2>1, <2>2 DEF Waiting
<1>4. /\ Len(front \o Waiting) = Len(front) + Len(Waiting)
      /\ \A i \in 1..(Len(front) + Len(Waiting)) :
            (front \o Waiting)[i] = IF i <= Len(front) THEN front[i] ELSE Waiting[i - Len(front)]
  BY <1>1, <1>2, ConcatProperties
<1>5. Len(out) <= 1
  BY DEF EncoderTypeOK
<1>6. Rising(front)
  <2> SUFFICES ASSUME NEW i \in 1..Len(front), NEW j \in 1..Len(front), i < j
               PROVE  front[i].frame < front[j].frame
    BY DEF Rising
  <2>1. i \in 1..Len(emitted) /\ front[i] = emitted[i]
    BY <1>1, <1>2, <1>5
  <2>2. CASE j <= Len(emitted)
    <3>1. j \in 1..Len(emitted) /\ front[j] = emitted[j]
      BY <1>1, <1>2, <2>2
    <3> QED
      BY <2>1, <3>1 DEF Order, Rising
  <2>3. CASE ~(j <= Len(emitted))
    <3>1. j - Len(emitted) \in 1..Len(out) /\ front[j] = out[j - Len(emitted)]
      BY <1>1, <1>2, <2>3
    <3> QED
      BY <2>1, <3>1 DEF Order, Below
  <2> QED
    BY <2>2, <2>3
<1>7. Below(front, Waiting)
  <2> SUFFICES ASSUME NEW i \in 1..Len(front), NEW j \in 1..Len(Waiting)
               PROVE  front[i].frame < Waiting[j].frame
    BY DEF Below
  <2>1. CASE i <= Len(emitted)
    <3>1. i \in 1..Len(emitted) /\ front[i] = emitted[i]
      BY <1>1, <1>2, <2>1
    <3> QED
      BY <3>1 DEF Order, Below
  <2>2. CASE ~(i <= Len(emitted))
    <3>1. i - Len(emitted) \in 1..Len(out) /\ front[i] = out[i - Len(emitted)]
      BY <1>1, <1>2, <2>2
    <3> QED
      BY <3>1 DEF Order, Below
  <2> QED
    BY <2>1, <2>2
<1>8. ASSUME NEW i \in 1..Len(Line), NEW j \in 1..Len(Line), i < j
      PROVE  Line[i].frame < Line[j].frame
  <2>1. CASE j <= Len(front)
    <3>1. /\ i \in 1..Len(front) /\ Line[i] = front[i]
          /\ j \in 1..Len(front) /\ Line[j] = front[j]
      BY <1>1, <1>2, <1>3, <1>4, <1>8, <2>1
    <3> QED
      BY <1>6, <1>8, <3>1 DEF Rising
  <2>2. CASE i <= Len(front) /\ ~(j <= Len(front))
    <3>1. /\ i \in 1..Len(front) /\ Line[i] = front[i]
          /\ j - Len(front) \in 1..Len(Waiting) /\ Line[j] = Waiting[j - Len(front)]
      BY <1>1, <1>2, <1>3, <1>4, <1>8, <2>2
    <3> QED
      BY <1>7, <3>1 DEF Below
  <2>3. CASE ~(i <= Len(front))
    <3>1. /\ i - Len(front) \in 1..Len(Waiting) /\ Line[i] = Waiting[i - Len(front)]
          /\ j - Len(front) \in 1..Len(Waiting) /\ Line[j] = Waiting[j - Len(front)]
          /\ i - Len(front) < j - Len(front)
      BY <1>1, <1>2, <1>3, <1>4, <1>8, <2>3
    <3> QED
      BY <3>1 DEF Order, Rising
  <2> QED
    BY <1>1, <1>2, <1>8, <2>1, <2>2, <2>3
<1>9. Len(Line) = Len(emitted) + Len(out) + Len(pending) + Len(codec)
  BY <1>1, <1>2, <1>3, <1>4
<1>10. epc = "done" => Len(out) = 0
  BY DEF EncoderTypeOK
<1> QED
  BY <1>1, <1>8, <1>9, <1>10 DEF PacketsInOrder, Count

\* Packets never overtake each other, whatever fails; and as long as nothing
\* fails, none is lost.
THEOREM EncoderKeepsOrder == EncoderSpec => []PacketsInOrder
<1>1. StreamInit /\ EncoderInit => Order /\ Count
  <2> SUFFICES ASSUME StreamInit, EncoderInit PROVE Order /\ Count
    OBVIOUS
  <2>1. emitted = <<>> /\ out = <<>> /\ pending = <<>> /\ codec = <<>> /\ sent = 0
    BY DEF StreamInit, EncoderInit
  <2>2. Waiting = <<>>
    BY <2>1, ConcatEmptySeq, EmptySeq DEF Waiting
  <2>3. Len(<<>>) = 0 /\ 1..Len(<<>>) = {}
    BY EmptySeq
  <2>4. Order
    BY <2>1, <2>2, <2>3 DEF Order, Rising, UpTo, Below
  <2>5. epc = "loop"
    BY DEF EncoderInit
  <2> QED
    BY <2>1, <2>3, <2>4, <2>5 DEF Count
<1>2. EncoderTypeOK /\ Order /\ Count /\ [EncoderNext]_evars => Order' /\ Count'
  BY OrderNext, CountNext
<1>3. EncoderTypeOK /\ Order /\ Count => PacketsInOrder
  BY LineInOrder
<1> QED
  BY <1>1, <1>2, <1>3, EncoderTypeCorrect, PTL DEF EncoderSpec, evars

-----------------------------------------------------------------------------
(* What the encoder emits.                                                 *)

\* The packets are the frames 1, 2, 3, ..., and none is Gop or more packets away
\* from the last key frame.
Streamed(s) ==
    \A i \in 1..Len(s) :
       /\ s[i].frame = i
       /\ \E j \in 1..i : s[j].key /\ i - j < Gop

\* The packet that is k packets from the end of s is a key frame.
KeyAt(s, k) == s # <<>> => k < Len(s) /\ s[Len(s) - k].key

\* All packets in a row, from the first one emitted to the last one in the codec.
Packed == emitted \o (out \o Waiting)

\* While the queue is open nothing is missing in the row, since each failure
\* closes the queue; what was emitted before stays.
EmittedInv ==
    /\ taken <= Len(emitted)
    /\ Streamed(emitted)
    /\ ~closed => Streamed(Packed) /\ Len(Packed) = sent /\ since < Gop /\ KeyAt(Packed, since)
    /\ epc \in {"done", "gone"} => closed
    /\ epc = "gone" /\ efailed = {} => Len(emitted) = sent

\* Two parts of w, one right after the other, are a part of w.
LEMMA TwoParts ==
    ASSUME NEW w \in Seq(Packets), NEW s \in Seq(Packets), NEW t \in Seq(Packets),
           NEW a \in Nat, NEW b \in Nat,
           Part(s, w, a), Part(t, w, b), a + Len(s) <= b,
           a + Len(s) + Len(t) = Len(w)
    PROVE  /\ s \o t \in Seq(Packets)
           /\ Len(s \o t) = Len(w) - a
           /\ \A i \in 1..Len(s \o t) : (s \o t)[i] = w[i + a]
<1>1. Len(s) \in Nat /\ Len(t) \in Nat /\ Len(w) \in Nat
  BY LenProperties
<1>2. /\ s \o t \in Seq(Packets)
      /\ Len(s \o t) = Len(s) + Len(t)
      /\ \A i \in 1..(Len(s) + Len(t)) :
            (s \o t)[i] = IF i <= Len(s) THEN s[i] ELSE t[i - Len(s)]
  BY ConcatProperties
<1>3. b = a + Len(s)
  <2>1. b + Len(t) <= Len(w)
    BY DEF Part
  <2> QED
    BY <1>1, <2>1
<1>4. ASSUME NEW i \in 1..Len(s \o t) PROVE (s \o t)[i] = w[i + a]
  <2>1. CASE i <= Len(s)
    <3>1. i \in 1..Len(s)
      BY <1>1, <1>2, <2>1
    <3>2. s[i] = w[i + a]
      BY <3>1 DEF Part
    <3> QED
      BY <1>1, <1>2, <2>1, <3>2
  <2>2. CASE ~(i <= Len(s))
    <3>1. i - Len(s) \in 1..Len(t)
      BY <1>1, <1>2, <2>2
    <3>2. t[i - Len(s)] = w[i - Len(s) + b]
      BY <3>1 DEF Part
    <3>3. i - Len(s) + b = i + a
      BY <1>1, <1>3
    <3> QED
      BY <1>1, <1>2, <2>2, <3>2, <3>3
  <2> QED
    BY <2>1, <2>2
<1> QED
  BY <1>1, <1>2, <1>4

\* A receive that succeeds leaves the packets in a row.
LEMMA ReceiveKeepsRow ==
    ASSUME EncoderTypeOK, out = <<>>, NEW inside \in Seq(Packets), NEW kept \in Nat,
           NEW some, NEW none, Receive(inside, kept, some, none)
    PROVE  out' \o (pending' \o codec') = pending \o inside
<1> DEFINE w == pending \o inside
           v == pending' \o codec'
<1>1. pending \in Seq(Packets)
  BY DEF EncoderTypeOK
<1>2. w \in Seq(Packets) /\ Len(w) \in Nat
  BY <1>1, ConcatProperties, LenProperties
<1> HIDE DEF w
<1>3. \/ /\ w # <<>>
         /\ out' = <<w[1]>>
         /\ w[1] \in Packets
         /\ Moved(w, 1)
         /\ Len(pending') + Len(codec') + 1 = Len(w)
      \/ /\ out' = out
         /\ Moved(w, 0)
         /\ Len(pending') = 0
         /\ Len(codec') = Len(w)
  BY ReceiveMoves DEF w
<1>4. CASE /\ w # <<>> /\ out' = <<w[1]>> /\ w[1] \in Packets /\ Moved(w, 1)
           /\ Len(pending') + Len(codec') + 1 = Len(w)
  <2>1. PICK b \in Nat : /\ Part(pending', w, 1)
                         /\ Part(codec', w, b)
                         /\ 1 + Len(pending') <= b
    BY <1>4 DEF Moved
  <2>2. pending' \in Seq(Packets) /\ codec' \in Seq(Packets)
    BY <1>4 DEF Moved
  <2>3. 1 + Len(pending') + Len(codec') = Len(w)
    <3>1. Len(pending') \in Nat /\ Len(codec') \in Nat
      BY <2>2, LenProperties
    <3> QED
      BY <1>4, <3>1
  <2>4. /\ v \in Seq(Packets)
        /\ Len(v) = Len(w) - 1
        /\ \A i \in 1..Len(v) : v[i] = w[i + 1]
    BY <1>2, <2>1, <2>2, <2>3, TwoParts
  <2> HIDE DEF v
  <2>5. /\ <<w[1]>> \in Seq(Packets) /\ Len(<<w[1]>>) = 1 /\ <<w[1]>>[1] = w[1]
    BY <1>4
  <2>6. /\ <<w[1]>> \o v \in Seq(Packets)
        /\ Len(<<w[1]>> \o v) = 1 + Len(v)
        /\ \A i \in 1..(1 + Len(v)) :
              (<<w[1]>> \o v)[i] = IF i <= 1 THEN <<w[1]>>[i] ELSE v[i - 1]
    BY <2>4, <2>5, ConcatProperties
  <2>7. ASSUME NEW i \in 1..Len(w) PROVE (<<w[1]>> \o v)[i] = w[i]
    <3>1. CASE i = 1
      BY <1>2, <2>4, <2>5, <2>6, <3>1
    <3>2. CASE i # 1
      <4>1. i - 1 \in 1..Len(v) /\ (<<w[1]>> \o v)[i] = v[i - 1]
        BY <1>2, <2>4, <2>6, <3>2
      <4>2. v[i - 1] = w[(i - 1) + 1]
        BY <2>4, <4>1
      <4> QED
        BY <4>1, <4>2
    <3> QED
      BY <3>1, <3>2
  <2>8. <<w[1]>> \o v = w
    <3>1. Len(<<w[1]>> \o v) = Len(w)
      BY <1>2, <2>4, <2>6
    <3>2. \A i \in 1..Len(<<w[1]>> \o v) : (<<w[1]>> \o v)[i] = w[i]
      BY <2>7, <3>1
    <3> QED
      BY <1>2, <2>6, <3>1, <3>2, SeqEqual
  <2> QED
    BY <1>4, <2>8 DEF v, w
<1>5. CASE /\ out' = out /\ Moved(w, 0) /\ Len(pending') = 0 /\ Len(codec') = Len(w)
  <2>1. PICK b \in Nat : /\ Part(pending', w, 0)
                         /\ Part(codec', w, b)
                         /\ 0 + Len(pending') <= b
    BY <1>5 DEF Moved
  <2>2. pending' \in Seq(Packets) /\ codec' \in Seq(Packets)
    BY <1>5 DEF Moved
  <2>3. 0 + Len(pending') + Len(codec') = Len(w)
    <3>1. Len(pending') \in Nat /\ Len(codec') \in Nat
      BY <2>2, LenProperties
    <3> QED
      BY <1>5, <3>1
  <2>4. /\ v \in Seq(Packets)
        /\ Len(v) = Len(w) - 0
        /\ \A i \in 1..Len(v) : v[i] = w[i + 0]
    BY <1>2, <2>1, <2>2, <2>3, TwoParts
  <2> HIDE DEF v
  <2>5. v = w
    <3>1. Len(v) = Len(w) /\ \A i \in 1..Len(v) : v[i] = w[i]
      BY <1>2, <2>4
    <3> QED
      BY <1>2, <2>4, <3>1, SeqEqual
  <2>6. out' \o v = v
    BY <1>5, <2>4, ConcatEmptySeq
  <2> QED
    BY <2>5, <2>6 DEF v, w
<1> QED
  BY <1>3, <1>4, <1>5

\* The emitted packets come first in the row.
LEMMA FirstInRow ==
    ASSUME NEW e \in Seq(Packets), NEW o \in Seq(Packets),
           NEW p \in Seq(Packets), NEW c \in Seq(Packets)
    PROVE  /\ e \o (o \o (p \o c)) \in Seq(Packets)
           /\ Len(e) <= Len(e \o (o \o (p \o c)))
           /\ \A i \in 1..Len(e) : (e \o (o \o (p \o c)))[i] = e[i]
<1> DEFINE rest == o \o (p \o c)
<1>1. p \o c \in Seq(Packets)
  BY ConcatProperties
<1>2. rest \in Seq(Packets)
  BY <1>1, ConcatProperties
<1> HIDE DEF rest
<1>3. /\ e \o rest \in Seq(Packets)
      /\ Len(e \o rest) = Len(e) + Len(rest)
      /\ \A i \in 1..(Len(e) + Len(rest)) :
            (e \o rest)[i] = IF i <= Len(e) THEN e[i] ELSE rest[i - Len(e)]
  BY <1>2, ConcatProperties
<1>4. Len(e) \in Nat /\ Len(rest) \in Nat
  BY <1>2, LenProperties
<1>5. Len(e) <= Len(e \o rest) /\ \A i \in 1..Len(e) : (e \o rest)[i] = e[i]
  BY <1>3, <1>4
<1> QED
  BY <1>3, <1>5 DEF rest

LEMMA PackedIs ==
    ASSUME EncoderTypeOK
    PROVE  /\ Packed \in Seq(Packets)
           /\ Len(Packed) \in Nat
           /\ Len(emitted) <= Len(Packed)
<1>1. /\ emitted \in Seq(Packets) /\ out \in Seq(Packets)
      /\ pending \in Seq(Packets) /\ codec \in Seq(Packets)
  BY DEF EncoderTypeOK
<1>2. Packed \in Seq(Packets) /\ Len(emitted) <= Len(Packed)
  BY <1>1, FirstInRow DEF Packed, Waiting
<1> QED
  BY <1>2, LenProperties

LEMMA PackedBecomes ==
    ASSUME EncoderTypeOK'
    PROVE  /\ Len(Packed') \in Nat
           /\ Len(emitted') <= Len(Packed')
           /\ \A i \in 1..Len(emitted') : Packed'[i] = emitted'[i]
<1>1. /\ emitted' \in Seq(Packets) /\ out' \in Seq(Packets)
      /\ pending' \in Seq(Packets) /\ codec' \in Seq(Packets)
  BY DEF EncoderTypeOK
<1>2. /\ Packed' \in Seq(Packets)
      /\ Len(emitted') <= Len(Packed')
      /\ \A i \in 1..Len(emitted') : Packed'[i] = emitted'[i]
  BY <1>1, FirstInRow DEF Packed, Waiting
<1> QED
  BY <1>2, LenProperties

\* The next frame is one more packet at the end.
LEMMA StreamedAppend ==
    ASSUME NEW s \in Seq(Packets), NEW p \in Packets, Streamed(s), p.frame = Len(s) + 1,
           NEW k \in Nat, k < Gop, KeyAt(s, k),
           s = <<>> => p.key,
           k + 1 >= Gop => p.key,
           NEW l, l = IF p.key THEN 0 ELSE k + 1
    PROVE  Streamed(Append(s, p)) /\ l < Gop /\ KeyAt(Append(s, p), l)
<1> DEFINE t == Append(s, p)
<1>1. PICK n \in Nat : n = Len(s)
  BY LenProperties
<1>2. /\ Len(t) = n + 1
      /\ \A i \in 1..n : t[i] = s[i]
      /\ t[n + 1] = p
  BY <1>1, AppendProperties
<1>3. Gop \in Nat \ {0}
  BY EncoderAssumption
<1>4. s = <<>> <=> n = 0
  BY <1>1, EmptySeq
<1>5. t # <<>>
  BY <1>2, EmptySeq
<1> HIDE DEF t
<1>6. \A i \in 1..n : t[i].frame = i /\ \E j \in 1..i : t[j].key /\ i - j < Gop
  <2> SUFFICES ASSUME NEW i \in 1..n
               PROVE  t[i].frame = i /\ \E j \in 1..i : t[j].key /\ i - j < Gop
    OBVIOUS
  <2>1. s[i].frame = i /\ \E j \in 1..i : s[j].key /\ i - j < Gop
    BY <1>1 DEF Streamed
  <2>2. PICK j \in 1..i : s[j].key /\ i - j < Gop
    BY <2>1
  <2>3. j \in 1..n /\ t[j] = s[j] /\ t[i] = s[i]
    BY <1>2
  <2> QED
    BY <2>1, <2>2, <2>3
<1>7. CASE p.key
  <2>1. l = 0
    BY <1>7
  <2>2. t[n + 1].frame = n + 1 /\ t[n + 1].key /\ (n + 1) - (n + 1) < Gop
    BY <1>1, <1>2, <1>3, <1>7
  <2>3. \A i \in 1..(n + 1) : t[i].frame = i /\ \E j \in 1..i : t[j].key /\ i - j < Gop
    <3>1. n + 1 \in 1..(n + 1) /\ \A i \in 1..(n + 1) : i \in 1..n \/ i = n + 1
      OBVIOUS
    <3>2. \E j \in 1..(n + 1) : t[j].key /\ (n + 1) - j < Gop
      BY <2>2, <3>1
    <3> QED
      BY <1>6, <2>2, <3>1, <3>2
  <2>4. Len(t) - l = n + 1 /\ l < Len(t) /\ l < Gop
    BY <1>2, <1>3, <2>1
  <2> QED
    BY <1>2, <2>2, <2>3, <2>4 DEF Streamed, KeyAt, t
<1>8. CASE ~p.key
  <2>1. l = k + 1 /\ k + 1 < Gop /\ s # <<>> /\ k < n /\ s[n - k].key
    BY <1>1, <1>3, <1>8 DEF KeyAt
  <2>2. n - k \in 1..n
    BY <2>1
  <2>3. t[n - k].key
    BY <1>2, <2>1, <2>2
  <2>4. (n + 1) - (n - k) < Gop /\ n - k \in 1..(n + 1)
    BY <1>3, <2>1, <2>2
  <2>5. t[n + 1].frame = n + 1
    BY <1>1, <1>2
  <2>6. \A i \in 1..(n + 1) : t[i].frame = i /\ \E j \in 1..i : t[j].key /\ i - j < Gop
    <3>1. \A i \in 1..(n + 1) : i \in 1..n \/ i = n + 1
      OBVIOUS
    <3>2. \E j \in 1..(n + 1) : t[j].key /\ (n + 1) - j < Gop
      BY <2>3, <2>4
    <3> QED
      BY <1>6, <2>5, <3>1, <3>2
  <2>7. Len(t) - l = n - k /\ l < Len(t) /\ l < Gop
    BY <1>2, <2>1
  <2> QED
    BY <1>2, <2>3, <2>6, <2>7 DEF Streamed, KeyAt, t
<1> QED
  BY <1>7, <1>8

\* A step that closes the queue and leaves the emitted packets alone.
LEMMA EmittedStays ==
    ASSUME EmittedInv, UNCHANGED <<emitted, taken>>, closed' = TRUE,
           epc' = "gone" /\ efailed' = {} => Len(emitted) = sent'
    PROVE  EmittedInv'
  BY DEF EmittedInv, Streamed

\* A step that leaves the row alone, or takes a packet from the queue.
LEMMA PackedStays ==
    ASSUME EncoderTypeOK, EncoderTypeOK', EmittedInv, Packed' = Packed,
           UNCHANGED <<closed, sent, since>>,
           taken' <= Len(emitted'),
           Streamed(emitted') \/ (~closed /\ Len(emitted') <= Len(Packed)),
           epc' \in {"done", "gone"} => closed,
           epc' = "gone" /\ efailed' = {} => Len(emitted') = sent'
    PROVE  EmittedInv'
<1>1. ~closed' => Streamed(Packed') /\ Len(Packed') = sent' /\ since' < Gop /\ KeyAt(Packed', since')
  BY DEF EmittedInv, KeyAt
<1>2. Streamed(emitted)'
  <2>1. CASE Streamed(emitted')
    BY <2>1 DEF Streamed
  <2>2. CASE ~closed
    <3>1. /\ Len(emitted') <= Len(Packed') /\ Len(emitted') \in Nat /\ Len(Packed') \in Nat
          /\ \A i \in 1..Len(emitted') : Packed'[i] = emitted'[i]
      <4>1. Len(emitted') \in Nat
        BY LenProperties DEF EncoderTypeOK
      <4> QED
        BY <4>1, PackedBecomes
    <3>2. Streamed(Packed')
      BY <1>1, <2>2
    <3> SUFFICES ASSUME NEW i \in 1..Len(emitted')
                 PROVE  /\ emitted'[i].frame = i
                        /\ \E j \in 1..i : emitted'[j].key /\ i - j < Gop
      BY DEF Streamed
    <3>3. i \in 1..Len(Packed')
      BY <3>1
    <3>4. Packed'[i].frame = i /\ \E j \in 1..i : Packed'[j].key /\ i - j < Gop
      BY <3>2, <3>3 DEF Streamed
    <3>5. \A j \in 1..i : j \in 1..Len(emitted')
      BY <3>1
    <3> QED
      BY <3>1, <3>4, <3>5
  <2> QED
    BY <2>1, <2>2
<1> QED
  BY <1>1, <1>2 DEF EmittedInv, Streamed

LEMMA EmittedStarts == StreamInit /\ EncoderInit => EmittedInv
<1> SUFFICES ASSUME StreamInit, EncoderInit PROVE EmittedInv
  OBVIOUS
<1>1. EncoderTypeOK
  BY TypeInit
<1>2. /\ emitted = <<>> /\ out = <<>> /\ pending = <<>> /\ codec = <<>>
      /\ taken = 0 /\ sent = 0 /\ since = 0 /\ epc = "loop"
  BY DEF StreamInit, EncoderInit
<1>3. Packed = <<>>
  <2>1. <<>> \in Seq(Packets) /\ <<>> \o <<>> = <<>>
    BY EmptySeq, ConcatEmptySeq
  <2> QED
    BY <1>2, <2>1 DEF Packed, Waiting
<1>4. Len(<<>>) = 0 /\ Streamed(<<>>)
  BY DEF Streamed
<1>5. 0 < Gop
  BY EncoderAssumption
<1> QED
  BY <1>2, <1>3, <1>4, <1>5 DEF EmittedInv, KeyAt

\* Every step keeps the invariant.
LEMMA EmittedStep ==
    ASSUME EncoderTypeOK, EncoderTypeOK', PacketsInOrder, EmittedInv, [EncoderNext]_evars
    PROVE  EmittedInv'
<1>1. /\ emitted \in Seq(Packets) /\ Len(emitted) \in Nat /\ taken \in Nat
      /\ out \in Seq(Packets) /\ pending \in Seq(Packets) /\ codec \in Seq(Packets)
      /\ sent \in Nat /\ since \in Nat
  BY LenProperties DEF EncoderTypeOK
<1>2. delay \in Nat
  BY EncoderAssumption DEF EncoderTypeOK
<1>3. epc \notin {"push", "push_flush"} => out = <<>>
  BY EmptySeq DEF EncoderTypeOK
<1>4. ASSUME UNCHANGED <<emitted, taken>>, closed' = TRUE, epc' # "gone"
      PROVE  EmittedInv'
  BY <1>4, EmittedStays
<1>5. ASSUME UNCHANGED <<emitted, taken, closed, out, codecVars, sent, since>>,
             epc' = epc \/ epc' = "flush", efailed' = efailed
      PROVE  EmittedInv'
  <2>1. Packed' = Packed
    BY <1>5 DEF Packed, Waiting, codecVars
  <2>2. taken' <= Len(emitted') /\ Streamed(emitted')
    BY <1>5 DEF EmittedInv
  <2>3. epc' \in {"done", "gone"} => closed
    BY <1>5 DEF EmittedInv
  <2>4. epc' = "gone" /\ efailed' = {} => Len(emitted') = sent'
    BY <1>5 DEF EmittedInv
  <2> QED
    BY <1>5, <2>1, <2>2, <2>3, <2>4, PackedStays
<1>6. CASE Encode
  <2>1. PICK packet \in Coded :
          /\ since' = IF packet.key THEN 0 ELSE since + 1
          /\ \/ Receive(Append(codec, packet), delay, "push", "loop")
             \/ ReceiveFails(Append(codec, packet), delay, "flush")
    BY <1>6 DEF Encode
  <2>2. CASE ReceiveFails(Append(codec, packet), delay, "flush")
    BY <1>4, <2>2 DEF ReceiveFails, EncoderStops, Shut
  <2>3. CASE Receive(Append(codec, packet), delay, "push", "loop")
    <3>1. /\ packet \in Packets /\ packet.frame = sent + 1
          /\ Append(codec, packet) \in Seq(Packets)
      BY Coming
    <3>2. out = <<>> /\ sent' = sent + 1
      BY <1>3, <1>6 DEF Encode
    <3>3. UNCHANGED <<emitted, taken, closed, efailed>> /\ epc' \in {"push", "loop"}
      BY <2>3 DEF Receive, streamVars
    <3>4. Packed' = Append(Packed, packet)
      <4>1. out' \o (pending' \o codec') = pending \o Append(codec, packet)
        BY <1>2, <2>3, <3>1, <3>2, ReceiveKeepsRow
      <4>2. Packed' = emitted \o (pending \o Append(codec, packet))
        BY <3>3, <4>1 DEF Packed, Waiting
      <4>3. Waiting \in Seq(Packets)
        BY <1>1, ConcatProperties DEF Waiting
      <4>4. Packed = emitted \o Waiting
        <5>1. out \o Waiting = Waiting
          BY <3>2, <4>3, ConcatEmptySeq
        <5> QED
          BY <5>1 DEF Packed
      <4>5. <<packet>> \in Seq(Packets) /\ Append(codec, packet) = codec \o <<packet>>
        BY <1>1, <3>1, AppendIsConcat
      <4>6. pending \o (codec \o <<packet>>) = Waiting \o <<packet>>
        BY <1>1, <4>5, ConcatAssociative DEF Waiting
      <4>7. emitted \o (Waiting \o <<packet>>) = (emitted \o Waiting) \o <<packet>>
        BY <1>1, <4>3, <4>5, ConcatAssociative
      <4>8. Append(Packed, packet) = Packed \o <<packet>>
        BY <3>1, PackedIs, AppendIsConcat
      <4> QED
        BY <4>2, <4>4, <4>5, <4>6, <4>7, <4>8
    <3>5. CASE ~closed
      <4>1. Streamed(Packed) /\ Len(Packed) = sent /\ since < Gop /\ KeyAt(Packed, since)
        BY <3>5 DEF EmittedInv
      <4>2. Packed \in Seq(Packets)
        BY PackedIs
      <4>3. /\ sent = 0 => packet.key
            /\ since + 1 >= Gop => packet.key
        <5>1. PICK k \in IF sent = 0 \/ since + 1 >= Gop THEN {TRUE} ELSE BOOLEAN :
                 packet = [frame |-> sent + 1, key |-> k]
          BY DEF Coded
        <5>2. packet.key = k
          BY <5>1
        <5> QED
          BY <5>1, <5>2
      <4>4. Packed = <<>> => sent = 0
        BY <4>1
      <4>5. packet.frame = Len(Packed) + 1
        BY <3>1, <4>1
      <4>6. Streamed(Append(Packed, packet)) /\ since' < Gop /\ KeyAt(Append(Packed, packet), since')
        BY <1>1, <2>1, <3>1, <4>1, <4>2, <4>3, <4>4, <4>5, StreamedAppend
      <4>7. Streamed(Packed') /\ Len(Packed') = sent' /\ since' < Gop /\ KeyAt(Packed', since')
        <5>1. Len(Append(Packed, packet)) = Len(Packed) + 1
          BY <3>1, <4>2, AppendProperties
        <5>2. KeyAt(Packed', since')
          BY <3>4, <4>6, <5>1 DEF KeyAt
        <5> QED
          BY <3>2, <3>4, <4>1, <4>6, <5>1, <5>2
      <4> QED
        BY <3>3, <4>7 DEF EmittedInv, Streamed
    <3>6. CASE closed
      BY <3>3, <3>6 DEF EmittedInv, Streamed
    <3> QED
      BY <3>5, <3>6
  <2> QED
    BY <2>1, <2>2, <2>3
<1>7. CASE EncodeRejects \/ InputFails
  BY <1>4, <1>7 DEF EncodeRejects, InputFails, EncoderStops, Shut
<1>8. CASE InputEnds
  BY <1>5, <1>8 DEF InputEnds, streamVars
<1>9. CASE PushPacket
  <2>1. /\ ~closed
        /\ emitted' = Append(emitted, Head(out))
        /\ out' = <<>>
        /\ epc \in {"push", "push_flush"} /\ epc' \in {"loop", "flush"}
        /\ UNCHANGED <<taken, closed, sent, since, pending, codec, efailed>>
    BY <1>9 DEF PushPacket, Accept, AfterPush, PushFrame, codecVars
  <2>2. Len(out) = 1
    BY <2>1 DEF EncoderTypeOK
  <2>3. Head(out) = out[1] /\ out[1] \in Packets
    <3>1. out # <<>>
      BY <2>2
    <3> QED
      BY <1>1, <2>2, <3>1, ElementOfSeq
  <2>4. out = <<out[1]>> /\ <<out[1]>> \in Seq(Packets)
    <3>1. <<out[1]>> \in Seq(Packets) /\ Len(<<out[1]>>) = 1 /\ <<out[1]>>[1] = out[1]
      BY <2>3
    <3>2. Len(out) = Len(<<out[1]>>) /\ \A i \in 1..Len(out) : out[i] = <<out[1]>>[i]
      BY <2>2, <3>1
    <3> QED
      BY <1>1, <3>1, <3>2, SeqEqual
  <2>5. emitted' = emitted \o out
    BY <1>1, <2>1, <2>3, <2>4, AppendIsConcat
  <2>6. Packed' = Packed
    <3>1. Waiting \in Seq(Packets) /\ Waiting' = Waiting
      BY <1>1, <2>1, ConcatProperties DEF Waiting
    <3>2. <<>> \o Waiting = Waiting
      BY <3>1, ConcatEmptySeq
    <3>3. (emitted \o out) \o Waiting = emitted \o (out \o Waiting)
      BY <1>1, <3>1, ConcatAssociative
    <3> QED
      BY <2>1, <2>5, <3>1, <3>2, <3>3 DEF Packed
  <2>7. Len(emitted') = Len(emitted) + 1
    BY <1>1, <2>1, <2>3, AppendProperties
  <2>8. taken' <= Len(emitted')
    BY <1>1, <2>1, <2>7 DEF EmittedInv
  <2>9. Len(emitted') <= Len(Packed)
    <3>1. Len(emitted') <= Len(Packed')
      BY PackedBecomes
    <3> QED
      BY <2>6, <3>1
  <2> QED
    BY <2>1, <2>6, <2>8, <2>9, PackedStays
<1>10. CASE PushRefused
  <2>1. UNCHANGED <<emitted, taken, closed>> /\ closed /\ epc' # "gone"
    BY <1>10 DEF PushRefused, streamVars, AfterNoPush
  <2> QED
    BY <2>1 DEF EmittedInv, Streamed
<1>11. CASE PushFails
  BY <1>4, <1>11 DEF PushFails, EncoderStops, Shut, AfterNoPush
<1>12. CASE Flush
  <2>1. Receive(codec, 0, "push_flush", "exit") /\ out = <<>> /\ UNCHANGED <<sent, since>>
    BY <1>3, <1>12 DEF Flush
  <2>2. UNCHANGED <<emitted, taken, closed, efailed>> /\ epc' \in {"push_flush", "exit"}
    BY <2>1 DEF Receive, streamVars
  <2>3. Packed' = Packed
    <3>1. out' \o (pending' \o codec') = pending \o codec
      BY <1>1, <2>1, ReceiveKeepsRow
    <3>2. Waiting \in Seq(Packets)
      BY <1>1, ConcatProperties DEF Waiting
    <3>3. out \o Waiting = Waiting
      BY <2>1, <3>2, ConcatEmptySeq
    <3> QED
      BY <2>2, <3>1, <3>3 DEF Packed, Waiting
  <2>4. taken' <= Len(emitted') /\ Streamed(emitted')
    BY <2>2 DEF EmittedInv
  <2> QED
    BY <2>1, <2>2, <2>3, <2>4, PackedStays
<1>13. CASE FlushFails
  BY <1>4, <1>13 DEF FlushFails, ReceiveFails, EncoderStops, Shut
<1>14. CASE EncoderExit
  BY <1>4, <1>14 DEF EncoderExit, EncoderStops, Shut
<1>15. CASE EncoderDeinit
  <2>1. /\ epc = "done" /\ UNCHANGED <<emitted, taken, closed, sent, efailed>> /\ closed
    BY <1>15 DEF EncoderDeinit, streamVars, EmittedInv
  <2>2. efailed' = {} => Len(emitted) = sent'
    BY <2>1 DEF PacketsInOrder
  <2> QED
    BY <2>1, <2>2 DEF EmittedInv, Streamed
<1>16. CASE Others
  <2>1. UNCHANGED <<epc, sent, since, codec, pending, out, efailed>> /\ emitted' = emitted
    BY <1>16 DEF Others, encoderVars, codecVars, TakeNext, Shut
  <2>2. CASE TakeNext
    <3>1. taken' = taken + 1 /\ taken < Len(emitted) /\ closed' = closed
      BY <2>2 DEF TakeNext
    <3>2. taken' <= Len(emitted')
      BY <1>1, <2>1, <3>1
    <3>3. Packed' = Packed
      BY <2>1 DEF Packed, Waiting
    <3> QED
      BY <2>1, <3>1, <3>2, <3>3, PackedStays DEF EmittedInv
  <2>3. CASE Shut
    BY <2>1, <2>3, EmittedStays DEF Shut, EmittedInv
  <2> QED
    BY <1>16, <2>2, <2>3 DEF Others
<1>17. CASE UNCHANGED evars
  BY <1>5, <1>17 DEF evars, streamVars, encoderVars
<1> QED
  BY <1>6, <1>7, <1>8, <1>9, <1>10, <1>11, <1>12, <1>13, <1>14, <1>15, <1>16, <1>17
  DEF EncoderNext, EncodeThread

\* The packets that reach the packet queue are the frames from the first on,
\* with no gap whatever fails, and a key frame among any Gop of them.
THEOREM EmittedIsStreamed == EncoderSpec => []EmittedInv
<1>1. EncoderTypeOK /\ EncoderTypeOK' /\ PacketsInOrder /\ EmittedInv /\ [EncoderNext]_evars
      => EmittedInv'
  BY EmittedStep
<1> QED
  BY <1>1, EmittedStarts, EncoderTypeCorrect, EncoderKeepsOrder, PTL DEF EncoderSpec, evars

=============================================================================
