---------------------------- MODULE ProgramProofs ----------------------------
(***************************************************************************)
(* Theorems about the programs that run in one thread: the registries, the *)
(* arithmetic of the detector, main from its arguments to its exit, and    *)
(* the bytes of a picture.                                                 *)
(***************************************************************************)
EXTENDS Registry, Vision, Startup, Frames, FiniteSetTheorems, TLAPS

-----------------------------------------------------------------------------
(***************************************************************************)
(* The array with its counter is the table that PluginTable promises, for  *)
(* every size of the table and all names.                                  *)
(***************************************************************************)

\* The set of the entries has as many members as the array: with it the full
\* array is the full set.
CountIsSize == IsFiniteSet(Plugins) /\ Cardinality(Plugins) = count

RegistryInv == RegistryTypeOK /\ NamesAreUnique /\ CountIsSize

-----------------------------------------------------------------------------

\* Where the loop stops: at the entry of the name, which is the only one.
LEMMA FirstIsIt ==
    ASSUME RegistryTypeOK, NEW name, NEW i, First(name, i)
    PROVE  i \in 1..count /\ table[i] \in Ops /\ table[i].name = name
  BY RegistryAssumption DEF First, HasName, RegistryTypeOK, Slots

\* A name that is in the table is found by the loop.
LEMMA KnownIsEntry ==
    ASSUME RegistryTypeOK, NEW name
    PROVE  Known(name) <=> \E i \in 1..count : table[i].name = name
  BY RegistryAssumption DEF Known, HasName, RegistryTypeOK, Slots

\* Replace takes one entry out of the set and puts one in.
LEMMA ReplaceChangesOne ==
    ASSUME RegistryInv, NEW o \in Ops, NEW i \in Slots, First(o.name, i),
           table' = [table EXCEPT ![i] = o], UNCHANGED count
    PROVE  /\ table[i] \in Plugins
           /\ table[i].name = o.name
           /\ i \in 1..count
           /\ Plugins' = (Plugins \ {table[i]}) \cup {o}
           /\ o \notin Plugins \ {table[i]}
<1> USE DEF RegistryInv
<1>1. i \in 1..count /\ table[i].name = o.name
  BY FirstIsIt
<1>2. table[i] \in Plugins
  BY <1>1 DEF Plugins
<1>3. \A j \in 1..count : j # i => table'[j] = table[j] /\ table[j] # table[i]
                                   /\ table[j].name # o.name
  BY <1>1, RegistryAssumption DEF NamesAreUnique, RegistryTypeOK, Slots
<1>4. table'[i] = o
  BY DEF RegistryTypeOK
<1>5. Plugins' = {table'[j] : j \in 1..count}
  BY DEF Plugins
<1>6. ASSUME NEW x \in Plugins' PROVE x \in (Plugins \ {table[i]}) \cup {o}
  <2>1. PICK j \in 1..count : x = table'[j]
    BY <1>5
  <2> QED
    BY <2>1, <1>3, <1>4 DEF Plugins
<1>7. ASSUME NEW x \in (Plugins \ {table[i]}) \cup {o} PROVE x \in Plugins'
  <2>1. CASE x = o
    BY <2>1, <1>1, <1>4, <1>5
  <2>2. CASE x \in Plugins \ {table[i]}
    <3>1. PICK j \in 1..count : x = table[j]
      BY <2>2 DEF Plugins
    <3>2. j # i
      BY <3>1, <2>2
    <3> QED
      BY <3>1, <3>2, <1>3, <1>5
  <2> QED
    BY <2>1, <2>2
<1>8. o \notin Plugins \ {table[i]}
  <2> SUFFICES ASSUME o \in Plugins, o # table[i] PROVE FALSE
    OBVIOUS
  <2>1. PICK j \in 1..count : o = table[j]
    BY DEF Plugins
  <2> QED
    BY <2>1, <1>3
<1> QED
  BY <1>1, <1>2, <1>6, <1>7, <1>8

\* AppendOps puts one in, of a new name.
LEMMA AppendAddsOne ==
    ASSUME RegistryInv, NEW o \in Ops, AppendOps(o)
    PROVE  /\ Plugins' = Plugins \cup {o}
           /\ o \notin Plugins
           /\ count' \in 1..TableMax
           /\ \A j \in 1..count : table'[j] = table[j] /\ table'[j].name # o.name
           /\ table'[count'] = o
<1> USE DEF RegistryInv
<1>1. count + 1 \in Slots /\ count' = count + 1 /\ count' \in 1..TableMax
  BY RegistryAssumption DEF AppendOps, RegistryTypeOK, Slots
<1>2. table'[count'] = o
  BY <1>1 DEF AppendOps, RegistryTypeOK
<1>3. \A j \in 1..count : table'[j] = table[j] /\ table[j].name # o.name
  BY <1>1, KnownIsEntry, RegistryAssumption DEF AppendOps, RegistryTypeOK, Slots
<1>4. o \notin Plugins
  BY <1>3 DEF Plugins
<1>5. 1..count' = 1..count \cup {count'}
  BY <1>1 DEF RegistryTypeOK
<1>6. Plugins' = {table'[j] : j \in 1..count'}
  BY DEF Plugins
<1>7. Plugins' = Plugins \cup {o}
  BY <1>2, <1>3, <1>5, <1>6 DEF Plugins
<1> QED
  BY <1>1, <1>2, <1>3, <1>4, <1>7

-----------------------------------------------------------------------------

LEMMA RegistryInvInit == RegistryInit => RegistryInv
<1> SUFFICES ASSUME RegistryInit PROVE RegistryInv
  OBVIOUS
<1>1. RegistryTypeOK /\ NamesAreUnique
  BY RegistryAssumption DEF RegistryInit, RegistryTypeOK, NamesAreUnique, Slots
<1>2. Plugins = {}
  BY DEF RegistryInit, Plugins
<1> QED
  BY <1>1, <1>2, FS_EmptySet DEF RegistryInv, CountIsSize, RegistryInit

\* A step that leaves the table alone.
LEMMA RegistryInvSame ==
    ASSUME RegistryInv, UNCHANGED <<table, count>>
    PROVE  RegistryInv'
  BY DEF RegistryInv, RegistryTypeOK, NamesAreUnique, CountIsSize, Plugins, Slots

LEMMA RegistryInvStep == RegistryInv /\ [RegistryNext]_registryVars => RegistryInv'
<1> SUFFICES ASSUME RegistryInv, [RegistryNext]_registryVars PROVE RegistryInv'
  OBVIOUS
<1>1. ASSUME NEW o \in Ops, Replace(o) PROVE RegistryInv'
  <2>1. PICK i \in Slots : /\ First(o.name, i)
                           /\ table' = [table EXCEPT ![i] = o]
                           /\ UNCHANGED count
    BY <1>1 DEF Replace
  <2>2. /\ table[i] \in Plugins
        /\ table[i].name = o.name
        /\ i \in 1..count
        /\ Plugins' = (Plugins \ {table[i]}) \cup {o}
        /\ o \notin Plugins \ {table[i]}
    BY <2>1, ReplaceChangesOne
  <2>3. RegistryTypeOK'
    BY <2>1 DEF RegistryInv, RegistryTypeOK, Slots
  <2>4. NamesAreUnique'
    BY <2>1, <2>2 DEF RegistryInv, RegistryTypeOK, NamesAreUnique
  <2>5. IsFiniteSet(Plugins \ {table[i]}) /\ Cardinality(Plugins \ {table[i]}) = count - 1
    BY <2>2, FS_RemoveElement DEF RegistryInv, CountIsSize
  <2>6. IsFiniteSet(Plugins') /\ Cardinality(Plugins') = count - 1 + 1
    BY <2>2, <2>5, FS_AddElement
  <2>7. CountIsSize'
    BY <2>1, <2>6 DEF CountIsSize, RegistryInv, RegistryTypeOK
  <2> QED
    BY <2>3, <2>4, <2>7 DEF RegistryInv
<1>2. ASSUME NEW o \in Ops, AppendOps(o) PROVE RegistryInv'
  <2>1. /\ Plugins' = Plugins \cup {o}
        /\ o \notin Plugins
        /\ count' \in 1..TableMax
        /\ \A j \in 1..count : table'[j] = table[j] /\ table'[j].name # o.name
        /\ table'[count'] = o
    BY <1>2, AppendAddsOne
  <2>2. count' = count + 1 /\ count \in Nat
    BY <1>2 DEF AppendOps, RegistryInv, RegistryTypeOK
  <2>3. RegistryTypeOK'
    <3>1. table' \in [Slots -> Ops \cup {NoOps}]
      BY <1>2 DEF AppendOps, RegistryInv, RegistryTypeOK
    <3>2. \A j \in 1..count' : table'[j] \in Ops
      BY <2>1, <2>2 DEF RegistryInv, RegistryTypeOK
    <3> QED
      BY <2>1, <3>1, <3>2 DEF RegistryTypeOK, Slots
  <2>4. NamesAreUnique'
    BY <2>1, <2>2 DEF RegistryInv, NamesAreUnique
  <2>5. IsFiniteSet(Plugins') /\ Cardinality(Plugins') = count + 1
    BY <2>1, FS_AddElement DEF RegistryInv, CountIsSize
  <2> QED
    BY <2>2, <2>3, <2>4, <2>5 DEF RegistryInv, CountIsSize
<1>3. ASSUME NEW o \in Ops, TableIsFull(o) PROVE RegistryInv'
  BY <1>3, RegistryInvSame DEF TableIsFull
<1>4. CASE RegisterRefuses \/ FindRefuses
  BY <1>4, RegistryInvSame DEF RegisterRefuses, FindRefuses
<1>5. ASSUME NEW name \in Names, Find(name) PROVE RegistryInv'
  BY <1>5, RegistryInvSame DEF Find
<1>6. CASE UNCHANGED registryVars
  BY <1>6, RegistryInvSame DEF registryVars
<1> QED
  BY <1>1, <1>2, <1>3, <1>4, <1>5, <1>6 DEF RegistryNext

\* Type correctness of the table, for every size: the counter never passes
\* the end of the array.
THEOREM RegistryTypeCorrect == RegistrySpec => []RegistryTypeOK
<1>1. RegistryInv => RegistryTypeOK
  BY DEF RegistryInv
<1> QED
  BY <1>1, RegistryInvInit, RegistryInvStep, PTL DEF RegistrySpec

\* A name is never twice in the table, so that replacing a plug-in replaces
\* all there is of it.
THEOREM NamesStayUnique == RegistrySpec => []NamesAreUnique
<1>1. RegistryInv => NamesAreUnique
  BY DEF RegistryInv
<1> QED
  BY <1>1, RegistryInvInit, RegistryInvStep, PTL DEF RegistrySpec

-----------------------------------------------------------------------------
(* The refinement.                                                         *)

LEMMA SameReturns ==
    ASSUME NEW a, NEW b, NEW c
    PROVE  Promised!Returns(a, b, c) = Returns(a, b, c)
  BY DEF Promised!Returns, Returns

LEMMA SameSize ==
    ASSUME NEW S
    PROVE  Promised!Cardinality(S) = Cardinality(S)
  BY DEF Promised!Cardinality, Cardinality, Promised!IsFiniteSet, IsFiniteSet

LEMMA SameOps == Promised!AllOps = Ops
  BY DEF Promised!AllOps, Ops

\* A name of the table is a name of the set.
LEMMA NamedIsKnown ==
    ASSUME RegistryInv, NEW name
    PROVE  Promised!Named(name) # {} <=> Known(name)
<1>1. Promised!Named(name) = {p \in Plugins : p.name = name}
  BY DEF Promised!Named
<1>2. Known(name) <=> \E i \in 1..count : table[i].name = name
  BY KnownIsEntry DEF RegistryInv
<1> QED
  BY <1>1, <1>2 DEF Plugins

\* The entry the loop stops at is all the set has of the name.
LEMMA NamedIsFirst ==
    ASSUME RegistryInv, NEW name, NEW i, First(name, i)
    PROVE  Promised!Named(name) = {table[i]}
<1>1. i \in 1..count /\ table[i].name = name
  BY FirstIsIt DEF RegistryInv
<1>2. ASSUME NEW j \in 1..count, table[j].name = name PROVE table[j] = table[i]
  BY <1>1, <1>2 DEF RegistryInv, NamesAreUnique
<1>3. Promised!Named(name) = {p \in Plugins : p.name = name}
  BY DEF Promised!Named
<1> QED
  BY <1>1, <1>2, <1>3 DEF Plugins

LEMMA StepRefines ==
    RegistryInv /\ [RegistryNext]_registryVars => [Promised!TableNext]_(Promised!tableVars)
<1> SUFFICES ASSUME RegistryInv, [RegistryNext]_registryVars
             PROVE  [Promised!TableNext]_(Promised!tableVars)
  OBVIOUS
<1>1. ASSUME NEW o \in Ops, Replace(o) PROVE Promised!Offer(o)
  <2>1. PICK i \in Slots : /\ First(o.name, i)
                           /\ table' = [table EXCEPT ![i] = o]
                           /\ answer' = Returns(o.name, "OK", NoOps)
                           /\ UNCHANGED count
    BY <1>1 DEF Replace
  <2>2. Plugins' = (Plugins \ {table[i]}) \cup {o}
    BY <2>1, ReplaceChangesOne
  <2>3. Promised!Named(o.name) = {table[i]}
    BY <2>1, NamedIsFirst
  <2> QED
    BY <2>1, <2>2, <2>3, SameReturns DEF Promised!Offer
<1>2. ASSUME NEW o \in Ops, AppendOps(o) PROVE Promised!Offer(o)
  <2>1. Promised!Named(o.name) = {}
    BY <1>2, NamedIsKnown DEF AppendOps
  <2>2. Cardinality(Plugins) < TableMax
    BY <1>2 DEF AppendOps, RegistryInv, CountIsSize
  <2>3. Plugins' = Plugins \cup {o}
    BY <1>2, AppendAddsOne
  <2> QED
    BY <1>2, <2>1, <2>2, <2>3, SameReturns, SameSize DEF Promised!Offer, AppendOps
<1>3. ASSUME NEW o \in Ops, TableIsFull(o) PROVE Promised!Offer(o)
  <2>1. Promised!Named(o.name) = {}
    BY <1>3, NamedIsKnown DEF TableIsFull
  <2>2. ~(Cardinality(Plugins) < TableMax)
    BY <1>3, RegistryAssumption DEF TableIsFull, RegistryInv, CountIsSize, RegistryTypeOK
  <2>3. Plugins' = Plugins
    BY <1>3 DEF TableIsFull, Plugins
  <2> QED
    BY <1>3, <2>1, <2>2, <2>3, SameReturns, SameSize DEF Promised!Offer, TableIsFull
<1>4. ASSUME NEW name \in Names, Find(name) PROVE Promised!Ask(name)
  <2>1. Plugins' = Plugins
    BY <1>4 DEF Find, Plugins
  <2>2. CASE ~Known(name) /\ answer' = Returns(name, "none", NoOps)
    BY <2>1, <2>2, NamedIsKnown, SameReturns DEF Promised!Ask
  <2>3. ASSUME NEW i \in Slots, First(name, i), answer' = Returns(name, "found", table[i])
        PROVE  Promised!Ask(name)
    <3>1. Promised!Named(name) = {table[i]}
      BY <2>3, NamedIsFirst
    <3> QED
      BY <2>1, <2>3, <3>1, SameReturns DEF Promised!Ask
  <2> QED
    BY <1>4, <2>2, <2>3 DEF Find
<1>5. CASE RegisterRefuses \/ FindRefuses
  <2>1. Plugins' = Plugins
    BY <1>5 DEF RegisterRefuses, FindRefuses, Plugins
  <2> QED
    BY <1>5, <2>1, SameReturns DEF RegisterRefuses, FindRefuses, Promised!TableNext, Promised!Refuse
<1>6. CASE UNCHANGED registryVars
  BY <1>6 DEF registryVars, Promised!tableVars, Plugins
<1>7. CASE RegistryNext
  BY <1>7, <1>1, <1>2, <1>3, <1>4, <1>5, SameOps DEF RegistryNext, Promised!TableNext
<1> QED
  BY <1>6, <1>7

\* Every manager's array behaves as the table of plug-ins it stands for: a
\* full one still replaces, a refused plug-in disturbs nothing, and Find
\* returns what was last registered.
THEOREM RegistryIsTable == RegistrySpec => RegistryImplementsTable
<1>1. RegistryInit => Promised!TableInit
  BY SameReturns DEF RegistryInit, Promised!TableInit, Plugins
<1> QED
  BY <1>1, RegistryInvInit, RegistryInvStep, StepRefines, PTL
  DEF RegistrySpec, RegistryImplementsTable, Promised!TableSpec

-----------------------------------------------------------------------------
(***************************************************************************)
(* The detector's arithmetic for all sizes, scales and zero points.        *)
(***************************************************************************)

LEMMA Times ==
    ASSUME NEW a \in Nat, NEW b \in Nat, NEW c \in Nat, a <= b
    PROVE  a * c \in Nat /\ b * c \in Nat /\ a * c <= b * c /\ c * a <= c * b
  OBVIOUS

LEMMA TimesLess ==
    ASSUME NEW a \in Nat, NEW b \in Nat, NEW c \in Nat \ {0}, a < b
    PROVE  a * c < b * c /\ c * a < c * b
  OBVIOUS

LEMMA Quotient ==
    ASSUME NEW a \in Nat, NEW b \in Nat \ {0}
    PROVE  /\ a \div b \in Nat
           /\ b * (a \div b) <= a
           /\ a < b * (a \div b) + b
  OBVIOUS

\* What a quotient of naturals cannot reach.
LEMMA QuotientBelow ==
    ASSUME NEW a \in Nat, NEW b \in Nat \ {0}, NEW c \in Nat, a < b * c
    PROVE  a \div b < c
<1> DEFINE q == a \div b
<1>1. q \in Nat /\ b * q <= a
  BY Quotient
<1>2. ASSUME c <= q PROVE FALSE
  <2>1. b * c <= b * q
    BY <1>1, <1>2, Times
  <2>2. b * c \in Nat /\ b * q \in Nat
    BY <1>1
  <2> QED
    BY <1>1, <2>1, <2>2
<1> QED
  BY <1>1, <1>2

LEMMA QuotientAtMost ==
    ASSUME NEW a \in Nat, NEW b \in Nat \ {0}, NEW c \in Nat, a <= b * c
    PROVE  a \div b <= c
<1>1. b * c \in Nat /\ b * (c + 1) = b * c + b
  OBVIOUS
<1>2. a < b * (c + 1)
  BY <1>1
<1>3. a \div b < c + 1
  BY <1>2, QuotientBelow
<1>4. a \div b \in Nat
  BY Quotient
<1> QED
  BY <1>3, <1>4

-----------------------------------------------------------------------------

\* Truncation never goes above an integer that is no less than the quotient.
LEMMA TruncatedAtMost ==
    ASSUME NEW a \in Int, NEW q \in Int, 100 * q >= a
    PROVE  Truncated(a, 100) <= q
  BY DEF Truncated

\* Of what a score needs, the confidence has its part.
LEMMA ScoreNeedsConfidence ==
    ASSUME NEW kind \in Quantised, NEW conf \in Levels, NEW prob \in Levels,
           ScoreTest(kind, conf, prob)
    PROVE  100 * conf >= BoxThresh * One
<1>1. conf \in Nat /\ prob \in Nat /\ prob <= One /\ One \in Nat \ {0} /\ BoxThresh \in Nat
  BY VisionAssumption DEF Levels
<1>2. 100 * (conf * prob) >= BoxThresh * (One * One)
  <2>1. conf * prob \in Nat /\ BoxThresh * (One * One) \in Nat
    BY <1>1
  <2>2. CASE kind \in {"i8", "u8"}
    BY <2>2 DEF ScoreTest
  <2>3. CASE kind = "rv1106"
    <3>1. 100 * (conf * prob) > BoxThresh * (One * One)
      BY <2>3 DEF ScoreTest
    <3> QED
      BY <2>1, <3>1
  <2> QED
    BY <2>2, <2>3 DEF Quantised, Kinds
<1>3. conf * prob <= conf * One
  BY <1>1, Times
<1>4. SUFFICES ASSUME 100 * conf < BoxThresh * One PROVE FALSE
  BY <1>1
<1>5. (100 * conf) * One < (BoxThresh * One) * One
  BY <1>1, <1>4, TimesLess
<1>6. (BoxThresh * One) * One = BoxThresh * (One * One)
  BY <1>1
<1>7. (100 * conf) * One = 100 * (conf * One)
  BY <1>1
<1>8. conf * prob \in Nat /\ conf * One \in Nat /\ BoxThresh * (One * One) \in Nat
  BY <1>1
<1>9. 100 * (conf * prob) <= 100 * (conf * One)
  BY <1>3, <1>8
<1> QED
  BY <1>2, <1>5, <1>6, <1>7, <1>8, <1>9

\* The test of the quantised confidence against the quantised threshold, which
\* __clip has truncated, is only a shortcut: for no scale and zero point does
\* it leave out a cell whose score passes.
THEOREM FastTestIsSound ==
    ASSUME NEW kind \in Quantised, NEW conf \in Levels, NEW prob \in Levels,
           NEW zp \in LeastQuant(kind)..GreatestQuant(kind),
           ScoreTest(kind, conf, prob)
    PROVE  FastTest(kind, zp, conf)
<1> DEFINE a == BoxThresh * One + 100 * zp
<1>1. conf \in Nat /\ One \in Nat \ {0} /\ BoxThresh \in Nat /\ zp \in Int
  BY VisionAssumption DEF Levels, LeastQuant, GreatestQuant
<1>2. BoxThresh * One \in Nat
  BY <1>1
<1>3. 100 * conf >= BoxThresh * One
  BY ScoreNeedsConfidence
<1>4. a \in Int /\ 100 * (conf + zp) >= a
  BY <1>1, <1>2, <1>3
<1> HIDE DEF a
<1>5. LeastQuant(kind) \in Int /\ GreatestQuant(kind) \in Int
  BY DEF LeastQuant, GreatestQuant
<1>6. Clip(kind, a, 100) <= conf + zp
  <2>1. CASE a <= 100 * LeastQuant(kind)
    <3>1. Clip(kind, a, 100) = LeastQuant(kind)
      BY <2>1 DEF Clip
    <3> QED
      BY <1>1, <1>5, <3>1
  <2>2. CASE ~(a <= 100 * LeastQuant(kind)) /\ a >= 100 * GreatestQuant(kind)
    <3>1. Clip(kind, a, 100) = GreatestQuant(kind)
      BY <2>2 DEF Clip
    <3> QED
      BY <1>1, <1>4, <1>5, <2>2, <3>1
  <2>3. CASE ~(a <= 100 * LeastQuant(kind)) /\ ~(a >= 100 * GreatestQuant(kind))
    <3>1. Clip(kind, a, 100) = Truncated(a, 100)
      BY <2>3 DEF Clip
    <3>2. conf + zp \in Int
      BY <1>1
    <3> QED
      BY <1>4, <3>1, <3>2, TruncatedAtMost
  <2> QED
    BY <2>1, <2>2, <2>3
<1>7. QuantThreshold(kind, zp) <= conf + zp
  BY <1>6 DEF QuantThreshold, a
<1>8. QuantThreshold(kind, zp) \in Int
  BY <1>4, <1>5 DEF QuantThreshold, Clip, Truncated, a
<1>9. conf + zp >= QuantThreshold(kind, zp)
  BY <1>1, <1>7, <1>8
<1> QED
  BY <1>9 DEF FastTest, Quantised

-----------------------------------------------------------------------------

\* Which of the two boxes nms looks at first is decided by the score alone: the
\* overlap is the same both ways.
THEOREM OverlapIsMutual ==
    ASSUME NEW a \in [x : Int, y : Int, w : Nat, h : Nat],
           NEW b \in [x : Int, y : Int, w : Nat, h : Nat]
    PROVE  Overlap(a, b) <=> Overlap(b, a)
<1>1. Common(a.x, a.w, b.x, b.w) = Common(b.x, b.w, a.x, a.w)
  BY DEF Common, Least, Greatest
<1>2. Common(a.y, a.h, b.y, b.h) = Common(b.y, b.h, a.y, a.h)
  BY DEF Common, Least, Greatest
<1>3. Area(a) \in Int /\ Area(b) \in Int
  BY DEF Area
<1>4. Area(a) + Area(b) = Area(b) + Area(a)
  BY <1>3
<1>5. CommonArea(a, b) = CommonArea(b, a)
  BY <1>1, <1>2 DEF CommonArea
<1> QED
  BY <1>4, <1>5 DEF Overlap

-----------------------------------------------------------------------------

LEMMA AlignedIsLess ==
    ASSUME NEW n \in Nat, NEW k \in {2, 4}
    PROVE  Aligned(n, k) \in Nat /\ Aligned(n, k) <= n /\ Aligned(n, k) % k = 0
  BY DEF Aligned

\* The padding of a side, half of it before the picture.
LEMMA CentredFits ==
    ASSUME NEW d \in Nat, NEW n \in 0..d
    PROVE  LET before == Aligned((d - n) \div 2, 2)
           IN  before \in Nat /\ before % 2 = 0 /\ before + n - 1 <= d - 1
<1>1. d - n \in Nat /\ (d - n) \div 2 \in Nat /\ 2 * ((d - n) \div 2) <= d - n
  OBVIOUS
<1>2. Aligned((d - n) \div 2, 2) \in Nat /\ Aligned((d - n) \div 2, 2) <= (d - n) \div 2
      /\ Aligned((d - n) \div 2, 2) % 2 = 0
  BY <1>1, AlignedIsLess
<1> QED
  BY <1>1, <1>2

\* A picture of any size, in a square of any size: the scaled picture lies
\* inside it, with even offsets, so that convert_image writes only there.
THEOREM LetterboxFits ==
    ASSUME NEW sw \in Nat \ {0}, NEW sh \in Nat \ {0},
           NEW dw \in Nat \ {0}, NEW dh \in Nat \ {0}
    PROVE  LET box == DstBox(sw, sh, dw, dh)
           IN  /\ box.left \in Nat /\ box.top \in Nat
               /\ box.right <= dw - 1 /\ box.bottom <= dh - 1
               /\ box.left % 2 = 0 /\ box.top % 2 = 0
<1> DEFINE w == ResizeW(sw, sh, dw, dh)
           h == ResizeH(sw, sh, dw, dh)
           top == Aligned((dh - h) \div 2, 2)
           left == Aligned((dw - w) \div 2, 2)
<1>1. sw * dh \in Nat /\ sh * dw \in Nat /\ dw * sh = sh * dw /\ dh * sw = sw * dh
  OBVIOUS
<1>2. CASE WidthDecides(sw, sh, dw, dh)
  <2>1. sh * dw <= sw * dh
    BY <1>1, <1>2 DEF WidthDecides
  <2>2. (sh * dw) \div sw \in Nat /\ (sh * dw) \div sw <= dh
    BY <1>1, <2>1, Quotient, QuotientAtMost
  <2>3. h \in 0..dh
    <3>1. h = Aligned((sh * dw) \div sw, 2)
      BY <1>2 DEF ResizeH
    <3>2. Aligned((sh * dw) \div sw, 2) \in Nat
          /\ Aligned((sh * dw) \div sw, 2) <= (sh * dw) \div sw
      BY <2>2, AlignedIsLess
    <3> QED
      BY <2>2, <3>1, <3>2
  <2>4. top \in Nat /\ top % 2 = 0 /\ top + h - 1 <= dh - 1
    BY <2>3, CentredFits
  <2>5. DstBox(sw, sh, dw, dh)
            = [left |-> 0, right |-> dw - 1, top |-> top, bottom |-> top + h - 1]
    BY <1>2 DEF DstBox
  <2> HIDE DEF top, h
  <2> QED
    BY <2>4, <2>5
<1>3. CASE ~WidthDecides(sw, sh, dw, dh)
  <2>1. sw * dh <= sh * dw
    BY <1>1, <1>3 DEF WidthDecides
  <2>2. (sw * dh) \div sh \in Nat /\ (sw * dh) \div sh <= dw
    BY <1>1, <2>1, Quotient, QuotientAtMost
  <2>3. w \in 0..dw
    <3>1. w = Aligned((sw * dh) \div sh, 4)
      BY <1>3 DEF ResizeW
    <3>2. Aligned((sw * dh) \div sh, 4) \in Nat
          /\ Aligned((sw * dh) \div sh, 4) <= (sw * dh) \div sh
      BY <2>2, AlignedIsLess
    <3> QED
      BY <2>2, <3>1, <3>2
  <2>4. left \in Nat /\ left % 2 = 0 /\ left + w - 1 <= dw - 1
    BY <2>3, CentredFits
  <2>5. DstBox(sw, sh, dw, dh)
            = [left |-> left, right |-> left + w - 1, top |-> 0, bottom |-> dh - 1]
    BY <1>3 DEF DstBox
  <2> HIDE DEF left, w
  <2> QED
    BY <2>4, <2>5
<1> QED
  BY <1>2, <1>3

-----------------------------------------------------------------------------

\* A crop that lies inside the source, scaled to a box of any size: every pixel
\* is taken, and mixed with a neighbour, from inside the source.  It needs two
\* rows and columns; in a source of one the neighbour would be outside.
THEOREM ScalingReadsInside ==
    ASSUME NEW size \in Nat, size >= 2,
           NEW start \in Nat, NEW crop \in Nat \ {0}, start + crop <= size,
           NEW box \in Nat \ {0}, NEW n \in 0..(box - 1)
    PROVE  LET p == SourceAt(n, start, crop, box)
           IN  p \in 0..(size - 1) /\ Neighbour(p, size) \in 0..(size - 1)
<1> DEFINE q == (n * crop) \div box
<1>1. n \in Nat /\ n < box
  OBVIOUS
<1>2. n * crop \in Nat /\ n * crop < box * crop
  BY <1>1, TimesLess
<1>3. q \in Nat /\ q < crop
  BY <1>2, Quotient, QuotientBelow
<1> HIDE DEF q
<1>4. start + q \in 0..(size - 1)
  BY <1>3
<1>5. SourceAt(n, start, crop, box) = start + q
  BY DEF SourceAt, q
<1> QED
  BY <1>4, <1>5 DEF Neighbour

\* The second plane of NV12 is read inside half the source, although the box is
\* that of the whole picture.
THEOREM ChromaReadsInside ==
    ASSUME NEW size \in Nat, size >= 4,
           NEW start \in Nat, NEW crop \in Nat, crop >= 2, start + crop <= size,
           NEW box \in Nat \ {0}, NEW n \in 0..(box - 1)
    PROVE  LET p == ChromaSourceAt(n, start, crop, box)
           IN  p \in 0..(Half(size) - 1) /\ Neighbour(p, Half(size)) \in 0..(Half(size) - 1)
<1>1. /\ Half(size) \in Nat /\ Half(size) >= 2
      /\ Half(start) \in Nat
      /\ Half(crop) \in Nat \ {0} /\ Half(start) + Half(crop) <= Half(size)
  BY DEF Half
<1> QED
  BY <1>1, ScalingReadsInside DEF ChromaSourceAt

\* A row of w pixels after the other, of which h are there.
LEMMA RowsInside ==
    ASSUME NEW w \in Nat \ {0}, NEW h \in Nat, NEW row \in Nat, NEW rest \in 0..(w - 1)
    PROVE  row * w + rest < w * h <=> row < h
<1>1. row * w \in Nat
  OBVIOUS
<1>2. CASE row < h
  <2>1. PICK k \in Nat : h = row + 1 + k
    <3>1. h - row - 1 \in Nat /\ h = row + 1 + (h - row - 1)
      BY <1>2
    <3> QED
      BY <3>1
  <2>2. w * h = row * w + w + k * w /\ k * w \in Nat
    BY <2>1
  <2> QED
    BY <1>1, <1>2, <2>2
<1>3. CASE ~(row < h)
  <2>1. PICK k \in Nat : row = h + k
    <3>1. row - h \in Nat /\ row = h + (row - h)
      BY <1>3
    <3> QED
      BY <3>1
  <2>2. row * w = w * h + k * w /\ k * w \in Nat /\ w * h \in Nat
    BY <2>1
  <2> QED
    BY <1>3, <2>2
<1> QED
  BY <1>2, <1>3

\* It is not written inside half the destination.  A pixel of the box goes where
\* it should only as long as its row, and one more for every half row to its
\* left, is in the upper half of the picture; the last pixel of a box that is the
\* whole picture is written behind the plane.
THEOREM ChromaWritesInside ==
    ASSUME NEW dw \in Nat, dw >= 2, NEW dh \in Nat, dh >= 2,
           NEW x \in Nat, NEW y \in Nat
    PROVE  /\ ChromaPixelAt(x, y, dw) < Half(dw) * Half(dh)
                 <=> y + x \div Half(dw) < Half(dh)
           /\ ~(ChromaPixelAt(dw - 1, dh - 1, dw) < Half(dw) * Half(dh))
<1> DEFINE w == Half(dw)
           h == Half(dh)
<1>1. w \in Nat \ {0} /\ h \in Nat /\ h <= dh - 1
  BY DEF Half
<1> HIDE DEF w, h
<1>2. ASSUME NEW a \in Nat, NEW b \in Nat
      PROVE  PixelAt(a, b, w) < w * h <=> b + a \div w < h
  <2> DEFINE q == a \div w
             r == a % w
  <2>1. q \in Nat /\ r \in 0..(w - 1) /\ a = w * q + r
    BY <1>1
  <2> HIDE DEF q, r
  <2>2. b * w + a = (b + q) * w + r
    BY <1>1, <2>1
  <2>3. (b + q) * w + r < w * h <=> b + q < h
    BY <1>1, <2>1, RowsInside
  <2> QED
    BY <2>2, <2>3 DEF PixelAt, q
<1>3. ChromaPixelAt(x, y, dw) < Half(dw) * Half(dh) <=> y + x \div Half(dw) < Half(dh)
  BY <1>2 DEF ChromaPixelAt, w, h
<1>4. ~(PixelAt(dw - 1, dh - 1, w) < w * h)
  <2>1. dw - 1 \in Nat /\ dh - 1 \in Nat /\ (dw - 1) \div w \in Nat
    BY <1>1
  <2>2. ~((dh - 1) + (dw - 1) \div w < h)
    BY <1>1, <2>1
  <2> QED
    BY <1>2, <2>1, <2>2
<1> QED
  BY <1>3, <1>4 DEF ChromaPixelAt, w, h

-----------------------------------------------------------------------------
(* Startup: what a command line means, option by option.                   *)

\* An argument is an option, of the arguments a: IsOption with its arguments
\* named.
OptionAt(a, i) ==
    \E j \in 0..(i - 1) :
        /\ (i - 1 - j) % 2 = 0
        /\ j = 0 \/ a[j] \notin TakesValue
        /\ \A k \in (j + 1)..(i - 1) : a[k] \in TakesValue

\* The first argument of a command line is an option.
LEMMA FirstIsOption ==
    ASSUME NEW a
    PROVE  OptionAt(a, 1)
<1>1. 0 \in 0..(1 - 1) /\ (1 - 1 - 0) % 2 = 0 /\ (0 + 1)..(1 - 1) = {}
  OBVIOUS
<1> QED
  BY <1>1 DEF OptionAt

\* What follows an option that takes no value is an option.
LEMMA OptionAfterFlag ==
    ASSUME NEW a, NEW i \in Nat \ {0}, a[i] \notin TakesValue
    PROVE  OptionAt(a, i + 1)
<1>1. i \in 0..(i + 1 - 1) /\ (i + 1 - 1 - i) % 2 = 0 /\ (i + 1)..(i + 1 - 1) = {}
  OBVIOUS
<1> QED
  BY <1>1 DEF OptionAt

\* What follows an option that takes a value is not an option, as the run of
\* such words before it has become odd.
LEMMA ValueIsNoOption ==
    ASSUME NEW a, NEW i \in Nat \ {0}, OptionAt(a, i), a[i] \in TakesValue
    PROVE  ~OptionAt(a, i + 1)
<1> SUFFICES ASSUME OptionAt(a, i + 1) PROVE FALSE
  OBVIOUS
<1>1. PICK j \in 0..(i - 1) :
        /\ (i - 1 - j) % 2 = 0
        /\ j = 0 \/ a[j] \notin TakesValue
        /\ \A k \in (j + 1)..(i - 1) : a[k] \in TakesValue
  BY DEF OptionAt
<1>2. PICK m \in 0..(i + 1 - 1) :
        /\ (i + 1 - 1 - m) % 2 = 0
        /\ m = 0 \/ a[m] \notin TakesValue
        /\ \A k \in (m + 1)..(i + 1 - 1) : a[k] \in TakesValue
  BY DEF OptionAt
<1>3. m \in Int /\ j \in Int /\ m # i
  BY <1>1, <1>2
<1>4. ~(j < m)
  <2> SUFFICES ASSUME j < m PROVE FALSE
    OBVIOUS
  <2>1. m \in (j + 1)..(i - 1) /\ m # 0
    BY <1>1, <1>2, <1>3
  <2> QED
    BY <2>1, <1>1, <1>2
<1>5. ~(m < j)
  <2> SUFFICES ASSUME m < j PROVE FALSE
    OBVIOUS
  <2>1. j \in (m + 1)..(i + 1 - 1) /\ j # 0
    BY <1>1, <1>2, <1>3
  <2> QED
    BY <2>1, <1>1, <1>2
<1>6. m = j
  BY <1>3, <1>4, <1>5
<1> QED
  BY <1>6, <1>1, <1>2

\* What follows an option and its value is an option.
LEMMA OptionAfterValue ==
    ASSUME NEW a, NEW i \in Nat \ {0}, OptionAt(a, i), a[i] \in TakesValue
    PROVE  OptionAt(a, i + 2)
<1>1. CASE a[i + 1] \notin TakesValue
  <2>1. (i + 1) + 1 = i + 2 /\ i + 1 \in Nat \ {0}
    OBVIOUS
  <2>2. OptionAt(a, (i + 1) + 1)
    BY <1>1, <2>1, OptionAfterFlag
  <2> QED
    BY <2>1, <2>2
<1>2. CASE a[i + 1] \in TakesValue
  <2>1. PICK j \in 0..(i - 1) :
          /\ (i - 1 - j) % 2 = 0
          /\ j = 0 \/ a[j] \notin TakesValue
          /\ \A k \in (j + 1)..(i - 1) : a[k] \in TakesValue
    BY DEF OptionAt
  <2>2. j \in 0..(i + 2 - 1) /\ (i + 2 - 1 - j) % 2 = 0
    BY <2>1
  <2>3. ASSUME NEW k \in (j + 1)..(i + 2 - 1)
        PROVE  a[k] \in TakesValue
    <3>1. k \in (j + 1)..(i - 1) \/ k = i \/ k = i + 1
      BY <2>1
    <3> QED
      BY <3>1, <2>1, <1>2
  <2> QED
    BY <2>1, <2>2, <2>3 DEF OptionAt
<1> QED
  BY <1>1, <1>2

\* The occurrences of an option before an argument.
GivenBefore(a, n, o) == {k \in 1..(n - 1) : OptionAt(a, k) /\ a[k] = o}

\* A text, and a number, that the last occurrence of an option gives.
TextIs(a, n, o, default, value) ==
    \/ GivenBefore(a, n, o) = {} /\ value = default
    \/ \E m \in GivenBefore(a, n, o) :
          /\ \A j \in GivenBefore(a, n, o) : j <= m
          /\ value = a[m + 1]

NumberIs(a, n, o, default, value) ==
    \/ GivenBefore(a, n, o) = {} /\ value = default
    \/ \E m \in GivenBefore(a, n, o) :
          /\ \A j \in GivenBefore(a, n, o) : j <= m
          /\ value = Numeral[a[m + 1]]

\* The arguments that an option takes up add the option to its occurrences,
\* and nothing to those of another.
LEMMA GivenGrows ==
    ASSUME NEW a, NEW n \in Nat \ {0}, OptionAt(a, n), NEW o
    PROVE  /\ OptionAt(a, n + Consumed(a[n]))
           /\ GivenBefore(a, n + Consumed(a[n]), o)
                = GivenBefore(a, n, o) \cup (IF a[n] = o THEN {n} ELSE {})
<1>1. CASE a[n] \in TakesValue
  <2>1. Consumed(a[n]) = 2
    BY <1>1 DEF Consumed
  <2>2. OptionAt(a, n + 2) /\ ~OptionAt(a, n + 1)
    BY <1>1, OptionAfterValue, ValueIsNoOption
  <2>3. \A k : k \in 1..(n + 2 - 1) <=> k \in 1..(n - 1) \/ k = n \/ k = n + 1
    OBVIOUS
  <2> QED
    BY <2>1, <2>2, <2>3 DEF GivenBefore
<1>2. CASE a[n] \notin TakesValue
  <2>1. Consumed(a[n]) = 1
    BY <1>2 DEF Consumed
  <2>2. OptionAt(a, n + 1)
    BY <1>2, OptionAfterFlag
  <2>3. \A k : k \in 1..(n + 1 - 1) <=> k \in 1..(n - 1) \/ k = n
    OBVIOUS
  <2> QED
    BY <2>1, <2>2, <2>3 DEF GivenBefore
<1> QED
  BY <1>1, <1>2

\* Occurrences are arguments before the one at hand.
LEMMA GivenIsBefore ==
    ASSUME NEW a, NEW n \in Nat \ {0}, NEW o
    PROVE  \A k \in GivenBefore(a, n, o) : k \in Int /\ 1 <= k /\ k < n
BY DEF GivenBefore

\* An option changes the value that it gives and no other.
LEMMA ValuesFollow ==
    ASSUME NEW a, NEW n \in Nat \ {0}, OptionAt(a, n), NEW o, NEW default, NEW value
    PROVE  LET later == n + Consumed(a[n])
           IN  /\ a[n] # o /\ TextIs(a, n, o, default, value) =>
                      TextIs(a, later, o, default, value)
               /\ a[n] # o /\ NumberIs(a, n, o, default, value) =>
                      NumberIs(a, later, o, default, value)
               /\ a[n] = o => TextIs(a, later, o, default, a[n + 1])
               /\ a[n] = o => NumberIs(a, later, o, default, Numeral[a[n + 1]])
<1> DEFINE later == n + Consumed(a[n])
           before == GivenBefore(a, n, o)
           after == GivenBefore(a, later, o)
<1>1. after = before \cup (IF a[n] = o THEN {n} ELSE {})
  BY GivenGrows
<1>2. \A k \in before : k \in Int /\ k < n
  BY GivenIsBefore
<1>3. TextIs(a, n, o, default, value) <=>
        \/ before = {} /\ value = default
        \/ \E m \in before : (\A j \in before : j <= m) /\ value = a[m + 1]
  BY DEF TextIs
<1>4. NumberIs(a, n, o, default, value) <=>
        \/ before = {} /\ value = default
        \/ \E m \in before : (\A j \in before : j <= m) /\ value = Numeral[a[m + 1]]
  BY DEF NumberIs
<1>5. \A v : TextIs(a, later, o, default, v) <=>
        \/ after = {} /\ v = default
        \/ \E m \in after : (\A j \in after : j <= m) /\ v = a[m + 1]
  BY DEF TextIs
<1>6. \A v : NumberIs(a, later, o, default, v) <=>
        \/ after = {} /\ v = default
        \/ \E m \in after : (\A j \in after : j <= m) /\ v = Numeral[a[m + 1]]
  BY DEF NumberIs
<1> HIDE DEF later, before, after
<1>7. a[n] # o => after = before
  BY <1>1
<1>8. a[n] = o => n \in after /\ \A j \in after : j <= n
  BY <1>1, <1>2
<1>9. a[n] # o /\ TextIs(a, n, o, default, value) => TextIs(a, later, o, default, value)
  BY <1>3, <1>5, <1>7
<1>10. a[n] # o /\ NumberIs(a, n, o, default, value) => NumberIs(a, later, o, default, value)
  BY <1>4, <1>6, <1>7
<1>11. a[n] = o => TextIs(a, later, o, default, a[n + 1])
  BY <1>5, <1>8
<1>12. a[n] = o => NumberIs(a, later, o, default, Numeral[a[n + 1]])
  BY <1>6, <1>8
<1> QED
  BY <1>9, <1>10, <1>11, <1>12 DEF later

\* A configuration has the fields of AppConfig.
IsConfig(c) ==
    c = [device |-> c.device, width |-> c.width, height |-> c.height, fps |-> c.fps,
         preview |-> c.preview, record |-> c.record, rtsp |-> c.rtsp,
         processor |-> c.processor, segment |-> c.segment,
         output_path |-> c.output_path, rtsp_url |-> c.rtsp_url,
         processor_name |-> c.processor_name, max_frames |-> c.max_frames,
         segment_time |-> c.segment_time]

\* It is what the arguments before n mean: its values, its flags.
ValuesAreMeant(a, n, c) ==
    /\ TextIs(a, n, "--device", "", c.device)
    /\ TextIs(a, n, "--record", "output/record.mp4", c.output_path)
    /\ TextIs(a, n, "--rtsp", "rtsp://127.0.0.1:8554/live", c.rtsp_url)
    /\ TextIs(a, n, "--processor", "osd", c.processor_name)
    /\ NumberIs(a, n, "--width", 640, c.width)
    /\ NumberIs(a, n, "--height", 480, c.height)
    /\ NumberIs(a, n, "--fps", 30, c.fps)
    /\ NumberIs(a, n, "--frames", 0, c.max_frames)
    /\ NumberIs(a, n, "--segment-time", 60, c.segment_time)

FlagsAreMeant(a, n, c) ==
    /\ c.preview = (GivenBefore(a, n, "--preview") # {})
    /\ c.record = (GivenBefore(a, n, "--record") \cup GivenBefore(a, n, "--segment-time") # {})
    /\ c.rtsp = (GivenBefore(a, n, "--rtsp") # {})
    /\ c.processor = (\E i \in GivenBefore(a, n, "--processor") :
                         \A j \in GivenBefore(a, n, "--no-processor") : j < i)
    /\ c.segment = (GivenBefore(a, n, "--segment-time") # {})

\* The value of the option at hand, and the configuration after it, field by
\* field.
ValueOf(a, n) == IF a[n] \in TakesValue THEN a[n + 1] ELSE ""

AfterByField(a, n) ==
    [device |-> IF a[n] = "--device" THEN a[n + 1] ELSE config.device,
     width |-> IF a[n] = "--width" THEN Numeral[a[n + 1]] ELSE config.width,
     height |-> IF a[n] = "--height" THEN Numeral[a[n + 1]] ELSE config.height,
     fps |-> IF a[n] = "--fps" THEN Numeral[a[n + 1]] ELSE config.fps,
     preview |-> a[n] = "--preview" \/ config.preview,
     record |-> a[n] \in {"--record", "--segment-time"} \/ config.record,
     rtsp |-> a[n] = "--rtsp" \/ config.rtsp,
     processor |-> a[n] = "--processor" \/ (a[n] # "--no-processor" /\ config.processor),
     segment |-> a[n] = "--segment-time" \/ config.segment,
     output_path |-> IF a[n] = "--record" THEN a[n + 1] ELSE config.output_path,
     rtsp_url |-> IF a[n] = "--rtsp" THEN a[n + 1] ELSE config.rtsp_url,
     processor_name |-> IF a[n] = "--processor" THEN a[n + 1] ELSE config.processor_name,
     max_frames |-> IF a[n] = "--frames" THEN Numeral[a[n + 1]] ELSE config.max_frames,
     segment_time |-> IF a[n] = "--segment-time" THEN Numeral[a[n + 1]] ELSE config.segment_time]

\* Options set the fields that After says, and no other.
LEMMA OptionSetsFields ==
    ASSUME NEW a, NEW n, IsConfig(config),
           config.preview \in BOOLEAN, config.record \in BOOLEAN, config.rtsp \in BOOLEAN,
           config.processor \in BOOLEAN, config.segment \in BOOLEAN,
           a[n] \in TakesValue \cup Alone
    PROVE  After(a[n], ValueOf(a, n)) = AfterByField(a, n)
<1> USE DEF IsConfig, After, AfterByField, ValueOf, TakesValue, WithText, WithNumber
<1>1. CASE a[n] = "--device"
  BY <1>1
<1>2. CASE a[n] = "--width"
  BY <1>2
<1>3. CASE a[n] = "--height"
  BY <1>3
<1>4. CASE a[n] = "--fps"
  BY <1>4
<1>5. CASE a[n] = "--preview"
  BY <1>5
<1>6. CASE a[n] = "--record"
  BY <1>6
<1>7. CASE a[n] = "--segment-time"
  BY <1>7
<1>8. CASE a[n] = "--rtsp"
  BY <1>8
<1>9. CASE a[n] = "--processor"
  BY <1>9
<1>10. CASE a[n] = "--no-processor"
  BY <1>10
<1>11. CASE a[n] = "--frames"
  BY <1>11
<1> QED
  BY <1>1, <1>2, <1>3, <1>4, <1>5, <1>6, <1>7, <1>8, <1>9, <1>10, <1>11 DEF Alone

\* What an option sets is what the longer command line means, value by value
\* and flag by flag.
LEMMA MeaningGrows ==
    ASSUME NEW a, NEW n \in Nat \ {0}, OptionAt(a, n),
           ValuesAreMeant(a, n, config), FlagsAreMeant(a, n, config)
    PROVE  /\ ValuesAreMeant(a, n + Consumed(a[n]), AfterByField(a, n))
           /\ FlagsAreMeant(a, n + Consumed(a[n]), AfterByField(a, n))
<1> DEFINE later == n + Consumed(a[n])
           had(o) == GivenBefore(a, n, o)
           has(o) == GivenBefore(a, later, o)
           d == AfterByField(a, n)
<1>1. \A o : has(o) = had(o) \cup (IF a[n] = o THEN {n} ELSE {})
  BY GivenGrows
<1>2. \A o : \A k \in had(o) : k \in Int /\ k < n
  BY GivenIsBefore
<1>3. ASSUME NEW o, NEW default, NEW value, TextIs(a, n, o, default, value)
      PROVE  TextIs(a, later, o, default, IF a[n] = o THEN a[n + 1] ELSE value)
  BY <1>3, ValuesFollow
<1>4. ASSUME NEW o, NEW default, NEW value, NumberIs(a, n, o, default, value)
      PROVE  NumberIs(a, later, o, default, IF a[n] = o THEN Numeral[a[n + 1]] ELSE value)
  BY <1>4, ValuesFollow
<1>5. ValuesAreMeant(a, later, d)
  <2>1. TextIs(a, later, "--device", "",
            IF a[n] = "--device" THEN a[n + 1] ELSE config.device)
    BY <1>3 DEF ValuesAreMeant
  <2>2. TextIs(a, later, "--record", "output/record.mp4",
            IF a[n] = "--record" THEN a[n + 1] ELSE config.output_path)
    BY <1>3 DEF ValuesAreMeant
  <2>3. TextIs(a, later, "--rtsp", "rtsp://127.0.0.1:8554/live",
            IF a[n] = "--rtsp" THEN a[n + 1] ELSE config.rtsp_url)
    BY <1>3 DEF ValuesAreMeant
  <2>4. TextIs(a, later, "--processor", "osd",
            IF a[n] = "--processor" THEN a[n + 1] ELSE config.processor_name)
    BY <1>3 DEF ValuesAreMeant
  <2>5. NumberIs(a, later, "--width", 640,
              IF a[n] = "--width" THEN Numeral[a[n + 1]] ELSE config.width)
    BY <1>4 DEF ValuesAreMeant
  <2>6. NumberIs(a, later, "--height", 480,
              IF a[n] = "--height" THEN Numeral[a[n + 1]] ELSE config.height)
    BY <1>4 DEF ValuesAreMeant
  <2>7. NumberIs(a, later, "--fps", 30,
              IF a[n] = "--fps" THEN Numeral[a[n + 1]] ELSE config.fps)
    BY <1>4 DEF ValuesAreMeant
  <2>8. NumberIs(a, later, "--frames", 0,
              IF a[n] = "--frames" THEN Numeral[a[n + 1]] ELSE config.max_frames)
    BY <1>4 DEF ValuesAreMeant
  <2>9. NumberIs(a, later, "--segment-time", 60,
              IF a[n] = "--segment-time" THEN Numeral[a[n + 1]] ELSE config.segment_time)
    BY <1>4 DEF ValuesAreMeant
  <2>10. QED
    BY <2>1, <2>2, <2>3, <2>4, <2>5, <2>6, <2>7, <2>8, <2>9 DEF ValuesAreMeant, AfterByField
<1>6. FlagsAreMeant(a, later, d)
  <2>1. d.preview = (a[n] = "--preview" \/ config.preview)
        /\ d.record = (a[n] \in {"--record", "--segment-time"} \/ config.record)
        /\ d.rtsp = (a[n] = "--rtsp" \/ config.rtsp)
        /\ d.segment = (a[n] = "--segment-time" \/ config.segment)
        /\ d.processor = (a[n] = "--processor"
                             \/ (a[n] # "--no-processor" /\ config.processor))
    BY DEF AfterByField
  <2>2. /\ config.preview = (had("--preview") # {})
        /\ config.record = (had("--record") \cup had("--segment-time") # {})
        /\ config.rtsp = (had("--rtsp") # {})
        /\ config.segment = (had("--segment-time") # {})
        /\ config.processor = (\E i \in had("--processor") : \A j \in had("--no-processor") : j < i)
    BY DEF FlagsAreMeant
  <2> HIDE DEF d, had, has
  <2>3. d.preview = (has("--preview") # {})
    BY <1>1, <2>1, <2>2
  <2>4. d.record = (has("--record") \cup has("--segment-time") # {})
    BY <1>1, <2>1, <2>2
  <2>5. d.rtsp = (has("--rtsp") # {})
    BY <1>1, <2>1, <2>2
  <2>6. d.segment = (has("--segment-time") # {})
    BY <1>1, <2>1, <2>2
  <2>7. d.processor = (\E i \in has("--processor") : \A j \in has("--no-processor") : j < i)
    <3>1. CASE a[n] = "--processor"
      <4>1. n \in has("--processor") /\ has("--no-processor") = had("--no-processor")
        BY <1>1, <3>1
      <4>2. \A j \in had("--no-processor") : j < n
        BY <1>2
      <4> QED
        BY <4>1, <4>2, <3>1, <2>1
    <3>2. CASE a[n] = "--no-processor"
      <4>1. n \in has("--no-processor") /\ has("--processor") = had("--processor")
        BY <1>1, <3>2
      <4>2. \A i \in has("--processor") : i \in Int /\ i < n
        BY <1>2, <4>1
      <4>3. ~\E i \in has("--processor") : \A j \in has("--no-processor") : j < i
        BY <4>1, <4>2
      <4> QED
        BY <4>3, <3>2, <2>1
    <3>3. CASE a[n] # "--processor" /\ a[n] # "--no-processor"
      <4>1. has("--no-processor") = had("--no-processor") /\ has("--processor") = had("--processor")
        BY <1>1, <3>3
      <4> QED
        BY <4>1, <3>3, <2>1, <2>2
    <3> QED
      BY <3>1, <3>2, <3>3
  <2> QED
    BY <2>3, <2>4, <2>5, <2>6, <2>7 DEF FlagsAreMeant, has
<1> QED
  BY <1>5, <1>6

\* The whole command line: the largest occurrence is the one that Meaning takes.
LEMMA LargestIsChosen ==
    ASSUME NEW G, \A k \in G : k \in Int, NEW m \in G, \A j \in G : j <= m
    PROVE  G # {} /\ (CHOOSE i \in G : \A j \in G : j <= i) = m
<1>1. ASSUME NEW i \in G, \A j \in G : j <= i
      PROVE  i = m
  BY <1>1
<1> QED
  BY <1>1

\* After the last argument the configuration is Meaning.
LEMMA EndIsMeaning ==
    ASSUME Len(args) \in Nat, IsConfig(config),
           ValuesAreMeant(args, Len(args) + 1, config),
           FlagsAreMeant(args, Len(args) + 1, config)
    PROVE  config = Meaning
<1> DEFINE Given(o) == {i \in 1..Len(args) : IsOption(i) /\ args[i] = o}
           Last(o) == CHOOSE i \in Given(o) : \A j \in Given(o) : j <= i
           Text(o, default) == IF Given(o) = {} THEN default ELSE args[Last(o) + 1]
           Number(o, default) == IF Given(o) = {} THEN default ELSE Numeral[args[Last(o) + 1]]
<1>1. ASSUME NEW o PROVE Given(o) = GivenBefore(args, Len(args) + 1, o)
  <2>1. Len(args) + 1 - 1 = Len(args)
    OBVIOUS
  <2>2. \A i : IsOption(i) <=> OptionAt(args, i)
    BY DEF IsOption, OptionAt
  <2> QED
    BY <2>1, <2>2 DEF GivenBefore
<1>2. ASSUME NEW o PROVE \A k \in Given(o) : k \in Int
  OBVIOUS
<1>3. ASSUME NEW o, NEW default, NEW value, TextIs(args, Len(args) + 1, o, default, value)
      PROVE  value = Text(o, default)
  <2>1. \/ Given(o) = {} /\ value = default
        \/ \E m \in Given(o) : (\A j \in Given(o) : j <= m) /\ value = args[m + 1]
    BY <1>1, <1>3 DEF TextIs
  <2>2. ASSUME NEW m \in Given(o), \A j \in Given(o) : j <= m, value = args[m + 1]
        PROVE  value = Text(o, default)
    <3> HIDE DEF Given
    <3>1. Given(o) # {} /\ Last(o) = m
      BY <1>2, <2>2, LargestIsChosen
    <3> HIDE DEF Last
    <3> QED
      BY <3>1, <2>2
  <2> QED
    BY <2>1, <2>2
<1>4. ASSUME NEW o, NEW default, NEW value, NumberIs(args, Len(args) + 1, o, default, value)
      PROVE  value = Number(o, default)
  <2>1. \/ Given(o) = {} /\ value = default
        \/ \E m \in Given(o) : (\A j \in Given(o) : j <= m) /\ value = Numeral[args[m + 1]]
    BY <1>1, <1>4 DEF NumberIs
  <2>2. ASSUME NEW m \in Given(o), \A j \in Given(o) : j <= m, value = Numeral[args[m + 1]]
        PROVE  value = Number(o, default)
    <3> HIDE DEF Given
    <3>1. Given(o) # {} /\ Last(o) = m
      BY <1>2, <2>2, LargestIsChosen
    <3> HIDE DEF Last
    <3> QED
      BY <3>1, <2>2
  <2> QED
    BY <2>1, <2>2
<1> HIDE DEF Text, Number
<1>5. config.device = Text("--device", "")
  <2>1. TextIs(args, Len(args) + 1, "--device", "", config.device)
    BY DEF ValuesAreMeant
  <2> QED
    BY <2>1, <1>3
<1>6. config.output_path = Text("--record", "output/record.mp4")
  <2>1. TextIs(args, Len(args) + 1, "--record", "output/record.mp4", config.output_path)
    BY DEF ValuesAreMeant
  <2> QED
    BY <2>1, <1>3
<1>7. config.rtsp_url = Text("--rtsp", "rtsp://127.0.0.1:8554/live")
  <2>1. TextIs(args, Len(args) + 1, "--rtsp", "rtsp://127.0.0.1:8554/live", config.rtsp_url)
    BY DEF ValuesAreMeant
  <2> QED
    BY <2>1, <1>3
<1>8. config.processor_name = Text("--processor", "osd")
  <2>1. TextIs(args, Len(args) + 1, "--processor", "osd", config.processor_name)
    BY DEF ValuesAreMeant
  <2> QED
    BY <2>1, <1>3
<1>9. config.width = Number("--width", 640)
  <2>1. NumberIs(args, Len(args) + 1, "--width", 640, config.width)
    BY DEF ValuesAreMeant
  <2> QED
    BY <2>1, <1>4
<1>10. config.height = Number("--height", 480)
  <2>1. NumberIs(args, Len(args) + 1, "--height", 480, config.height)
    BY DEF ValuesAreMeant
  <2> QED
    BY <2>1, <1>4
<1>11. config.fps = Number("--fps", 30)
  <2>1. NumberIs(args, Len(args) + 1, "--fps", 30, config.fps)
    BY DEF ValuesAreMeant
  <2> QED
    BY <2>1, <1>4
<1>12. config.max_frames = Number("--frames", 0)
  <2>1. NumberIs(args, Len(args) + 1, "--frames", 0, config.max_frames)
    BY DEF ValuesAreMeant
  <2> QED
    BY <2>1, <1>4
<1>13. config.segment_time = Number("--segment-time", 60)
  <2>1. NumberIs(args, Len(args) + 1, "--segment-time", 60, config.segment_time)
    BY DEF ValuesAreMeant
  <2> QED
    BY <2>1, <1>4
<1>14. /\ config.preview = (Given("--preview") # {})
       /\ config.record = (Given("--record") \cup Given("--segment-time") # {})
       /\ config.rtsp = (Given("--rtsp") # {})
       /\ config.processor = (\E i \in Given("--processor") :
                                 \A j \in Given("--no-processor") : j < i)
       /\ config.segment = (Given("--segment-time") # {})
  <2> HIDE DEF Given
  <2> QED
    BY <1>1 DEF FlagsAreMeant
<1>15. Meaning =
        [device |-> Text("--device", ""), width |-> Number("--width", 640),
         height |-> Number("--height", 480), fps |-> Number("--fps", 30),
         preview |-> Given("--preview") # {},
         record |-> Given("--record") \cup Given("--segment-time") # {},
         rtsp |-> Given("--rtsp") # {},
         processor |-> \E i \in Given("--processor") :
                          \A j \in Given("--no-processor") : j < i,
         segment |-> Given("--segment-time") # {},
         output_path |-> Text("--record", "output/record.mp4"),
         rtsp_url |-> Text("--rtsp", "rtsp://127.0.0.1:8554/live"),
         processor_name |-> Text("--processor", "osd"),
         max_frames |-> Number("--frames", 0),
         segment_time |-> Number("--segment-time", 60)]
  BY DEF Meaning, Text, Number
<1> QED
  <2> HIDE DEF Given
  <2> QED
    BY <1>5, <1>6, <1>7, <1>8, <1>9, <1>10, <1>11, <1>12, <1>13, <1>14, <1>15 DEF IsConfig

-----------------------------------------------------------------------------
(* Startup: the parts, what they hold, and how main ends.                  *)

\* The invariant of the command line: up to the argument at hand, then as a
\* whole, the configuration is what the line means.  A segment time is always
\* one of a recording.
LineInv ==
    /\ args \in ArgLists
    /\ smain \in {"parse", "register", "init", "run", "deinit", "exit"}
    /\ IsConfig(config)
    /\ config.fps \in Int /\ config.segment_time \in Int
    /\ config.segment => config.record
    /\ smain = "parse" =>
          /\ next \in 1..(Len(args) + 1)
          /\ OptionAt(args, next)
          /\ ValuesAreMeant(args, next, config)
          /\ FlagsAreMeant(args, next, config)
    /\ smain \notin {"parse", "exit"} =>
          /\ ValuesAreMeant(args, Len(args) + 1, config)
          /\ FlagsAreMeant(args, Len(args) + 1, config)

PartNames == {"scan", "capture", "converter", "snapshot", "processor", "viewer", "encoder",
              "muxer", "rtsp", "raw_queue", "encode_queue", "packet_queue"}

\* The parts that are passed.
Passed(n) == {Parts[k] : k \in 1..n}

\* Needed, of a configuration.
NeededBy(c, part) ==
    /\ part = "scan" => c.device = ""
    /\ part = "processor" => c.processor
    /\ part = "viewer" => c.preview
    /\ part \in {"encoder", "encode_queue", "packet_queue"} => c.record \/ c.rtsp
    /\ part = "muxer" => c.record
    /\ part = "rtsp" => c.rtsp

\* The invariant of the parts: initialised are those that are passed and needed,
\* but for the sink, which may fail; what they refuse does not hold of them.
PartsInv ==
    /\ step \in 0..12
    /\ smain \in {"parse", "register"} => step = 0 /\ inited = {}
    /\ smain = "run" => step = 12
    /\ smain \in {"init", "run"} =>
          /\ \A p : p # "snapshot" =>
                (p \in inited <=> p \in Passed(step) /\ NeededBy(config, p) /\ p # "scan")
          /\ "converter" \in inited => config.width % 2 = 0 /\ config.height % 2 = 0
          /\ "muxer" \in inited /\ config.segment => segmentFrames > 0

\* What a deinit frees: FreedBy does not depend on which muxer it is.
FreedOf(part) ==
    CASE part = "converter" -> {"buffer", "context"}
      [] part = "processor" -> {"buffer", "context"}
      [] part = "viewer" -> {"thread", "mutex", "frame", "context"}
      [] part = "encoder" -> {"pending", "extradata", "packet", "codec", "context"}
      [] part \in {"muxer", "rtsp"} -> {"format", "context"}
      [] part \in {"capture", "snapshot"} -> {"context"}
      [] OTHER -> {"items", "sync"}

\* The part in hand, if there is one.
InHand(n) == IF n < 12 THEN {Parts[n + 1]} ELSE {}

\* The invariant of what is held: by a part that is initialised, or by the
\* needed part in hand, and only what its deinit frees.
OwnedInv ==
    /\ made \in Nat
    /\ smain \in {"parse", "register"} => owned = {} /\ made = 0
    /\ smain = "exit" => owned = {}
    /\ \A o \in owned :
          /\ o = <<o[1], o[2]>>
          /\ o[2] \in FreedOf(o[1])
          /\ o[1] \in PartNames \ {"scan"}
          /\ \/ o[1] \in inited
             \/ smain = "init" /\ o[1] \in InHand(step) /\ NeededBy(config, o[1]) /\ made > 0
    /\ smain = "init" /\ made > 0 => step < 12 /\ NeededBy(config, Parts[step + 1])

\* The invariant of the exit status: main returns 0 for --help and after a run.
StatusInv ==
    /\ smain \in {"deinit", "exit"} => status \in {0, 1}
    /\ smain = "deinit" /\ status = 0 => step = 12
    /\ smain = "exit" /\ status = 0 /\ step < 12 => \E i \in 1..Len(args) : args[i] = "--help"

StartupInv == LineInv /\ PartsInv /\ OwnedInv /\ StatusInv

\* A number that is accepted is a whole number.
LEMMA ValidNumber ==
    ASSUME NEW o \in WithNumber, NEW v, IsValid(o, v)
    PROVE  Numeral[v] \in Int
<1>1. IntMax \in Int
  BY StartupAssumption DEF IntMax
<1> QED
  BY <1>1 DEF IsValid

LEMMA LineInit ==
    StartupInit => LineInv
<1> SUFFICES ASSUME StartupInit PROVE LineInv
  OBVIOUS
<1>1. args \in ArgLists /\ Len(args) \in Nat
  BY StartupAssumption DEF StartupInit
<1>2. next \in 1..(Len(args) + 1) /\ next = 1 /\ smain = "parse"
  BY <1>1 DEF StartupInit
<1>3. OptionAt(args, next)
  BY <1>2, FirstIsOption
<1>4. config = Defaults /\ IsConfig(config) /\ config.fps \in Int /\ config.segment_time \in Int
      /\ (config.segment => config.record)
  <2>1. config = Defaults
    BY DEF StartupInit
  <2>2. IsConfig(Defaults)
    BY DEF Defaults, IsConfig
  <2>3. Defaults.fps = 30 /\ Defaults.segment_time = 60 /\ Defaults.segment = FALSE
    BY DEF Defaults
  <2> QED
    BY <2>1, <2>2, <2>3
<1>5. \A o : GivenBefore(args, next, o) = {}
  BY <1>2 DEF GivenBefore
<1>6. ValuesAreMeant(args, next, config)
  <2>1. ASSUME NEW o, NEW default, NEW value, value = default
        PROVE  TextIs(args, next, o, default, value) /\ NumberIs(args, next, o, default, value)
    BY <1>5, <2>1 DEF TextIs, NumberIs
  <2>2. TextIs(args, next, "--device", "", config.device)
    <3>1. config.device = ""
      BY <1>4 DEF Defaults
    <3> QED
      BY <3>1, <2>1
  <2>3. TextIs(args, next, "--record", "output/record.mp4", config.output_path)
    <3>1. config.output_path = "output/record.mp4"
      BY <1>4 DEF Defaults
    <3> QED
      BY <3>1, <2>1
  <2>4. TextIs(args, next, "--rtsp", "rtsp://127.0.0.1:8554/live", config.rtsp_url)
    <3>1. config.rtsp_url = "rtsp://127.0.0.1:8554/live"
      BY <1>4 DEF Defaults
    <3> QED
      BY <3>1, <2>1
  <2>5. TextIs(args, next, "--processor", "osd", config.processor_name)
    <3>1. config.processor_name = "osd"
      BY <1>4 DEF Defaults
    <3> QED
      BY <3>1, <2>1
  <2>6. NumberIs(args, next, "--width", 640, config.width)
    <3>1. config.width = 640
      BY <1>4 DEF Defaults
    <3> QED
      BY <3>1, <2>1
  <2>7. NumberIs(args, next, "--height", 480, config.height)
    <3>1. config.height = 480
      BY <1>4 DEF Defaults
    <3> QED
      BY <3>1, <2>1
  <2>8. NumberIs(args, next, "--fps", 30, config.fps)
    <3>1. config.fps = 30
      BY <1>4 DEF Defaults
    <3> QED
      BY <3>1, <2>1
  <2>9. NumberIs(args, next, "--frames", 0, config.max_frames)
    <3>1. config.max_frames = 0
      BY <1>4 DEF Defaults
    <3> QED
      BY <3>1, <2>1
  <2>10. NumberIs(args, next, "--segment-time", 60, config.segment_time)
    <3>1. config.segment_time = 60
      BY <1>4 DEF Defaults
    <3> QED
      BY <3>1, <2>1
  <2> QED
    BY <2>2, <2>3, <2>4, <2>5, <2>6, <2>7, <2>8, <2>9, <2>10 DEF ValuesAreMeant
<1>7. FlagsAreMeant(args, next, config)
  BY <1>4, <1>5 DEF FlagsAreMeant, Defaults
<1> QED
  BY <1>1, <1>2, <1>3, <1>4, <1>6, <1>7 DEF LineInv

\* An option keeps the invariant of the command line.
LEMMA ParseOptionKeepsLine ==
    ASSUME LineInv, ParseOption
    PROVE  LineInv'
<1> DEFINE later == next + Consumed(args[next])
           d == AfterByField(args, next)
<1>1. /\ smain = "parse" /\ smain' = "parse" /\ args' = args /\ args \in ArgLists
      /\ next <= Len(args) /\ next' = later
      /\ args[next] \in TakesValue \cup Alone
      /\ args[next] \in TakesValue => next < Len(args) /\ IsValid(args[next], args[next + 1])
      /\ config' = After(args[next], ValueOf(args, next))
  BY DEF LineInv, ParseOption, parseRest, HasGoodValue, ValueOf
<1>2. /\ Len(args) \in Nat /\ next \in Nat \ {0} /\ OptionAt(args, next)
      /\ ValuesAreMeant(args, next, config) /\ FlagsAreMeant(args, next, config)
      /\ IsConfig(config) /\ config.fps \in Int /\ config.segment_time \in Int
      /\ (config.segment => config.record)
  <2>1. Len(args) \in Nat
    BY <1>1, StartupAssumption
  <2> QED
    BY <1>1, <2>1 DEF LineInv
<1>3. /\ config.preview \in BOOLEAN /\ config.record \in BOOLEAN /\ config.rtsp \in BOOLEAN
      /\ config.processor \in BOOLEAN /\ config.segment \in BOOLEAN
  BY <1>2 DEF FlagsAreMeant
<1>4. config' = d
  BY <1>1, <1>2, <1>3, OptionSetsFields
<1>5. IsConfig(d)
  BY DEF IsConfig, AfterByField
<1>6. d.segment => d.record
  BY <1>2, <1>3 DEF AfterByField
<1>7. d.fps \in Int /\ d.segment_time \in Int
  <2>1. "--fps" \in WithNumber /\ "--segment-time" \in WithNumber
        /\ "--fps" \in TakesValue /\ "--segment-time" \in TakesValue
    BY DEF WithNumber, TakesValue
  <2>2. args[next] = "--fps" => Numeral[args[next + 1]] \in Int
    BY <1>1, <2>1, ValidNumber
  <2>3. args[next] = "--segment-time" => Numeral[args[next + 1]] \in Int
    BY <1>1, <2>1, ValidNumber
  <2> QED
    BY <1>2, <2>2, <2>3 DEF AfterByField
<1>8. later \in 1..(Len(args) + 1)
  BY <1>1, <1>2 DEF Consumed
<1>9. OptionAt(args, later)
  BY <1>2, GivenGrows
<1>10. ValuesAreMeant(args, later, d) /\ FlagsAreMeant(args, later, d)
  BY <1>2, MeaningGrows
<1> HIDE DEF later, d
<1> QED
  BY <1>1, <1>4, <1>5, <1>6, <1>7, <1>8, <1>9, <1>10 DEF LineInv

LEMMA LineStep ==
    LineInv /\ [StartupNext]_startupVars => LineInv'
<1> SUFFICES ASSUME LineInv, [StartupNext]_startupVars PROVE LineInv'
  OBVIOUS
<1>1. CASE ParseOption
  BY <1>1, ParseOptionKeepsLine
<1>2. CASE ParseHelp
  BY <1>2 DEF ParseHelp, parseRest, SMainGoes, LineInv
<1>3. CASE ParseFails
  BY <1>3 DEF ParseFails, parseRest, SMainGoes, LineInv
<1>4. CASE ParseEnds
  <2>1. args' = args /\ next' = next /\ config' = config /\ smain = "parse"
        /\ smain' \in {"register", "exit"} /\ next > Len(args)
    BY <1>4 DEF ParseEnds, parseRest, SMainGoes
  <2>2. Len(args) \in Nat /\ next \in 1..(Len(args) + 1)
    BY <2>1, StartupAssumption DEF LineInv
  <2>3. next = Len(args) + 1
    BY <2>1, <2>2
  <2> QED
    BY <2>1, <2>3 DEF LineInv
<1>5. CASE UNCHANGED <<args, next, config>> /\ smain \notin {"parse", "exit"}
           /\ smain' \in {"register", "init", "run", "deinit", "exit"}
  BY <1>5 DEF LineInv
<1>6. CASE RegisterModule \/ RegisterEnds
  <2>1. UNCHANGED <<args, next, config>> /\ smain \notin {"parse", "exit"}
        /\ smain' \in {"register", "init", "run", "deinit", "exit"}
    BY <1>6 DEF RegisterModule, RegisterEnds, SMainGoes
  <2> QED
    BY <2>1, <1>5
<1>7. CASE SkipPart \/ Allocate \/ InitPart \/ InitPartFails \/ InitEnds
  <2>1. UNCHANGED <<args, next, config>> /\ smain \notin {"parse", "exit"}
        /\ smain' \in {"register", "init", "run", "deinit", "exit"}
    BY <1>7 DEF SkipPart, Allocate, InitPart, InitPartFails, InitEnds, SMainGoes, initRest
  <2> QED
    BY <2>1, <1>5
<1>8. CASE RunPipeline \/ DeinitPart \/ DeinitEnds
  <2>1. UNCHANGED <<args, next, config>> /\ smain \notin {"parse", "exit"}
        /\ smain' \in {"register", "init", "run", "deinit", "exit"}
    BY <1>8 DEF RunPipeline, DeinitPart, DeinitEnds, SMainGoes, initRest
  <2> QED
    BY <2>1, <1>5
<1>9. CASE UNCHANGED startupVars
  BY <1>9 DEF startupVars, LineInv
<1> QED
  BY <1>1, <1>2, <1>3, <1>4, <1>6, <1>7, <1>8, <1>9 DEF StartupNext

\* The lemmas of the parts: their names, and what passing one more adds.
LEMMA PartNamesAre ==
    /\ Len(Parts) = 12
    /\ \A k \in 1..12 : Parts[k] \in PartNames
    /\ Passed(12) = PartNames
    /\ Passed(0) = {}
<1>1. Len(Parts) = 12
  BY DEF Parts
<1>2. ASSUME NEW k \in 1..12 PROVE Parts[k] \in PartNames
  BY DEF Parts, PartNames
<1>3. ASSUME NEW p \in PartNames PROVE \E k \in 1..12 : Parts[k] = p
  <2>1. /\ Parts[1] = "scan" /\ Parts[2] = "capture" /\ Parts[3] = "converter"
        /\ Parts[4] = "snapshot" /\ Parts[5] = "processor" /\ Parts[6] = "viewer"
        /\ Parts[7] = "encoder" /\ Parts[8] = "muxer" /\ Parts[9] = "rtsp"
        /\ Parts[10] = "raw_queue" /\ Parts[11] = "encode_queue"
        /\ Parts[12] = "packet_queue"
    BY DEF Parts
  <2> HIDE DEF Parts
  <2> QED
    BY <2>1 DEF PartNames
<1>4. Passed(0) = {}
  BY DEF Passed
<1> QED
  BY <1>1, <1>2, <1>3, <1>4 DEF Passed

LEMMA PassedGrows ==
    ASSUME NEW n \in 0..11
    PROVE  Passed(n + 1) = Passed(n) \cup {Parts[n + 1]}
<1>1. \A k : k \in 1..(n + 1) <=> k \in 1..n \/ k = n + 1
  OBVIOUS
<1> QED
  BY <1>1 DEF Passed

LEMMA NeededIsBy ==
    ASSUME NEW p PROVE Needed(p) <=> NeededBy(config, p)
BY DEF Needed, NeededBy, NeedEncode

LEMMA FreedIsOf ==
    ASSUME NEW p \in PartNames PROVE FreedBy(p) = FreedOf(p)
BY DEF PartNames, FreedBy, FreedOf, V4l2Deinit, ConverterDeinit, SnapshotSinkDeinit, OsdDeinit,
       SdlDeinit, H264Deinit, SegmentDeinit, Mp4Deinit, RtspDeinit, QueueDeinit

\* A muxer makes a context, whatever it refuses.
LEMMA MuxersMakeContexts ==
    ASSUME NEW p \in {"muxer", "rtsp"}
    PROVE  InitOf(p).makes = <<"context">>
<1>1. SegmentInit.makes = <<"context">> /\ Mp4Init.makes = <<"context">>
      /\ RtspInit.makes = <<"context">>
  BY DEF SegmentInit, Mp4Init, RtspInit, PluginInit
<1>2. InitOf(p) \in {SegmentInit, Mp4Init, RtspInit}
  BY DEF InitOf
<1> QED
  BY <1>1, <1>2

\* Whatever an init makes, the deinit of its part frees; a scan makes nothing.
LEMMA MadeIsFreed ==
    ASSUME NEW p \in PartNames, NEW k \in Nat, k < Allocations(p)
    PROVE  p # "scan" /\ InitOf(p).makes[k + 1] \in FreedOf(p)
<1> USE DEF Allocations, InitOf, FreedOf, PluginInit
<1>1. CASE p = "scan"
  BY <1>1 DEF ScanInit
<1>2. CASE p = "capture"
  BY <1>2 DEF V4l2Init
<1>3. CASE p = "converter"
  BY <1>3 DEF ConverterInit
<1>4. CASE p = "snapshot"
  BY <1>4 DEF SnapshotSinkInit
<1>5. CASE p = "processor"
  BY <1>5 DEF OsdInit
<1>6. CASE p = "viewer"
  BY <1>6 DEF SdlInit
<1>7. CASE p = "encoder"
  BY <1>7 DEF H264Init
<1>8. CASE p \in {"muxer", "rtsp"}
  <2>1. InitOf(p).makes = <<"context">>
    BY <1>8, MuxersMakeContexts
  <2> HIDE DEF InitOf
  <2>2. Allocations(p) = 1
    BY <2>1
  <2>3. k = 0
    BY <2>2
  <2>4. InitOf(p).makes[k + 1] = "context"
    BY <2>1, <2>3
  <2> QED
    BY <1>8, <2>4
<1>9. CASE p \in {"raw_queue", "encode_queue", "packet_queue"}
  BY <1>9 DEF QueueInit
<1> QED
  BY <1>1, <1>2, <1>3, <1>4, <1>5, <1>6, <1>7, <1>8, <1>9 DEF PartNames

\* What passing a part does to the invariant of the parts: it is initialised if
\* it is needed, or it is the sink.
LEMMA PassKeepsParts ==
    ASSUME PartsInv, smain = "init", smain' = "init", step < 12, step' = step + 1,
           config' = config,
           \/ ~Needed(Part) /\ inited' = inited
           \/ Needed(Part) /\ inited' = (inited \cup {Part}) \ {"scan"}
           \/ Part = "snapshot" /\ inited' = inited,
           "converter" \in inited' => config.width % 2 = 0 /\ config.height % 2 = 0,
           "muxer" \in inited' /\ config.segment => segmentFrames' > 0
    PROVE  PartsInv'
<1>1. step \in 0..11 /\ step' \in 0..12
  BY DEF PartsInv
<1>2. Passed(step') = Passed(step) \cup {Part}
  BY <1>1, PassedGrows DEF Part
<1>3. \A p : p # "snapshot" =>
         (p \in inited <=> p \in Passed(step) /\ NeededBy(config, p) /\ p # "scan")
  BY DEF PartsInv
<1>4. Needed(Part) <=> NeededBy(config, Part)
  BY NeededIsBy
<1>5. ASSUME NEW p, p # "snapshot"
      PROVE  p \in inited' <=> p \in Passed(step') /\ NeededBy(config, p) /\ p # "scan"
  <2> HIDE DEF Part
  <2> QED
    BY <1>2, <1>3, <1>4, <1>5
<1> QED
  BY <1>1, <1>5 DEF PartsInv

LEMMA FramesPerSegmentIsInt ==
    ASSUME config.segment_time \in Int, config.fps \in Int
    PROVE  FramesPerSegment \in Int
<1>1. config.segment_time * config.fps \in Int
  OBVIOUS
<1>2. IntSpan \in Nat \ {0} /\ IntSpan \div 2 \in Int
  BY StartupAssumption
<1>3. \A n \in Int : (n + IntSpan \div 2) % IntSpan \in Int
  BY <1>2
<1> QED
  BY <1>1, <1>2, <1>3 DEF FramesPerSegment, Wrapped

LEMMA PartsStep ==
    LineInv /\ PartsInv /\ [StartupNext]_startupVars => PartsInv'
<1> SUFFICES ASSUME LineInv, PartsInv, [StartupNext]_startupVars PROVE PartsInv'
  OBVIOUS
<1>1. CASE ParseOption \/ ParseHelp \/ ParseFails \/ ParseEnds
  <2>1. UNCHANGED <<step, inited>> /\ smain = "parse"
        /\ smain' \in {"parse", "register", "exit"}
    BY <1>1 DEF ParseOption, ParseHelp, ParseFails, ParseEnds, parseRest, SMainGoes
  <2> QED
    BY <2>1 DEF PartsInv
<1>2. CASE RegisterModule
  BY <1>2 DEF RegisterModule, PartsInv
<1>3. CASE RegisterEnds
  <2>1. /\ UNCHANGED <<step, inited, config>> /\ step = 0 /\ inited = {}
        /\ smain' = "init"
    BY <1>3 DEF RegisterEnds, PartsInv, SMainGoes
  <2>2. Passed(step) = {}
    BY <2>1, PartNamesAre
  <2> QED
    BY <2>1, <2>2 DEF PartsInv
<1>4. CASE SkipPart
  <2>1. /\ smain = "init" /\ smain' = "init" /\ step < 12 /\ step' = step + 1
        /\ config' = config /\ ~Needed(Part) /\ inited' = inited
        /\ segmentFrames' = segmentFrames
    BY <1>4, PartNamesAre DEF SkipPart, initRest
  <2>2. /\ "converter" \in inited => config.width % 2 = 0 /\ config.height % 2 = 0
        /\ "muxer" \in inited /\ config.segment => segmentFrames > 0
    BY <2>1 DEF PartsInv
  <2> QED
    BY <2>1, <2>2, PassKeepsParts
<1>5. CASE Allocate
  BY <1>5 DEF Allocate, initRest, PartsInv
<1>6. CASE InitPart
  <2>1. /\ smain = "init" /\ smain' = "init" /\ step < 12 /\ step' = step + 1
        /\ config' = config /\ Needed(Part) /\ inited' = (inited \cup {Part}) \ {"scan"}
    BY <1>6, PartNamesAre DEF InitPart, initRest
  <2>2. ~InitOf(Part).refuses
    BY <1>6 DEF InitPart, Rejects
  <2>3. /\ "converter" \in inited => config.width % 2 = 0 /\ config.height % 2 = 0
        /\ "muxer" \in inited /\ config.segment => segmentFrames > 0
    BY <2>1 DEF PartsInv
  <2>4. ASSUME Part = "converter"
        PROVE  config.width % 2 = 0 /\ config.height % 2 = 0
    <3>1. InitOf(Part) = ConverterInit
      BY <2>4 DEF InitOf
    <3>2. ConverterInit.refuses = (config.width % 2 # 0 \/ config.height % 2 # 0)
      BY DEF ConverterInit, PluginInit
    <3>3. ~ConverterInit.refuses
      BY <3>1, <2>2
    <3> QED
      BY <3>2, <3>3
  <2>5. ASSUME Part = "muxer", config.segment
        PROVE  FramesPerSegment > 0
    <3>1. InitOf(Part) = SegmentInit
      BY <2>5 DEF InitOf
    <3>2. ~(FramesPerSegment <= 0)
      <4>1. SegmentInit.refuses = (config.output_path = "" \/ FramesPerSegment <= 0)
        BY DEF SegmentInit, PluginInit
      <4>2. ~SegmentInit.refuses
        BY <3>1, <2>2
      <4> QED
        BY <4>1, <4>2
    <3>3. FramesPerSegment \in Int
      BY FramesPerSegmentIsInt DEF LineInv
    <3> QED
      BY <3>2, <3>3
  <2>6. segmentFrames' =
            IF Part = "muxer" /\ config.segment THEN FramesPerSegment ELSE segmentFrames
    BY <1>6 DEF InitPart
  <2> HIDE DEF Part
  <2>7. "converter" \in inited' => config.width % 2 = 0 /\ config.height % 2 = 0
    BY <2>1, <2>3, <2>4
  <2>8. "muxer" \in inited' /\ config.segment => segmentFrames' > 0
    BY <2>1, <2>3, <2>5, <2>6
  <2> QED
    BY <2>1, <2>7, <2>8, PassKeepsParts
<1>7. CASE InitPartFails
  <2>1. /\ smain = "init" /\ step < 12 /\ UNCHANGED <<config, inited, segmentFrames>>
    BY <1>7, PartNamesAre DEF InitPartFails, initRest
  <2>2. CASE Part = "snapshot"
    <3>1. smain' = "init" /\ step' = step + 1
      BY <1>7, <2>2 DEF InitPartFails
    <3>2. /\ "converter" \in inited => config.width % 2 = 0 /\ config.height % 2 = 0
          /\ "muxer" \in inited /\ config.segment => segmentFrames > 0
      BY <2>1 DEF PartsInv
    <3> QED
      BY <2>1, <2>2, <3>1, <3>2, PassKeepsParts
  <2>3. CASE Part # "snapshot"
    <3>1. smain' = "deinit" /\ step' = step
      BY <1>7, <2>3 DEF InitPartFails
    <3> QED
      BY <3>1 DEF PartsInv
  <2> QED
    BY <2>2, <2>3
<1>8. CASE InitEnds
  <2>1. /\ smain = "init" /\ smain' = "run" /\ step = 12
        /\ UNCHANGED <<config, step, inited, segmentFrames>>
    BY <1>8, PartNamesAre DEF InitEnds, initRest, SMainGoes
  <2> QED
    BY <2>1 DEF PartsInv
<1>9. CASE RunPipeline
  BY <1>9 DEF RunPipeline, initRest, SMainGoes, PartsInv
<1>10. CASE DeinitPart
  BY <1>10 DEF DeinitPart, initRest, PartsInv
<1>11. CASE DeinitEnds
  BY <1>11 DEF DeinitEnds, initRest, SMainGoes, PartsInv
<1>12. CASE UNCHANGED startupVars
  BY <1>12 DEF startupVars, PartsInv
<1> QED
  BY <1>1, <1>2, <1>3, <1>4, <1>5, <1>6, <1>7, <1>8, <1>9, <1>10, <1>11, <1>12
  DEF StartupNext

\* While nothing is held that is new, and no part stops being initialised, what
\* is held stays with the initialised parts.
LEMMA SettledOwned ==
    ASSUME \A o \in owned : o = <<o[1], o[2]>> /\ o[2] \in FreedOf(o[1])
                            /\ o[1] \in PartNames \ {"scan"} /\ o[1] \in inited,
           owned' \subseteq owned, inited \subseteq inited', made' = 0,
           smain' \in {"init", "run", "deinit"}
    PROVE  OwnedInv'
BY DEF OwnedInv

\* What is held belongs to an initialised part, but for the part in hand.
LEMMA OwnedAtInit ==
    ASSUME OwnedInv, smain = "init", step < 12
    PROVE  /\ \A o \in owned : o[1] # Part => o[1] \in inited
           /\ made = 0 \/ ~Needed(Part) => \A o \in owned : o[1] \in inited
<1>1. InHand(step) = {Part}
  BY DEF InHand, Part
<1>2. Needed(Part) <=> NeededBy(config, Part)
  BY NeededIsBy
<1>3. \A o \in owned : o[1] \in inited \/ (o[1] = Part /\ NeededBy(config, o[1]) /\ made > 0)
  BY <1>1 DEF OwnedInv
<1> HIDE DEF Part
<1>4. made \in Nat
  BY DEF OwnedInv
<1> QED
  BY <1>2, <1>3, <1>4

LEMMA OwnedStep ==
    PartsInv /\ OwnedInv /\ [StartupNext]_startupVars => OwnedInv'
<1> SUFFICES ASSUME PartsInv, OwnedInv, [StartupNext]_startupVars PROVE OwnedInv'
  OBVIOUS
<1>0. \A o \in owned : o = <<o[1], o[2]>> /\ o[2] \in FreedOf(o[1])
                       /\ o[1] \in PartNames \ {"scan"}
  BY DEF OwnedInv
<1>1. CASE ParseOption \/ ParseHelp \/ ParseFails \/ ParseEnds
  <2>1. UNCHANGED <<owned, made>> /\ smain = "parse" /\ smain' \in {"parse", "register", "exit"}
    BY <1>1 DEF ParseOption, ParseHelp, ParseFails, ParseEnds, parseRest, SMainGoes
  <2> QED
    BY <2>1 DEF OwnedInv
<1>2. CASE RegisterModule \/ RegisterEnds
  <2>1. UNCHANGED <<owned, made>> /\ smain = "register" /\ smain' \in {"register", "init"}
    BY <1>2 DEF RegisterModule, RegisterEnds, SMainGoes
  <2> QED
    BY <2>1 DEF OwnedInv
<1>3. CASE SkipPart
  <2>1. /\ smain = "init" /\ smain' = "init" /\ step < 12 /\ ~Needed(Part)
        /\ UNCHANGED <<owned, inited, made>>
    BY <1>3, PartNamesAre DEF SkipPart, initRest
  <2>2. \A o \in owned : o[1] \in inited
    BY <2>1, OwnedAtInit
  <2>3. made = 0
    <3>1. Needed(Part) <=> NeededBy(config, Parts[step + 1])
      BY NeededIsBy DEF Part
    <3> QED
      BY <2>1, <3>1 DEF OwnedInv
  <2> QED
    BY <1>0, <2>1, <2>2, <2>3, SettledOwned
<1>4. CASE Allocate
  <2> DEFINE new == <<Part, InitOf(Part).makes[made + 1]>>
  <2>1. /\ smain = "init" /\ smain' = "init" /\ step < 12 /\ Needed(Part)
        /\ UNCHANGED <<inited, step, config>> /\ made' = made + 1
        /\ owned' = owned \cup {new} /\ made < Allocations(Part)
    BY <1>4, PartNamesAre DEF Allocate, initRest
  <2>2. made \in Nat /\ step + 1 \in 1..12
    BY <2>1 DEF OwnedInv, PartsInv
  <2>3. Part \in PartNames
    BY <2>2, PartNamesAre DEF Part
  <2>4. Part # "scan" /\ InitOf(Part).makes[made + 1] \in FreedOf(Part)
    BY <2>1, <2>2, <2>3, MadeIsFreed
  <2>5. new = <<new[1], new[2]>> /\ new[1] = Part /\ new[2] \in FreedOf(new[1])
    BY <2>4
  <2>6. InHand(step) = {Part} /\ Parts[step + 1] = Part
    BY <2>1 DEF InHand, Part
  <2>7. NeededBy(config, Part)
    BY <2>1, NeededIsBy
  <2>8. \A o \in owned : \/ o[1] \in inited
                         \/ o[1] \in InHand(step) /\ NeededBy(config, o[1])
    BY <2>1 DEF OwnedInv
  <2> HIDE DEF new, Part
  <2>9. ASSUME NEW o \in owned'
        PROVE  /\ o = <<o[1], o[2]>> /\ o[2] \in FreedOf(o[1]) /\ o[1] \in PartNames \ {"scan"}
               /\ o[1] \in inited \/ (o[1] \in InHand(step) /\ NeededBy(config, o[1]))
    <3>1. CASE o \in owned
      BY <3>1, <1>0, <2>8
    <3>2. CASE o = new
      BY <3>2, <2>3, <2>4, <2>5, <2>6, <2>7
    <3> QED
      BY <3>1, <3>2, <2>1
  <2>10. made' > 0 /\ made' \in Nat
    BY <2>1, <2>2
  <2> QED
    BY <2>1, <2>6, <2>7, <2>9, <2>10 DEF OwnedInv
<1>5. CASE InitPart
  <2>1. /\ smain = "init" /\ smain' = "init" /\ step < 12
        /\ owned' = owned /\ made' = 0 /\ inited' = (inited \cup {Part}) \ {"scan"}
    BY <1>5, PartNamesAre DEF InitPart, initRest
  <2>2. \A o \in owned : o[1] # Part => o[1] \in inited
    BY <2>1, OwnedAtInit
  <2> HIDE DEF Part
  <2>3. \A o \in owned' : o[1] \in inited'
    BY <1>0, <2>1, <2>2
  <2> QED
    BY <1>0, <2>1, <2>3 DEF OwnedInv
<1>6. CASE InitPartFails
  <2>1. /\ smain = "init" /\ step < 12 /\ UNCHANGED inited /\ made' = 0
        /\ owned' = {o \in owned : o[1] # Part}
        /\ smain' \in {"init", "deinit"}
    BY <1>6, PartNamesAre DEF InitPartFails, initRest, Undone
  <2>2. \A o \in owned : o[1] # Part => o[1] \in inited
    BY <2>1, OwnedAtInit
  <2> HIDE DEF Part
  <2>3. \A o \in owned' : o \in owned /\ o[1] \in inited'
    BY <2>1, <2>2
  <2> QED
    BY <1>0, <2>1, <2>3 DEF OwnedInv
<1>7. CASE InitEnds
  <2>1. /\ smain = "init" /\ smain' = "run" /\ step = 12 /\ UNCHANGED <<inited, owned, made>>
    BY <1>7, PartNamesAre DEF InitEnds, initRest, SMainGoes
  <2>2. InHand(step) = {}
    BY <2>1 DEF InHand
  <2>3. \A o \in owned : o[1] \in inited
    BY <2>2 DEF OwnedInv
  <2>4. made \in Nat
    BY DEF OwnedInv
  <2> QED
    BY <1>0, <2>1, <2>3, <2>4 DEF OwnedInv
<1>8. CASE RunPipeline
  <2>1. /\ smain = "run" /\ smain' = "deinit" /\ UNCHANGED <<inited, made>>
        /\ \A o \in owned' : o \in owned \/ (o \in LeftByRun /\ o[1] \in inited)
    BY <1>8 DEF RunPipeline, SMainGoes, initRest
  <2>2. \A o \in owned : o[1] \in inited
    BY <2>1 DEF OwnedInv
  <2>3. \A o \in LeftByRun : o = <<o[1], o[2]>> /\ o[2] \in FreedOf(o[1])
                             /\ o[1] \in PartNames \ {"scan"}
    BY DEF LeftByRun, FreedOf, PartNames
  <2>4. ASSUME NEW o \in owned'
        PROVE  o = <<o[1], o[2]>> /\ o[2] \in FreedOf(o[1])
               /\ o[1] \in PartNames \ {"scan"} /\ o[1] \in inited
    BY <1>0, <2>1, <2>2, <2>3
  <2>5. made \in Nat
    BY DEF OwnedInv
  <2> QED
    BY <2>1, <2>4, <2>5 DEF OwnedInv
<1>9. CASE DeinitPart
  <2>1. PICK i \in 1..Len(DeinitOrder) :
          /\ DeinitOrder[i] \in inited
          /\ inited' = inited \ {DeinitOrder[i]}
          /\ owned' = owned \ {<<DeinitOrder[i], t>> : t \in FreedBy(DeinitOrder[i])}
    BY <1>9 DEF DeinitPart
  <2>2. smain = "deinit" /\ smain' = "deinit" /\ made' = made
    BY <1>9 DEF DeinitPart, initRest
  <2> DEFINE part == DeinitOrder[i]
  <2>3. part \in PartNames
    BY DEF DeinitOrder, PartNames
  <2>4. FreedBy(part) = FreedOf(part)
    BY <2>3, FreedIsOf
  <2> HIDE DEF part
  <2>5. ASSUME NEW o \in owned'
        PROVE  o \in owned /\ o[1] \in inited'
    <3>1. o \in owned /\ o[1] \in inited /\ o = <<o[1], o[2]>> /\ o[2] \in FreedOf(o[1])
      BY <2>1, <2>2, <1>0 DEF OwnedInv
    <3>2. o[1] # part
      BY <3>1, <2>1, <2>4 DEF part
    <3> QED
      BY <3>1, <3>2, <2>1 DEF part
  <2>6. made \in Nat
    BY DEF OwnedInv
  <2> QED
    BY <1>0, <2>2, <2>5, <2>6 DEF OwnedInv
<1>10. CASE DeinitEnds
  <2>1. inited = {} /\ smain = "deinit" /\ smain' = "exit" /\ UNCHANGED <<owned, made>>
    BY <1>10 DEF DeinitEnds, initRest, SMainGoes
  <2>2. owned = {}
    BY <2>1 DEF OwnedInv
  <2> QED
    BY <2>1, <2>2 DEF OwnedInv
<1>11. CASE UNCHANGED startupVars
  BY <1>11 DEF startupVars, OwnedInv
<1> QED
  BY <1>1, <1>2, <1>3, <1>4, <1>5, <1>6, <1>7, <1>8, <1>9, <1>10, <1>11 DEF StartupNext

LEMMA StatusStep ==
    LineInv /\ PartsInv /\ StatusInv /\ [StartupNext]_startupVars => StatusInv'
<1> SUFFICES ASSUME LineInv, PartsInv, StatusInv, [StartupNext]_startupVars PROVE StatusInv'
  OBVIOUS
<1>1. CASE ParseHelp
  <2>1. /\ smain = "parse" /\ smain' = "exit" /\ status' = 0 /\ args' = args
        /\ next <= Len(args) /\ args[next] = "--help"
    BY <1>1 DEF ParseHelp, SMainGoes, Exits, parseRest
  <2>2. next \in 1..Len(args)
    <3>1. Len(args) \in Nat /\ next \in 1..(Len(args) + 1)
      BY <2>1, StartupAssumption DEF LineInv
    <3> QED
      BY <2>1, <3>1
  <2>3. \E i \in 1..Len(args') : args'[i] = "--help"
    BY <2>1, <2>2
  <2> QED
    BY <2>1, <2>3 DEF StatusInv
<1>2. CASE ParseFails \/ ParseEnds
  <2>1. smain' = "register" \/ (smain' = "exit" /\ status' = 1)
    BY <1>2 DEF ParseFails, ParseEnds, SMainGoes, Exits
  <2> QED
    BY <2>1 DEF StatusInv
<1>3. CASE ParseOption \/ RegisterModule \/ RegisterEnds \/ SkipPart \/ Allocate \/ InitPart
           \/ InitEnds
  <2>1. smain' \in {"parse", "register", "init", "run"}
    BY <1>3 DEF ParseOption, RegisterModule, RegisterEnds, SkipPart, Allocate, InitPart,
                InitEnds, SMainGoes
  <2> QED
    BY <2>1 DEF StatusInv
<1>4. CASE InitPartFails
  <2>1. smain' = "init" \/ (smain' = "deinit" /\ status' = 1)
    BY <1>4 DEF InitPartFails, Exits
  <2> QED
    BY <2>1 DEF StatusInv
<1>5. CASE RunPipeline
  <2>1. smain = "run" /\ smain' = "deinit" /\ status' \in {0, 1} /\ step' = step
    BY <1>5 DEF RunPipeline, SMainGoes, Exits
  <2> QED
    BY <2>1 DEF StatusInv, PartsInv
<1>6. CASE DeinitPart
  BY <1>6 DEF DeinitPart, initRest, StatusInv
<1>7. CASE DeinitEnds
  <2>1. smain = "deinit" /\ smain' = "exit" /\ UNCHANGED <<args, step, status>>
    BY <1>7 DEF DeinitEnds, SMainGoes, initRest
  <2> QED
    BY <2>1 DEF StatusInv
<1>8. CASE UNCHANGED startupVars
  BY <1>8 DEF startupVars, StatusInv
<1> QED
  BY <1>1, <1>2, <1>3, <1>4, <1>5, <1>6, <1>7, <1>8 DEF StartupNext

LEMMA StartupInvInit ==
    StartupInit => StartupInv
<1> SUFFICES ASSUME StartupInit PROVE StartupInv
  OBVIOUS
<1>1. LineInv
  BY LineInit
<1>2. PartsInv /\ OwnedInv /\ StatusInv
  BY DEF StartupInit, PartsInv, OwnedInv, StatusInv
<1> QED
  BY <1>1, <1>2 DEF StartupInv

LEMMA StartupInvStep ==
    StartupInv /\ [StartupNext]_startupVars => StartupInv'
BY LineStep, PartsStep, OwnedStep, StatusStep DEF StartupInv

\* When the threads start, the parts that are there are the ones asked for.
LEMMA PartsAreAsked ==
    LineInv /\ PartsInv => ReadyAsAsked
<1> SUFFICES ASSUME LineInv, PartsInv, smain = "run" PROVE ReadyAsAsked
  BY DEF ReadyAsAsked
<1> DEFINE asked ==
        {"capture", "converter", "snapshot", "raw_queue"}
        \cup (IF config.processor THEN {"processor"} ELSE {})
        \cup (IF config.preview THEN {"viewer"} ELSE {})
        \cup (IF config.record \/ config.rtsp
              THEN {"encoder", "encode_queue", "packet_queue"} ELSE {})
        \cup (IF config.record THEN {"muxer"} ELSE {})
        \cup (IF config.rtsp THEN {"rtsp"} ELSE {})
<1>1. Passed(step) = PartNames
  BY PartNamesAre DEF PartsInv
<1>2. \A p : p # "snapshot" =>
         (p \in inited <=> p \in PartNames /\ NeededBy(config, p) /\ p # "scan")
  BY <1>1 DEF PartsInv
<1>3. ASSUME NEW p, p # "snapshot"
      PROVE  p \in asked <=> p \in PartNames /\ NeededBy(config, p) /\ p # "scan"
  BY <1>3 DEF PartNames, NeededBy
<1>4. "snapshot" \in asked
  OBVIOUS
<1> HIDE DEF asked
<1>5. inited \cup {"snapshot"} = asked
  BY <1>2, <1>3, <1>4
<1>6. "converter" \in inited
  BY <1>2 DEF PartNames, NeededBy
<1>7. config.width % 2 = 0 /\ config.height % 2 = 0
  BY <1>6 DEF PartsInv
<1>8. config.segment => segmentFrames > 0
  <2>1. config.segment => "muxer" \in inited
    BY <1>2 DEF PartNames, NeededBy, LineInv
  <2> QED
    BY <2>1 DEF PartsInv
<1> QED
  BY <1>5, <1>7, <1>8 DEF ReadyAsAsked, asked

LEMMA StartupInvGives ==
    StartupInv => StartupConsistent
<1> SUFFICES ASSUME StartupInv PROVE StartupConsistent
  OBVIOUS
<1>1. ConfigIsMeant
  <2>1. Len(args) \in Nat
    BY StartupAssumption DEF StartupInv, LineInv
  <2> QED
    BY <2>1, EndIsMeaning DEF StartupInv, LineInv, ConfigIsMeant
<1>2. ReadyAsAsked
  BY PartsAreAsked DEF StartupInv
<1>3. CleanExit
  BY PartNamesAre DEF StartupInv, OwnedInv, StatusInv, CleanExit
<1> QED
  BY <1>1, <1>2, <1>3 DEF StartupConsistent

\* The inductive invariant of main: the command line, the parts, what they hold
\* and the exit status.
THEOREM StartingUp ==
    StartupSpec => []StartupInv
<1> QED
  BY StartupInvInit, StartupInvStep, PTL DEF StartupSpec

\* On every command line, with every failure of the system: the configuration is
\* what the line means, the threads start with the parts that it asks for, and
\* whatever was allocated is freed by the end.
THEOREM StartupStaysConsistent ==
    StartupSpec => []StartupConsistent
<1> QED
  BY StartingUp, StartupInvGives, PTL

-----------------------------------------------------------------------------
(* Frames: where the bytes of a picture are.                               *)

\* A row of a picture is shorter than the next one's offset.
LEMMA GridUnique ==
    ASSUME NEW w \in Nat \ {0}, NEW r \in Nat, NEW s \in Nat,
           NEW c \in 0..(w - 1), NEW d \in 0..(w - 1), r * w + c = s * w + d
    PROVE  r = s /\ c = d
<1>1. ASSUME NEW a \in Nat, NEW b \in Nat, a < b
      PROVE  a * w + w <= b * w
  <2>1. PICK k \in Nat : b = a + 1 + k
    <3>1. b - a - 1 \in Nat /\ b = a + 1 + (b - a - 1)
      BY <1>1
    <3> QED
      BY <3>1
  <2>2. b * w = a * w + w + k * w
    BY <2>1
  <2>3. k * w \in Nat /\ a * w \in Nat
    OBVIOUS
  <2> QED
    BY <2>2, <2>3
<1>2. r * w \in Nat /\ s * w \in Nat
  OBVIOUS
<1>3. ~(r < s)
  BY <1>1, <1>2
<1>4. ~(s < r)
  BY <1>1, <1>2
<1>5. r = s
  BY <1>3, <1>4
<1> QED
  BY <1>2, <1>5

\* A place of a picture is within it.
LEMMA GridInside ==
    ASSUME NEW w \in Nat \ {0}, NEW h \in Nat \ {0}, NEW r \in 0..(h - 1), NEW c \in 0..(w - 1)
    PROVE  r * w + c \in 0..(w * h - 1)
<1>1. PICK k \in Nat : h = r + 1 + k
  <2>1. h - r - 1 \in Nat /\ h = r + 1 + (h - r - 1)
    OBVIOUS
  <2> QED
    BY <2>1
<1>2. w * h = r * w + w + k * w
  BY <1>1
<1>3. k * w \in Nat /\ r * w \in Nat
  BY <1>1
<1> QED
  BY <1>2, <1>3

\* Row and column of an offset.
LEMMA GridSplits ==
    ASSUME NEW w \in Nat \ {0}, NEW r \in Nat, NEW c \in 0..(w - 1)
    PROVE  (r * w + c) \div w = r /\ (r * w + c) % w = c
<1> DEFINE i == r * w + c
<1>1. r * w \in Nat /\ i \in Nat
  OBVIOUS
<1> HIDE DEF i
<1>2. i \div w \in Nat /\ i % w \in 0..(w - 1) /\ i = w * (i \div w) + (i % w)
  BY <1>1
<1>3. w * (i \div w) = (i \div w) * w
  BY <1>2
<1>4. (i \div w) * w + (i % w) = r * w + c
  BY <1>1, <1>2, <1>3 DEF i
<1> QED
  BY <1>2, <1>4, GridUnique DEF i

\* The sizes of the picture asked for, of which both sides are even.
LEMMA ShapeSizes ==
    ASSUME shape \in Shapes
    PROVE  /\ W \in Nat \ {0} /\ H \in Nat \ {0}
           /\ W \div 2 \in Nat \ {0} /\ H \div 2 \in Nat \ {0}
           /\ W = 2 * (W \div 2) /\ H = 2 * (H \div 2)
           /\ ChromaSize = (W \div 2) * (H \div 2) /\ ChromaSize \in Nat \ {0}
           /\ LumaSize = 4 * ChromaSize /\ Yuv420Size = 6 * ChromaSize
<1>1. /\ W \in Nat \ {0} /\ H \in Nat \ {0} /\ W % 2 = 0 /\ H % 2 = 0
  BY FramesAssumption DEF W, H
<1>2. /\ W \div 2 \in Nat \ {0} /\ H \div 2 \in Nat \ {0}
      /\ W = 2 * (W \div 2) /\ H = 2 * (H \div 2)
  BY <1>1
<1> DEFINE a == W \div 2
           b == H \div 2
           q == a * b
<1>3. a \in Nat \ {0} /\ b \in Nat \ {0} /\ W = 2 * a /\ H = 2 * b
  BY <1>2
<1> HIDE DEF a, b
<1>4. q \in Nat \ {0}
  BY <1>3
<1>5. W * H = 4 * q
  BY <1>3
<1> HIDE DEF q
<1>6. LumaSize = 4 * q
  BY <1>5 DEF LumaSize
<1>7. ChromaSize = q /\ Yuv420Size = 6 * q
  <2>1. (4 * q) \div 4 = q /\ ((4 * q) * 3) \div 2 = 6 * q
    BY <1>4
  <2> QED
    BY <1>6, <2>1 DEF ChromaSize, Yuv420Size
<1> QED
  BY <1>1, <1>2, <1>4, <1>6, <1>7 DEF a, b, q

\* The offsets of the three planes.
YAt(r, c) == r * W + c
UAt(r, c) == LumaSize + r * (W \div 2) + c
VAt(r, c) == LumaSize + ChromaSize + r * (W \div 2) + c

\* Each plane keeps to its part of the buffer.
LEMMA PlanesInside ==
    ASSUME shape \in Shapes
    PROVE  /\ \A r \in Rows, c \in Cols : YAt(r, c) \in 0..(4 * ChromaSize - 1)
           /\ \A r \in HalfRows, c \in HalfCols :
                 /\ UAt(r, c) \in (4 * ChromaSize)..(5 * ChromaSize - 1)
                 /\ VAt(r, c) \in (5 * ChromaSize)..(6 * ChromaSize - 1)
<1>0. /\ W \in Nat \ {0} /\ H \in Nat \ {0}
      /\ W \div 2 \in Nat \ {0} /\ H \div 2 \in Nat \ {0}
      /\ ChromaSize = (W \div 2) * (H \div 2) /\ ChromaSize \in Nat \ {0}
      /\ LumaSize = 4 * ChromaSize
  BY ShapeSizes
<1>1. ASSUME NEW r \in Rows, NEW c \in Cols
      PROVE  YAt(r, c) \in 0..(4 * ChromaSize - 1)
  <2>1. r * W + c \in 0..(W * H - 1)
    BY <1>0, GridInside DEF Rows, Cols
  <2> QED
    BY <1>0, <2>1 DEF YAt, LumaSize
<1>2. ASSUME NEW r \in HalfRows, NEW c \in HalfCols
      PROVE  /\ UAt(r, c) \in (4 * ChromaSize)..(5 * ChromaSize - 1)
             /\ VAt(r, c) \in (5 * ChromaSize)..(6 * ChromaSize - 1)
  <2> DEFINE half == W \div 2
             k == r * half + c
  <2>1. k \in 0..(ChromaSize - 1)
    BY <1>0, GridInside DEF HalfRows, HalfCols
  <2>2. r * half \in Nat /\ c \in Nat
    BY <1>0 DEF HalfRows, HalfCols
  <2>3. UAt(r, c) = 4 * ChromaSize + k /\ VAt(r, c) = 5 * ChromaSize + k
    BY <1>0, <2>2 DEF UAt, VAt
  <2> HIDE DEF k
  <2> QED
    BY <1>0, <2>1, <2>3
<1> QED
  BY <1>1, <1>2

\* In its plane each place has a byte of its own.
LEMMA PlacesApart ==
    ASSUME shape \in Shapes
    PROVE  /\ \A r, s \in Rows, c, d \in Cols : YAt(r, c) = YAt(s, d) => r = s /\ c = d
           /\ \A r, s \in HalfRows, c, d \in HalfCols :
                 /\ UAt(r, c) = UAt(s, d) => r = s /\ c = d
                 /\ VAt(r, c) = VAt(s, d) => r = s /\ c = d
<1>0. /\ W \in Nat \ {0} /\ H \in Nat \ {0}
      /\ W \div 2 \in Nat \ {0} /\ H \div 2 \in Nat \ {0}
      /\ ChromaSize \in Nat /\ LumaSize \in Nat
  BY ShapeSizes
<1>1. ASSUME NEW r \in Rows, NEW s \in Rows, NEW c \in Cols, NEW d \in Cols,
             YAt(r, c) = YAt(s, d)
      PROVE  r = s /\ c = d
  <2>1. r \in Nat /\ s \in Nat /\ c \in 0..(W - 1) /\ d \in 0..(W - 1)
    BY <1>0 DEF Rows, Cols
  <2> QED
    BY <1>0, <1>1, <2>1, GridUnique DEF YAt
<1>2. ASSUME NEW r \in HalfRows, NEW s \in HalfRows, NEW c \in HalfCols, NEW d \in HalfCols,
             UAt(r, c) = UAt(s, d) \/ VAt(r, c) = VAt(s, d)
      PROVE  r = s /\ c = d
  <2> DEFINE half == W \div 2
  <2>1. r \in Nat /\ s \in Nat /\ c \in 0..(half - 1) /\ d \in 0..(half - 1)
        /\ half \in Nat \ {0}
    BY <1>0 DEF HalfRows, HalfCols
  <2>2. r * half \in Nat /\ s * half \in Nat
    BY <2>1
  <2>3. r * half + c = s * half + d
    BY <1>0, <1>2, <2>1, <2>2 DEF UAt, VAt
  <2> HIDE DEF half
  <2> QED
    BY <2>1, <2>3, GridUnique
<1> QED
  BY <1>1, <1>2

\* What is to be seen: the brightness of a place, with an overlay or without,
\* and the colour of a square of four pixels.
LumaOf(over, row, col) ==
    IF over /\ row \in BoxRows /\ col \in BoxCols
    THEN IF <<row - OsdArea.y, col - OsdArea.x>> \in OsdInk THEN White ELSE Black
    ELSE Camera("Y", row, col)

ChromaOf(k, r, c) == Mean(Camera(k, 2 * r, c), Camera(k, 2 * r + 1, c))

LEMMA SeenIsWritten ==
    ASSUME NEW over, NEW row, NEW col, NEW k
    PROVE  LumaOf(over, row, col) # Unwritten /\ ChromaOf(k, row, col) # Unwritten
<1>1. /\ White[1] = "white" /\ Black[1] = "black" /\ Unwritten[1] = "unwritten"
      /\ Camera("Y", row, col)[1] = "Y" /\ ChromaOf(k, row, col)[1] = "mean"
  BY DEF White, Black, Unwritten, Camera, Mean, ChromaOf
<1>2. /\ White # Unwritten /\ Black # Unwritten /\ Camera("Y", row, col) # Unwritten
      /\ ChromaOf(k, row, col) # Unwritten
  BY <1>1
<1>3. LumaOf(over, row, col) \in {White, Black, Camera("Y", row, col)}
  BY DEF LumaOf
<1> QED
  BY <1>2, <1>3

\* Three planes one after the other that hold what is to be seen.
PlanarIs(w, h, over, p) ==
    LET luma == w * h
        chroma == luma \div 4
    IN  /\ p.at = <<0, luma, luma + chroma>>
        /\ p.linesize = <<w, w \div 2, w \div 2>>
        /\ DOMAIN p.bytes = 0..((luma * 3) \div 2 - 1)
        /\ \A r \in 0..(h - 1), c \in 0..(w - 1) : p.bytes[r * w + c] = LumaOf(over, r, c)
        /\ \A r \in 0..(h \div 2 - 1), c \in 0..(w \div 2 - 1) :
              /\ p.bytes[luma + r * (w \div 2) + c] = ChromaOf("U", r, c)
              /\ p.bytes[luma + chroma + r * (w \div 2) + c] = ChromaOf("V", r, c)

\* A set of writes that is the three planes.
WritesAre(over, writes) ==
    /\ \A r \in Rows, c \in Cols : <<YAt(r, c), LumaOf(over, r, c)>> \in writes
    /\ \A r \in HalfRows, c \in HalfCols :
          /\ <<UAt(r, c), ChromaOf("U", r, c)>> \in writes
          /\ <<VAt(r, c), ChromaOf("V", r, c)>> \in writes
    /\ \A x \in writes :
          \/ \E r \in Rows, c \in Cols : x = <<YAt(r, c), LumaOf(over, r, c)>>
          \/ \E r \in HalfRows, c \in HalfCols :
                \/ x = <<UAt(r, c), ChromaOf("U", r, c)>>
                \/ x = <<VAt(r, c), ChromaOf("V", r, c)>>

\* A byte that is written in one way only is what is written.
LEMMA WrittenGives ==
    ASSUME NEW size, NEW writes, NEW i \in 0..(size - 1), NEW v, <<i, v>> \in writes,
           \A x \in writes : x[1] = i => x[2] = v
    PROVE  Written(size, writes)[i] = v
<1>1. <<i, v>>[1] = i
  OBVIOUS
<1>2. \E x \in writes : x[1] = i
  BY <1>1
<1> DEFINE x == CHOOSE x \in writes : x[1] = i
<1>3. x \in writes /\ x[1] = i
  BY <1>2
<1> QED
  BY <1>2, <1>3 DEF Written

\* The planes hold what the writes say.
LEMMA PlanesHold ==
    ASSUME shape \in Shapes, NEW over, NEW writes, WritesAre(over, writes)
    PROVE  /\ PlanarIs(W, H, over, PlanesOf(writes))
           /\ \A x \in writes : x[1] \in 0..(Yuv420Size - 1) /\ x[2] # Unwritten
<1>0. ChromaSize \in Nat \ {0} /\ LumaSize = 4 * ChromaSize /\ Yuv420Size = 6 * ChromaSize
  BY ShapeSizes
<1>1. /\ \A r \in Rows, c \in Cols : YAt(r, c) \in 0..(4 * ChromaSize - 1)
      /\ \A r \in HalfRows, c \in HalfCols :
            /\ UAt(r, c) \in (4 * ChromaSize)..(5 * ChromaSize - 1)
            /\ VAt(r, c) \in (5 * ChromaSize)..(6 * ChromaSize - 1)
  BY PlanesInside
<1>2. /\ \A x \in writes :
            \/ \E r \in Rows, c \in Cols : x = <<YAt(r, c), LumaOf(over, r, c)>>
            \/ \E r \in HalfRows, c \in HalfCols :
                  \/ x = <<UAt(r, c), ChromaOf("U", r, c)>>
                  \/ x = <<VAt(r, c), ChromaOf("V", r, c)>>
  BY DEF WritesAre
<1>3. /\ \A r, s \in Rows, c, d \in Cols : YAt(r, c) = YAt(s, d) => r = s /\ c = d
      /\ \A r, s \in HalfRows, c, d \in HalfCols :
            /\ UAt(r, c) = UAt(s, d) => r = s /\ c = d
            /\ VAt(r, c) = VAt(s, d) => r = s /\ c = d
  BY PlacesApart
<1>4. ASSUME NEW x \in writes
      PROVE  x[1] \in 0..(Yuv420Size - 1) /\ x[2] # Unwritten
  <2>1. CASE \E r \in Rows, c \in Cols : x = <<YAt(r, c), LumaOf(over, r, c)>>
    <3>1. PICK r \in Rows, c \in Cols : x = <<YAt(r, c), LumaOf(over, r, c)>>
      BY <2>1
    <3>2. x[1] = YAt(r, c) /\ x[2] = LumaOf(over, r, c)
      BY <3>1
    <3>3. YAt(r, c) \in 0..(4 * ChromaSize - 1)
      BY <1>1
    <3>4. x[1] \in 0..(Yuv420Size - 1)
      BY <1>0, <3>2, <3>3
    <3> QED
      BY <3>2, <3>4, SeenIsWritten
  <2>2. CASE \E r \in HalfRows, c \in HalfCols :
                \/ x = <<UAt(r, c), ChromaOf("U", r, c)>>
                \/ x = <<VAt(r, c), ChromaOf("V", r, c)>>
    <3>1. PICK r \in HalfRows, c \in HalfCols :
                \/ x = <<UAt(r, c), ChromaOf("U", r, c)>>
                \/ x = <<VAt(r, c), ChromaOf("V", r, c)>>
      BY <2>2
    <3>2. \/ x[1] = UAt(r, c) /\ x[2] = ChromaOf("U", r, c)
          \/ x[1] = VAt(r, c) /\ x[2] = ChromaOf("V", r, c)
      BY <3>1
    <3>3. /\ UAt(r, c) \in (4 * ChromaSize)..(5 * ChromaSize - 1)
          /\ VAt(r, c) \in (5 * ChromaSize)..(6 * ChromaSize - 1)
      BY <1>1
    <3>4. x[1] \in 0..(Yuv420Size - 1)
      BY <1>0, <3>2, <3>3
    <3> QED
      BY <3>2, <3>4, SeenIsWritten
  <2> QED
    BY <1>2, <2>1, <2>2
<1> DEFINE bytes == Written(Yuv420Size, writes)
<1>5. ASSUME NEW r \in Rows, NEW c \in Cols
      PROVE  bytes[YAt(r, c)] = LumaOf(over, r, c)
  <2>1. <<YAt(r, c), LumaOf(over, r, c)>> \in writes
    BY DEF WritesAre
  <2>2. YAt(r, c) \in 0..(4 * ChromaSize - 1) /\ YAt(r, c) \in 0..(Yuv420Size - 1)
    BY <1>0, <1>1
  <2>3. ASSUME NEW x \in writes, x[1] = YAt(r, c) PROVE x[2] = LumaOf(over, r, c)
    <3>1. CASE \E s \in Rows, d \in Cols : x = <<YAt(s, d), LumaOf(over, s, d)>>
      <4>1. PICK s \in Rows, d \in Cols : x = <<YAt(s, d), LumaOf(over, s, d)>>
        BY <3>1
      <4>2. x[1] = YAt(s, d) /\ x[2] = LumaOf(over, s, d)
        BY <4>1
      <4>3. s = r /\ d = c
        BY <1>3, <2>3, <4>2
      <4> QED
        BY <4>2, <4>3
    <3>2. CASE \E s \in HalfRows, d \in HalfCols :
                  \/ x = <<UAt(s, d), ChromaOf("U", s, d)>>
                  \/ x = <<VAt(s, d), ChromaOf("V", s, d)>>
      <4>1. PICK s \in HalfRows, d \in HalfCols : x[1] = UAt(s, d) \/ x[1] = VAt(s, d)
        BY <3>2
      <4>2. /\ UAt(s, d) \in (4 * ChromaSize)..(5 * ChromaSize - 1)
            /\ VAt(s, d) \in (5 * ChromaSize)..(6 * ChromaSize - 1)
        BY <1>1
      <4> QED
        BY <1>0, <2>2, <2>3, <4>1, <4>2
    <3> QED
      BY <1>2, <3>1, <3>2
  <2> QED
    BY <2>1, <2>2, <2>3, WrittenGives
<1>6. ASSUME NEW r \in HalfRows, NEW c \in HalfCols
      PROVE  bytes[UAt(r, c)] = ChromaOf("U", r, c)
  <2>1. <<UAt(r, c), ChromaOf("U", r, c)>> \in writes
    BY DEF WritesAre
  <2>2. UAt(r, c) \in (4 * ChromaSize)..(5 * ChromaSize - 1)
        /\ UAt(r, c) \in 0..(Yuv420Size - 1)
    BY <1>0, <1>1
  <2>3. ASSUME NEW x \in writes, x[1] = UAt(r, c) PROVE x[2] = ChromaOf("U", r, c)
    <3>1. CASE \E s \in Rows, d \in Cols : x = <<YAt(s, d), LumaOf(over, s, d)>>
      <4>1. PICK s \in Rows, d \in Cols : x[1] = YAt(s, d)
        BY <3>1
      <4>2. YAt(s, d) \in 0..(4 * ChromaSize - 1)
        BY <1>1
      <4> QED
        BY <1>0, <2>2, <2>3, <4>1, <4>2
    <3>2. CASE \E s \in HalfRows, d \in HalfCols :
                  \/ x = <<UAt(s, d), ChromaOf("U", s, d)>>
                  \/ x = <<VAt(s, d), ChromaOf("V", s, d)>>
      <4>1. PICK s \in HalfRows, d \in HalfCols :
                  \/ x[1] = UAt(s, d) /\ x[2] = ChromaOf("U", s, d)
                  \/ x[1] = VAt(s, d)
        BY <3>2
      <4>2. VAt(s, d) \in (5 * ChromaSize)..(6 * ChromaSize - 1)
        BY <1>1
      <4>3. x[1] = UAt(s, d) /\ x[2] = ChromaOf("U", s, d)
        BY <1>0, <2>2, <2>3, <4>1, <4>2
      <4>4. UAt(s, d) = UAt(r, c)
        BY <2>3, <4>3
      <4>5. s = r /\ d = c
        <5>1. \A i, k \in HalfRows, j, l \in HalfCols :
                 UAt(i, j) = UAt(k, l) => i = k /\ j = l
          BY <1>3
        <5> QED
          BY <4>4, <5>1
      <4> QED
        BY <4>3, <4>5
    <3> QED
      BY <1>2, <3>1, <3>2
  <2> QED
    BY <2>1, <2>2, <2>3, WrittenGives
<1>7. ASSUME NEW r \in HalfRows, NEW c \in HalfCols
      PROVE  bytes[VAt(r, c)] = ChromaOf("V", r, c)
  <2>1. <<VAt(r, c), ChromaOf("V", r, c)>> \in writes
    BY DEF WritesAre
  <2>2. VAt(r, c) \in (5 * ChromaSize)..(6 * ChromaSize - 1)
        /\ VAt(r, c) \in 0..(Yuv420Size - 1)
    BY <1>0, <1>1
  <2>3. ASSUME NEW x \in writes, x[1] = VAt(r, c) PROVE x[2] = ChromaOf("V", r, c)
    <3>1. CASE \E s \in Rows, d \in Cols : x = <<YAt(s, d), LumaOf(over, s, d)>>
      <4>1. PICK s \in Rows, d \in Cols : x[1] = YAt(s, d)
        BY <3>1
      <4>2. YAt(s, d) \in 0..(4 * ChromaSize - 1)
        BY <1>1
      <4> QED
        BY <1>0, <2>2, <2>3, <4>1, <4>2
    <3>2. CASE \E s \in HalfRows, d \in HalfCols :
                  \/ x = <<UAt(s, d), ChromaOf("U", s, d)>>
                  \/ x = <<VAt(s, d), ChromaOf("V", s, d)>>
      <4>1. PICK s \in HalfRows, d \in HalfCols :
                  \/ x[1] = VAt(s, d) /\ x[2] = ChromaOf("V", s, d)
                  \/ x[1] = UAt(s, d)
        BY <3>2
      <4>2. UAt(s, d) \in (4 * ChromaSize)..(5 * ChromaSize - 1)
        BY <1>1
      <4>3. x[1] = VAt(s, d) /\ x[2] = ChromaOf("V", s, d)
        BY <1>0, <2>2, <2>3, <4>1, <4>2
      <4>4. VAt(s, d) = VAt(r, c)
        BY <2>3, <4>3
      <4>5. s = r /\ d = c
        <5>1. \A i, k \in HalfRows, j, l \in HalfCols :
                 VAt(i, j) = VAt(k, l) => i = k /\ j = l
          BY <1>3
        <5> QED
          BY <4>4, <5>1
      <4> QED
        BY <4>3, <4>5
    <3> QED
      BY <1>2, <3>1, <3>2
  <2> QED
    BY <2>1, <2>2, <2>3, WrittenGives
<1>8. PlanarIs(W, H, over, PlanesOf(writes))
  <2> DEFINE p == PlanesOf(writes)
  <2>1. /\ p.at = <<0, LumaSize, LumaSize + ChromaSize>>
        /\ p.linesize = <<W, W \div 2, W \div 2>> /\ p.bytes = bytes
    BY DEF PlanesOf
  <2>2. DOMAIN bytes = 0..(Yuv420Size - 1)
    BY DEF Written
  <2> HIDE DEF p, bytes
  <2> QED
    BY <2>1, <2>2, <1>5, <1>6, <1>7
    DEF PlanarIs, LumaSize, ChromaSize, Yuv420Size, YAt, UAt, VAt, Rows, Cols, HalfRows, HalfCols,
        p
<1> QED
  BY <1>4, <1>8

\* Reading them: the bytes of a planar picture.
LEMMA PlanarBytes ==
    ASSUME shape \in Shapes, NEW over, PlanarIs(W, H, over, picture)
    PROVE  /\ \A r \in Rows, c \in Cols : Byte(1, r, c) = LumaOf(over, r, c)
           /\ \A r \in HalfRows, c \in HalfCols :
                 Byte(2, r, c) = ChromaOf("U", r, c) /\ Byte(3, r, c) = ChromaOf("V", r, c)
<1>0. /\ ChromaSize \in Nat \ {0} /\ LumaSize = 4 * ChromaSize /\ Yuv420Size = 6 * ChromaSize
      /\ W \in Nat \ {0} /\ W \div 2 \in Nat \ {0}
  BY ShapeSizes
<1>1. /\ picture.at = <<0, LumaSize, LumaSize + ChromaSize>>
      /\ picture.linesize = <<W, W \div 2, W \div 2>>
      /\ DOMAIN picture.bytes = 0..(Yuv420Size - 1)
  BY DEF PlanarIs, LumaSize, ChromaSize, Yuv420Size
<1>2. \A r \in Rows, c \in Cols : picture.bytes[YAt(r, c)] = LumaOf(over, r, c)
  BY DEF PlanarIs, YAt, Rows, Cols
<1>3. \A r \in HalfRows, c \in HalfCols :
         /\ picture.bytes[UAt(r, c)] = ChromaOf("U", r, c)
         /\ picture.bytes[VAt(r, c)] = ChromaOf("V", r, c)
  BY DEF PlanarIs, UAt, VAt, HalfRows, HalfCols, LumaSize, ChromaSize
<1>4. ASSUME NEW r \in Rows, NEW c \in Cols
      PROVE  Byte(1, r, c) = LumaOf(over, r, c)
  <2>1. YAt(r, c) \in 0..(4 * ChromaSize - 1)
    BY PlanesInside
  <2>2. YAt(r, c) \in DOMAIN picture.bytes
    BY <1>0, <1>1, <2>1
  <2>3. r \in Nat /\ r * W \in Nat /\ c \in Nat
    BY <1>0 DEF Rows, Cols
  <2>4. picture.at[1] + r * picture.linesize[1] + c = YAt(r, c)
    BY <1>1, <2>3 DEF YAt
  <2> QED
    BY <2>2, <2>4, <1>2 DEF Byte
<1>5. ASSUME NEW r \in HalfRows, NEW c \in HalfCols
      PROVE  Byte(2, r, c) = ChromaOf("U", r, c) /\ Byte(3, r, c) = ChromaOf("V", r, c)
  <2>1. /\ UAt(r, c) \in (4 * ChromaSize)..(5 * ChromaSize - 1)
        /\ VAt(r, c) \in (5 * ChromaSize)..(6 * ChromaSize - 1)
    BY PlanesInside
  <2>2. UAt(r, c) \in DOMAIN picture.bytes /\ VAt(r, c) \in DOMAIN picture.bytes
    BY <1>0, <1>1, <2>1
  <2>3. /\ picture.at[2] + r * picture.linesize[2] + c = UAt(r, c)
        /\ picture.at[3] + r * picture.linesize[3] + c = VAt(r, c)
    BY <1>1 DEF UAt, VAt
  <2> QED
    BY <2>2, <2>3, <1>3 DEF Byte
<1> QED
  BY <1>4, <1>5

\* A packed picture without padding.
PackedIs(w, h, p) ==
    /\ p = [at |-> <<0>>, linesize |-> <<2 * w>>, bytes |-> p.bytes]
    /\ DOMAIN p.bytes = 0..(2 * w * h - 1)
    /\ \A r \in 0..(h - 1), x \in 0..(2 * w - 1) : p.bytes[r * (2 * w) + x] = Yuyv(r, x)

\* The size that the driver gave.
GivenW == shape.width
GivenH == shape.height

LEMMA GivenSizes ==
    ASSUME shape \in Shapes
    PROVE  /\ GivenW \in Nat \ {0} /\ GivenH \in Nat \ {0} /\ 2 * GivenW \in Nat \ {0}
           /\ GivenRows = 0..(GivenH - 1) /\ GivenBytes = 0..(2 * GivenW - 1)
<1>1. GivenW \in Nat \ {0} /\ GivenH \in Nat \ {0}
  BY FramesAssumption DEF GivenW, GivenH
<1> QED
  BY <1>1 DEF GivenRows, GivenBytes, GivenW, GivenH

LEMMA PackedBytes ==
    ASSUME shape \in Shapes, PackedIs(GivenW, GivenH, picture)
    PROVE  \A r \in GivenRows, x \in GivenBytes : Byte(1, r, x) = Yuyv(r, x)
<1>0. /\ GivenW \in Nat \ {0} /\ GivenH \in Nat \ {0} /\ 2 * GivenW \in Nat \ {0}
      /\ GivenRows = 0..(GivenH - 1) /\ GivenBytes = 0..(2 * GivenW - 1)
  BY GivenSizes
<1> SUFFICES ASSUME NEW r \in GivenRows, NEW x \in GivenBytes
             PROVE  Byte(1, r, x) = Yuyv(r, x)
  OBVIOUS
<1>1. r * (2 * GivenW) + x \in 0..(2 * GivenW * GivenH - 1)
  BY <1>0, GridInside
<1>2. r \in Nat /\ x \in Nat /\ r * (2 * GivenW) \in Nat
  BY <1>0
<1>3. picture.at[1] + r * picture.linesize[1] + x = r * (2 * GivenW) + x
  BY <1>2 DEF PackedIs
<1>4. /\ picture.bytes[r * (2 * GivenW) + x] = Yuyv(r, x)
      /\ r * (2 * GivenW) + x \in DOMAIN picture.bytes
  BY <1>0, <1>1 DEF PackedIs
<1> QED
  BY <1>3, <1>4 DEF Byte

\* The bytes of two pixels.
LEMMA YuyvIs ==
    ASSUME NEW row \in Nat, NEW col \in Nat
    PROVE  /\ Yuyv(row, 2 * col) = Camera("Y", row, col)
           /\ Yuyv(row, 2 * (2 * col) + 1) = Camera("U", row, col)
           /\ Yuyv(row, 2 * (2 * col) + 3) = Camera("V", row, col)
           /\ Yuyv(row, col) # Unwritten
<1>1. Yuyv(row, 2 * col) = Camera("Y", row, col)
  <2>1. (2 * col) % 4 \in {0, 2} /\ (2 * col) \div 2 = col
    OBVIOUS
  <2> QED
    BY <2>1 DEF Yuyv
<1>2. Yuyv(row, 2 * (2 * col) + 1) = Camera("U", row, col)
  <2>1. (2 * (2 * col) + 1) % 4 = 1 /\ (2 * (2 * col) + 1) \div 4 = col
    OBVIOUS
  <2> QED
    BY <2>1 DEF Yuyv
<1>3. Yuyv(row, 2 * (2 * col) + 3) = Camera("V", row, col)
  <2>1. (2 * (2 * col) + 3) % 4 = 3 /\ (2 * (2 * col) + 3) \div 4 = col
    OBVIOUS
  <2> QED
    BY <2>1 DEF Yuyv
<1>4. Yuyv(row, col) # Unwritten
  <2>1. col % 4 \in {0, 1, 2, 3}
    OBVIOUS
  <2>2. Yuyv(row, col) \in {Camera("Y", row, col \div 2), Camera("U", row, col \div 4),
                            Camera("V", row, col \div 4)}
    BY <2>1 DEF Yuyv
  <2>3. Yuyv(row, col)[1] \in {"Y", "U", "V"}
    BY <2>2 DEF Camera
  <2>4. Unwritten[1] = "unwritten"
    BY DEF Unwritten
  <2> QED
    BY <2>3, <2>4
<1> QED
  BY <1>1, <1>2, <1>3, <1>4

\* Without padding the driver's buffer is such a picture.
LEMMA CapturedIsPacked ==
    ASSUME FramesInit, shape.pitch = 2 * GivenW
    PROVE  PackedIs(GivenW, GivenH, picture)
<1>0. GivenW \in Nat \ {0} /\ GivenH \in Nat \ {0} /\ 2 * GivenW \in Nat \ {0}
  <2>1. shape \in Shapes
    BY DEF FramesInit
  <2> QED
    BY <2>1, GivenSizes
<1> DEFINE bytes == [i \in 0..(2 * GivenW * GivenH - 1) |->
                       IF i % (2 * GivenW) < 2 * GivenW
                       THEN Yuyv(i \div (2 * GivenW), i % (2 * GivenW))
                       ELSE Padding]
<1>1. picture = [at |-> <<0>>, linesize |-> <<2 * GivenW>>, bytes |-> bytes]
  BY DEF FramesInit, GivenW, GivenH
<1>2. ASSUME NEW r \in 0..(GivenH - 1), NEW x \in 0..(2 * GivenW - 1)
      PROVE  bytes[r * (2 * GivenW) + x] = Yuyv(r, x)
  <2>1. r * (2 * GivenW) + x \in 0..(2 * GivenW * GivenH - 1)
    BY <1>0, GridInside
  <2>2. (r * (2 * GivenW) + x) \div (2 * GivenW) = r /\ (r * (2 * GivenW) + x) % (2 * GivenW) = x
    BY <1>0, GridSplits
  <2> QED
    BY <1>0, <2>1, <2>2
<1>3. DOMAIN bytes = 0..(2 * GivenW * GivenH - 1)
  OBVIOUS
<1> HIDE DEF bytes
<1> QED
  BY <1>1, <1>2, <1>3 DEF PackedIs

\* frame_clone copies it.
LEMMA CloneIsPacked ==
    ASSUME shape \in Shapes, PackedIs(GivenW, GivenH, picture), ~outside, CloneYuyv
    PROVE  PackedIs(GivenW, GivenH, picture') /\ ~outside'
<1>0. /\ GivenW \in Nat \ {0} /\ GivenH \in Nat \ {0} /\ 2 * GivenW \in Nat \ {0}
      /\ GivenRows = 0..(GivenH - 1) /\ GivenBytes = 0..(2 * GivenW - 1)
  BY GivenSizes
<1> DEFINE size == picture.linesize[1] * GivenH
           writes == {<<row * picture.linesize[1] + col, Byte(1, row, col)>> :
                         row \in GivenRows, col \in 0..(picture.linesize[1] - 1)}
<1>1. picture' = [picture EXCEPT !.bytes = Written(size, writes)]
      /\ outside' = Overruns(size, writes)
  BY DEF CloneYuyv, GivenH
<1>2. /\ picture.linesize[1] = 2 * GivenW /\ size = 2 * GivenW * GivenH
      /\ 0..(picture.linesize[1] - 1) = GivenBytes
  BY <1>0 DEF PackedIs
<1>3. \A r \in GivenRows, x \in GivenBytes : Byte(1, r, x) = Yuyv(r, x)
  BY PackedBytes
<1>4. ASSUME NEW r \in GivenRows, NEW x \in GivenBytes
      PROVE  <<r * (2 * GivenW) + x, Yuyv(r, x)>> \in writes
  <2>1. x \in 0..(picture.linesize[1] - 1)
    BY <1>2
  <2>2. <<r * picture.linesize[1] + x, Byte(1, r, x)>> \in writes
    BY <2>1
  <2> QED
    BY <1>2, <1>3, <2>2
<1>5. ASSUME NEW w \in writes
      PROVE  \E r \in GivenRows, x \in GivenBytes : w = <<r * (2 * GivenW) + x, Yuyv(r, x)>>
  <2>1. PICK r \in GivenRows, x \in 0..(picture.linesize[1] - 1) :
           w = <<r * picture.linesize[1] + x, Byte(1, r, x)>>
    OBVIOUS
  <2> HIDE DEF size, writes
  <2>2. x \in GivenBytes
    BY <1>2, <2>1
  <2>3. Byte(1, r, x) = Yuyv(r, x) /\ picture.linesize[1] = 2 * GivenW
    BY <1>2, <1>3, <2>2
  <2>4. w = <<r * (2 * GivenW) + x, Yuyv(r, x)>>
    BY <2>1, <2>3
  <2> QED
    BY <2>2, <2>4
<1> HIDE DEF size, writes
<1>6. ASSUME NEW r \in GivenRows, NEW x \in GivenBytes
      PROVE  r \in Nat /\ x \in Nat /\ r * (2 * GivenW) + x \in 0..(2 * GivenW * GivenH - 1)
  BY <1>0, GridInside
<1>7. ASSUME NEW r \in GivenRows, NEW x \in GivenBytes
      PROVE  Written(size, writes)[r * (2 * GivenW) + x] = Yuyv(r, x)
  <2>1. <<r * (2 * GivenW) + x, Yuyv(r, x)>> \in writes
    BY <1>4
  <2>2. ASSUME NEW w \in writes, w[1] = r * (2 * GivenW) + x PROVE w[2] = Yuyv(r, x)
    <3>1. PICK s \in GivenRows, y \in GivenBytes : w = <<s * (2 * GivenW) + y, Yuyv(s, y)>>
      BY <1>5
    <3>2. w[1] = s * (2 * GivenW) + y /\ w[2] = Yuyv(s, y)
      BY <3>1
    <3>3. r \in Nat /\ s \in Nat
      BY <1>6
    <3>4. /\ 2 * GivenW \in Nat \ {0}
          /\ x \in 0..(2 * GivenW - 1) /\ y \in 0..(2 * GivenW - 1)
      BY <1>0 DEF GivenBytes, GivenW
    <3>5. s * (2 * GivenW) + y = r * (2 * GivenW) + x
      BY <2>2, <3>2
    <3>6. s = r /\ y = x
      <4>1. ASSUME NEW w0 \in Nat \ {0}, NEW y0 \in 0..(w0 - 1), NEW x0 \in 0..(w0 - 1),
                   s * w0 + y0 = r * w0 + x0
            PROVE  s = r /\ y0 = x0
        BY <3>3, <4>1, GridUnique
      <4> QED
        BY <3>4, <3>5, <4>1
    <3> QED
      BY <3>2, <3>6
  <2>3. r * (2 * GivenW) + x \in 0..(size - 1)
    BY <1>2, <1>6
  <2> QED
    BY <2>1, <2>2, <2>3, WrittenGives
<1>8. DOMAIN Written(size, writes) = 0..(2 * GivenW * GivenH - 1)
  BY <1>2 DEF Written
<1>9. picture' = [at |-> <<0>>, linesize |-> <<2 * GivenW>>, bytes |-> Written(size, writes)]
  BY <1>1 DEF PackedIs
<1>10. PackedIs(GivenW, GivenH, picture')
  BY <1>0, <1>7, <1>8, <1>9 DEF PackedIs
<1>11. ASSUME NEW w \in writes
       PROVE  w[1] \in 0..(size - 1) /\ w[2] # Unwritten
  <2>1. PICK r \in GivenRows, x \in GivenBytes : w = <<r * (2 * GivenW) + x, Yuyv(r, x)>>
    BY <1>5
  <2>2. r \in Nat /\ x \in Nat /\ r * (2 * GivenW) + x \in 0..(2 * GivenW * GivenH - 1)
    BY <1>6
  <2>3. Yuyv(r, x) # Unwritten
    BY <2>2, YuyvIs
  <2> QED
    BY <1>2, <2>1, <2>2, <2>3
<1> QED
  BY <1>1, <1>10, <1>11 DEF Overruns

\* The converter writes the brightness of every pixel and the mean colour of
\* every square.
LEMMA ConvertWrites ==
    ASSUME shape \in Shapes, PackedIs(GivenW, GivenH, picture), ~outside, Convert
    PROVE  PlanarIs(W, H, FALSE, picture') /\ ~outside'
<1>0. /\ W \in Nat \ {0} /\ H \in Nat \ {0} /\ W \div 2 \in Nat \ {0} /\ H \div 2 \in Nat \ {0}
      /\ W = 2 * (W \div 2) /\ H = 2 * (H \div 2)
      /\ ChromaSize \in Nat /\ LumaSize \in Nat
  BY ShapeSizes
<1> DEFINE writes ==
        Luma \cup {<<LumaSize + r * (W \div 2) + c, Chroma(2 * r, 2 * c, 1)>> :
                      r \in HalfRows, c \in HalfCols}
             \cup {<<(LumaSize + ChromaSize) + r * (W \div 2) + c, Chroma(2 * r, 2 * c, 3)>> :
                      r \in HalfRows, c \in HalfCols}
<1>1. picture' = PlanesOf(writes) /\ outside' = Overruns(Yuv420Size, writes)
  BY DEF Convert
<1>2. \A r \in Rows, x \in 0..(2 * W - 1) : Byte(1, r, x) = Yuyv(r, x)
  <2>1. Rows = GivenRows /\ 0..(2 * W - 1) = GivenBytes
    BY DEF Convert, SizeAsAsked, Rows, GivenRows, GivenBytes
  <2>2. \A r \in GivenRows, x \in GivenBytes : Byte(1, r, x) = Yuyv(r, x)
    BY PackedBytes
  <2> QED
    BY <2>1, <2>2
<1>3. ASSUME NEW r \in Rows, NEW c \in Cols
      PROVE  Byte(1, r, 2 * c) = LumaOf(FALSE, r, c)
  <2>1. r \in Nat /\ c \in Nat /\ 2 * c \in 0..(2 * W - 1)
    BY <1>0 DEF Rows, Cols
  <2> QED
    BY <1>2, <2>1, YuyvIs DEF LumaOf
<1>4. ASSUME NEW r \in HalfRows, NEW c \in HalfCols
      PROVE  /\ Chroma(2 * r, 2 * c, 1) = ChromaOf("U", r, c)
             /\ Chroma(2 * r, 2 * c, 3) = ChromaOf("V", r, c)
  <2>1. /\ 2 * r \in Rows /\ 2 * r + 1 \in Rows /\ c \in Nat
        /\ 2 * r \in Nat /\ 2 * r + 1 \in Nat
        /\ 2 * (2 * c) + 1 \in 0..(2 * W - 1) /\ 2 * (2 * c) + 3 \in 0..(2 * W - 1)
    BY <1>0 DEF HalfRows, HalfCols, Rows
  <2> DEFINE lower == CHOOSE s \in ChromaRow(2 * r) : \A x \in ChromaRow(2 * r) : x <= s
  <2>2. ChromaRow(2 * r) = {2 * r, 2 * r + 1}
    BY DEF ChromaRow
  <2>3. lower = 2 * r + 1
    <3> DEFINE rows == ChromaRow(2 * r)
    <3>1. 2 * r + 1 \in rows /\ \A x \in rows : x <= 2 * r + 1
      BY <2>1, <2>2
    <3>2. ASSUME NEW s \in rows, \A x \in rows : x <= s PROVE s = 2 * r + 1
      <4>1. s = 2 * r \/ s = 2 * r + 1
        BY <2>2
      <4>2. 2 * r + 1 <= s
        BY <3>1, <3>2
      <4> QED
        BY <2>1, <4>1, <4>2
    <3> HIDE DEF rows
    <3>3. (CHOOSE s \in rows : \A x \in rows : x <= s) = 2 * r + 1
      BY <3>1, <3>2
    <3> QED
      BY <3>3 DEF rows
  <2> HIDE DEF lower
  <2>4. /\ Chroma(2 * r, 2 * c, 1) = Mean(Byte(1, 2 * r, 2 * (2 * c) + 1),
                                          Byte(1, lower, 2 * (2 * c) + 1))
        /\ Chroma(2 * r, 2 * c, 3) = Mean(Byte(1, 2 * r, 2 * (2 * c) + 3),
                                          Byte(1, lower, 2 * (2 * c) + 3))
    BY DEF Chroma, lower
  <2>5. /\ Byte(1, 2 * r, 2 * (2 * c) + 1) = Camera("U", 2 * r, c)
        /\ Byte(1, 2 * r + 1, 2 * (2 * c) + 1) = Camera("U", 2 * r + 1, c)
        /\ Byte(1, 2 * r, 2 * (2 * c) + 3) = Camera("V", 2 * r, c)
        /\ Byte(1, 2 * r + 1, 2 * (2 * c) + 3) = Camera("V", 2 * r + 1, c)
    BY <1>2, <2>1, YuyvIs
  <2> QED
    BY <2>3, <2>4, <2>5 DEF ChromaOf
<1>5. ASSUME NEW r \in HalfRows, NEW c \in HalfCols
      PROVE  /\ LumaSize + r * (W \div 2) + c = UAt(r, c)
             /\ (LumaSize + ChromaSize) + r * (W \div 2) + c = VAt(r, c)
  BY DEF UAt, VAt
<1>6. WritesAre(FALSE, writes)
  <2>1. \A x : x \in writes <=>
          \/ \E r \in Rows, c \in Cols : x = <<r * W + c, Byte(1, r, 2 * c)>>
          \/ \E r \in HalfRows, c \in HalfCols :
                x = <<LumaSize + r * (W \div 2) + c, Chroma(2 * r, 2 * c, 1)>>
          \/ \E r \in HalfRows, c \in HalfCols :
                x = <<(LumaSize + ChromaSize) + r * (W \div 2) + c, Chroma(2 * r, 2 * c, 3)>>
    BY DEF Luma
  <2> HIDE DEF writes
  <2>2. \A x : x \in writes <=>
          \/ \E r \in Rows, c \in Cols : x = <<YAt(r, c), LumaOf(FALSE, r, c)>>
          \/ \E r \in HalfRows, c \in HalfCols : x = <<UAt(r, c), ChromaOf("U", r, c)>>
          \/ \E r \in HalfRows, c \in HalfCols : x = <<VAt(r, c), ChromaOf("V", r, c)>>
    <3> SUFFICES ASSUME NEW x
                 PROVE  x \in writes <=>
          \/ \E r \in Rows, c \in Cols : x = <<YAt(r, c), LumaOf(FALSE, r, c)>>
          \/ \E r \in HalfRows, c \in HalfCols : x = <<UAt(r, c), ChromaOf("U", r, c)>>
          \/ \E r \in HalfRows, c \in HalfCols : x = <<VAt(r, c), ChromaOf("V", r, c)>>
      OBVIOUS
    <3>0. x \in writes <=>
          \/ \E r \in Rows, c \in Cols : x = <<r * W + c, Byte(1, r, 2 * c)>>
          \/ \E r \in HalfRows, c \in HalfCols :
                x = <<LumaSize + r * (W \div 2) + c, Chroma(2 * r, 2 * c, 1)>>
          \/ \E r \in HalfRows, c \in HalfCols :
                x = <<(LumaSize + ChromaSize) + r * (W \div 2) + c, Chroma(2 * r, 2 * c, 3)>>
      BY <2>1
    <3>1. (\E r \in Rows, c \in Cols : x = <<r * W + c, Byte(1, r, 2 * c)>>)
          <=> \E r \in Rows, c \in Cols : x = <<YAt(r, c), LumaOf(FALSE, r, c)>>
      BY <1>3 DEF YAt
    <3>2. (\E r \in HalfRows, c \in HalfCols :
              x = <<LumaSize + r * (W \div 2) + c, Chroma(2 * r, 2 * c, 1)>>)
          <=> \E r \in HalfRows, c \in HalfCols : x = <<UAt(r, c), ChromaOf("U", r, c)>>
      BY <1>4, <1>5
    <3>3. (\E r \in HalfRows, c \in HalfCols :
              x = <<(LumaSize + ChromaSize) + r * (W \div 2) + c, Chroma(2 * r, 2 * c, 3)>>)
          <=> \E r \in HalfRows, c \in HalfCols : x = <<VAt(r, c), ChromaOf("V", r, c)>>
      BY <1>4, <1>5
    <3> QED
      BY <3>0, <3>1, <3>2, <3>3
  <2> QED
    BY <2>2 DEF WritesAre
<1> HIDE DEF writes
<1> QED
  BY <1>1, <1>6, PlanesHold DEF Overruns

\* A copy of the three planes writes what they hold.
LEMMA CopyWrites ==
    ASSUME shape \in Shapes, NEW over, PlanarIs(W, H, over, picture)
    PROVE  WritesAre(over, Copied)
<1>1. \A r \in Rows, c \in Cols : Byte(1, r, c) = LumaOf(over, r, c)
  BY PlanarBytes
<1>2. \A r \in HalfRows, c \in HalfCols :
         Byte(2, r, c) = ChromaOf("U", r, c) /\ Byte(3, r, c) = ChromaOf("V", r, c)
  BY PlanarBytes
<1>3. \A x : x \in Copied <=>
        \/ \E r \in Rows, c \in Cols : x = <<YAt(r, c), Byte(1, r, c)>>
        \/ \E r \in HalfRows, c \in HalfCols : x = <<UAt(r, c), Byte(2, r, c)>>
        \/ \E r \in HalfRows, c \in HalfCols : x = <<VAt(r, c), Byte(3, r, c)>>
  BY DEF Copied, YAt, UAt, VAt
<1>4. \A x : x \in Copied <=>
        \/ \E r \in Rows, c \in Cols : x = <<YAt(r, c), LumaOf(over, r, c)>>
        \/ \E r \in HalfRows, c \in HalfCols : x = <<UAt(r, c), ChromaOf("U", r, c)>>
        \/ \E r \in HalfRows, c \in HalfCols : x = <<VAt(r, c), ChromaOf("V", r, c)>>
  BY <1>1, <1>2, <1>3
<1> QED
  BY <1>4 DEF WritesAre

LEMMA CopyKeepsPlanes ==
    ASSUME shape \in Shapes, NEW over, PlanarIs(W, H, over, picture), ~outside, CloneYuv420
    PROVE  PlanarIs(W, H, over, picture') /\ ~outside'
<1>1. picture' = PlanesOf(Copied) /\ outside' = Overruns(Yuv420Size, Copied)
  BY DEF CloneYuv420
<1>2. WritesAre(over, Copied)
  BY CopyWrites
<1> QED
  BY <1>1, <1>2, PlanesHold DEF Overruns

\* The overlay takes the place of the brightness in its box, and no other.
LEMMA OverlayIs ==
    ASSUME shape \in Shapes
    PROVE  /\ \A r \in Rows, c \in Cols : r \in BoxRows /\ c \in BoxCols =>
                 <<YAt(r, c), LumaOf(TRUE, r, c)>> \in Overlay
           /\ \A o \in Overlay : \E r \in Rows, c \in Cols :
                 r \in BoxRows /\ c \in BoxCols /\ o = <<YAt(r, c), LumaOf(TRUE, r, c)>>
<1>0. W \in Nat \ {0} /\ H \in Nat \ {0}
  BY ShapeSizes
<1>1. /\ \A r \in BoxRows : r \in Nat
      /\ \A c \in BoxCols : c \in Nat
  BY FramesAssumption DEF BoxRows, BoxCols
<1>2. ASSUME NEW r \in BoxRows, NEW c \in BoxCols
      PROVE  Clipped(r, c) <=> r \in Rows /\ c \in Cols
  BY <1>0, <1>1 DEF Clipped, Rows, Cols
<1>3. ASSUME NEW r \in BoxRows, NEW c \in BoxCols
      PROVE  LumaOf(TRUE, r, c) =
                IF <<r - OsdArea.y, c - OsdArea.x>> \in OsdInk THEN White ELSE Black
  BY DEF LumaOf
<1>4. ASSUME NEW r \in Rows, NEW c \in Cols, r \in BoxRows, c \in BoxCols
      PROVE  <<YAt(r, c), LumaOf(TRUE, r, c)>> \in Overlay
  <2> DEFINE p == <<r, c>>
  <2>1. p \in BoxRows \X BoxCols /\ p[1] = r /\ p[2] = c
    BY <1>4
  <2>2. Clipped(p[1], p[2])
    BY <1>2, <1>4, <2>1
  <2> HIDE DEF p
  <2>3. <<p[1] * W + p[2],
          IF <<p[1] - OsdArea.y, p[2] - OsdArea.x>> \in OsdInk THEN White ELSE Black>> \in Overlay
    BY <2>1, <2>2 DEF Overlay
  <2> QED
    BY <1>3, <1>4, <2>1, <2>3 DEF YAt
<1>5. ASSUME NEW o \in Overlay
      PROVE  \E r \in Rows, c \in Cols :
                r \in BoxRows /\ c \in BoxCols /\ o = <<YAt(r, c), LumaOf(TRUE, r, c)>>
  <2>1. PICK p \in BoxRows \X BoxCols :
          /\ Clipped(p[1], p[2])
          /\ o = <<p[1] * W + p[2],
                   IF <<p[1] - OsdArea.y, p[2] - OsdArea.x>> \in OsdInk THEN White ELSE Black>>
    BY DEF Overlay
  <2>2. p[1] \in BoxRows /\ p[2] \in BoxCols
    BY <2>1
  <2>3. p[1] \in Rows /\ p[2] \in Cols
    BY <1>2, <2>1, <2>2
  <2>4. o = <<YAt(p[1], p[2]), LumaOf(TRUE, p[1], p[2])>>
    BY <1>3, <2>1, <2>2 DEF YAt
  <2> QED
    BY <2>2, <2>3, <2>4
<1> QED
  BY <1>4, <1>5

LEMMA ProcessDraws ==
    ASSUME shape \in Shapes, PlanarIs(W, H, FALSE, picture), ~outside, Process
    PROVE  PlanarIs(W, H, TRUE, picture') /\ ~outside'
<1> DEFINE under == {w \in Copied : \A o \in Overlay : o[1] # w[1]}
           writes == under \cup Overlay
<1>1. picture' = PlanesOf(writes) /\ outside' = Overruns(Yuv420Size, writes)
  BY DEF Process
<1>2. WritesAre(FALSE, Copied)
  BY CopyWrites
<1>3. \A r \in Rows, c \in Cols : ~(r \in BoxRows /\ c \in BoxCols) =>
         LumaOf(TRUE, r, c) = LumaOf(FALSE, r, c)
  BY DEF LumaOf
<1>4. /\ \A r \in Rows, c \in Cols : r \in BoxRows /\ c \in BoxCols =>
            <<YAt(r, c), LumaOf(TRUE, r, c)>> \in Overlay
      /\ \A o \in Overlay : \E r \in Rows, c \in Cols :
            r \in BoxRows /\ c \in BoxCols /\ o = <<YAt(r, c), LumaOf(TRUE, r, c)>>
  BY OverlayIs
<1>5. \A r, s \in Rows, c, d \in Cols : YAt(r, c) = YAt(s, d) => r = s /\ c = d
  BY PlacesApart
<1>6. ASSUME NEW r \in HalfRows, NEW c \in HalfCols, NEW s \in Rows, NEW d \in Cols
      PROVE  YAt(s, d) # UAt(r, c) /\ YAt(s, d) # VAt(r, c)
  <2>1. ChromaSize \in Nat \ {0}
    BY ShapeSizes
  <2>2. /\ UAt(r, c) \in (4 * ChromaSize)..(5 * ChromaSize - 1)
        /\ VAt(r, c) \in (5 * ChromaSize)..(6 * ChromaSize - 1)
        /\ YAt(s, d) \in 0..(4 * ChromaSize - 1)
    BY PlanesInside
  <2> QED
    BY <2>1, <2>2
<1>7. ASSUME NEW r \in Rows, NEW c \in Cols
      PROVE  <<YAt(r, c), LumaOf(TRUE, r, c)>> \in writes
  <2>1. CASE r \in BoxRows /\ c \in BoxCols
    BY <2>1, <1>4
  <2>2. CASE ~(r \in BoxRows /\ c \in BoxCols)
    <3> DEFINE w == <<YAt(r, c), LumaOf(TRUE, r, c)>>
    <3>1. w \in Copied /\ w[1] = YAt(r, c)
      BY <2>2, <1>2, <1>3 DEF WritesAre
    <3>2. ASSUME NEW o \in Overlay PROVE o[1] # w[1]
      <4>1. PICK s \in Rows, d \in Cols :
              s \in BoxRows /\ d \in BoxCols /\ o = <<YAt(s, d), LumaOf(TRUE, s, d)>>
        BY <1>4
      <4>2. o[1] = YAt(s, d)
        BY <4>1
      <4> QED
        BY <1>5, <2>2, <3>1, <4>1, <4>2
    <3> QED
      BY <3>1, <3>2
  <2> QED
    BY <2>1, <2>2
<1>8. ASSUME NEW r \in HalfRows, NEW c \in HalfCols
      PROVE  /\ <<UAt(r, c), ChromaOf("U", r, c)>> \in writes
             /\ <<VAt(r, c), ChromaOf("V", r, c)>> \in writes
  <2>1. ASSUME NEW o \in Overlay PROVE o[1] # UAt(r, c) /\ o[1] # VAt(r, c)
    <3>1. PICK s \in Rows, d \in Cols : o = <<YAt(s, d), LumaOf(TRUE, s, d)>>
      BY <1>4
    <3>2. o[1] = YAt(s, d)
      BY <3>1
    <3> QED
      BY <1>6, <3>2
  <2>2. /\ <<UAt(r, c), ChromaOf("U", r, c)>> \in Copied
        /\ <<VAt(r, c), ChromaOf("V", r, c)>> \in Copied
    BY <1>2 DEF WritesAre
  <2>3. /\ <<UAt(r, c), ChromaOf("U", r, c)>>[1] = UAt(r, c)
        /\ <<VAt(r, c), ChromaOf("V", r, c)>>[1] = VAt(r, c)
    OBVIOUS
  <2> QED
    BY <2>1, <2>2, <2>3
<1>9. ASSUME NEW x \in writes
      PROVE  \/ \E r \in Rows, c \in Cols : x = <<YAt(r, c), LumaOf(TRUE, r, c)>>
             \/ \E r \in HalfRows, c \in HalfCols :
                   \/ x = <<UAt(r, c), ChromaOf("U", r, c)>>
                   \/ x = <<VAt(r, c), ChromaOf("V", r, c)>>
  <2>1. CASE x \in Overlay
    BY <2>1, <1>4
  <2>2. CASE x \in under
    <3>1. x \in Copied /\ \A o \in Overlay : o[1] # x[1]
      BY <2>2
    <3>2. CASE \E r \in Rows, c \in Cols : x = <<YAt(r, c), LumaOf(FALSE, r, c)>>
      <4>1. PICK r \in Rows, c \in Cols : x = <<YAt(r, c), LumaOf(FALSE, r, c)>>
        BY <3>2
      <4>2. ~(r \in BoxRows /\ c \in BoxCols)
        <5> SUFFICES ASSUME r \in BoxRows /\ c \in BoxCols PROVE FALSE
          OBVIOUS
        <5>1. <<YAt(r, c), LumaOf(TRUE, r, c)>> \in Overlay
              /\ <<YAt(r, c), LumaOf(TRUE, r, c)>>[1] = x[1]
          BY <1>4, <4>1
        <5> QED
          BY <3>1, <5>1
      <4> QED
        BY <1>3, <4>1, <4>2
    <3>3. CASE ~\E r \in Rows, c \in Cols : x = <<YAt(r, c), LumaOf(FALSE, r, c)>>
      BY <3>1, <3>3, <1>2 DEF WritesAre
    <3> QED
      BY <3>2, <3>3
  <2> QED
    BY <2>1, <2>2
<1> HIDE DEF writes
<1>10. WritesAre(TRUE, writes)
  BY <1>7, <1>8, <1>9 DEF WritesAre
<1> QED
  BY <1>1, <1>10, PlanesHold DEF Overruns

\* The two planes of an NV12 picture: its second has whole rows of U and V in
\* turn.
NAt(r, x) == LumaSize + r * W + x
TurnOf(r, x) == IF x % 2 = 0 THEN ChromaOf("U", r, x \div 2) ELSE ChromaOf("V", r, x \div 2)

Nv12Is(w, h, over, p) ==
    LET luma == w * h
    IN  /\ p.at = <<0, luma>>
        /\ p.linesize = <<w, w>>
        /\ DOMAIN p.bytes = 0..((luma * 3) \div 2 - 1)
        /\ \A r \in 0..(h - 1), c \in 0..(w - 1) : p.bytes[r * w + c] = LumaOf(over, r, c)
        /\ \A r \in 0..(h \div 2 - 1), x \in 0..(w - 1) : p.bytes[luma + r * w + x] = TurnOf(r, x)

LEMMA TurnsInside ==
    ASSUME shape \in Shapes
    PROVE  /\ \A r \in HalfRows, x \in Cols : NAt(r, x) \in (4 * ChromaSize)..(6 * ChromaSize - 1)
           /\ \A r, s \in HalfRows, x, y \in Cols : NAt(r, x) = NAt(s, y) => r = s /\ x = y
<1>0. /\ W \in Nat \ {0} /\ H \div 2 \in Nat \ {0} /\ W = 2 * (W \div 2)
      /\ ChromaSize = (W \div 2) * (H \div 2) /\ ChromaSize \in Nat
      /\ LumaSize = 4 * ChromaSize /\ W \div 2 \in Nat
  BY ShapeSizes
<1>1. W * (H \div 2) = 2 * ChromaSize
  <2> DEFINE a == W \div 2
             b == H \div 2
  <2>1. a \in Nat /\ b \in Nat /\ W = 2 * a /\ ChromaSize = a * b
    BY <1>0
  <2> HIDE DEF a, b
  <2>2. W * b = 2 * ChromaSize
    BY <2>1
  <2> QED
    BY <2>2 DEF b
<1>2. ASSUME NEW r \in HalfRows, NEW x \in Cols
      PROVE  NAt(r, x) \in (4 * ChromaSize)..(6 * ChromaSize - 1)
  <2>1. r * W + x \in 0..(W * (H \div 2) - 1)
    BY <1>0, GridInside DEF HalfRows, Cols
  <2>2. r * W \in Nat /\ x \in Nat
    BY <1>0 DEF HalfRows, Cols
  <2>3. NAt(r, x) = 4 * ChromaSize + (r * W + x)
    BY <1>0, <2>2 DEF NAt
  <2>4. r * W + x \in 0..(2 * ChromaSize - 1)
    BY <1>1, <2>1
  <2> QED
    BY <1>0, <2>3, <2>4
<1>3. ASSUME NEW r \in HalfRows, NEW s \in HalfRows, NEW x \in Cols, NEW y \in Cols,
             NAt(r, x) = NAt(s, y)
      PROVE  r = s /\ x = y
  <2>1. r \in Nat /\ s \in Nat /\ x \in 0..(W - 1) /\ y \in 0..(W - 1)
    BY <1>0 DEF HalfRows, Cols
  <2>2. r * W \in Nat /\ s * W \in Nat /\ x \in Nat /\ y \in Nat /\ LumaSize \in Nat
    BY <1>0, <2>1
  <2>3. r * W + x = s * W + y
    BY <1>3, <2>2 DEF NAt
  <2>4. W \in Nat \ {0}
    BY <1>0
  <2> QED
    BY <2>1, <2>3, <2>4, GridUnique
<1> QED
  BY <1>2, <1>3

\* Columns in turn: an even one is of U, an odd one of V.
LEMMA TurnColumns ==
    ASSUME shape \in Shapes
    PROVE  /\ \A c \in HalfCols : 2 * c \in Cols /\ 2 * c + 1 \in Cols
           /\ \A r, c \in Nat : /\ TurnOf(r, 2 * c) = ChromaOf("U", r, c)
                                /\ TurnOf(r, 2 * c + 1) = ChromaOf("V", r, c)
           /\ \A x \in Cols : \E c \in HalfCols : x = 2 * c \/ x = 2 * c + 1
<1>0. W \in Nat \ {0} /\ W \div 2 \in Nat \ {0} /\ W = 2 * (W \div 2)
  BY ShapeSizes
<1>1. ASSUME NEW c \in HalfCols PROVE 2 * c \in Cols /\ 2 * c + 1 \in Cols
  BY <1>0 DEF HalfCols, Cols
<1>2. ASSUME NEW r \in Nat, NEW c \in Nat
      PROVE  /\ TurnOf(r, 2 * c) = ChromaOf("U", r, c)
             /\ TurnOf(r, 2 * c + 1) = ChromaOf("V", r, c)
  <2>1. /\ (2 * c) % 2 = 0 /\ (2 * c) \div 2 = c
        /\ (2 * c + 1) % 2 = 1 /\ (2 * c + 1) \div 2 = c
    OBVIOUS
  <2> QED
    BY <2>1 DEF TurnOf
<1>3. ASSUME NEW x \in Cols PROVE \E c \in HalfCols : x = 2 * c \/ x = 2 * c + 1
  <2>1. x \in Nat /\ x < W
    BY <1>0 DEF Cols
  <2>2. x \div 2 \in Nat /\ (x = 2 * (x \div 2) \/ x = 2 * (x \div 2) + 1)
    BY <2>1
  <2>3. x \div 2 \in HalfCols
    BY <1>0, <2>1, <2>2 DEF HalfCols
  <2> QED
    BY <2>2, <2>3
<1> QED
  BY <1>1, <1>2, <1>3

LEMMA Nv12Holds ==
    ASSUME shape \in Shapes, NEW over, PlanarIs(W, H, over, picture), ~outside, ToNv12
    PROVE  Nv12Is(W, H, over, picture') /\ ~outside'
<1> DEFINE writes ==
        {<<r * W + c, Byte(1, r, c)>> : r \in Rows, c \in Cols}
        \cup {<<LumaSize + r * W + 2 * c, Byte(2, r, c)>> : r \in HalfRows, c \in HalfCols}
        \cup {<<LumaSize + r * W + 2 * c + 1, Byte(3, r, c)>> : r \in HalfRows, c \in HalfCols}
<1>0. ChromaSize \in Nat \ {0} /\ LumaSize = 4 * ChromaSize /\ Yuv420Size = 6 * ChromaSize
      /\ W \in Nat \ {0} /\ H \in Nat \ {0} /\ W \div 2 \in Nat /\ H \div 2 \in Nat
  BY ShapeSizes
<1>1. /\ picture' = [at |-> <<0, LumaSize>>, linesize |-> <<W, W>>,
                     bytes |-> Written(Yuv420Size, writes)]
      /\ outside' = Overruns(Yuv420Size, writes)
  BY DEF ToNv12
<1>2. \A r \in Rows, c \in Cols : Byte(1, r, c) = LumaOf(over, r, c)
  BY PlanarBytes
<1>3. \A r \in HalfRows, c \in HalfCols :
         Byte(2, r, c) = ChromaOf("U", r, c) /\ Byte(3, r, c) = ChromaOf("V", r, c)
  BY PlanarBytes
<1>4. ASSUME NEW r \in HalfRows, NEW c \in HalfCols
      PROVE  /\ 2 * c \in Cols /\ 2 * c + 1 \in Cols
             /\ LumaSize + r * W + 2 * c = NAt(r, 2 * c)
             /\ LumaSize + r * W + 2 * c + 1 = NAt(r, 2 * c + 1)
             /\ Byte(2, r, c) = TurnOf(r, 2 * c) /\ Byte(3, r, c) = TurnOf(r, 2 * c + 1)
  <2>1. r \in Nat /\ c \in Nat /\ r * W \in Nat /\ LumaSize \in Nat
    BY <1>0 DEF HalfRows, HalfCols
  <2>2. 2 * c \in Cols /\ 2 * c + 1 \in Cols
    BY TurnColumns
  <2>3. TurnOf(r, 2 * c) = ChromaOf("U", r, c) /\ TurnOf(r, 2 * c + 1) = ChromaOf("V", r, c)
    BY <2>1, TurnColumns
  <2>4. LumaSize + r * W + 2 * c = NAt(r, 2 * c)
        /\ LumaSize + r * W + 2 * c + 1 = NAt(r, 2 * c + 1)
    BY <2>1 DEF NAt
  <2> QED
    BY <1>3, <2>2, <2>3, <2>4
<1>5. ASSUME NEW r \in Rows, NEW c \in Cols
      PROVE  <<YAt(r, c), LumaOf(over, r, c)>> \in writes
  <2>1. <<r * W + c, Byte(1, r, c)>> \in writes
    OBVIOUS
  <2> QED
    BY <1>2, <2>1 DEF YAt
<1>6. ASSUME NEW r \in HalfRows, NEW x \in Cols
      PROVE  <<NAt(r, x), TurnOf(r, x)>> \in writes
  <2>1. PICK c \in HalfCols : x = 2 * c \/ x = 2 * c + 1
    BY TurnColumns
  <2>2. /\ <<LumaSize + r * W + 2 * c, Byte(2, r, c)>> \in writes
        /\ <<LumaSize + r * W + 2 * c + 1, Byte(3, r, c)>> \in writes
    OBVIOUS
  <2> HIDE DEF writes
  <2>3. /\ <<NAt(r, 2 * c), TurnOf(r, 2 * c)>> \in writes
        /\ <<NAt(r, 2 * c + 1), TurnOf(r, 2 * c + 1)>> \in writes
    BY <1>4, <2>2
  <2> QED
    BY <2>1, <2>3
<1>7. ASSUME NEW w \in writes
      PROVE  \/ \E r \in Rows, c \in Cols : w = <<YAt(r, c), LumaOf(over, r, c)>>
             \/ \E r \in HalfRows, x \in Cols : w = <<NAt(r, x), TurnOf(r, x)>>
  <2>1. CASE \E r \in Rows, c \in Cols : w = <<r * W + c, Byte(1, r, c)>>
    BY <1>2, <2>1 DEF YAt
  <2>2. CASE \E r \in HalfRows, c \in HalfCols : w = <<LumaSize + r * W + 2 * c, Byte(2, r, c)>>
    <3>1. PICK r \in HalfRows, c \in HalfCols : w = <<LumaSize + r * W + 2 * c, Byte(2, r, c)>>
      BY <2>2
    <3>2. 2 * c \in Cols /\ w = <<NAt(r, 2 * c), TurnOf(r, 2 * c)>>
      BY <1>4, <3>1
    <3> QED
      BY <3>2
  <2>3. CASE \E r \in HalfRows, c \in HalfCols :
                w = <<LumaSize + r * W + 2 * c + 1, Byte(3, r, c)>>
    <3>1. PICK r \in HalfRows, c \in HalfCols :
              w = <<LumaSize + r * W + 2 * c + 1, Byte(3, r, c)>>
      BY <2>3
    <3>2. 2 * c + 1 \in Cols /\ w = <<NAt(r, 2 * c + 1), TurnOf(r, 2 * c + 1)>>
      BY <1>4, <3>1
    <3> QED
      BY <3>2
  <2> QED
    BY <2>1, <2>2, <2>3
<1> HIDE DEF writes
<1>8. ASSUME NEW r \in HalfRows, NEW x \in Cols
      PROVE  /\ NAt(r, x) \in (4 * ChromaSize)..(6 * ChromaSize - 1)
             /\ TurnOf(r, x) # Unwritten
  <2>1. NAt(r, x) \in (4 * ChromaSize)..(6 * ChromaSize - 1)
    BY TurnsInside
  <2> QED
    BY <2>1, SeenIsWritten DEF TurnOf
<1>9. \A r \in Rows, c \in Cols : YAt(r, c) \in 0..(4 * ChromaSize - 1)
  BY PlanesInside
<1>10. ASSUME NEW w \in writes
       PROVE  w[1] \in 0..(Yuv420Size - 1) /\ w[2] # Unwritten
  <2>1. CASE \E r \in Rows, c \in Cols : w = <<YAt(r, c), LumaOf(over, r, c)>>
    <3>1. PICK r \in Rows, c \in Cols : w[1] = YAt(r, c) /\ w[2] = LumaOf(over, r, c)
      BY <2>1
    <3>2. YAt(r, c) \in 0..(4 * ChromaSize - 1)
      BY <1>9
    <3> QED
      BY <1>0, <3>1, <3>2, SeenIsWritten
  <2>2. CASE \E r \in HalfRows, x \in Cols : w = <<NAt(r, x), TurnOf(r, x)>>
    <3>1. PICK r \in HalfRows, x \in Cols : w[1] = NAt(r, x) /\ w[2] = TurnOf(r, x)
      BY <2>2
    <3> QED
      BY <1>0, <1>8, <3>1
  <2> QED
    BY <1>7, <2>1, <2>2
<1> DEFINE bytes == Written(Yuv420Size, writes)
<1>11. ASSUME NEW r \in Rows, NEW c \in Cols
       PROVE  bytes[YAt(r, c)] = LumaOf(over, r, c)
  <2>1. YAt(r, c) \in 0..(4 * ChromaSize - 1) /\ YAt(r, c) \in 0..(Yuv420Size - 1)
    BY <1>0, <1>9
  <2>2. ASSUME NEW w \in writes, w[1] = YAt(r, c) PROVE w[2] = LumaOf(over, r, c)
    <3>1. CASE \E s \in Rows, d \in Cols : w = <<YAt(s, d), LumaOf(over, s, d)>>
      <4>1. PICK s \in Rows, d \in Cols : w[1] = YAt(s, d) /\ w[2] = LumaOf(over, s, d)
        BY <3>1
      <4>2. s = r /\ d = c
        BY <2>2, <4>1, PlacesApart
      <4> QED
        BY <4>1, <4>2
    <3>2. CASE \E s \in HalfRows, x \in Cols : w = <<NAt(s, x), TurnOf(s, x)>>
      <4>1. PICK s \in HalfRows, x \in Cols : w[1] = NAt(s, x)
        BY <3>2
      <4> QED
        BY <1>0, <1>8, <2>1, <2>2, <4>1
    <3> QED
      BY <1>7, <3>1, <3>2
  <2>3. <<YAt(r, c), LumaOf(over, r, c)>> \in writes
    BY <1>5
  <2> QED
    BY <2>1, <2>2, <2>3, WrittenGives
<1>12. ASSUME NEW r \in HalfRows, NEW x \in Cols
       PROVE  bytes[NAt(r, x)] = TurnOf(r, x)
  <2>1. NAt(r, x) \in (4 * ChromaSize)..(6 * ChromaSize - 1) /\ NAt(r, x) \in 0..(Yuv420Size - 1)
    BY <1>0, <1>8
  <2>2. ASSUME NEW w \in writes, w[1] = NAt(r, x) PROVE w[2] = TurnOf(r, x)
    <3>1. CASE \E s \in Rows, d \in Cols : w = <<YAt(s, d), LumaOf(over, s, d)>>
      <4>1. PICK s \in Rows, d \in Cols : w[1] = YAt(s, d)
        BY <3>1
      <4> QED
        BY <1>0, <1>9, <2>1, <2>2, <4>1
    <3>2. CASE \E s \in HalfRows, y \in Cols : w = <<NAt(s, y), TurnOf(s, y)>>
      <4>1. PICK s \in HalfRows, y \in Cols : w[1] = NAt(s, y) /\ w[2] = TurnOf(s, y)
        BY <3>2
      <4>2. NAt(s, y) = NAt(r, x)
        BY <2>2, <4>1
      <4>3. \A i, k \in HalfRows, j, l \in Cols : NAt(i, j) = NAt(k, l) => i = k /\ j = l
        BY TurnsInside
      <4>4. s = r /\ y = x
        BY <4>2, <4>3
      <4> QED
        BY <4>1, <4>4
    <3> QED
      BY <1>7, <3>1, <3>2
  <2>3. <<NAt(r, x), TurnOf(r, x)>> \in writes
    BY <1>6
  <2> QED
    BY <2>1, <2>2, <2>3, WrittenGives
<1>13. DOMAIN bytes = 0..(Yuv420Size - 1)
  BY DEF Written
<1>14. /\ picture'.at = <<0, LumaSize>> /\ picture'.linesize = <<W, W>>
       /\ picture'.bytes = bytes
  BY <1>1
<1> HIDE DEF bytes
<1>15. Nv12Is(W, H, over, picture')
  BY <1>11, <1>12, <1>13, <1>14
  DEF Nv12Is, LumaSize, Yuv420Size, YAt, NAt, Rows, Cols, HalfRows
<1> QED
  BY <1>1, <1>10, <1>15 DEF Overruns

LEMMA Nv12Bytes ==
    ASSUME shape \in Shapes, NEW over, Nv12Is(W, H, over, picture)
    PROVE  /\ \A r \in Rows, c \in Cols : Byte(1, r, c) = LumaOf(over, r, c)
           /\ \A r \in HalfRows, c \in HalfCols :
                 /\ Byte(2, r, 2 * c) = ChromaOf("U", r, c)
                 /\ Byte(2, r, 2 * c + 1) = ChromaOf("V", r, c)
<1>0. /\ ChromaSize \in Nat \ {0} /\ LumaSize = 4 * ChromaSize /\ Yuv420Size = 6 * ChromaSize
      /\ W \in Nat \ {0}
  BY ShapeSizes
<1>1. /\ picture.at = <<0, LumaSize>> /\ picture.linesize = <<W, W>>
      /\ DOMAIN picture.bytes = 0..(Yuv420Size - 1)
  BY DEF Nv12Is, LumaSize, Yuv420Size
<1>2. \A r \in Rows, c \in Cols : picture.bytes[YAt(r, c)] = LumaOf(over, r, c)
  BY DEF Nv12Is, YAt, Rows, Cols
<1>3. \A r \in HalfRows, x \in Cols : picture.bytes[NAt(r, x)] = TurnOf(r, x)
  BY DEF Nv12Is, NAt, HalfRows, Cols, LumaSize
<1>4. ASSUME NEW r \in Rows, NEW c \in Cols
      PROVE  Byte(1, r, c) = LumaOf(over, r, c)
  <2>1. YAt(r, c) \in 0..(4 * ChromaSize - 1)
    BY PlanesInside
  <2>2. YAt(r, c) \in DOMAIN picture.bytes
    BY <1>0, <1>1, <2>1
  <2>3. r \in Nat /\ r * W \in Nat /\ c \in Nat
    BY <1>0 DEF Rows, Cols
  <2>4. picture.at[1] + r * picture.linesize[1] + c = YAt(r, c)
    BY <1>1, <2>3 DEF YAt
  <2> QED
    BY <2>2, <2>4, <1>2 DEF Byte
<1>5. ASSUME NEW r \in HalfRows, NEW x \in Cols
      PROVE  Byte(2, r, x) = TurnOf(r, x)
  <2>1. NAt(r, x) \in (4 * ChromaSize)..(6 * ChromaSize - 1)
    BY TurnsInside
  <2>2. NAt(r, x) \in DOMAIN picture.bytes
    BY <1>0, <1>1, <2>1
  <2>3. picture.at[2] + r * picture.linesize[2] + x = NAt(r, x)
    BY <1>1 DEF NAt
  <2> QED
    BY <2>2, <2>3, <1>3 DEF Byte
<1>6. ASSUME NEW r \in HalfRows, NEW c \in HalfCols
      PROVE  /\ Byte(2, r, 2 * c) = ChromaOf("U", r, c)
             /\ Byte(2, r, 2 * c + 1) = ChromaOf("V", r, c)
  <2>1. r \in Nat /\ c \in Nat
    BY DEF HalfRows, HalfCols
  <2>2. 2 * c \in Cols /\ 2 * c + 1 \in Cols
    BY TurnColumns
  <2>3. TurnOf(r, 2 * c) = ChromaOf("U", r, c) /\ TurnOf(r, 2 * c + 1) = ChromaOf("V", r, c)
    BY <2>1, TurnColumns
  <2> QED
    BY <1>5, <2>2, <2>3
<1> QED
  BY <1>4, <1>6

-----------------------------------------------------------------------------

\* The inductive invariant of a picture: what its bytes are in every stage.
FramesInv ==
    /\ shape \in Shapes
    /\ osd \in BOOLEAN
    /\ stage \in Raw \cup {"converted", "processed", "encoder", "viewer", "detector"}
    /\ shape.pitch = 2 * shape.width =>
          /\ ~outside
          /\ stage \in Raw => PackedIs(GivenW, GivenH, picture)
          /\ stage \notin Raw => GivenW = W /\ GivenH = H
          /\ stage = "converted" => PlanarIs(W, H, FALSE, picture)
          /\ stage \in {"processed", "encoder", "viewer"} => PlanarIs(W, H, osd, picture)
          /\ stage = "detector" => Nv12Is(W, H, osd, picture)

LEMMA FramesInvInit ==
    FramesInit => FramesInv
<1> SUFFICES ASSUME FramesInit PROVE FramesInv
  OBVIOUS
<1>1. shape.pitch = 2 * shape.width => PackedIs(GivenW, GivenH, picture)
  BY CapturedIsPacked DEF GivenW
<1> QED
  BY <1>1 DEF FramesInit, FramesInv, Raw

\* The sizes stay, as the shape does.
LEMMA SizesStay ==
    ASSUME shape' = shape
    PROVE  W' = W /\ H' = H /\ GivenW' = GivenW /\ GivenH' = GivenH
<1> QED
  BY DEF W, H, GivenW, GivenH

LEMMA FramesInvStep ==
    FramesInv /\ [FramesNext]_framesVars => FramesInv'
<1> SUFFICES ASSUME FramesInv, [FramesNext]_framesVars PROVE FramesInv'
  OBVIOUS
<1>0. shape \in Shapes /\ osd \in BOOLEAN
  BY DEF FramesInv
<1>1. CASE CloneYuyv
  <2>1. shape' = shape /\ osd' = osd /\ stage = "captured" /\ stage' = "queued"
    BY <1>1 DEF CloneYuyv, StageGoes
  <2>2. shape.pitch = 2 * shape.width => PackedIs(GivenW, GivenH, picture') /\ ~outside'
    BY <1>0, <1>1, <2>1, CloneIsPacked DEF FramesInv, Raw
  <2> QED
    BY <1>0, <2>1, <2>2, SizesStay DEF FramesInv, Raw
<1>2. CASE Convert
  <2>1. shape' = shape /\ osd' = osd /\ stage = "queued" /\ stage' = "converted"
    BY <1>2 DEF Convert, StageGoes
  <2>2. shape.pitch = 2 * shape.width => PlanarIs(W, H, FALSE, picture') /\ ~outside'
    BY <1>0, <1>2, <2>1, ConvertWrites DEF FramesInv, Raw
  <2>3. GivenW = W /\ GivenH = H
    BY <1>2 DEF Convert, SizeAsAsked, GivenW, GivenH
  <2> QED
    BY <1>0, <2>1, <2>2, <2>3, SizesStay DEF FramesInv, Raw
<1>3. CASE ConvertRefuses
  <2>1. /\ shape' = shape /\ osd' = osd /\ picture' = picture /\ outside' = outside
        /\ stage = "queued" /\ stage' = "refused"
    BY <1>3 DEF ConvertRefuses, StageGoes
  <2> QED
    BY <1>0, <2>1, SizesStay DEF FramesInv, Raw
<1>4. CASE Process
  <2>1. shape' = shape /\ osd' = osd /\ osd = TRUE /\ stage = "converted" /\ stage' = "processed"
    BY <1>0, <1>4 DEF Process, StageGoes
  <2>2. shape.pitch = 2 * shape.width => PlanarIs(W, H, TRUE, picture') /\ ~outside'
    BY <1>0, <1>4, <2>1, ProcessDraws DEF FramesInv
  <2> QED
    BY <1>0, <2>1, <2>2, SizesStay DEF FramesInv, Raw
<1>5. CASE SkipProcess
  <2>1. /\ shape' = shape /\ osd' = osd /\ picture' = picture /\ outside' = outside
        /\ osd = FALSE /\ stage = "converted" /\ stage' = "processed"
    BY <1>0, <1>5 DEF SkipProcess, StageGoes
  <2> QED
    BY <1>0, <2>1, SizesStay DEF FramesInv, Raw
<1>6. CASE CloneYuv420
  <2>1. /\ shape' = shape /\ osd' = osd
        /\ stage = "processed" /\ stage' \in {"encoder", "viewer"}
    BY <1>6 DEF CloneYuv420, StageGoes
  <2>2. shape.pitch = 2 * shape.width => PlanarIs(W, H, osd, picture') /\ ~outside'
    BY <1>0, <1>6, <2>1, CopyKeepsPlanes DEF FramesInv
  <2> QED
    BY <1>0, <2>1, <2>2, SizesStay DEF FramesInv, Raw
<1>7. CASE ToNv12
  <2>1. shape' = shape /\ osd' = osd /\ stage = "processed" /\ stage' = "detector"
    BY <1>7 DEF ToNv12, StageGoes
  <2>2. shape.pitch = 2 * shape.width => Nv12Is(W, H, osd, picture') /\ ~outside'
    BY <1>0, <1>7, <2>1, Nv12Holds DEF FramesInv
  <2> QED
    BY <1>0, <2>1, <2>2, SizesStay DEF FramesInv, Raw
<1>8. CASE UNCHANGED framesVars
  <2>1. /\ shape' = shape /\ osd' = osd /\ picture' = picture /\ outside' = outside
        /\ stage' = stage
    BY <1>8 DEF framesVars
  <2> QED
    BY <2>1, SizesStay DEF FramesInv, Raw
<1> QED
  BY <1>1, <1>2, <1>3, <1>4, <1>5, <1>6, <1>7, <1>8 DEF FramesNext

LEMMA FramesInvGives ==
    FramesInv => PixelsSurvive
<1> SUFFICES ASSUME FramesInv, shape.pitch = 2 * shape.width
             PROVE  /\ ~outside
                    /\ stage \in Raw => \A row \in GivenRows, k \in GivenBytes :
                                           Byte(1, row, k) = Yuyv(row, k)
                    /\ stage \notin Raw =>
                          /\ GivenW = W /\ GivenH = H
                          /\ \A row \in Rows, col \in Cols :
                                Byte(1, row, col) = LumaOf(InOverlay(row, col), row, col)
                          /\ \A r \in HalfRows, c \in HalfCols :
                                /\ ChromaAt(2, r, c) = ChromaOf("U", r, c)
                                /\ ChromaAt(3, r, c) = ChromaOf("V", r, c)
  <2>1. \A row, col : LumaOf(InOverlay(row, col), row, col) =
           IF InOverlay(row, col)
           THEN IF <<row - OsdArea.y, col - OsdArea.x>> \in OsdInk THEN White ELSE Black
           ELSE Camera("Y", row, col)
    BY DEF LumaOf, InOverlay
  <2> QED
    BY <2>1 DEF PixelsSurvive, ChromaOf, GivenW, GivenH
<1>0. shape \in Shapes /\ osd \in BOOLEAN /\ ~outside
  BY DEF FramesInv
<1>1. CASE stage \in Raw
  <2>1. PackedIs(GivenW, GivenH, picture)
    BY <1>1 DEF FramesInv
  <2> QED
    BY <1>0, <1>1, <2>1, PackedBytes
<1>2. CASE stage \notin Raw
  <2> DEFINE over == stage # "converted" /\ osd
  <2>1. \A row \in Rows, col \in Cols : Byte(1, row, col) = LumaOf(over, row, col)
    <3>1. CASE stage = "converted"
      <4>1. PlanarIs(W, H, FALSE, picture) /\ over = FALSE
        BY <1>0, <3>1 DEF FramesInv
      <4> QED
        BY <1>0, <4>1, PlanarBytes
    <3>2. CASE stage \in {"processed", "encoder", "viewer"}
      <4>1. PlanarIs(W, H, osd, picture) /\ over = osd
        BY <1>0, <3>2 DEF FramesInv
      <4> QED
        BY <1>0, <4>1, PlanarBytes
    <3>3. CASE stage = "detector"
      <4>1. Nv12Is(W, H, osd, picture) /\ over = osd
        BY <1>0, <3>3 DEF FramesInv
      <4> QED
        BY <1>0, <4>1, Nv12Bytes
    <3> QED
      BY <1>2, <3>1, <3>2, <3>3 DEF FramesInv
  <2>2. ASSUME NEW r \in HalfRows, NEW c \in HalfCols
        PROVE  /\ ChromaAt(2, r, c) = ChromaOf("U", r, c)
               /\ ChromaAt(3, r, c) = ChromaOf("V", r, c)
    <3>1. CASE stage # "detector"
      <4>1. PlanarIs(W, H, FALSE, picture) \/ PlanarIs(W, H, osd, picture)
        BY <1>0, <1>2, <3>1 DEF FramesInv
      <4>2. Byte(2, r, c) = ChromaOf("U", r, c) /\ Byte(3, r, c) = ChromaOf("V", r, c)
        BY <1>0, <4>1, PlanarBytes
      <4> QED
        BY <3>1, <4>2 DEF ChromaAt
    <3>2. CASE stage = "detector"
      <4>1. Nv12Is(W, H, osd, picture)
        BY <1>0, <3>2 DEF FramesInv
      <4>2. Byte(2, r, 2 * c) = ChromaOf("U", r, c) /\ Byte(2, r, 2 * c + 1) = ChromaOf("V", r, c)
        BY <1>0, <4>1, Nv12Bytes
      <4>3. 2 * c + 2 - 2 = 2 * c /\ 2 * c + 3 - 2 = 2 * c + 1
        BY DEF HalfCols
      <4> QED
        BY <3>2, <4>2, <4>3 DEF ChromaAt
    <3> QED
      BY <3>1, <3>2
  <2>3. over <=> osd /\ stage \in {"processed", "encoder", "viewer", "detector"}
    BY <1>2 DEF FramesInv
  <2>4. ASSUME NEW row \in Rows, NEW col \in Cols
        PROVE  Byte(1, row, col) = LumaOf(InOverlay(row, col), row, col)
    BY <2>1, <2>3 DEF LumaOf, InOverlay
  <2>5. GivenW = W /\ GivenH = H
    BY <1>2 DEF FramesInv
  <2> QED
    BY <1>0, <1>2, <2>2, <2>4, <2>5
<1> QED
  BY <1>1, <1>2

\* For every size of the picture asked for, every size that the driver gives
\* instead, every overlay and every way a picture goes, whoever gets it sees what
\* the camera saw, in the size asked for, and no step leaves its buffer.
THEOREM PicturesSurvive ==
    FramesSpec => []PixelsSurvive
<1> QED
  BY FramesInvInit, FramesInvStep, FramesInvGives, PTL DEF FramesSpec

=============================================================================
