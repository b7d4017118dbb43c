--------------------------- MODULE HandOffProofs ---------------------------
(***************************************************************************)
(* Theorems about HandOff and the plan it carries out: for every layout of *)
(* the windows, every size of a page and every segment table.              *)
(***************************************************************************)
EXTENDS HandOff, Integers, TLAPS, WellFoundedInduction

\* The hand-off plans as ImagePlan does, and leaves a plan that is made alone.
THEOREM HandOffPlans == Spec => PlanSpec
<1>1. Init => PlanInit
  BY DEF Init
<1>2. [Next]_vars => [PlanNext]_ivars
  BY DEF Next, vars, PlanStep, Commit, PlanNext
<1> QED BY <1>1, <1>2, PTL DEF Spec, PlanSpec
---------------------------------------------------------------------------
(* Pages *)

LEMMA ModRange == ASSUME NEW w \in Nat \ {0}, NEW a \in Nat PROVE a % w \in 0..(w - 1)
  OBVIOUS

LEMMA Quotient ==
  ASSUME NEW w \in Nat \ {0}, NEW a \in Nat
  PROVE  \E q \in Nat : a = w * q + (a % w)
<1>1. a \div w \in Nat /\ a = w * (a \div w) + (a % w)
  OBVIOUS
<1> QED BY <1>1

LEMMA Remainder ==
  ASSUME NEW w \in Nat \ {0}, NEW q \in Nat, NEW r \in Nat, r < w
  PROVE  (w * q + r) % w = r
  OBVIOUS

\* PageOf rounds down to a multiple of a page.
LEMMA PageDown ==
  ASSUME NEW a \in Nat, Page \in Nat \ {0}
  PROVE  \E q \in Nat : PageOf(a) = Page * q /\ PageOf(a) <= a /\ a < PageOf(a) + Page
<1> DEFINE r == a % Page
<1>1. PICK q \in Nat : a = Page * q + r
  BY Quotient
<1>2. r \in Nat /\ r < Page
  BY ModRange
<1>3. PageOf(a) = a - r
  BY DEF PageOf
<1>4. Page * q \in Nat
  OBVIOUS
<1> HIDE DEF r
<1>5. PageOf(a) = Page * q
  BY <1>1, <1>2, <1>3, <1>4
<1>6. PageOf(a) <= a /\ a < PageOf(a) + Page
  BY <1>2, <1>3
<1> QED BY <1>5, <1>6, Zenon

\* Of two multiples of a page, one that is less than a page above the other
\* is not above it.
LEMMA LessThanAPage ==
  ASSUME NEW w \in Nat \ {0}, NEW x \in Int, NEW y \in Int, w * x < w * y + w
  PROVE  w * x <= w * y
<1>1. CASE x <= y
  BY <1>1
<1>2. CASE x >= y + 1
  <2>1. w * x >= w * (y + 1) /\ w * (y + 1) = w * y + w
    BY <1>2
  <2> QED BY <2>1
<1> QED BY <1>1, <1>2

\* The page of an address begins as far into its window as the page of its
\* offset there does.
LEMMA PageInWindow ==
  ASSUME Page \in Nat \ {0}, Span \in Nat \ {0}, Span % Page = 0,
         NEW a \in Nat
  PROVE  \E k, q, p \in Nat :
           /\ Span * q = Page * (k * q)
           /\ a = Span * q + Linear(a)
           /\ PageOf(a) = Span * q + Page * p
           /\ Linear(PageOf(a)) = Page * p
           /\ Page * p <= Linear(a)
<1>1. PICK k \in Nat : Span = Page * k
  <2>1. PICK k \in Nat : Span = Page * k + (Span % Page)
    BY Quotient
  <2> QED BY <2>1
<1>2. PICK q \in Nat : a = Span * q + Linear(a)
  BY Quotient DEF Linear
<1>3. Linear(a) \in Nat /\ Linear(a) < Span
  BY ModRange DEF Linear
<1> DEFINE l == Linear(a)
<1>4. PICK p \in Nat : PageOf(l) = Page * p /\ PageOf(l) <= l /\ l < PageOf(l) + Page
  BY <1>3, PageDown
<1> HIDE DEF l
<1>5. Span * q = Page * (k * q) /\ k * q \in Nat
  <2>1. Span * q = (Page * k) * q
    BY <1>1
  <2>2. (Page * k) * q = Page * (k * q) /\ k * q \in Nat
    OBVIOUS
  <2> QED BY <2>1, <2>2
<1>6. PageOf(a) = Span * q + Page * p
  <2> DEFINE r == l - Page * p
  <2>1. r \in Nat /\ r < Page /\ l \in Nat
    BY <1>3, <1>4 DEF l
  <2> DEFINE m == k * q + p
  <2>2. m \in Nat /\ Page * m = Page * (k * q) + Page * p
    BY <1>5
  <2>3. a = Page * m + r
    <3>1. a = Page * (k * q) + l /\ Page * (k * q) \in Nat /\ Page * p \in Nat
      BY <1>2, <1>5 DEF l
    <3> HIDE DEF m
    <3> QED BY <2>1, <2>2, <3>1
  <2> HIDE DEF m, r
  <2>4. a % Page = r
    BY <2>1, <2>2, <2>3, Remainder
  <2>5. PageOf(a) = Page * m
    BY <2>1, <2>2, <2>3, <2>4 DEF PageOf
  <2> QED BY <1>5, <2>2, <2>5
<1>7. Linear(PageOf(a)) = Page * p
  <2>1. Page * p \in Nat /\ Page * p < Span
    BY <1>3, <1>4 DEF l
  <2> QED BY <1>6, <2>1, Remainder DEF Linear
<1>8. Page * p <= Linear(a)
  BY <1>4 DEF l
<1> QED BY <1>2, <1>5, <1>6, <1>7, <1>8

\* A mapping shows no memory beyond that of its segment, up to a page.
LEMMA MappingInBounds ==
  ASSUME Page \in Nat \ {0}, Span \in Nat \ {0}, Span % Page = 0,
         NEW a \in Nat, NEW len \in Nat \ {0}, NEW y \in Nat,
         Linear(a) + len <= Page * y
  PROVE  Linear(PageOf(a)) + (PageOf(a + len + Page - 2) - PageOf(a)) <= Page * y
<1>1. PICK k, q, p \in Nat :
        /\ Span * q = Page * (k * q)
        /\ a = Span * q + Linear(a)
        /\ PageOf(a) = Span * q + Page * p
        /\ Linear(PageOf(a)) = Page * p
        /\ Page * p <= Linear(a)
  BY PageInWindow, Zenon
<1>2. Linear(a) \in Nat
  BY ModRange DEF Linear
<1> DEFINE l == Linear(a)
           e == a + len + Page - 2
<1>3. e \in Nat
  OBVIOUS
<1>4. PICK t \in Nat : PageOf(e) = Page * t /\ PageOf(e) <= e
  BY <1>3, PageDown
<1>5. k * q \in Nat /\ Page * (t - k * q) = Page * t - Page * (k * q) /\ t - k * q \in Int
  <2>1. k * q \in Nat
    OBVIOUS
  <2> QED BY <2>1
<1> HIDE DEF l
<1>6. Page * (t - k * q) < Page * y + Page
  <2>1. Page * t <= Span * q + l + len + Page - 2
    BY <1>1, <1>4 DEF l
  <2>2. l + len <= Page * y
    BY DEF l
  <2>3. Span * q \in Nat /\ Page * y \in Nat /\ l \in Nat /\ Page * t \in Nat
    BY <1>2 DEF l
  <2> QED BY <1>1, <1>5, <2>1, <2>2, <2>3
<1>7. Page * (t - k * q) <= Page * y
  BY <1>5, <1>6, LessThanAPage
<1>8. Page * p \in Nat /\ Span * q \in Nat /\ Page * t \in Nat
  OBVIOUS
<1> QED BY <1>1, <1>4, <1>5, <1>7, <1>8
---------------------------------------------------------------------------
(* The plan *)

LEMMA TheSizes ==
  /\ Page \in Nat \ {0, 1} /\ Span \in Nat \ {0} /\ Span % Page = 0
  /\ HdrLen \in Nat \ {0} /\ SegHdrLen \in Nat /\ MaxSegments \in Nat /\ MaxMappings \in Nat
  /\ MaxCopies \in Nat /\ MaxData \in Nat /\ Zero \notin Nat
  /\ HdrLen + SegHdrLen <= Page
  /\ \A c \in Chips : JmpZone[c] \in Nat \X Nat
  BY PlanAssumption

Segments == [addr : Nat, len : Nat]

LEMMA TablesAreSequences == Tables \subseteq Seq(Segments)
<1> SUFFICES ASSUME NEW segs \in Tables PROVE segs \in Seq(Segments)
  OBVIOUS
<1>1. PICK m \in 0..MaxSegments : segs \in [1..m -> [addr : UNION {Addrs[c] : c \in Chips}, len : Lens]]
  BY DEF Tables, TablesOver
<1>2. UNION {Addrs[c] : c \in Chips} \subseteq Nat /\ Lens \subseteq Nat
  BY PlanAssumption
<1>3. [addr : UNION {Addrs[c] : c \in Chips}, len : Lens] \subseteq Segments
  BY <1>2 DEF Segments
<1>4. segs \in [1..m -> Segments]
  BY <1>1, <1>3
<1>5. m \in Nat
  OBVIOUS
<1> QED BY <1>4, <1>5

LEMMA TablesOfAChip == \A c \in Chips : TablesOver(Addrs[c]) \subseteq Tables
<1> SUFFICES ASSUME NEW c \in Chips, NEW m \in 0..MaxSegments,
                    NEW segs \in [1..m -> [addr : Addrs[c], len : Lens]]
             PROVE  segs \in Tables
  BY DEF TablesOver
<1>1. Addrs[c] \subseteq UNION {Addrs[d] : d \in Chips}
  OBVIOUS
<1>2. [addr : Addrs[c], len : Lens] \subseteq [addr : UNION {Addrs[d] : d \in Chips}, len : Lens]
  BY <1>1
<1>3. segs \in [1..m -> [addr : UNION {Addrs[d] : d \in Chips}, len : Lens]]
  BY <1>2
<1> QED BY <1>3 DEF Tables, TablesOver
---------------------------------------------------------------------------
(* Recursive functions *)

\* Induction over the natural numbers, of a set.
LEMMA SetInduction ==
  ASSUME NEW S, 0 \in S, \A n \in Nat : n \in S => n + 1 \in S
  PROVE  Nat \subseteq S
<1> DEFINE R == {ss \in Nat \X Nat : ss[1] < ss[2]}
           T == {n \in Nat : n \notin S}
<1>1. IsWellFoundedOn(R, Nat)
  BY NatLessThanWellFounded DEF OpToRel
<1>2. SUFFICES ASSUME T # {} PROVE FALSE
  OBVIOUS
<1>3. PICK x \in T : \A y \in T : ~(<<y, x>> \in R)
  <2>1. T \subseteq Nat
    OBVIOUS
  <2> HIDE DEF T, R
  <2> QED BY <1>1, <1>2, <2>1, WFMin
<1>4. x # 0 /\ x - 1 \in Nat /\ x - 1 + 1 = x
  BY <1>3
<1>5. x - 1 \in S
  <2>1. <<x - 1, x>> \in R
    BY <1>3, <1>4
  <2> QED BY <1>3, <1>4, <2>1
<1> QED BY <1>3, <1>4, <1>5

LEMMA DataAtExists ==
  ASSUME NEW segs \in Seq(Segments)
  PROVE  \E f : f = [k \in 1..(Len(segs) + 1) |->
                       IF k = 1 THEN HdrLen + SegHdrLen
                       ELSE f[k - 1] + segs[k - 1].len + SegHdrLen]
<1> DEFINE Is(f, n) == f = [k \in 1..n |-> IF k = 1 THEN HdrLen + SegHdrLen
                                           ELSE f[k - 1] + segs[k - 1].len + SegHdrLen]
           S == {n \in Nat : \E f : Is(f, n)}
<1>1. 0 \in S
  <2>1. Is([k \in 1..0 |-> 0], 0)
    OBVIOUS
  <2> QED BY <2>1
<1>2. ASSUME NEW n \in Nat, n \in S PROVE n + 1 \in S
  <2>1. PICK f : Is(f, n)
    BY <1>2
  <2> DEFINE g == [k \in 1..(n + 1) |-> IF k = 1 THEN HdrLen + SegHdrLen
                                        ELSE f[k - 1] + segs[k - 1].len + SegHdrLen]
  <2>2. \A k \in 1..n : g[k] = f[k]
    BY <2>1
  <2>3. g = [k \in 1..(n + 1) |-> IF k = 1 THEN HdrLen + SegHdrLen
                                  ELSE g[k - 1] + segs[k - 1].len + SegHdrLen]
    <3>1. \A k \in 1..(n + 1) : k # 1 => k - 1 \in 1..n
      OBVIOUS
    <3>2. \A k \in 1..(n + 1) : g[k] = IF k = 1 THEN HdrLen + SegHdrLen
                                       ELSE f[k - 1] + segs[k - 1].len + SegHdrLen
      OBVIOUS
    <3>3. \A k \in 1..(n + 1) : g[k] = IF k = 1 THEN HdrLen + SegHdrLen
                                       ELSE g[k - 1] + segs[k - 1].len + SegHdrLen
      BY <2>2, <3>1, <3>2
    <3>4. g = [k \in 1..(n + 1) |-> g[k]]
      OBVIOUS
    <3> DEFINE h == [k \in 1..(n + 1) |-> IF k = 1 THEN HdrLen + SegHdrLen
                                          ELSE g[k - 1] + segs[k - 1].len + SegHdrLen]
    <3> HIDE DEF g
    <3>5. \A k \in 1..(n + 1) : g[k] = h[k]
      BY <3>3
    <3>6. h = [k \in 1..(n + 1) |-> h[k]]
      OBVIOUS
    <3> HIDE DEF h
    <3>7. g = h
      BY <3>4, <3>5, <3>6
    <3> QED BY <3>7 DEF h
  <2> HIDE DEF g
  <2>4. Is(g, n + 1)
    BY <2>3
  <2> HIDE DEF Is
  <2> QED BY <2>4
<1> HIDE DEF S
<1>3. Nat \subseteq S
  BY <1>1, <1>2, SetInduction
<1>4. Len(segs) + 1 \in S
  BY <1>3
<1> QED BY <1>4 DEF S

LEMMA DataAtStep ==
  ASSUME NEW segs \in Seq(Segments), NEW k \in 1..(Len(segs) + 1)
  PROVE  DataAt(segs)[k] = IF k = 1 THEN HdrLen + SegHdrLen
                           ELSE DataAt(segs)[k - 1] + segs[k - 1].len + SegHdrLen
<1> DEFINE at == DataAt(segs)
<1>1. at = [j \in 1..(Len(segs) + 1) |->
                  IF j = 1 THEN HdrLen + SegHdrLen
                  ELSE at[j - 1] + segs[j - 1].len + SegHdrLen]
  BY DataAtExists DEF DataAt
<1> HIDE DEF at
<1>2. at[k] = IF k = 1 THEN HdrLen + SegHdrLen
                  ELSE at[k - 1] + segs[k - 1].len + SegHdrLen
  BY <1>1
<1> QED BY <1>2 DEF at

\* Data begins behind the headers.
LEMMA DataAtNat ==
  ASSUME NEW segs \in Seq(Segments), NEW k \in 1..(Len(segs) + 1)
  PROVE  DataAt(segs)[k] \in Nat /\ DataAt(segs)[k] >= HdrLen + SegHdrLen
<1> DEFINE Fits(n) == n + 1 <= Len(segs) + 1 =>
                        DataAt(segs)[n + 1] \in Nat /\ DataAt(segs)[n + 1] >= HdrLen + SegHdrLen
           S == {n \in Nat : Fits(n)}
<1> USE TheSizes
<1>0. Len(segs) \in Nat
  OBVIOUS
<1>1. 0 \in S
  <2>1. DataAt(segs)[1] = HdrLen + SegHdrLen
    BY <1>0, DataAtStep
  <2> QED BY <2>1
<1>2. ASSUME NEW n \in Nat, n \in S PROVE n + 1 \in S
  <2> SUFFICES ASSUME n + 1 + 1 <= Len(segs) + 1 PROVE Fits(n + 1)
    OBVIOUS
  <2>1. DataAt(segs)[n + 1] \in Nat /\ DataAt(segs)[n + 1] >= HdrLen + SegHdrLen
    BY <1>0, <1>2
  <2>2. n + 1 + 1 \in 1..(Len(segs) + 1) /\ n + 1 + 1 # 1 /\ n + 1 + 1 - 1 = n + 1
    BY <1>0
  <2>3. DataAt(segs)[n + 1 + 1] = DataAt(segs)[n + 1] + segs[n + 1].len + SegHdrLen
    BY <2>2, DataAtStep
  <2>4. segs[n + 1].len \in Nat
    <3>1. n + 1 \in 1..Len(segs)
      BY <1>0
    <3>2. segs[n + 1] \in Segments
      BY <3>1
    <3> QED BY <3>2 DEF Segments
  <2> QED BY <2>1, <2>3, <2>4
<1> HIDE DEF S
<1>3. Nat \subseteq S
  BY <1>1, <1>2, SetInduction
<1>4. k - 1 \in S /\ k - 1 + 1 = k
  BY <1>0, <1>3
<1> QED BY <1>0, <1>4 DEF S

\* An image has a size, also without its last byte.
LEMMA EndIsSize ==
  ASSUME NEW segs \in Seq(Segments), NEW cut \in {0, 1}
  PROVE  EndOf(segs) - cut \in Nat
<1>1. Len(segs) + 1 \in 1..(Len(segs) + 1)
  OBVIOUS
<1>2. DataAt(segs)[Len(segs) + 1] \in Nat /\ DataAt(segs)[Len(segs) + 1] >= HdrLen + SegHdrLen
  BY <1>1, DataAtNat
<1> QED BY <1>2, TheSizes DEF EndOf
---------------------------------------------------------------------------
(* The invariant of the plan *)

Counted ==
  /\ image.count \in {Len(image.segs), MaxSegments + 1}
  /\ pass \notin {"header", "halt"} => image.count \in 1..MaxSegments

\* The staging buffer is measured in whole pages before it is used.
Measured ==
  /\ pass \in {"header", "measure"} => maxOff <= Span + MaxData
  /\ pass = "place" => \E y \in Nat : maxOff = Page * y

PlanTypes ==
  /\ chip \in Chips
  /\ image \in Images
  /\ pass \in {"header", "measure", "place", "done", "halt"}
  /\ i \in 1..(MaxSegments + 1)
  /\ offset \in Nat /\ offset >= HdrLen
  /\ maxOff \in 0..(Span + MaxData + Page)
  /\ pass = "place" => fake \in [0..(maxOff - 1) -> 0..image.size \cup {Zero}]
  /\ maps \in Seq([vaddr : Nat, len : Nat, paddr : Nat]) /\ Len(maps) <= MaxMappings
  /\ copies \in Seq([dest : Nat, src : Nat, len : Nat]) /\ Len(copies) <= MaxCopies

PlanInv ==
  /\ PlanTypes
  /\ Counted
  /\ Measured
  /\ pass \in {"header", "measure"} => maps = <<>> /\ copies = <<>>
  /\ PlanStaysInBounds
  /\ CopiesMissJmpZone

LEMMA InitPlan == PlanInit => PlanInv
<1> SUFFICES ASSUME PlanInit PROVE PlanInv
  OBVIOUS
<1> USE TheSizes
<1>1. /\ chip \in Chips /\ pass = "header" /\ i = 1 /\ offset = HdrLen /\ maxOff = 0
      /\ fake = <<>> /\ maps = <<>> /\ copies = <<>>
  BY DEF PlanInit
<1>2. image \in Images /\ image.count \in {Len(image.segs), MaxSegments + 1}
  <2>1. CASE \E segs \in TablesOver(Addrs[chip]), cut \in {0, 1} :
               image = [count |-> Len(segs), segs |-> segs, size |-> EndOf(segs) - cut]
    <3>1. PICK segs \in TablesOver(Addrs[chip]), cut \in {0, 1} :
            image = [count |-> Len(segs), segs |-> segs, size |-> EndOf(segs) - cut]
      BY <2>1
    <3>2. segs \in Tables /\ segs \in Seq(Segments)
      BY <1>1, TablesOfAChip, TablesAreSequences
    <3>3. Len(segs) \in Nat
      BY <3>2
    <3>4. EndOf(segs) - cut \in Nat
      BY <3>2, EndIsSize
    <3> QED BY <3>1, <3>2, <3>3, <3>4 DEF Images
  <2>2. CASE image = [count |-> MaxSegments + 1, segs |-> <<>>, size |-> HdrLen]
    <3>1. <<>> \in Tables
      <4>1. <<>> \in [1..0 -> [addr : UNION {Addrs[c] : c \in Chips}, len : Lens]]
        OBVIOUS
      <4>2. 0 \in 0..MaxSegments
        OBVIOUS
      <4> QED BY <4>1, <4>2 DEF Tables, TablesOver
    <3> QED BY <2>2, <3>1 DEF Images
  <2> QED BY <2>1, <2>2 DEF PlanInit
<1> QED BY <1>1, <1>2
        DEF PlanInv, PlanTypes, Counted, Measured, PlanStaysInBounds, CopiesMissJmpZone

LEMMA TheSegment ==
  ASSUME PlanInv, pass \in {"measure", "place"}, i <= image.count
  PROVE  Seg.addr \in Nat /\ Seg.len \in Nat /\ image.size \in Nat
         /\ i < MaxSegments + 1 /\ i + 1 \in 1..(MaxSegments + 1)
<1> USE TheSizes
<1>1. image \in Images /\ i \in 1..(MaxSegments + 1)
  BY DEF PlanInv, PlanTypes
<1>2. image.segs \in Seq(Segments) /\ image.size \in Nat
  BY <1>1, TablesAreSequences DEF Images
<1>3. image.count \in 1..MaxSegments /\ image.count \in {Len(image.segs), MaxSegments + 1}
  BY DEF PlanInv, Counted
<1>4. i \in 1..Len(image.segs) /\ i < MaxSegments + 1
  BY <1>1, <1>2, <1>3
<1>5. Seg \in Segments
  BY <1>2, <1>4 DEF Seg
<1> QED BY <1>1, <1>2, <1>4, <1>5 DEF Segments

LEMMA PageFits ==
  ASSUME NEW a \in Nat
  PROVE  /\ PageOf(a) \in Nat /\ PageOf(a) <= a
         /\ Linear(a) \in Nat /\ Linear(a) < Span
         /\ RoundUp(a) \in Nat /\ RoundUp(a) < a + Page
         /\ \E y \in Nat : RoundUp(a) = Page * y
<1> USE TheSizes
<1>1. PICK q \in Nat : PageOf(a) = Page * q /\ PageOf(a) <= a
  BY PageDown
<1>2. PageOf(a) \in Nat
  BY <1>1
<1>3. a + Page - 1 \in Nat
  OBVIOUS
<1>4. PICK y \in Nat : PageOf(a + Page - 1) = Page * y /\ PageOf(a + Page - 1) <= a + Page - 1
  BY <1>3, PageDown
<1>5. Page * y \in Nat
  OBVIOUS
<1>6. RoundUp(a) = Page * y /\ RoundUp(a) <= a + Page - 1
  BY <1>4 DEF RoundUp
<1>7. RoundUp(a) \in Nat /\ RoundUp(a) < a + Page
  BY <1>5, <1>6
<1>8. \E z \in Nat : RoundUp(a) = Page * z
  BY <1>6
<1>9. Linear(a) \in Nat /\ Linear(a) < Span
  BY ModRange DEF Linear
<1> QED BY <1>1, <1>2, <1>7, <1>8, <1>9

\* The page of an address begins at the page of its offset in the window.
LEMMA LinearOfPage ==
  ASSUME NEW a \in Nat
  PROVE  Linear(PageOf(a)) <= Linear(a)
<1>1. PICK p \in Nat : Linear(PageOf(a)) = Page * p /\ Page * p <= Linear(a)
  BY TheSizes, PageInWindow
<1> QED BY <1>1

\* A copy that does not meet the jump zone as the code looks at it has no
\* byte in it.
LEMMA MissesJmpZone ==
  ASSUME chip \in Chips, Seg.addr \in Nat, Seg.len \in Nat, ~MeetsJmpZone
  PROVE  \A b \in 0..(Seg.len - 1) : ~In(Seg.addr + b, JmpZone[chip])
<1>1. JmpZone[chip] \in Nat \X Nat
  BY TheSizes
<1>2. JmpZone[chip][1] \in Nat /\ JmpZone[chip][2] \in Nat
  BY <1>1
<1> QED BY <1>2 DEF MeetsJmpZone, In

LEMMA MappingTypes ==
  ASSUME Seg.addr \in Nat, Seg.len \in Nat
  PROVE  Mapping \in [vaddr : Nat, len : Nat, paddr : Nat]
<1> USE TheSizes
<1> DEFINE from == PageOf(Seg.addr)
           e == Seg.addr + Seg.len + Page - 2
<1>1. from \in Nat /\ Linear(from) \in Nat
  BY PageFits
<1>2. CASE Seg.len = 0
  <2>1. Mapping = [vaddr |-> from, len |-> from - from, paddr |-> Linear(from)]
    BY <1>2 DEF Mapping
  <2> HIDE DEF from
  <2>2. from - from = 0
    BY <1>1
  <2> QED BY <1>1, <2>1, <2>2
<1>3. CASE Seg.len # 0
  <2>1. e \in Nat /\ e >= Seg.addr + Page - 1
    BY <1>3
  <2>2. PICK q \in Nat : PageOf(e) = Page * q /\ e < PageOf(e) + Page
    BY <2>1, PageDown
  <2>3. PICK p \in Nat : from = Page * p /\ from <= Seg.addr
    BY PageDown
  <2> HIDE DEF from, e
  <2>4. Page * p < Page * q + Page
    <3>1. Page * q \in Nat /\ Page * p \in Nat
      OBVIOUS
    <3> QED BY <2>1, <2>2, <2>3, <3>1
  <2>5. Page * p <= Page * q
    BY <2>4, LessThanAPage
  <2>6. PageOf(e) - from \in Nat
    <3>1. Page * q \in Nat /\ Page * p \in Nat
      OBVIOUS
    <3> QED BY <2>2, <2>3, <2>5, <3>1
  <2>7. Mapping = [vaddr |-> from, len |-> PageOf(e) - from, paddr |-> Linear(from)]
    BY <1>3 DEF Mapping, from, e
  <2> QED BY <1>1, <2>6, <2>7
<1> QED BY <1>2, <1>3

\* The staging buffer holds bytes of the image.
LEMMA StagesImage ==
  ASSUME PlanInv, pass = "place", i <= image.count, SegmentReadable
  PROVE  Stamped \in [0..(maxOff - 1) -> 0..image.size \cup {Zero}]
<1> USE TheSizes
<1>1. Seg.addr \in Nat /\ Seg.len \in Nat /\ image.size \in Nat
  BY TheSegment
<1>2. /\ fake \in [0..(maxOff - 1) -> 0..image.size \cup {Zero}]
      /\ offset \in Nat /\ offset >= HdrLen /\ maxOff \in Nat
  BY DEF PlanInv, PlanTypes
<1>3. /\ Cursor \in Nat /\ Cursor >= HdrLen + SegHdrLen
      /\ Cursor + Seg.len <= image.size
  BY <1>1, <1>2 DEF SegmentReadable, Cursor
<1>4. Linear(Seg.addr) \in Nat /\ PageOf(Linear(Seg.addr)) \in Nat
  BY <1>1, PageFits
<1>5. ASSUME NEW o \in 0..(maxOff - 1) PROVE Staged[o] \in 0..image.size \cup {Zero}
  <2>1. DOMAIN fake = 0..(maxOff - 1) /\ fake[o] \in 0..image.size \cup {Zero}
    BY <1>2
  <2> DEFINE at == Linear(Seg.addr)
  <2>2. Staged[o] = IF at <= o /\ o < at + Seg.len THEN Cursor + (o - at) ELSE fake[o]
    BY <2>1 DEF Staged
  <2> HIDE DEF at
  <2>3. CASE at <= o /\ o < at + Seg.len
    <3>1. at \in Nat
      BY <1>4 DEF at
    <3>2. Cursor + (o - at) \in 0..image.size
      BY <1>1, <1>3, <2>3, <3>1
    <3> QED BY <2>2, <2>3, <3>2
  <2>4. CASE ~(at <= o /\ o < at + Seg.len)
    BY <2>1, <2>2, <2>4
  <2> QED BY <2>3, <2>4
<1>6. ASSUME NEW o \in 0..(maxOff - 1) PROVE Stamped[o] \in 0..image.size \cup {Zero}
  <2> DEFINE from == PageOf(Linear(Seg.addr))
             fits == BacksFirstPage /\ from <= o /\ o < from + HdrLen + SegHdrLen
  <2>1. Stamped[o] = IF fits THEN o - from ELSE Staged[o]
    BY <1>2, Zenon DEF Stamped
  <2>2. CASE fits
    <3>1. o - from \in 0..image.size
      BY <1>1, <1>3, <1>4, <2>2
    <3> QED BY <2>1, <2>2, <3>1
  <2>3. CASE ~fits
    BY <1>5, <2>1, <2>3, Zenon
  <2> QED BY <2>2, <2>3
<1>7. Stamped = [o \in 0..(maxOff - 1) |-> Stamped[o]]
  BY <1>2, Zenon DEF Stamped
<1> QED BY <1>6, <1>7

LEMMA Appended ==
  ASSUME NEW S, NEW s \in Seq(S), NEW x \in S, NEW s2, s2 = Append(s, x)
  PROVE  /\ s2 \in Seq(S) /\ Len(s) \in Nat /\ Len(s2) = Len(s) + 1
         /\ \A k \in DOMAIN s2 : s2[k] = x \/ (k \in DOMAIN s /\ s2[k] = s[k])
<1>1. /\ s2 \in Seq(S) /\ Len(s2) = Len(s) + 1
      /\ \A k \in 1..Len(s) : s2[k] = s[k]
      /\ s2[Len(s) + 1] = x
  OBVIOUS
<1>2. Len(s) \in Nat /\ DOMAIN s = 1..Len(s) /\ DOMAIN s2 = 1..Len(s2)
  BY <1>1
<1> QED BY <1>1, <1>2

LEMMA CursorMoves ==
  ASSUME NEW h \in Nat, NEW o \in Nat, NEW a \in Nat, NEW l \in Nat, o >= h
  PROVE  o + a + l \in Nat /\ o + a + l >= h
  OBVIOUS

LEMMA StepPlan == PlanInv /\ [PlanNext]_ivars => PlanInv'
<1> SUFFICES ASSUME PlanInv, [PlanNext]_ivars PROVE PlanInv'
  OBVIOUS
<1> USE TheSizes
<1>0. PlanTypes /\ Counted /\ Measured /\ PlanStaysInBounds /\ CopiesMissJmpZone
      /\ (pass \in {"header", "measure"} => maps = <<>> /\ copies = <<>>)
  BY DEF PlanInv
<1>1. CASE UNCHANGED ivars
  BY <1>0, <1>1 DEF ivars, PlanInv, PlanTypes, Counted, Measured, PlanStaysInBounds,
                    CopiesMissJmpZone
<1>2. CASE CheckHeader
  <2>1. pass = "header" /\ UNCHANGED <<chip, image, i, offset, maxOff, fake, maps, copies, lastPage>>
    BY <1>2 DEF CheckHeader
  <2>2. pass' = "halt" \/ (pass' = "measure" /\ image.count \in 1..MaxSegments)
    BY <1>2, Zenon DEF CheckHeader, Halt
  <2> QED BY <1>0, <2>1, <2>2 DEF PlanInv, PlanTypes, Counted, Measured, PlanStaysInBounds,
                                  CopiesMissJmpZone
<1>3. CASE Measure
  <2>1. pass = "measure" /\ i <= image.count /\ UNCHANGED <<chip, image, fake, maps, copies, lastPage>>
    BY <1>3 DEF Measure
  <2>2. Seg.addr \in Nat /\ Seg.len \in Nat /\ image.size \in Nat /\ i + 1 \in 1..(MaxSegments + 1)
    BY <2>1, TheSegment
  <2>3. CASE ~SegmentReadable
    <3>1. pass' = "halt" /\ UNCHANGED <<i, offset, maxOff>>
      BY <1>3, <2>3, Zenon DEF Measure, Halt
    <3> QED BY <1>0, <2>1, <3>1 DEF PlanInv, PlanTypes, Counted, Measured, PlanStaysInBounds,
                                    CopiesMissJmpZone
  <2>4. CASE SegmentReadable
    <3>1. /\ maxOff' = IF IsMapped(Seg.addr) THEN Larger(maxOff, Linear(Seg.addr) + Seg.len) ELSE maxOff
          /\ offset' = Cursor + Seg.len /\ i' = i + 1 /\ pass' = pass
      BY <1>3, <2>4, Zenon DEF Measure
    <3>2. Seg.len <= MaxData
      BY <2>4 DEF SegmentReadable
    <3>3. Linear(Seg.addr) \in Nat /\ Linear(Seg.addr) < Span
      BY <2>2, PageFits
    <3>4. maxOff \in Nat /\ maxOff <= Span + MaxData
      BY <1>0, <2>1 DEF PlanTypes, Measured
    <3> DEFINE l == Linear(Seg.addr)
    <3>5. l + Seg.len \in Nat /\ l + Seg.len <= Span + MaxData
      BY <2>2, <3>2, <3>3
    <3>6. maxOff' \in {maxOff, l + Seg.len}
      BY <3>1 DEF Larger
    <3> HIDE DEF l
    <3>7. maxOff' \in Nat /\ maxOff' <= Span + MaxData
      BY <3>4, <3>5, <3>6
    <3>8. offset' \in Nat /\ offset' >= HdrLen
      <4>1. offset \in Nat /\ offset >= HdrLen
        BY <1>0 DEF PlanTypes
      <4> QED BY <2>2, <3>1, <4>1 DEF Cursor
    <3>9. maxOff' \in 0..(Span + MaxData + Page)
      BY <3>7
    <3> QED BY <1>0, <2>1, <2>2, <3>1, <3>7, <3>8, <3>9
            DEF PlanInv, PlanTypes, Counted, Measured, PlanStaysInBounds, CopiesMissJmpZone
  <2> QED BY <2>3, <2>4
<1>4. CASE Allocate
  <2>1. /\ pass = "measure" /\ UNCHANGED <<chip, image, maps, copies, lastPage>>
        /\ maxOff' = RoundUp(maxOff)
    BY <1>4 DEF Allocate
  <2>2. maxOff \in Nat /\ maxOff <= Span + MaxData /\ maps = <<>> /\ copies = <<>>
    BY <1>0, <2>1 DEF PlanTypes, Measured
  <2>3. maxOff' \in Nat /\ maxOff' <= Span + MaxData + Page /\ \E y \in Nat : maxOff' = Page * y
    <3>1. RoundUp(maxOff) \in Nat /\ RoundUp(maxOff) < maxOff + Page
          /\ \E y \in Nat : RoundUp(maxOff) = Page * y
      BY <2>2, PageFits
    <3> HIDE DEF RoundUp
    <3> QED BY <2>1, <2>2, <3>1
  <2>4. \/ pass' = "place" /\ fake' = [o \in 0..(maxOff' - 1) |-> Zero] /\ i' = 1 /\ offset' = HdrLen
        \/ pass' = "halt" /\ UNCHANGED <<fake, i, offset>>
    BY <1>4 DEF Allocate, Halt
  <2>5. pass' = "place" => fake' \in [0..(maxOff' - 1) -> 0..image.size \cup {Zero}]
    BY <2>4
  <2>6. image \in Images /\ chip \in Chips /\ i \in 1..(MaxSegments + 1) /\ offset \in Nat
        /\ offset >= HdrLen
    BY <1>0 DEF PlanTypes
  <2>7. PlanTypes'
    BY <2>1, <2>2, <2>3, <2>4, <2>5, <2>6 DEF PlanTypes
  <2>8. Counted' /\ Measured'
    BY <1>0, <2>1, <2>3, <2>4 DEF Counted, Measured
  <2>9. PlanStaysInBounds' /\ CopiesMissJmpZone'
    BY <2>1, <2>2 DEF PlanStaysInBounds, CopiesMissJmpZone
  <2> QED BY <2>4, <2>7, <2>8, <2>9 DEF PlanInv
<1>5. CASE PlaceMapped
  <2>1. /\ pass = "place" /\ i <= image.count /\ SegmentReadable
        /\ UNCHANGED <<chip, image, maxOff, copies>>
    BY <1>5 DEF PlaceMapped
  <2>2. Seg.addr \in Nat /\ Seg.len \in Nat /\ image.size \in Nat /\ i + 1 \in 1..(MaxSegments + 1)
    BY <2>1, TheSegment
  <2>3. CASE MappingsFull \/ Linear(Seg.addr) + Seg.len > maxOff
    <3>1. pass' = "halt" /\ UNCHANGED <<i, offset, fake, maps, lastPage>>
      BY <1>5, <2>3, Zenon DEF PlaceMapped, HaltHere, Halt
    <3> QED BY <1>0, <2>1, <3>1 DEF PlanInv, PlanTypes, Counted, Measured, PlanStaysInBounds,
                                    CopiesMissJmpZone
  <2>4. CASE ~(MappingsFull \/ Linear(Seg.addr) + Seg.len > maxOff)
    <3>1. /\ maps' = Append(maps, Mapping) /\ fake' = Stamped
          /\ i' = i + 1 /\ offset' = Cursor + Seg.len /\ pass' = pass
      BY <1>5, <2>4, Zenon DEF PlaceMapped, NextSegment
    <3>2. Mapping \in [vaddr : Nat, len : Nat, paddr : Nat]
      BY <2>2, MappingTypes
    <3>3. maps \in Seq([vaddr : Nat, len : Nat, paddr : Nat]) /\ Len(maps) < MaxMappings
      BY <1>0, <2>4 DEF MappingsFull, PlanTypes
    <3>4. maps' \in Seq([vaddr : Nat, len : Nat, paddr : Nat]) /\ Len(maps') <= MaxMappings
      <4>1. maps' \in Seq([vaddr : Nat, len : Nat, paddr : Nat]) /\ Len(maps') = Len(maps) + 1
            /\ Len(maps) \in Nat
        BY <3>1, <3>2, <3>3, Appended
      <4> QED BY <3>3, <4>1
    <3>5. fake' \in [0..(maxOff' - 1) -> 0..image.size \cup {Zero}]
      BY <2>1, <3>1, StagesImage
    <3>6. offset' \in Nat /\ offset' >= HdrLen
      <4>1. offset \in Nat /\ offset >= HdrLen
        BY <1>0 DEF PlanTypes
      <4>2. offset' = offset + SegHdrLen + Seg.len
        BY <3>1 DEF Cursor
      <4>3. SegHdrLen \in Nat /\ HdrLen \in Nat
        BY TheSizes
      <4> QED BY <2>2, <4>1, <4>2, <4>3, CursorMoves
    <3>7. PlanTypes'
      BY <1>0, <2>1, <2>2, <3>1, <3>4, <3>5, <3>6 DEF PlanTypes
    <3>8. Mapping.paddr + Mapping.len <= maxOff
      <4>1. PICK y \in Nat : maxOff = Page * y
        BY <1>0, <2>1 DEF Measured
      <4>2. Linear(Seg.addr) + Seg.len <= Page * y
        <5>1. Linear(Seg.addr) \in Nat
          BY <2>2, PageFits
        <5>2. Page * y \in Nat
          OBVIOUS
        <5> QED BY <2>2, <2>4, <4>1, <5>1, <5>2
      <4>3. CASE Seg.len = 0
        <5>1. Mapping.len = PageOf(Seg.addr) - PageOf(Seg.addr) /\ Mapping.paddr = Linear(PageOf(Seg.addr))
          BY <4>3 DEF Mapping
        <5>2. PageOf(Seg.addr) \in Nat /\ Linear(PageOf(Seg.addr)) \in Nat
          BY <2>2, PageFits
        <5>3. Linear(PageOf(Seg.addr)) <= Linear(Seg.addr)
          BY <2>2, LinearOfPage
        <5>4. Linear(Seg.addr) \in Nat
          BY <2>2, PageFits
        <5> HIDE DEF Mapping
        <5> QED BY <4>1, <4>2, <4>3, <5>1, <5>2, <5>3, <5>4
      <4>4. CASE Seg.len # 0
        <5>1. /\ Mapping.len = PageOf(Seg.addr + Seg.len + Page - 2) - PageOf(Seg.addr)
              /\ Mapping.paddr = Linear(PageOf(Seg.addr))
          BY <4>4 DEF Mapping
        <5>2. Linear(PageOf(Seg.addr)) + (PageOf(Seg.addr + Seg.len + Page - 2) - PageOf(Seg.addr))
                <= Page * y
          BY <2>2, <4>2, <4>4, MappingInBounds
        <5> QED BY <4>1, <5>1, <5>2
      <4> QED BY <4>3, <4>4
    <3>9. PlanStaysInBounds'
      <4>1. \A k \in DOMAIN maps' : maps'[k] = Mapping \/ (k \in DOMAIN maps /\ maps'[k] = maps[k])
        <5> DEFINE R == [vaddr : Nat, len : Nat, paddr : Nat]
                   new == maps'
        <5>1. maps \in Seq(R) /\ Mapping \in R /\ new = Append(maps, Mapping)
          BY <3>1, <3>2, <3>3
        <5> HIDE DEF R, new
        <5>2. \A k \in DOMAIN new : new[k] = Mapping \/ (k \in DOMAIN maps /\ new[k] = maps[k])
          BY <5>1, Appended
        <5> QED BY <5>2 DEF new
      <4> QED BY <1>0, <2>1, <3>8, <4>1 DEF PlanStaysInBounds
    <3>10. Counted' /\ Measured' /\ CopiesMissJmpZone'
      BY <1>0, <2>1, <3>1 DEF Counted, Measured, CopiesMissJmpZone
    <3> QED BY <2>1, <3>1, <3>7, <3>9, <3>10 DEF PlanInv
  <2> QED BY <2>3, <2>4
<1>6. CASE PlaceDirect
  <2>1. /\ pass = "place" /\ i <= image.count /\ SegmentReadable
        /\ UNCHANGED <<chip, image, maxOff, fake, maps, lastPage>>
    BY <1>6 DEF PlaceDirect
  <2>2. Seg.addr \in Nat /\ Seg.len \in Nat /\ image.size \in Nat /\ i + 1 \in 1..(MaxSegments + 1)
    BY <2>1, TheSegment
  <2>3. CASE Len(copies) >= MaxCopies \/ MeetsJmpZone
    <3>1. pass' = "halt" /\ UNCHANGED <<i, offset, copies>>
      BY <1>6, <2>3, Zenon DEF PlaceDirect, HaltHere, Halt
    <3> QED BY <1>0, <2>1, <3>1 DEF PlanInv, PlanTypes, Counted, Measured, PlanStaysInBounds,
                                    CopiesMissJmpZone
  <2>4. CASE ~(Len(copies) >= MaxCopies \/ MeetsJmpZone)
    <3> DEFINE c == [dest |-> Seg.addr, src |-> Cursor, len |-> Seg.len]
    <3>1. /\ copies' = Append(copies, c)
          /\ i' = i + 1 /\ offset' = Cursor + Seg.len /\ pass' = pass
      BY <1>6, <2>4, Zenon DEF PlaceDirect, NextSegment
    <3>2. Cursor \in Nat /\ Cursor >= HdrLen /\ Cursor + Seg.len <= image.size
      <4>1. offset \in Nat /\ offset >= HdrLen
        BY <1>0 DEF PlanTypes
      <4> QED BY <2>1, <2>2, <4>1 DEF Cursor, SegmentReadable
    <3>3. c \in [dest : Nat, src : Nat, len : Nat]
      BY <2>2, <3>2
    <3>4. copies \in Seq([dest : Nat, src : Nat, len : Nat]) /\ Len(copies) < MaxCopies
      BY <1>0, <2>4 DEF PlanTypes
    <3>5. c.dest = Seg.addr /\ c.src = Cursor /\ c.len = Seg.len
      OBVIOUS
    <3> HIDE DEF c
    <3>6. copies' \in Seq([dest : Nat, src : Nat, len : Nat]) /\ Len(copies') <= MaxCopies
      <4>1. copies' \in Seq([dest : Nat, src : Nat, len : Nat]) /\ Len(copies') = Len(copies) + 1
            /\ Len(copies) \in Nat
        BY <3>1, <3>3, <3>4, Appended
      <4> QED BY <3>4, <4>1
    <3>7. \A k \in DOMAIN copies' : copies'[k] = c \/ (k \in DOMAIN copies /\ copies'[k] = copies[k])
      <4> DEFINE R == [dest : Nat, src : Nat, len : Nat]
                 new == copies'
      <4>1. copies \in Seq(R) /\ c \in R /\ new = Append(copies, c)
        BY <3>1, <3>3, <3>4
      <4> HIDE DEF R, new
      <4>2. \A k \in DOMAIN new : new[k] = c \/ (k \in DOMAIN copies /\ new[k] = copies[k])
        BY <4>1, Appended
      <4> QED BY <4>2 DEF new
    <3>8. PlanTypes'
      <4>1. offset' \in Nat /\ offset' >= HdrLen
        BY <2>2, <3>1, <3>2
      <4> QED BY <1>0, <2>1, <2>2, <3>1, <3>6, <4>1 DEF PlanTypes
    <3>9. PlanStaysInBounds'
      BY <1>0, <2>1, <3>2, <3>5, <3>7 DEF PlanStaysInBounds
    <3>10. CopiesMissJmpZone'
      <4>1. \A b \in 0..(c.len - 1) : ~In(c.dest + b, JmpZone[chip])
        BY <1>0, <2>2, <2>4, <3>5, MissesJmpZone DEF PlanTypes
      <4> QED BY <1>0, <2>1, <3>7, <4>1 DEF CopiesMissJmpZone
    <3>11. Counted' /\ Measured'
      BY <1>0, <2>1, <3>1 DEF Counted, Measured
    <3> QED BY <2>1, <3>1, <3>8, <3>9, <3>10, <3>11 DEF PlanInv
  <2> QED BY <2>3, <2>4
<1>7. CASE PlaceNowhere
  <2>1. pass = "place" /\ pass' = "halt" /\ UNCHANGED <<chip, image, i, offset, maxOff, fake, maps, copies>>
    BY <1>7 DEF PlaceNowhere, HaltHere, Halt
  <2> QED BY <1>0, <2>1 DEF PlanInv, PlanTypes, Counted, Measured, PlanStaysInBounds,
                            CopiesMissJmpZone
<1>8. CASE Finish
  <2>1. pass = "place" /\ pass' = "done" /\ UNCHANGED <<chip, image, i, offset, maxOff, fake, maps, copies>>
    BY <1>8 DEF Finish
  <2> QED BY <1>0, <2>1 DEF PlanInv, PlanTypes, Counted, Measured, PlanStaysInBounds,
                            CopiesMissJmpZone
<1> QED BY <1>1, <1>2, <1>3, <1>4, <1>5, <1>6, <1>7, <1>8 DEF PlanNext

\* Type correctness of the plan.
THEOREM PlanTypesHold == Spec => []PlanTypeOK
<1>1. PlanInv => PlanTypeOK
  BY DEF PlanInv, PlanTypes, PlanTypeOK
<1> QED BY <1>1, InitPlan, StepPlan, HandOffPlans, PTL DEF PlanSpec

\* No mapping shows memory beyond the staging buffer and no copy reads beyond
\* the image, whatever the segment headers say.
THEOREM BoundsHold == Spec => []PlanStaysInBounds
<1>1. PlanInv => PlanStaysInBounds
  BY DEF PlanInv
<1> QED BY <1>1, InitPlan, StepPlan, HandOffPlans, PTL DEF PlanSpec

\* No copy has a byte in the jump zone.
THEOREM ZoneHolds == Spec => []CopiesMissJmpZone
<1>1. PlanInv => CopiesMissJmpZone
  BY DEF PlanInv
<1> QED BY <1>1, InitPlan, StepPlan, HandOffPlans, PTL DEF PlanSpec
---------------------------------------------------------------------------
(* What has been placed *)

\* The mapping of a segment, and the copy of one whose data begins at src.
MappingOf(s) ==
  LET from == PageOf(s.addr)
      to   == IF s.len = 0 THEN from ELSE PageOf(s.addr + s.len + Page - 2)
  IN [vaddr |-> from, len |-> to - from, paddr |-> Linear(from)]
CopyOf(s, src) == [dest |-> s.addr, src |-> src, len |-> s.len]

SegOf(k) == image.segs[k]
At(k)    == Linear(SegOf(k).addr)
Placed   == {k \in 1..Len(image.segs) : k < i}

\* The walk stands at the data of its segment.
WalkInv ==
  /\ pass = "header" => i = 1 /\ offset = HdrLen
  /\ pass \in {"header", "measure"} => lastPage = Zero
  /\ pass \in {"measure", "place", "done"} =>
       image.count = Len(image.segs) /\ i <= Len(image.segs) + 1
  /\ pass \in {"measure", "place"} => offset + SegHdrLen = DataAt(image.segs)[i]
  /\ pass = "done" => i = Len(image.segs) + 1

\* Each segment behind the walk has its mapping or its copy, and there are no
\* other mappings.
ListedInv ==
  /\ \A j \in DOMAIN maps : \E k \in 1..Len(image.segs) :
       IsMapped(SegOf(k).addr) /\ maps[j] = MappingOf(SegOf(k))
  /\ pass \in {"place", "done"} =>
       \A k \in Placed :
         IF IsMapped(SegOf(k).addr)
         THEN /\ \E j \in DOMAIN maps : maps[j] = MappingOf(SegOf(k))
              /\ At(k) + SegOf(k).len <= maxOff
         ELSE \E j \in DOMAIN copies : copies[j] = CopyOf(SegOf(k), DataAt(image.segs)[k])

PageIsStamped(k) == \A b \in 0..(HdrLen + SegHdrLen - 1) : fake[PageOf(At(k)) + b] = b
DataIsStaged(k)  == \A b \in 0..(SegOf(k).len - 1) : fake[At(k) + b] = DataAt(image.segs)[k] + b

\* Each mapped segment behind the walk is in the staging buffer, also when
\* others have been put there since.
StagedInv ==
  pass \in {"place", "done"} =>
    /\ DOMAIN fake = 0..(maxOff - 1)
    /\ lastPage # Zero =>
         \E k \in Placed : IsMapped(SegOf(k).addr) /\ lastPage = PageOf(At(k))
    /\ WellLaidOut =>
         \A k \in Placed \cap MappedSegs :
           /\ DataIsStaged(k)
           /\ At(k) % Page = DataAt(image.segs)[k] => PageIsStamped(k)

PlacedInv == WalkInv /\ ListedInv /\ StagedInv

LEMMA SegTypes ==
  ASSUME PlanInv
  PROVE  /\ image.segs \in Seq(Segments) /\ image.size \in Nat
         /\ Len(image.segs) \in Nat
         /\ \A k \in 1..Len(image.segs) :
              SegOf(k).addr \in Nat /\ SegOf(k).len \in Nat /\ At(k) \in Nat
<1>1. image.segs \in Seq(Segments) /\ image.size \in Nat
  BY TablesAreSequences DEF PlanInv, PlanTypes, Images
<1>2. ASSUME NEW k \in 1..Len(image.segs)
      PROVE  SegOf(k).addr \in Nat /\ SegOf(k).len \in Nat /\ At(k) \in Nat
  <2>1. image.segs[k] \in Segments
    BY <1>1
  <2>2. SegOf(k).addr \in Nat /\ SegOf(k).len \in Nat
    BY <2>1 DEF SegOf, Segments
  <2> QED BY <2>2, PageFits DEF At
<1> QED BY <1>1, <1>2

\* The bytes of a page are on it.
LEMMA SamePage ==
  ASSUME NEW x \in Nat, NEW o \in Nat, PageOf(x) <= o, o < PageOf(x) + Page
  PROVE  PageOf(o) = PageOf(x)
<1> USE TheSizes
<1>1. PICK q \in Nat : PageOf(x) = Page * q
  BY PageDown
<1>2. PICK t \in Nat : PageOf(o) = Page * t /\ PageOf(o) <= o /\ o < PageOf(o) + Page
  BY PageDown
<1>3. Page * q \in Nat /\ Page * t \in Nat
  OBVIOUS
<1>4. Page * t <= Page * q
  BY <1>1, <1>2, <1>3, LessThanAPage
<1>5. Page * q <= Page * t
  BY <1>1, <1>2, <1>3, LessThanAPage
<1> QED BY <1>1, <1>2, <1>3, <1>4, <1>5

\* How far into its page an address is.
LEMMA InPage ==
  ASSUME NEW x \in Nat
  PROVE  x % Page \in Nat /\ x % Page < Page /\ x = PageOf(x) + (x % Page) /\ PageOf(x) \in Nat
<1> USE TheSizes
<1>1. x % Page \in Nat /\ x % Page < Page
  BY ModRange
<1>2. PageOf(x) = x - (x % Page)
  BY DEF PageOf
<1>3. PageOf(x) \in Nat
  BY PageFits
<1> QED BY <1>1, <1>2, <1>3

\* Putting a segment into the staging buffer changes nothing on the pages of
\* another one.
LEMMA Untouched ==
  ASSUME PlanInv, pass = "place", i <= image.count, image.count = Len(image.segs),
         WellLaidOut, IsMapped(Seg.addr),
         NEW k \in MappedSegs, k # i,
         NEW o \in DOMAIN fake, o \in Nat, PageOf(o) \in PagesOf(SegOf(k))
  PROVE  Stamped[o] = fake[o]
<1> USE TheSizes
<1> DEFINE at == Linear(Seg.addr)
           from == PageOf(at)
<1>1. i \in 1..Len(image.segs) /\ Seg = image.segs[i]
  BY DEF PlanInv, PlanTypes, Seg
<1>2. Seg.addr \in Nat /\ Seg.len \in Nat
  BY TheSegment
<1>3. at \in Nat /\ from \in Nat
  BY <1>2, PageFits
<1>4. PageOf(o) \notin PagesOf(Seg)
  BY <1>1 DEF WellLaidOut, SegOf
<1>5. ~(from <= o /\ o < from + HdrLen + SegHdrLen)
  <2> SUFFICES ASSUME from <= o, o < from + HdrLen + SegHdrLen PROVE FALSE
    OBVIOUS
  <2>1. o < from + Page
    BY <1>3
  <2> HIDE DEF at
  <2>2. PageOf(o) = from
    BY <1>3, <2>1, SamePage
  <2> QED BY <1>4, <2>2 DEF PagesOf, at
<1>6. ~(at <= o /\ o < at + Seg.len)
  <2> SUFFICES ASSUME at <= o, o < at + Seg.len PROVE FALSE
    OBVIOUS
  <2>1. o - at \in 0..(Seg.len - 1) /\ at + (o - at) = o
    BY <1>2, <1>3
  <2>2. PageOf(at + (o - at)) \in PagesOf(Seg)
    BY <2>1 DEF PagesOf
  <2> QED BY <1>4, <2>1, <2>2
<1>7. Stamped[o] = IF BacksFirstPage /\ from <= o /\ o < from + HdrLen + SegHdrLen
                   THEN o - from ELSE Staged[o]
  BY Zenon DEF Stamped
<1>8. Staged[o] = IF at <= o /\ o < at + Seg.len THEN Cursor + (o - at) ELSE fake[o]
  BY Zenon DEF Staged
<1> QED BY <1>5, <1>6, <1>7, <1>8, Zenon

\* Where a byte of the segment goes, and of the prefix.
LEMMA StagedHere ==
  ASSUME PlanInv, pass = "place", i <= image.count, SegmentReadable,
         Cursor \in Nat, Cursor >= HdrLen + SegHdrLen,
         NEW o \in DOMAIN fake, o \in Nat
  PROVE  /\ Linear(Seg.addr) <= o /\ o < Linear(Seg.addr) + Seg.len =>
              Stamped[o] = Cursor + (o - Linear(Seg.addr))
         /\ LET from == PageOf(Linear(Seg.addr)) IN
            BacksFirstPage /\ from <= o /\ o < from + HdrLen + SegHdrLen => Stamped[o] = o - from
<1> USE TheSizes
<1> DEFINE at == Linear(Seg.addr)
           from == PageOf(at)
           in == from <= o /\ o < from + HdrLen + SegHdrLen
<1>1. Seg.addr \in Nat /\ Seg.len \in Nat
  BY TheSegment
<1>2. at \in Nat /\ from \in Nat
  BY <1>1, PageFits
<1>3. Stamped[o] = IF BacksFirstPage /\ in THEN o - from ELSE Staged[o]
  BY Zenon DEF Stamped
<1>4. Staged[o] = IF at <= o /\ o < at + Seg.len THEN Cursor + (o - at) ELSE fake[o]
  BY Zenon DEF Staged
<1>5. ASSUME at <= o, BacksFirstPage PROVE ~in
  <2>1. at % Page >= HdrLen + SegHdrLen
    BY <1>5, Zenon DEF BacksFirstPage
  <2>2. at = from + (at % Page) /\ at % Page \in Nat
    BY <1>2, InPage
  <2> HIDE DEF at, from
  <2> QED BY <1>2, <1>5, <2>1, <2>2
<1> HIDE DEF at, from, in
<1>6. at <= o /\ o < at + Seg.len => Stamped[o] = Cursor + (o - at)
  BY <1>3, <1>4, <1>5, Zenon
<1>7. BacksFirstPage /\ in => Stamped[o] = o - from
  BY <1>3, Zenon
<1> QED BY <1>6, <1>7 DEF at, from, in

LEMMA SameImage ==
  ASSUME PlanInv, [PlanNext]_ivars
  PROVE  image' = image /\ chip' = chip
  BY DEF PlanNext, ivars, CheckHeader, Measure, Allocate, PlaceMapped, PlaceDirect, PlaceNowhere, Finish

\* What is said of the image alone stays.
LEMMA SameSegments ==
  ASSUME image' = image, chip' = chip
  PROVE  /\ WellLaidOut' = WellLaidOut
         /\ MappedSegs' = MappedSegs
         /\ \A k : SegOf(k)' = SegOf(k) /\ At(k)' = At(k)
         /\ \A k : IsMapped(SegOf(k).addr)' = IsMapped(SegOf(k).addr)
<1>1. \A k : SegOf(k)' = SegOf(k) /\ At(k)' = At(k)
  BY DEF SegOf, At
<1>2. \A a : IsMapped(a)' = IsMapped(a)
  BY DEF IsMapped
<1>3. \A k : IsMapped(SegOf(k).addr)' = IsMapped(SegOf(k).addr)
  BY DEF IsMapped, SegOf
<1>4. MappedSegs' = MappedSegs
  BY DEF MappedSegs, IsMapped
<1>5. WellLaidOut' = WellLaidOut
  BY <1>4 DEF WellLaidOut, IsMapped
<1> QED BY <1>1, <1>3, <1>4, <1>5

LEMMA InitPlaced == PlanInit => PlacedInv
<1> SUFFICES ASSUME PlanInit PROVE PlacedInv
  OBVIOUS
<1>1. pass = "header" /\ i = 1 /\ offset = HdrLen /\ maps = <<>> /\ lastPage = Zero
  BY DEF PlanInit
<1> QED BY <1>1 DEF PlacedInv, WalkInv, ListedInv, StagedInv

\* Where nothing is placed but the walk ends.
LEMMA PlacedStays ==
  ASSUME PlanInv, PlacedInv, image' = image, chip' = chip,
         UNCHANGED <<fake, maps, copies, maxOff, lastPage, i>>,
         pass' \in {"place", "done"} => pass \in {"place", "done"}
  PROVE  ListedInv' /\ StagedInv'
<1>1. /\ WellLaidOut' = WellLaidOut /\ MappedSegs' = MappedSegs
      /\ \A k : SegOf(k)' = SegOf(k) /\ At(k)' = At(k)
      /\ \A k : IsMapped(SegOf(k).addr)' = IsMapped(SegOf(k).addr)
  BY SameSegments
<1>2. Placed' = Placed
  BY DEF Placed
<1>3. ListedInv'
  BY <1>1, <1>2 DEF PlacedInv, ListedInv
<1>4. \A k : (DataIsStaged(k)' = DataIsStaged(k)) /\ (PageIsStamped(k)' = PageIsStamped(k))
  BY <1>1 DEF DataIsStaged, PageIsStamped
<1>5. StagedInv'
  BY <1>1, <1>2, <1>4 DEF PlacedInv, StagedInv
<1> QED BY <1>3, <1>5

\* The walk goes on to the data of the next segment.
LEMMA NextData ==
  ASSUME PlanInv, PlacedInv, pass \in {"measure", "place"}, i <= image.count
  PROVE  /\ i \in 1..Len(image.segs) /\ Seg = SegOf(i)
         /\ Cursor = DataAt(image.segs)[i] /\ Cursor \in Nat /\ Cursor >= HdrLen + SegHdrLen
         /\ i + 1 <= Len(image.segs) + 1
         /\ Cursor + Seg.len + SegHdrLen = DataAt(image.segs)[i + 1]
<1>1. image.segs \in Seq(Segments) /\ Len(image.segs) \in Nat
  BY SegTypes
<1>2. image.count = Len(image.segs) /\ offset + SegHdrLen = DataAt(image.segs)[i]
  BY DEF PlacedInv, WalkInv
<1>3. i \in 1..(MaxSegments + 1)
  BY DEF PlanInv, PlanTypes
<1>4. i \in 1..Len(image.segs) /\ i \in 1..(Len(image.segs) + 1)
  BY <1>1, <1>2, <1>3, TheSizes
<1>5. DataAt(image.segs)[i] \in Nat /\ DataAt(image.segs)[i] >= HdrLen + SegHdrLen
  BY <1>1, <1>4, DataAtNat
<1>6. i + 1 \in 1..(Len(image.segs) + 1) /\ i + 1 # 1 /\ i + 1 - 1 = i
  BY <1>1, <1>4
<1>7. DataAt(image.segs)[i + 1] = DataAt(image.segs)[i] + image.segs[i].len + SegHdrLen
  <2>1. \A k \in 1..(Len(image.segs) + 1) :
          k # 1 => DataAt(image.segs)[k] = DataAt(image.segs)[k - 1] + image.segs[k - 1].len + SegHdrLen
    BY <1>1, DataAtStep
  <2> DEFINE n == i + 1
  <2>2. n \in 1..(Len(image.segs) + 1) /\ n # 1 /\ n - 1 = i
    BY <1>1, <1>4
  <2> HIDE DEF n
  <2>3. DataAt(image.segs)[n] = DataAt(image.segs)[n - 1] + image.segs[n - 1].len + SegHdrLen
    BY <2>1, <2>2
  <2> QED BY <2>2, <2>3 DEF n
<1> QED BY <1>1, <1>2, <1>4, <1>5, <1>6, <1>7 DEF Seg, SegOf, Cursor

\* The next step of the walk, and what it leaves behind.
LEMMA WalkOn ==
  ASSUME PlanInv, PlacedInv, pass \in {"measure", "place"}, i <= image.count,
         image' = image, pass' = pass, i' = i + 1, offset' = Cursor + Seg.len,
         pass = "measure" => lastPage' = lastPage
  PROVE  WalkInv' /\ Placed' = Placed \cup {i}
<1>1. /\ i \in 1..Len(image.segs) /\ i + 1 <= Len(image.segs) + 1
      /\ Cursor + Seg.len + SegHdrLen = DataAt(image.segs)[i + 1]
  BY NextData
<1>2. WalkInv'
  BY <1>1 DEF WalkInv, PlacedInv
<1>3. Placed' = Placed \cup {i}
  BY <1>1, SegTypes DEF Placed
<1> QED BY <1>2, <1>3

LEMMA PlaceMappedPlaces ==
  ASSUME PlanInv, PlanInv', PlacedInv, PlaceMapped, pass' = "place"
  PROVE  PlacedInv'
<1> USE TheSizes
<1>1. /\ pass = "place" /\ i <= image.count /\ SegmentReadable /\ IsMapped(Seg.addr)
      /\ image' = image /\ chip' = chip /\ maxOff' = maxOff /\ copies' = copies
  BY DEF PlaceMapped
<1>2. ~(MappingsFull \/ Linear(Seg.addr) + Seg.len > maxOff)
  BY <1>1, Zenon DEF PlaceMapped, HaltHere, Halt
<1>3. /\ maps' = Append(maps, Mapping) /\ fake' = Stamped
      /\ lastPage' = IF BacksFirstPage THEN PageOf(Linear(Seg.addr)) ELSE lastPage
      /\ i' = i + 1 /\ offset' = Cursor + Seg.len /\ pass' = pass
  BY <1>2, Zenon DEF PlaceMapped, NextSegment
<1>4. /\ i \in 1..Len(image.segs) /\ Seg = SegOf(i)
      /\ Cursor = DataAt(image.segs)[i] /\ Cursor \in Nat /\ Cursor >= HdrLen + SegHdrLen
  BY <1>1, NextData
<1>5. WalkInv' /\ Placed' = Placed \cup {i}
  BY <1>1, <1>3, WalkOn
<1>6. /\ WellLaidOut' = WellLaidOut /\ MappedSegs' = MappedSegs
      /\ \A k : SegOf(k)' = SegOf(k) /\ At(k)' = At(k)
      /\ \A k : IsMapped(SegOf(k).addr)' = IsMapped(SegOf(k).addr)
  BY <1>1, SameSegments
<1>7. Mapping = MappingOf(SegOf(i))
  BY <1>4 DEF Mapping, MappingOf
<1>8. /\ maps \in Seq([vaddr : Nat, len : Nat, paddr : Nat])
      /\ maxOff \in Nat
      /\ fake \in [0..(maxOff - 1) -> 0..image.size \cup {Zero}]
  BY <1>1 DEF PlanInv, PlanTypes
<1>9. Seg.addr \in Nat /\ Seg.len \in Nat /\ Linear(Seg.addr) \in Nat
      /\ Linear(Seg.addr) + Seg.len <= maxOff
  <2>1. Seg.addr \in Nat /\ Seg.len \in Nat
    BY <1>1, TheSegment
  <2>2. Linear(Seg.addr) \in Nat
    BY <2>1, PageFits
  <2> QED BY <1>2, <1>8, <2>1, <2>2
<1>10. At(i) = Linear(Seg.addr)
  BY <1>4 DEF At
<1>11. ListedInv'
  <2>1. \A j \in DOMAIN maps : j \in DOMAIN maps' /\ maps'[j] = maps[j]
    BY <1>3, <1>7, <1>8
  <2>2. Len(maps) + 1 \in DOMAIN maps' /\ maps'[Len(maps) + 1] = MappingOf(SegOf(i))
    BY <1>3, <1>7, <1>8
  <2>3. \A j \in DOMAIN maps' : j \in DOMAIN maps \/ maps'[j] = MappingOf(SegOf(i))
    BY <1>3, <1>7, <1>8
  <2>4. \A k \in Placed' : IF IsMapped(SegOf(k).addr)
           THEN /\ \E j \in DOMAIN maps' : maps'[j] = MappingOf(SegOf(k))
                /\ At(k) + SegOf(k).len <= maxOff
           ELSE \E j \in DOMAIN copies : copies[j] = CopyOf(SegOf(k), DataAt(image.segs)[k])
    <3> SUFFICES ASSUME NEW k \in Placed'
                 PROVE  IF IsMapped(SegOf(k).addr)
                        THEN /\ \E j \in DOMAIN maps' : maps'[j] = MappingOf(SegOf(k))
                             /\ At(k) + SegOf(k).len <= maxOff
                        ELSE \E j \in DOMAIN copies :
                               copies[j] = CopyOf(SegOf(k), DataAt(image.segs)[k])
      OBVIOUS
    <3>1. CASE k = i
      <4>1. IsMapped(SegOf(k).addr) /\ At(k) + SegOf(k).len <= maxOff
        BY <1>1, <1>4, <1>9, <1>10, <3>1
      <4> QED BY <2>2, <3>1, <4>1
    <3>2. CASE k \in Placed
      BY <1>1, <2>1, <3>2 DEF PlacedInv, ListedInv
    <3> QED BY <1>5, <3>1, <3>2
  <2>5. \A j \in DOMAIN maps' : \E k \in 1..Len(image.segs) :
          IsMapped(SegOf(k).addr) /\ maps'[j] = MappingOf(SegOf(k))
    BY <1>1, <1>4, <2>1, <2>3 DEF PlacedInv, ListedInv
  <2> QED BY <1>1, <1>3, <1>6, <2>4, <2>5 DEF ListedInv
<1>12. DOMAIN fake = 0..(maxOff - 1) /\ DOMAIN fake' = 0..(maxOff - 1)
  <2>1. DOMAIN Stamped = DOMAIN fake
    BY Zenon DEF Stamped
  <2> QED BY <1>3, <1>8, <2>1
<1>13. lastPage' # Zero =>
         \E k \in Placed' : IsMapped(SegOf(k).addr) /\ lastPage' = PageOf(At(k))
  <2>1. CASE BacksFirstPage
    BY <1>1, <1>3, <1>4, <1>5, <1>10, <2>1
  <2>2. CASE ~BacksFirstPage
    BY <1>1, <1>3, <1>5, <2>2 DEF PlacedInv, StagedInv
  <2> QED BY <2>1, <2>2
<1>14. ASSUME WellLaidOut, NEW k \in Placed' \cap MappedSegs
       PROVE  /\ \A b \in 0..(SegOf(k).len - 1) : fake'[At(k) + b] = DataAt(image.segs)[k] + b
              /\ At(k) % Page = DataAt(image.segs)[k] =>
                   \A b \in 0..(HdrLen + SegHdrLen - 1) : fake'[PageOf(At(k)) + b] = b
  <2>1. k \in 1..Len(image.segs) /\ SegOf(k).len \in Nat \ {0} /\ At(k) \in Nat
        /\ IsMapped(SegOf(k).addr)
    BY SegTypes DEF MappedSegs, SegOf
  <2>2. At(k) + SegOf(k).len <= maxOff
    BY <1>1, <1>4, <1>5, <1>9, <1>10, <2>1 DEF PlacedInv, ListedInv
  <2>3. \A b \in 0..(SegOf(k).len - 1) : At(k) + b \in DOMAIN fake /\ At(k) + b \in Nat
    BY <1>8, <1>12, <2>1, <2>2
  <2>4. PageOf(At(k)) \in Nat /\ At(k) = PageOf(At(k)) + (At(k) % Page) /\ At(k) % Page \in Nat
    BY <2>1, InPage
  <2>5. ASSUME At(k) % Page = DataAt(image.segs)[k], NEW b \in 0..(HdrLen + SegHdrLen - 1)
        PROVE  /\ PageOf(At(k)) + b \in DOMAIN fake /\ PageOf(At(k)) + b \in Nat
               /\ PageOf(PageOf(At(k)) + b) = PageOf(At(k))
    <3>1. DataAt(image.segs)[k] >= HdrLen + SegHdrLen
      <4>1. k \in 1..(Len(image.segs) + 1)
        BY <2>1, SegTypes
      <4> QED BY <4>1, SegTypes, DataAtNat
    <3>2. PageOf(At(k)) + b < At(k) /\ PageOf(At(k)) + b \in Nat
      <4> DEFINE x == At(k) % Page
                 from == PageOf(At(k))
      <4>1. x >= HdrLen + SegHdrLen
        BY <2>5, <3>1
      <4>2. x \in Nat /\ from \in Nat /\ At(k) = from + x
        BY <2>4
      <4> HIDE DEF x, from
      <4>3. from + b < At(k) /\ from + b \in Nat
        BY <4>1, <4>2
      <4> QED BY <4>3 DEF from
    <3>3. PageOf(At(k)) + b < PageOf(At(k)) + Page
      BY <2>4
    <3>4. PageOf(PageOf(At(k)) + b) = PageOf(At(k))
      <4> DEFINE x == At(k)
                 o == PageOf(At(k)) + b
      <4>1. x \in Nat /\ o \in Nat /\ PageOf(x) <= o /\ o < PageOf(x) + Page
        BY <2>1, <2>4, <3>2, <3>3
      <4>2. PageOf(o) = PageOf(x)
        <5> HIDE DEF x, o
        <5> QED BY <4>1, SamePage
      <4> QED BY <4>2
    <3> QED BY <1>8, <1>12, <2>1, <2>2, <3>2, <3>4
  <2>6. CASE k # i
    <3>1. k \in Placed /\ k \in MappedSegs
      BY <1>5, <2>6
    <3>2. \A b \in 0..(SegOf(k).len - 1) : PageOf(At(k) + b) \in PagesOf(SegOf(k))
      BY DEF PagesOf, At
    <3>3. PageOf(At(k)) \in PagesOf(SegOf(k))
      BY DEF PagesOf, At
    <3>4. image.count = Len(image.segs)
      BY <1>1 DEF PlacedInv, WalkInv
    <3>5. \A b \in 0..(SegOf(k).len - 1) : fake'[At(k) + b] = fake[At(k) + b]
      BY <1>1, <1>3, <1>14, <2>3, <2>6, <3>1, <3>2, <3>4, Untouched
    <3>6. At(k) % Page = DataAt(image.segs)[k] =>
            \A b \in 0..(HdrLen + SegHdrLen - 1) :
              fake'[PageOf(At(k)) + b] = fake[PageOf(At(k)) + b]
      BY <1>1, <1>3, <1>14, <2>5, <2>6, <3>1, <3>3, <3>4, Untouched
    <3>7. DataIsStaged(k) /\ (At(k) % Page = DataAt(image.segs)[k] => PageIsStamped(k))
      BY <1>1, <1>14, <3>1 DEF PlacedInv, StagedInv
    <3> QED BY <3>5, <3>6, <3>7 DEF DataIsStaged, PageIsStamped
  <2>7. CASE k = i
    <3> DEFINE at == Linear(Seg.addr)
    <3>1. at = At(k) /\ SegOf(k) = Seg /\ Cursor = DataAt(image.segs)[k]
      BY <1>4, <1>10, <2>7
    <3>2. ASSUME NEW o \in DOMAIN fake, o \in Nat
          PROVE  /\ at <= o /\ o < at + Seg.len => fake'[o] = Cursor + (o - at)
                 /\ BacksFirstPage /\ PageOf(at) <= o /\ o < PageOf(at) + HdrLen + SegHdrLen =>
                      fake'[o] = o - PageOf(at)
      BY <1>1, <1>3, <1>4, <3>2, StagedHere
    <3> HIDE DEF at
    <3>3. ASSUME NEW b \in 0..(SegOf(k).len - 1)
          PROVE  fake'[At(k) + b] = DataAt(image.segs)[k] + b
      <4>1. at <= at + b /\ at + b < at + Seg.len /\ (at + b) - at = b
        BY <2>1, <3>1
      <4> QED BY <2>3, <3>1, <3>2, <4>1
    <3>4. ASSUME At(k) % Page = DataAt(image.segs)[k], NEW b \in 0..(HdrLen + SegHdrLen - 1)
          PROVE  fake'[PageOf(At(k)) + b] = b
      <4>1. BacksFirstPage
        <5>1. PageOf(at) # lastPage
          <6> SUFFICES ASSUME PageOf(at) = lastPage PROVE FALSE
            OBVIOUS
          <6>1. lastPage # Zero
            BY <2>4, <3>1
          <6>2. PICK m \in Placed : IsMapped(SegOf(m).addr) /\ lastPage = PageOf(At(m))
            BY <1>1, <6>1 DEF PlacedInv, StagedInv
          <6>3. m \in 1..Len(image.segs) /\ m # k
            BY <2>7 DEF Placed
          <6>4. PagesOf(SegOf(k)) \cap PagesOf(SegOf(m)) = {}
            BY <1>14, <6>2, <6>3 DEF WellLaidOut, SegOf
          <6>5. lastPage \in PagesOf(SegOf(m)) /\ PageOf(At(k)) \in PagesOf(SegOf(k))
            BY <6>2 DEF PagesOf, At
          <6> QED BY <3>1, <6>4, <6>5
        <5> QED BY <3>1, <3>4, <5>1 DEF BacksFirstPage, at
      <4>2. /\ PageOf(at) <= PageOf(at) + b /\ PageOf(at) + b < PageOf(at) + HdrLen + SegHdrLen
            /\ PageOf(at) + b - PageOf(at) = b
        BY <2>4, <3>1
      <4>3. PageOf(at) + b \in DOMAIN fake /\ PageOf(at) + b \in Nat
        BY <2>5, <3>1, <3>4
      <4> DEFINE o == PageOf(at) + b
      <4> HIDE DEF o
      <4>4. fake'[o] = o - PageOf(at)
        BY <3>2, <4>1, <4>2, <4>3 DEF o
      <4>5. o - PageOf(at) = b
        BY <2>4, <3>1 DEF o
      <4>6. fake'[o] = b
        BY <4>4, <4>5, Zenon
      <4>7. o = PageOf(At(k)) + b
        BY <3>1, Zenon DEF o
      <4> QED BY <4>6, <4>7, Zenon
    <3> QED BY <3>3, <3>4
  <2> QED BY <2>6, <2>7
<1>15. StagedInv'
  <2>1. ASSUME WellLaidOut', NEW k \in (Placed \cap MappedSegs)'
        PROVE  DataIsStaged(k)' /\ (At(k) % Page = DataAt(image.segs)[k] => PageIsStamped(k)')
    <3>1. WellLaidOut /\ k \in Placed' \cap MappedSegs
      BY <1>6, <2>1
    <3> QED BY <1>1, <1>6, <1>14, <3>1 DEF DataIsStaged, PageIsStamped
  <2> QED BY <1>1, <1>6, <1>12, <1>13, <2>1 DEF StagedInv
<1> QED BY <1>5, <1>11, <1>15 DEF PlacedInv

LEMMA PlaceDirectPlaces ==
  ASSUME PlanInv, PlanInv', PlacedInv, PlaceDirect, pass' = "place"
  PROVE  PlacedInv'
<1>1. /\ pass = "place" /\ i <= image.count /\ SegmentReadable /\ ~IsMapped(Seg.addr)
      /\ UNCHANGED <<chip, image, maxOff, fake, maps, lastPage>>
  BY DEF PlaceDirect
<1>2. ~(Len(copies) >= MaxCopies \/ MeetsJmpZone)
  BY <1>1, Zenon DEF PlaceDirect, HaltHere, Halt
<1>3. /\ copies' = Append(copies, [dest |-> Seg.addr, src |-> Cursor, len |-> Seg.len])
      /\ i' = i + 1 /\ offset' = Cursor + Seg.len /\ pass' = pass
  BY <1>2, Zenon DEF PlaceDirect, NextSegment
<1>4. /\ i \in 1..Len(image.segs) /\ Seg = SegOf(i) /\ Cursor = DataAt(image.segs)[i]
  BY <1>1, NextData
<1>5. WalkInv' /\ Placed' = Placed \cup {i}
  BY <1>1, <1>3, WalkOn
<1>6. /\ WellLaidOut' = WellLaidOut /\ MappedSegs' = MappedSegs
      /\ \A k : SegOf(k)' = SegOf(k) /\ At(k)' = At(k)
      /\ \A k : IsMapped(SegOf(k).addr)' = IsMapped(SegOf(k).addr)
  BY <1>1, SameSegments
<1>7. copies \in Seq([dest : Nat, src : Nat, len : Nat])
  BY DEF PlanInv, PlanTypes
<1> DEFINE c == CopyOf(SegOf(i), DataAt(image.segs)[i])
<1>8. copies' = Append(copies, c)
  BY <1>3, <1>4 DEF CopyOf
<1> HIDE DEF c
<1>9. /\ \A j \in DOMAIN copies : j \in DOMAIN copies' /\ copies'[j] = copies[j]
      /\ Len(copies) + 1 \in DOMAIN copies' /\ copies'[Len(copies) + 1] = c
  BY <1>7, <1>8
<1>10. ListedInv'
  <2>1. ASSUME NEW k \in Placed'
        PROVE  IF IsMapped(SegOf(k).addr)
               THEN /\ \E j \in DOMAIN maps : maps[j] = MappingOf(SegOf(k))
                    /\ At(k) + SegOf(k).len <= maxOff
               ELSE \E j \in DOMAIN copies' :
                      copies'[j] = CopyOf(SegOf(k), DataAt(image.segs)[k])
    <3>1. CASE k = i
      BY <1>1, <1>4, <1>9, <3>1 DEF c
    <3>2. CASE k \in Placed
      BY <1>1, <1>9, <3>2 DEF PlacedInv, ListedInv
    <3> QED BY <1>5, <2>1, <3>1, <3>2
  <2>2. \A j \in DOMAIN maps : \E k \in 1..Len(image.segs) :
          IsMapped(SegOf(k).addr) /\ maps[j] = MappingOf(SegOf(k))
    BY DEF PlacedInv, ListedInv
  <2> QED BY <1>1, <1>6, <2>1, <2>2 DEF ListedInv
<1>11. \A k : (DataIsStaged(k)' = DataIsStaged(k)) /\ (PageIsStamped(k)' = PageIsStamped(k))
  BY <1>1, <1>6 DEF DataIsStaged, PageIsStamped
<1>12. StagedInv'
  <2>1. i \notin MappedSegs
    BY <1>1, <1>4 DEF MappedSegs, SegOf
  <2>2. Placed' \cap MappedSegs = Placed \cap MappedSegs
    BY <1>5, <2>1
  <2>3. (Placed \cap MappedSegs)' = Placed \cap MappedSegs
    BY <1>6, <2>2
  <2>4. DOMAIN fake = 0..(maxOff - 1)
        /\ (lastPage # Zero => \E k \in Placed' : IsMapped(SegOf(k).addr) /\ lastPage = PageOf(At(k)))
    BY <1>1, <1>5 DEF PlacedInv, StagedInv
  <2>5. WellLaidOut => \A k \in Placed \cap MappedSegs :
                         DataIsStaged(k) /\ (At(k) % Page = DataAt(image.segs)[k] => PageIsStamped(k))
    BY <1>1 DEF PlacedInv, StagedInv
  <2> QED BY <1>1, <1>6, <1>11, <2>3, <2>4, <2>5 DEF StagedInv
<1> QED BY <1>5, <1>10, <1>12 DEF PlacedInv

LEMMA StepPlaced == PlanInv /\ PlanInv' /\ PlacedInv /\ [PlanNext]_ivars => PlacedInv'
<1> SUFFICES ASSUME PlanInv, PlanInv', PlacedInv, [PlanNext]_ivars PROVE PlacedInv'
  OBVIOUS
<1>0. image' = image /\ chip' = chip /\ WalkInv
  BY SameImage DEF PlacedInv
<1>1. CASE UNCHANGED ivars
  <2>1. UNCHANGED <<fake, maps, copies, maxOff, lastPage, i>> /\ pass' = pass /\ offset' = offset
    BY <1>1 DEF ivars
  <2> QED BY <1>0, <2>1, PlacedStays DEF WalkInv, PlacedInv
<1>2. CASE CheckHeader
  <2>1. pass = "header" /\ UNCHANGED <<i, offset, maxOff, fake, maps, copies, lastPage>>
    BY <1>2 DEF CheckHeader
  <2>2. pass' = "halt" \/ (pass' = "measure" /\ image.count \in 1..MaxSegments)
    BY <1>2, Zenon DEF CheckHeader, Halt
  <2>3. image.count \in {Len(image.segs), MaxSegments + 1}
    BY DEF PlanInv, Counted
  <2>4. DataAt(image.segs)[1] = HdrLen + SegHdrLen
    <3>1. 1 \in 1..(Len(image.segs) + 1)
      BY SegTypes
    <3> QED BY <3>1, SegTypes, DataAtStep
  <2>5. WalkInv'
    <3>1. image.count \in 1..MaxSegments => image.count = Len(image.segs)
      BY <2>3, TheSizes
    <3> QED BY <1>0, <2>1, <2>2, <2>4, <3>1, SegTypes DEF WalkInv
  <2> QED BY <1>0, <2>1, <2>2, <2>5, PlacedStays DEF PlacedInv
<1>3. CASE Measure
  <2>1. pass = "measure" /\ i <= image.count /\ UNCHANGED <<fake, maps, copies, lastPage>>
    BY <1>3 DEF Measure
  <2>2. CASE ~SegmentReadable
    <3>1. pass' = "halt" /\ UNCHANGED <<i, offset, maxOff>>
      BY <1>3, <2>2, Zenon DEF Measure, Halt
    <3> QED BY <1>0, <2>1, <3>1, PlacedStays DEF WalkInv, PlacedInv
  <2>3. CASE SegmentReadable
    <3>1. offset' = Cursor + Seg.len /\ i' = i + 1 /\ pass' = pass
      BY <1>3, <2>3, Zenon DEF Measure
    <3>2. WalkInv'
      BY <1>0, <2>1, <3>1, WalkOn
    <3>3. maps' = <<>>
      BY <2>1, <3>1 DEF PlanInv
    <3> QED BY <2>1, <3>1, <3>2, <3>3 DEF PlacedInv, ListedInv, StagedInv
  <2> QED BY <2>2, <2>3
<1>4. CASE Allocate
  <2>1. pass = "measure" /\ i > image.count /\ UNCHANGED <<maps, copies, lastPage>>
    BY <1>4 DEF Allocate
  <2>2. maps = <<>> /\ lastPage = Zero /\ image.count = Len(image.segs)
    BY <2>1 DEF PlanInv, PlacedInv, WalkInv
  <2>3. CASE pass' = "halt"
    BY <2>1, <2>2, <2>3 DEF PlacedInv, WalkInv, ListedInv, StagedInv
  <2>4. CASE pass' # "halt"
    <3>1. pass' = "place" /\ fake' = [o \in 0..(maxOff' - 1) |-> Zero] /\ i' = 1 /\ offset' = HdrLen
      BY <1>4, <2>4 DEF Allocate, Halt
    <3>2. Placed' = {}
      BY <3>1 DEF Placed
    <3>3. DataAt(image.segs)[1] = HdrLen + SegHdrLen /\ 1 <= Len(image.segs) + 1
      <4>1. 1 \in 1..(Len(image.segs) + 1)
        BY SegTypes
      <4> QED BY <4>1, SegTypes, DataAtStep
    <3>4. WalkInv'
      BY <1>0, <2>2, <3>1, <3>3 DEF WalkInv
    <3>5. ListedInv'
      BY <2>1, <2>2, <3>2 DEF ListedInv
    <3>6. StagedInv'
      BY <2>1, <2>2, <3>1, <3>2 DEF StagedInv
    <3> QED BY <3>4, <3>5, <3>6 DEF PlacedInv
  <2> QED BY <2>3, <2>4
<1>5. CASE PlaceMapped
  <2>1. CASE pass' = "place"
    BY <1>5, <2>1, PlaceMappedPlaces
  <2>2. CASE pass' # "place"
    <3>1. pass = "place" /\ pass' = "halt"
          /\ UNCHANGED <<maxOff, copies, fake, maps, lastPage, i, offset>>
      BY <1>5, <2>2, Zenon DEF PlaceMapped, HaltHere, Halt, NextSegment
    <3> QED BY <1>0, <3>1, PlacedStays DEF WalkInv, PlacedInv
  <2> QED BY <2>1, <2>2
<1>6. CASE PlaceDirect
  <2>1. CASE pass' = "place"
    BY <1>6, <2>1, PlaceDirectPlaces
  <2>2. CASE pass' # "place"
    <3>1. pass = "place" /\ pass' = "halt"
          /\ UNCHANGED <<maxOff, copies, fake, maps, lastPage, i, offset>>
      BY <1>6, <2>2, Zenon DEF PlaceDirect, HaltHere, Halt, NextSegment
    <3> QED BY <1>0, <3>1, PlacedStays DEF WalkInv, PlacedInv
  <2> QED BY <2>1, <2>2
<1>7. CASE PlaceNowhere
  <2>1. pass = "place" /\ pass' = "halt"
        /\ UNCHANGED <<i, offset, maxOff, fake, maps, copies, lastPage>>
    BY <1>7 DEF PlaceNowhere, HaltHere, Halt
  <2> QED BY <1>0, <2>1, PlacedStays DEF WalkInv, PlacedInv
<1>8. CASE Finish
  <2>1. pass = "place" /\ pass' = "done" /\ i > image.count
        /\ UNCHANGED <<i, offset, maxOff, fake, maps, copies, lastPage>>
    BY <1>8 DEF Finish
  <2>2. i = Len(image.segs) + 1
    <3>1. i \in Nat /\ i <= Len(image.segs) + 1 /\ image.count = Len(image.segs)
      BY <2>1 DEF PlanInv, PlanTypes, PlacedInv, WalkInv
    <3> QED BY <2>1, <3>1, SegTypes
  <2> QED BY <1>0, <2>1, <2>2, PlacedStays DEF WalkInv, PlacedInv
<1> QED BY <1>1, <1>2, <1>3, <1>4, <1>5, <1>6, <1>7, <1>8 DEF PlanNext

LEMMA PlacedHolds == Spec => [](PlanInv /\ PlacedInv)
<1>1. PlanInv /\ PlacedInv /\ [PlanNext]_ivars => (PlanInv /\ PlacedInv)'
  BY StepPlan, StepPlaced
<1> QED BY <1>1, InitPlan, InitPlaced, HandOffPlans, PTL DEF PlanSpec

\* The page that backs the first page of the image shows the image's header,
\* whatever was staged before and after it.
THEOREM PrefixHolds == Spec => []PrefixIsShown
<1>1. PlanInv /\ PlacedInv => PrefixIsShown
  <2> SUFFICES ASSUME PlanInv, PlacedInv, pass = "done", WellLaidOut, NEW k \in MappedSegs,
                      Linear(image.segs[k].addr) % Page = DataAt(image.segs)[k]
               PROVE  \A b \in 0..(HdrLen + SegHdrLen - 1) :
                        fake[PageOf(Linear(image.segs[k].addr)) + b] = b
    BY DEF PrefixIsShown
  <2>1. k \in 1..Len(image.segs) /\ i = Len(image.segs) + 1
    BY DEF MappedSegs, PlacedInv, WalkInv
  <2>2. k \in Placed
    BY <2>1, SegTypes DEF Placed
  <2>3. PageIsStamped(k)
    BY <2>2 DEF PlacedInv, StagedInv, At, SegOf
  <2> QED BY <2>3 DEF PageIsStamped, At, SegOf
<1> QED BY <1>1, PlacedHolds, PTL
---------------------------------------------------------------------------
(* The hand-off *)

Copying  == {"plan", "evict", "writeback", "copy"}
Drained  == {"copy", "map", "invalidate", "drain", "jump", "payload"}
Showing  == {"invalidate", "drain", "jump", "payload"}
Stages   == Copying \cup Drained \cup {"wild"}

\* What an entry shows that some mapping has written.
Shows(p) == \E j \in DOMAIN maps : \E e \in 0..(PagesIn(maps[j]) - 1) :
              Entry(maps[j], e) = p /\ mmu[p] = (maps[j].paddr \div Page) + e

StageInv ==
  /\ chip \in Chips
  /\ stage \in Stages /\ (stage # "plan" => pass = "done")
  /\ stage \in {"evict", "drain"} => chip = "P4"
  /\ stage = "writeback" => chip = "S3"

\* No line of the loader's is in the cache that could still be put out, and
\* none is left of a page that is mapped; the staging buffer is in memory.
CacheInv ==
  /\ dirty \subseteq Pages /\ cached \subseteq Pages /\ flushed \in BOOLEAN
  /\ spoilt = {}
  /\ stage \in Drained => IF chip = "P4" THEN dirty = {} /\ flushed ELSE maps # <<>> => flushed
  /\ stage \in {"drain", "jump", "payload"} => cached \cap Remapped = {}

MmuInv ==
  /\ stage \notin Showing => mmu = [p \in Pages |-> Own]
  /\ stage \in Showing =>
       /\ mmu = [p \in Pages |-> mmu[p]]
       /\ \A p \in Pages : IF p \in Remapped THEN Shows(p) ELSE mmu[p] = Own

\* A byte of a copy is in its cell, unless that was drained into since.
CopiesStand ==
  \A j \in DOMAIN copies : \A b \in 0..(copies[j].len - 1) :
    Cell(copies[j].dest + b) \notin Scratch[chip] =>
      sram[Cell(copies[j].dest + b)] = copies[j].src + b

MemoryInv ==
  /\ stage \in Copying => sram = <<>> /\ pending = {}
  /\ stage \notin Copying => DOMAIN sram = Touched
  /\ stage \notin Copying \cup {"wild"} => (WellPlaced => CopiesStand)
  /\ pending \subseteq DOMAIN sram
  /\ chip = "S3" \/ stage \in {"jump", "payload"} => pending = {}

HandInv == StageInv /\ CacheInv /\ MmuInv /\ MemoryInv

LEMMA TheCells ==
  /\ BufferPages \subseteq Pages /\ Word \in Nat \ {0} /\ Alias \in Nat /\ Own \notin Nat
  /\ \A c \in Chips :
       /\ Scratch[c] \cup Resident[c] \subseteq Memory[c]
       /\ IWindow[c] \in Nat \X Nat /\ IWindow[c][1] - 1 \notin Memory[c]
       /\ \A w \in MappedWindows[c], v \in DirectWindows[c] : w[2] <= v[1] \/ v[2] <= w[1]
  BY HandOffAssumption DEF Pages

\* The function AfterCopies is defined by.
LEMMA AfterCopiesStep ==
  ASSUME NEW n \in 0..MaxCopies
  PROVE  AfterCopies[n] = IF n = 0 THEN sram ELSE Copied(AfterCopies[n - 1], copies[n])
<1> DEFINE Is(f, m) == f = [k \in 0..m |-> IF k = 0 THEN sram ELSE Copied(f[k - 1], copies[k])]
           S == {m \in Nat : \E f : Is(f, m)}
<1>1. 0 \in S
  <2>1. Is([k \in 0..0 |-> sram], 0)
    OBVIOUS
  <2> QED BY <2>1
<1>2. ASSUME NEW m \in Nat, m \in S PROVE m + 1 \in S
  <2>1. PICK f : Is(f, m)
    BY <1>2
  <2> DEFINE g == [k \in 0..(m + 1) |-> IF k = 0 THEN sram ELSE Copied(f[k - 1], copies[k])]
             h == [k \in 0..(m + 1) |-> IF k = 0 THEN sram ELSE Copied(g[k - 1], copies[k])]
  <2>2. \A k \in 0..m : g[k] = f[k]
    BY <2>1
  <2>3. \A k \in 0..(m + 1) : k # 0 => k - 1 \in 0..m
    OBVIOUS
  <2>4. \A k \in 0..(m + 1) : g[k] = IF k = 0 THEN sram ELSE Copied(f[k - 1], copies[k])
    OBVIOUS
  <2>5. g = [k \in 0..(m + 1) |-> g[k]]
    OBVIOUS
  <2> HIDE DEF g
  <2>6. \A k \in 0..(m + 1) : g[k] = h[k]
    BY <2>2, <2>3, <2>4
  <2>7. h = [k \in 0..(m + 1) |-> h[k]]
    OBVIOUS
  <2> HIDE DEF h
  <2>8. g = h
    BY <2>5, <2>6, <2>7
  <2>9. Is(g, m + 1)
    BY <2>8 DEF h
  <2> HIDE DEF Is
  <2> QED BY <2>9
<1> HIDE DEF S
<1>3. Nat \subseteq S
  BY <1>1, <1>2, SetInduction
<1>4. MaxCopies \in S
  BY <1>3, TheSizes
<1>5. \E f : f = [k \in 0..MaxCopies |-> IF k = 0 THEN sram ELSE Copied(f[k - 1], copies[k])]
  BY <1>4 DEF S
<1>6. AfterCopies = [k \in 0..MaxCopies |-> IF k = 0 THEN sram
                                           ELSE Copied(AfterCopies[k - 1], copies[k])]
  BY <1>5 DEF AfterCopies
<1> QED BY <1>6

LEMMA CopyTypes ==
  ASSUME PlanInv, NEW j \in DOMAIN copies
  PROVE  /\ copies[j].dest \in Nat /\ copies[j].src \in Nat /\ copies[j].len \in Nat
         /\ Stored(copies[j]) \in Nat /\ copies[j].len <= Stored(copies[j])
         /\ j \in Nat /\ j \in 1..Len(copies) /\ Len(copies) \in 0..MaxCopies
<1>1. copies \in Seq([dest : Nat, src : Nat, len : Nat]) /\ Len(copies) <= MaxCopies
  BY DEF PlanInv, PlanTypes, TheSizes
<1>2. Len(copies) \in Nat /\ DOMAIN copies = 1..Len(copies)
  BY <1>1
<1>5. j \in 1..Len(copies) /\ j \in Nat /\ Len(copies) \in 0..MaxCopies
  BY <1>1, <1>2, TheSizes
<1>6. copies[j] \in [dest : Nat, src : Nat, len : Nat]
  <2> DEFINE T == [dest : Nat, src : Nat, len : Nat]
  <2>1. copies \in Seq(T)
    BY <1>1
  <2> HIDE DEF T
  <2>2. copies[j] \in T
    BY <1>5, <2>1
  <2> QED BY <2>2 DEF T
<1>3. ASSUME NEW n \in Nat PROVE Padded(n) \in Nat /\ n <= Padded(n)
  <2>1. n % Word \in 0..(Word - 1)
    BY TheCells, ModRange
  <2>2. Word - (n % Word) \in Nat
    BY <2>1, TheCells
  <2>3. (Word - (n % Word)) % Word \in 0..(Word - 1)
    BY <2>2, TheCells, ModRange
  <2> QED BY <2>3, TheCells DEF Padded
<1>4. copies[j].dest \in Nat /\ copies[j].src \in Nat /\ copies[j].len \in Nat
  BY <1>6
<1>7. Padded(copies[j].len) \in Nat /\ copies[j].len <= Padded(copies[j].len)
  BY <1>3, <1>4
<1>8. Stored(copies[j]) = Padded(copies[j].len) \/ Stored(copies[j]) = copies[j].len
  BY DEF Stored
<1>9. Stored(copies[j]) \in Nat /\ copies[j].len <= Stored(copies[j])
  BY <1>4, <1>7, <1>8
<1> QED BY <1>4, <1>5, <1>9

\* The bytes of a copy have cells of their own.
LEMMA CellsDiffer ==
  ASSUME PlanInv, Storable, NEW j \in DOMAIN copies,
         NEW b \in 0..(Stored(copies[j]) - 1), NEW d \in 0..(Stored(copies[j]) - 1),
         Cell(copies[j].dest + b) = Cell(copies[j].dest + d)
  PROVE  b = d
<1> DEFINE dest == copies[j].dest
           w == IWindow[chip]
<1>1. dest \in Nat /\ Stored(copies[j]) \in Nat
  BY CopyTypes
<1>2. w[1] \in Nat /\ w[2] \in Nat /\ w[1] - 1 \notin Memory[chip] /\ Alias \in Nat
  <2>1. chip \in Chips
    BY DEF PlanInv, PlanTypes
  <2>2. w \in Nat \X Nat
    BY <2>1, TheCells
  <2> QED BY <2>1, <2>2, TheCells
<1>3. \A x \in 0..(Stored(copies[j]) - 1) : Cell(dest + x) \in Memory[chip]
  BY DEF Storable, Touched, CellsOf
<1> HIDE DEF dest, w
<1>4. ASSUME NEW x \in 0..(Stored(copies[j]) - 1), NEW y \in 0..(Stored(copies[j]) - 1), x < y,
             Cell(dest + x) = Cell(dest + y)
      PROVE  FALSE
  <2>1. ~In(dest + x, w) /\ In(dest + y, w)
    BY <1>1, <1>2, <1>4 DEF Cell, In, w
  <2>2. dest + x < w[1] /\ w[1] <= dest + y
    BY <1>1, <1>2, <1>4, <2>1 DEF In
  <2> DEFINE z == w[1] - 1 - dest
  <2>3. z \in 0..(Stored(copies[j]) - 1) /\ dest + z = w[1] - 1
    BY <1>1, <1>2, <2>2
  <2>4. Cell(dest + z) = w[1] - 1
    BY <1>2, <2>3 DEF Cell, In, w
  <2> QED BY <1>2, <1>3, <2>3, <2>4
<1>5. Cell(dest + b) = Cell(dest + d)
  BY DEF dest
<1>6. b \in Int /\ d \in Int
  BY <1>1
<1> QED BY <1>4, <1>5, <1>6

\* What a copy stores in a cell.
LEMMA CopiedAt ==
  ASSUME PlanInv, Storable, NEW j \in DOMAIN copies, NEW mem,
         NEW b \in 0..(copies[j].len - 1), \A p \in BufferPages : mmu[p] = Own
  PROVE  LET x == Cell(copies[j].dest + b) IN
         x \in CellsOf(copies[j]) /\ Copied(mem, copies[j])[x] = copies[j].src + b
<1> DEFINE c == copies[j]
           x == Cell(c.dest + b)
           last == Stored(c) - 1
           bb == CHOOSE d \in 0..last : Cell(c.dest + d) = x
<1>1. b \in 0..last
  BY CopyTypes
<1>2. x \in CellsOf(c)
  BY <1>1 DEF CellsOf
<1>3. bb \in 0..last /\ Cell(c.dest + bb) = x
  BY <1>1
<1> HIDE DEF bb
<1>4. bb = b
  BY <1>1, <1>3, CellsDiffer
<1>5. Copied(mem, c)[x] = IF bb < c.len THEN ReadBuffer(c.src + bb) ELSE Zero
  <2>1. x \in DOMAIN mem \cup CellsOf(c)
    BY <1>2
  <2> QED BY <1>2, <2>1 DEF Copied, bb
<1>6. b < c.len
  BY CopyTypes
<1>7. ReadBuffer(c.src + b) = c.src + b
  BY DEF ReadBuffer
<1> QED BY <1>2, <1>4, <1>5, <1>6, <1>7

\* What the copies leave in on-chip memory.
LEMMA AfterAllCopies ==
  ASSUME PlanInv, sram = <<>>, NEW n \in Nat, n <= Len(copies)
  PROVE  /\ DOMAIN AfterCopies[n] = UNION {CellsOf(copies[k]) : k \in 1..n}
         /\ Storable /\ WellPlaced /\ (\A p \in BufferPages : mmu[p] = Own) =>
              \A j \in 1..n : \A b \in 0..(copies[j].len - 1) :
                AfterCopies[n][Cell(copies[j].dest + b)] = copies[j].src + b
<1> DEFINE Good == Storable /\ WellPlaced /\ (\A p \in BufferPages : mmu[p] = Own)
           Reached(m) == UNION {CellsOf(copies[k]) : k \in 1..m}
           Holds(m) == \A j \in 1..m : \A b \in 0..(copies[j].len - 1) :
                         AfterCopies[m][Cell(copies[j].dest + b)] = copies[j].src + b
           S == {m \in Nat : m <= Len(copies) =>
                               DOMAIN AfterCopies[m] = Reached(m) /\ (Good => Holds(m))}
<1>0. DOMAIN copies = 1..Len(copies) /\ Len(copies) \in Nat /\ Len(copies) <= MaxCopies
      /\ MaxCopies \in Nat
  <2>1. copies \in Seq([dest : Nat, src : Nat, len : Nat]) /\ Len(copies) <= MaxCopies
    BY DEF PlanInv, PlanTypes
  <2> QED BY <2>1, TheSizes
<1>1. 0 \in S
  <2>1. AfterCopies[0] = <<>>
    <3>1. 0 \in 0..MaxCopies
      BY <1>0
    <3> QED BY <3>1, AfterCopiesStep
  <2>2. DOMAIN AfterCopies[0] = {} /\ Reached(0) = {} /\ Holds(0)
    BY <2>1
  <2> QED BY <2>2
<1>2. ASSUME NEW m \in Nat, m \in S PROVE m + 1 \in S
  <2> SUFFICES ASSUME m + 1 <= Len(copies)
               PROVE  DOMAIN AfterCopies[m + 1] = Reached(m + 1) /\ (Good => Holds(m + 1))
    OBVIOUS
  <2> DEFINE c == copies[m + 1]
  <2>1. m + 1 \in DOMAIN copies /\ m \in 0..MaxCopies /\ m + 1 \in 0..MaxCopies /\ m <= Len(copies)
    BY <1>0
  <2>2. AfterCopies[m + 1] = Copied(AfterCopies[m], c)
    <3> DEFINE k == m + 1
    <3>1. k \in 0..MaxCopies /\ k # 0 /\ k - 1 = m
      BY <2>1
    <3> HIDE DEF k
    <3>2. AfterCopies[k] = Copied(AfterCopies[k - 1], copies[k])
      BY <3>1, AfterCopiesStep
    <3> QED BY <3>1, <3>2 DEF k
  <2>3. DOMAIN AfterCopies[m] = Reached(m) /\ (Good => Holds(m))
    BY <1>2, <2>1
  <2>4. Reached(m + 1) = Reached(m) \cup CellsOf(c)
    <3>1. 1..(m + 1) = (1..m) \cup {m + 1}
      OBVIOUS
    <3> QED BY <3>1
  <2>5. DOMAIN AfterCopies[m + 1] = Reached(m + 1)
    <3>1. DOMAIN Copied(AfterCopies[m], c) = DOMAIN AfterCopies[m] \cup CellsOf(c)
      BY Zenon DEF Copied
    <3> HIDE DEF Reached
    <3> QED BY <2>2, <2>3, <2>4, <3>1
  <2>6. ASSUME Good, NEW j \in 1..(m + 1), NEW b \in 0..(copies[j].len - 1)
        PROVE  AfterCopies[m + 1][Cell(copies[j].dest + b)] = copies[j].src + b
    <3> DEFINE x == Cell(copies[j].dest + b)
    <3>1. CASE j = m + 1
      BY <2>1, <2>2, <2>6, <3>1, CopiedAt
    <3>2. CASE j # m + 1
      <4>1. j \in 1..m /\ j \in DOMAIN copies
        BY <1>0, <2>1, <3>2
      <4>2. x \in CellsOf(copies[j])
        <5>1. b \in 0..(Stored(copies[j]) - 1)
          BY <4>1, CopyTypes
        <5> QED BY <5>1 DEF CellsOf
      <4>3. x \notin CellsOf(c)
        <5>1. CellsOf(copies[j]) \cap CellsOf(c) = {}
          BY <2>1, <2>6, <3>2, <4>1 DEF WellPlaced
        <5> QED BY <4>2, <5>1
      <4>4. x \in DOMAIN AfterCopies[m]
        BY <2>3, <4>1, <4>2
      <4>5. Copied(AfterCopies[m], c)[x] = AfterCopies[m][x]
        BY <4>3, <4>4, Zenon DEF Copied
      <4>6. AfterCopies[m][x] = copies[j].src + b
        BY <2>3, <2>6, <4>1
      <4> QED BY <2>2, <4>5, <4>6
    <3> QED BY <3>1, <3>2
  <2> QED BY <2>5, <2>6
<1> HIDE DEF S
<1>3. n \in S
  BY <1>1, <1>2, SetInduction
<1> QED BY <1>3 DEF S

LEMMA AllTouched ==
  ASSUME PlanInv
  PROVE  Touched = UNION {CellsOf(copies[k]) : k \in 1..Len(copies)}
         /\ DOMAIN copies = 1..Len(copies) /\ Len(copies) \in Nat
<1>1. copies \in Seq([dest : Nat, src : Nat, len : Nat])
  BY DEF PlanInv, PlanTypes
<1>2. DOMAIN copies = 1..Len(copies) /\ Len(copies) \in Nat
  BY <1>1
<1> QED BY <1>2 DEF Touched
---------------------------------------------------------------------------
(* Pages that are mapped *)

LEMMA QuotientIs ==
  ASSUME NEW w \in Nat \ {0}, NEW a \in Nat, NEW q \in Nat, w * q <= a, a < w * q + w
  PROVE  a \div w = q
<1>1. a \div w \in Nat /\ a = w * (a \div w) + (a % w) /\ a % w \in 0..(w - 1)
  OBVIOUS
<1> DEFINE t == a \div w
<1> HIDE DEF t
<1>2. w * t \in Nat /\ w * q \in Nat /\ t \in Nat
  BY <1>1 DEF t
<1>3. w * t <= a /\ a < w * t + w
  BY <1>1, <1>2 DEF t
<1>4. t <= q
  <2> SUFFICES ASSUME t >= q + 1 PROVE FALSE
    BY <1>2
  <2>1. w * t >= w * (q + 1) /\ w * (q + 1) = w * q + w
    BY <1>2
  <2> QED BY <1>2, <1>3, <2>1
<1>5. q <= t
  <2> SUFFICES ASSUME q >= t + 1 PROVE FALSE
    BY <1>2
  <2>1. w * q >= w * (t + 1) /\ w * (t + 1) = w * t + w
    BY <1>2
  <2> QED BY <1>2, <1>3, <2>1
<1> QED BY <1>2, <1>4, <1>5 DEF t

\* The number of a page.
LEMMA PageNumber ==
  ASSUME NEW a \in Nat
  PROVE  /\ a \div Page \in Nat /\ PageOf(a) = Page * (a \div Page)
         /\ Page * (a \div Page) <= a /\ a < Page * (a \div Page) + Page
         /\ a = (a \div Page) * Page + (a % Page)
<1>1. PICK q \in Nat : PageOf(a) = Page * q /\ PageOf(a) <= a /\ a < PageOf(a) + Page
  BY TheSizes, PageDown
<1>2. a \div Page = q
  BY <1>1, TheSizes, QuotientIs
<1>3. a = PageOf(a) + (a % Page)
  BY InPage
<1>4. Page * q = q * Page
  BY TheSizes
<1> QED BY <1>1, <1>2, <1>3, <1>4

\* A window is a number of pages.
LEMMA SpanInPages ==
  \E n \in Nat \ {0} : Span = Page * n /\ Span \div Page = n /\ Pages = 0..(n - 1)
<1> USE TheSizes
<1>1. PICK n \in Nat : Span = Page * n
  <2>1. PICK n \in Nat : Span = Page * n + (Span % Page)
    BY Quotient
  <2>2. Page * n \in Nat /\ Span % Page = 0
    OBVIOUS
  <2>3. Span = Page * n
    BY <2>1, <2>2
  <2> QED BY <2>3
<1>2. n # 0
  BY <1>1
<1>3. Span \div Page = n
  BY <1>1, QuotientIs
<1> QED BY <1>1, <1>2, <1>3 DEF Pages

\* The mapping of a segment: whole pages, from the segment's first one.
LEMMA MappedPages ==
  ASSUME NEW s, s.addr \in Nat, s.len \in Nat
  PROVE  LET m == MappingOf(s)
             l == Linear(s.addr)
             p == l \div Page
         IN /\ m.vaddr \in Nat /\ m.paddr \in Nat
            /\ Linear(m.vaddr) \div Page = p /\ m.paddr \div Page = p /\ m.paddr = Page * p
            /\ PagesIn(m) \in Nat /\ m.len = Page * PagesIn(m)
            /\ s.len = 0 => PagesIn(m) = 0
            /\ s.len # 0 => /\ Page * (p + PagesIn(m)) <= l + s.len + Page - 2
                            /\ l + s.len - 1 <= Page * (p + PagesIn(m))
<1> USE TheSizes
<1> DEFINE m == MappingOf(s)
           l == Linear(s.addr)
           from == PageOf(s.addr)
           e == s.addr + s.len + Page - 2
<1>1. PICK k, q, p \in Nat :
        /\ Span * q = Page * (k * q)
        /\ s.addr = Span * q + l
        /\ from = Span * q + Page * p
        /\ Linear(from) = Page * p
        /\ Page * p <= l
  BY PageInWindow, Zenon
<1>2. l \in Nat /\ from \in Nat /\ s.addr < from + Page
  <2>1. PICK r \in Nat : from = Page * r /\ s.addr < from + Page
    BY PageDown
  <2> QED BY <2>1, PageFits
<1>3. Page * p \in Nat /\ Span * q \in Nat /\ k * q \in Nat
  OBVIOUS
<1>4. l < Page * p + Page
  <2> HIDE DEF l, from
  <2> QED BY <1>1, <1>2, <1>3
<1>5. l \div Page = p
  <2> HIDE DEF l
  <2> QED BY <1>1, <1>2, <1>4, QuotientIs
<1>6. (Page * p) \div Page = p
  BY <1>3, QuotientIs
<1>7. m.vaddr = from /\ m.paddr = Page * p
  BY <1>1 DEF MappingOf
<1>8. \A t \in Nat : (Page * t + Page - 1) \div Page = t
  <2> SUFFICES ASSUME NEW t \in Nat PROVE (Page * t + Page - 1) \div Page = t
    OBVIOUS
  <2>1. Page * t \in Nat /\ Page * t + Page - 1 \in Nat
    OBVIOUS
  <2> QED BY <2>1, QuotientIs
<1>9. CASE s.len = 0
  <2>1. m.len = from - from
    BY <1>9 DEF MappingOf
  <2> HIDE DEF m, from
  <2>2. m.len = Page * 0
    BY <1>2, <2>1
  <2>3. PagesIn(m) = (Page * 0 + Page - 1) \div Page
    BY <2>2 DEF PagesIn
  <2>4. PagesIn(m) = 0
    BY <1>8, <2>3
  <2> QED BY <1>1, <1>2, <1>3, <1>5, <1>6, <1>7, <1>9, <2>2, <2>4 DEF m
<1>10. CASE s.len # 0
  <2>1. m.len = PageOf(e) - from
    BY <1>10 DEF MappingOf
  <2>2. e \in Nat /\ e >= s.addr + Page - 1
    BY <1>10
  <2>3. PICK t \in Nat : PageOf(e) = Page * t /\ PageOf(e) <= e /\ e < PageOf(e) + Page
    BY <2>2, PageDown
  <2> DEFINE n == t - k * q - p
  <2> HIDE DEF m, from, l
  <2>4. Page * t \in Nat
    OBVIOUS
  <2>5. n \in Int /\ Page * n = Page * t - Page * (k * q) - Page * p
    BY <1>3
  <2> HIDE DEF n
  <2>6. m.len = Page * n
    <3>1. m.len = Page * t - (Page * (k * q) + Page * p)
      BY <1>1, <2>1, <2>3
    <3>2. Page * (k * q) \in Nat
      BY <1>3
    <3> QED BY <1>3, <2>4, <2>5, <3>1, <3>2
  <2>7. Page * n > - Page
    BY <1>1, <1>2, <1>3, <2>1, <2>2, <2>3, <2>4, <2>6
  <2>8. n \in Nat
    <3> SUFFICES ASSUME n <= -1 PROVE FALSE
      BY <2>5
    <3>1. Page * n <= Page * (-1) /\ Page * (-1) = - Page
      BY <2>5
    <3> QED BY <2>5, <2>7, <3>1
  <2>9. PagesIn(m) = n
    BY <1>8, <2>6, <2>8 DEF PagesIn
  <2>10. Page * (p + n) = Page * t - Span * q
    BY <1>1, <1>3, <2>4, <2>5, <2>8
  <2>11. /\ Page * (p + n) <= l + s.len + Page - 2
         /\ l + s.len - 1 <= Page * (p + n)
    <3>1. Page * t <= Span * q + l + s.len + Page - 2
          /\ Span * q + l + s.len + Page - 2 < Page * t + Page
      BY <1>1, <2>2, <2>3 DEF l
    <3> QED BY <1>2, <1>3, <2>4, <2>10, <3>1
  <2>12. m.vaddr \in Nat /\ m.paddr \in Nat /\ Linear(m.vaddr) \div Page = p
         /\ m.paddr \div Page = p /\ m.paddr = Page * p
    BY <1>1, <1>2, <1>3, <1>6, <1>7 DEF m, from
  <2> QED BY <1>5, <1>10, <2>6, <2>8, <2>9, <2>11, <2>12 DEF m, l
<1> QED BY <1>9, <1>10

LEMMA Cancel ==
  ASSUME NEW w \in Nat \ {0}, NEW x \in Int, NEW y \in Int, w * x <= w * y
  PROVE  x <= y
<1> SUFFICES ASSUME x >= y + 1 PROVE FALSE
  OBVIOUS
<1>1. w * x >= w * (y + 1) /\ w * (y + 1) = w * y + w
  OBVIOUS
<1> QED BY <1>1

\* The mappings of segments that end in their window are entries of the
\* table as they stand: the P4's remainder changes no number.
LEMMA EntryIs ==
  ASSUME chip \in Chips, NEW m, NEW p \in Nat, NEW l \in Nat, NEW len \in Nat,
         NEW e \in 0..(PagesIn(m) - 1), PagesIn(m) \in Nat,
         Linear(m.vaddr) \div Page = p,
         Page * (p + PagesIn(m)) <= l + len + Page - 2, l + len <= Span
  PROVE  Entry(m, e) = p + e /\ p + e \in Pages
<1> USE TheSizes
<1> DEFINE n == PagesIn(m)
<1>1. PICK t \in Nat \ {0} : Span = Page * t /\ Span \div Page = t /\ Pages = 0..(t - 1)
  BY SpanInPages
<1> HIDE DEF n
<1>2. n \in Nat /\ e \in 0..(n - 1) /\ Page * (p + n) <= l + len + Page - 2
  BY DEF n
<1>3. Page * (p + n) \in Nat /\ Page * t \in Nat
  BY <1>2
<1>4. Page * (p + n) < Page * t + Page
  <2> DEFINE x == Page * (p + n)
  <2>1. x \in Nat /\ x <= l + len + Page - 2
    BY <1>2, <1>3
  <2> HIDE DEF x
  <2>2. x < Span + Page
    BY <2>1
  <2> QED BY <1>1, <2>2 DEF x
<1>5. Page * (p + n) <= Page * t
  BY <1>2, <1>4, LessThanAPage
<1>6. p + n <= t
  BY <1>2, <1>5, Cancel
<1>7. p + e \in 0..(t - 1)
  BY <1>2, <1>6
<1>8. (p + e) % t = p + e
  <2> DEFINE r == p + e
  <2>1. r \in Nat /\ r < t
    BY <1>7
  <2> HIDE DEF r
  <2>2. t * 0 + r = r
    BY <2>1
  <2>3. (t * 0 + r) % t = r
    BY <2>1, Remainder
  <2> QED BY <2>2, <2>3 DEF r
<1>9. Entry(m, e) \in {(p + e) % t, p + e}
  BY <1>1 DEF Entry
<1> QED BY <1>1, <1>7, <1>8, <1>9

\* The entry of a byte, unless it is one byte into a page and the last.
LEMMA ByteIsMapped ==
  ASSUME NEW s, s.addr \in Nat, s.len \in Nat, Linear(s.addr) + s.len <= Span,
         NEW b \in 0..(s.len - 1), ~IsLastByte(s, b)
  PROVE  LET l == Linear(s.addr) IN
         /\ Linear(s.addr + b) = l + b
         /\ (s.addr + b) % Page = (l + b) % Page
         /\ (l + b) \div Page - (l \div Page) \in 0..(PagesIn(MappingOf(s)) - 1)
<1> USE TheSizes
<1> DEFINE l == Linear(s.addr)
           p == l \div Page
           n == PagesIn(MappingOf(s))
           c == (l + b) \div Page
<1>1. l \in Nat /\ l + b \in Nat /\ l + b < Span
  BY PageFits
<1>2. PICK q \in Nat : s.addr = Span * q + l
  BY Quotient DEF Linear
<1>3. PICK t \in Nat \ {0} : Span = Page * t
  BY SpanInPages
<1>4. Span * q = Page * (t * q) /\ t * q \in Nat
  <2>1. Span * q = (Page * t) * q
    BY <1>3
  <2>2. (Page * t) * q = Page * (t * q) /\ t * q \in Nat
    OBVIOUS
  <2> QED BY <2>1, <2>2
<1>5. /\ n \in Nat /\ Page * (p + n) <= l + s.len + Page - 2
      /\ l + s.len - 1 <= Page * (p + n)
  BY MappedPages
<1>6. /\ p \in Nat /\ Page * p <= l /\ c \in Nat /\ Page * c <= l + b /\ l + b < Page * c + Page
      /\ l < Page * p + Page
  BY <1>1, PageNumber
<1>7. Linear(s.addr + b) = l + b
  <2> DEFINE r == l + b
  <2>1. s.addr + b = Span * q + r /\ r \in Nat /\ r < Span
    <3>1. Span * q \in Nat
      OBVIOUS
    <3> HIDE DEF l
    <3> QED BY <1>1, <1>2, <3>1
  <2> HIDE DEF r
  <2>2. (s.addr + b) % Span = r
    BY <2>1, Remainder
  <2> QED BY <2>2 DEF r, Linear
<1>8. ASSUME NEW x \in Nat PROVE (Page * (t * q) + x) % Page = x % Page
  <2>1. PICK y \in Nat : x = Page * y + (x % Page)
    BY Quotient
  <2>2. x % Page \in Nat /\ x % Page < Page
    BY ModRange
  <2> DEFINE z == t * q + y
             r == x % Page
  <2>3. z \in Nat /\ Page * z = Page * (t * q) + Page * y
    BY <1>4
  <2>4. Page * (t * q) + x = Page * z + r
    <3>1. Page * (t * q) \in Nat /\ Page * y \in Nat
      BY <1>4
    <3> HIDE DEF z, r
    <3> QED BY <2>1, <2>2, <2>3, <3>1 DEF r
  <2> HIDE DEF z, r
  <2>5. (Page * z + r) % Page = r
    BY <2>2, <2>3, Remainder DEF r
  <2> QED BY <2>4, <2>5 DEF r
<1>9. (s.addr + b) % Page = (l + b) % Page
  <2>1. s.addr + b = Page * (t * q) + (l + b)
    <3>1. Page * (t * q) \in Nat
      BY <1>4
    <3> HIDE DEF l
    <3> QED BY <1>1, <1>2, <1>4, <3>1
  <2> QED BY <1>1, <1>8, <2>1
<1>10. c < p + n
  <2> SUFFICES ASSUME c >= p + n PROVE FALSE
    BY <1>5, <1>6
  <2> HIDE DEF l, p, n, c
  <2>1. Page * c >= Page * (p + n) /\ Page * c \in Nat /\ Page * (p + n) \in Nat
    BY <1>5, <1>6
  <2>2. b = s.len - 1 /\ l + s.len = Page * (p + n) + 1
    BY <1>1, <1>5, <1>6, <2>1
  <2>3. (l + s.len) % Page = 1
    <3> DEFINE z == p + n
    <3>1. z \in Nat
      BY <1>5, <1>6
    <3> HIDE DEF z
    <3>2. (Page * z + 1) % Page = 1
      BY <3>1, Remainder
    <3> QED BY <2>2, <3>2 DEF z
  <2>4. s.addr + s.len = Page * (t * q) + (l + s.len)
    <3>1. Page * (t * q) \in Nat
      BY <1>4
    <3> QED BY <1>1, <1>2, <1>4, <3>1
  <2>5. (s.addr + s.len) % Page = 1
    <3>1. l + s.len \in Nat
      BY <1>1
    <3> QED BY <1>8, <2>3, <2>4, <3>1
  <2> QED BY <2>2, <2>5 DEF IsLastByte
<1>11. p <= c
  <2> HIDE DEF l, p, n, c
  <2>1. Page * p \in Nat /\ Page * c \in Nat
    BY <1>6
  <2>2. Page * p < Page * c + Page
    BY <1>1, <1>6, <2>1
  <2> QED BY <1>6, <2>2, LessThanAPage, Cancel
<1> HIDE DEF c, p, n
<1>12. c - p \in 0..(n - 1)
  BY <1>5, <1>6, <1>10, <1>11
<1> QED BY <1>7, <1>9, <1>12 DEF c, p, n

\* A set of numbers that has a bound has a largest one.
LEMMA HasLargest ==
  ASSUME NEW n \in Nat, NEW C, C \subseteq 0..n, C # {}
  PROVE  \E x \in C : \A y \in C : y <= x
<1> DEFINE S == {m \in Nat : \A D \in SUBSET (0..m) : D # {} => \E x \in D : \A y \in D : y <= x}
<1>1. 0 \in S
  <2> SUFFICES ASSUME NEW D \in SUBSET (0..0), D # {} PROVE \E x \in D : \A y \in D : y <= x
    OBVIOUS
  <2>1. 0..0 = {0}
    OBVIOUS
  <2>2. 0 \in D /\ \A y \in D : y = 0
    BY <2>1
  <2> QED BY <2>2
<1>2. ASSUME NEW m \in Nat, m \in S PROVE m + 1 \in S
  <2> SUFFICES ASSUME NEW D \in SUBSET (0..(m + 1)), D # {}
               PROVE  \E x \in D : \A y \in D : y <= x
    OBVIOUS
  <2>1. CASE m + 1 \in D
    <3>1. \A y \in D : y <= m + 1
      OBVIOUS
    <3> QED BY <2>1, <3>1
  <2>2. CASE m + 1 \notin D
    <3>1. D \subseteq 0..m
      BY <2>2
    <3> QED BY <1>2, <3>1
  <2> QED BY <2>1, <2>2
<1> HIDE DEF S
<1>3. n \in S
  BY <1>1, <1>2, SetInduction
<1> QED BY <1>3 DEF S

\* What the table shows after the mappings are written.
LEMMA MappedShows ==
  ASSUME PlanInv, NEW p \in Pages
  PROVE  IF p \in Remapped
         THEN \E j \in DOMAIN maps : \E e \in 0..(PagesIn(maps[j]) - 1) :
                Entry(maps[j], e) = p /\ Mapped[p] = (maps[j].paddr \div Page) + e
         ELSE Mapped[p] = mmu[p]
<1> DEFINE k == CHOOSE k \in Covering(p) : \A j \in Covering(p) : j <= k
           e == CHOOSE e \in 0..(PagesIn(maps[k]) - 1) : Entry(maps[k], e) = p
<1>1. Mapped[p] = IF p \notin Remapped THEN mmu[p] ELSE (maps[k].paddr \div Page) + e
  BY Zenon DEF Mapped
<1>2. CASE p \notin Remapped
  BY <1>1, <1>2
<1>3. CASE p \in Remapped
  <2>1. Covering(p) # {}
    BY <1>3 DEF Remapped
  <2>2. Covering(p) \subseteq 0..Len(maps) /\ Len(maps) \in Nat
    <3>1. maps \in Seq([vaddr : Nat, len : Nat, paddr : Nat])
      BY DEF PlanInv, PlanTypes
    <3>2. DOMAIN maps = 1..Len(maps) /\ Len(maps) \in Nat
      BY <3>1
    <3> QED BY <3>2 DEF Covering
  <2>3. \E x \in Covering(p) : \A y \in Covering(p) : y <= x
    BY <2>1, <2>2, HasLargest
  <2>4. k \in Covering(p)
    BY <2>3
  <2> HIDE DEF k
  <2>5. k \in DOMAIN maps /\ e \in 0..(PagesIn(maps[k]) - 1) /\ Entry(maps[k], e) = p
    BY <2>4 DEF Covering
  <2> HIDE DEF e
  <2>6. Mapped[p] = (maps[k].paddr \div Page) + e
    BY <1>1, <1>3 DEF k, e
  <2> QED BY <1>3, <2>5, <2>6
<1> QED BY <1>2, <1>3
---------------------------------------------------------------------------
(* The invariant of the hand-off *)

LEMMA InitHand == Init => HandInv
<1> SUFFICES ASSUME Init PROVE HandInv
  OBVIOUS
<1>1. /\ stage = "plan" /\ mmu = [p \in Pages |-> Own] /\ cached = Pages /\ dirty = Pages
      /\ flushed = FALSE /\ spoilt = {} /\ sram = <<>> /\ pending = {}
  BY DEF Init, HandOffInit
<1>2. chip \in Chips
  BY DEF Init, PlanInit
<1>3. StageInv /\ CacheInv /\ MmuInv
  BY <1>1, <1>2 DEF StageInv, CacheInv, MmuInv, Stages, Copying, Drained, Showing
<1>4. MemoryInv
  BY <1>1 DEF MemoryInv, Copying, Drained, Showing
<1> QED BY <1>3, <1>4 DEF HandInv

\* What is said of the plan alone stays.
LEMMA SamePlan ==
  ASSUME UNCHANGED ivars
  PROVE  /\ UNCHANGED <<chip, pass, maps, copies>>
         /\ Remapped' = Remapped /\ Touched' = Touched /\ WellPlaced' = WellPlaced
         /\ \A m, e : Entry(m, e)' = Entry(m, e)
<1>1. UNCHANGED <<chip, pass, maps, copies>>
  BY DEF ivars
<1>2. \A m, e : Entry(m, e)' = Entry(m, e)
  BY <1>1 DEF Entry
<1>3. \A p : Covering(p)' = Covering(p)
  BY <1>1, <1>2 DEF Covering
<1>4. Remapped' = Remapped
  BY <1>3 DEF Remapped
<1>5. \A c : Stored(c)' = Stored(c) /\ \A a : Cell(a)' = Cell(a)
  BY <1>1 DEF Stored, InWords, Cell
<1>6. \A c : CellsOf(c)' = CellsOf(c)
  BY <1>5 DEF CellsOf
<1> QED BY <1>1, <1>2, <1>4, <1>6 DEF Touched, WellPlaced

\* Where the hand-off stores nothing into on-chip memory.
LEMMA SameMemory ==
  ASSUME HandInv, UNCHANGED ivars, UNCHANGED <<sram, pending>>,
         stage \in Copying <=> stage' \in Copying, stage # "wild",
         stage' \in {"jump", "payload"} => pending = {}
  PROVE  MemoryInv'
<1>1. /\ UNCHANGED <<chip, copies>> /\ Touched' = Touched /\ WellPlaced' = WellPlaced
  BY SamePlan
<1>2. \A a : Cell(a)' = Cell(a)
  BY <1>1 DEF Cell
<1>3. CopiesStand' = CopiesStand
  BY <1>1, <1>2 DEF CopiesStand
<1> QED BY <1>1, <1>3 DEF HandInv, MemoryInv

LEMMA HandOfPlan ==
  ASSUME HandInv, (PlanStep /\ UNCHANGED hvars) \/ Commit
  PROVE  HandInv'
<1>1. chip' = chip /\ stage = "plan" /\ UNCHANGED <<mmu, cached, dirty, spoilt, sram, pending>>
  <2>1. CASE PlanStep /\ UNCHANGED hvars
    <3>1. chip' = chip /\ pass # "done"
      BY <2>1 DEF PlanStep, CheckHeader, Measure, Allocate, PlaceMapped, PlaceDirect, PlaceNowhere
    <3> QED BY <2>1, <3>1 DEF HandInv, StageInv, hvars
  <2>2. CASE Commit
    BY <2>2 DEF Commit, Finish
  <2> QED BY <2>1, <2>2
<1>2. \/ stage' = "plan" /\ flushed' = flushed
      \/ /\ stage' = IF chip = "P4" THEN "evict" ELSE "writeback"
         /\ pass' = "done" /\ flushed' \in BOOLEAN
  <2>1. CASE PlanStep /\ UNCHANGED hvars
    BY <1>1, <2>1 DEF hvars
  <2>2. CASE Commit
    <3>1. flushed' = (maxOff > 0)
      BY <2>2 DEF Commit
    <3>2. flushed' \in BOOLEAN
      BY <3>1
    <3> QED BY <2>2, <3>2 DEF Commit, Finish
  <2> QED BY <2>1, <2>2
<1>4. chip = "P4" \/ chip = "S3"
  BY DEF HandInv, StageInv, Chips
<1>5. StageInv'
  BY <1>1, <1>2, <1>4 DEF HandInv, StageInv, Stages, Copying
<1>6. CacheInv'
  BY <1>1, <1>2 DEF HandInv, CacheInv, Drained
<1>7. MmuInv'
  BY <1>1, <1>2 DEF HandInv, MmuInv, Showing
<1>8. MemoryInv'
  BY <1>1, <1>2 DEF HandInv, MemoryInv, Copying
<1> QED BY <1>5, <1>6, <1>7, <1>8 DEF HandInv

LEMMA HandOfEvict ==
  ASSUME HandInv, Evict, UNCHANGED ivars
  PROVE  HandInv'
<1>1. /\ chip = "P4" /\ stage = "evict" /\ stage' = "copy"
      /\ dirty' = {} /\ cached' = {} /\ flushed' = TRUE /\ UNCHANGED <<mmu, spoilt>>
      /\ UNCHANGED <<chip, pass>>
  BY SamePlan DEF Evict
<1>2. sram = <<>>
  BY <1>1 DEF HandInv, MemoryInv, Copying
<1>3. sram' = <<>> /\ pending' = {}
  BY <1>1, <1>2 DEF Evict, EvictBuf
<1>4. StageInv'
  BY <1>1 DEF HandInv, StageInv, Stages, Drained, Copying
<1>5. CacheInv'
  BY <1>1 DEF HandInv, CacheInv, Drained
<1>6. MmuInv'
  BY <1>1 DEF HandInv, MmuInv, Showing
<1>7. MemoryInv'
  BY <1>1, <1>3 DEF MemoryInv, Copying
<1> QED BY <1>4, <1>5, <1>6, <1>7 DEF HandInv

LEMMA HandOfWriteBack ==
  ASSUME HandInv, WriteBack, UNCHANGED ivars
  PROVE  HandInv'
<1>1. /\ chip = "S3" /\ stage = "writeback" /\ stage' = "copy"
      /\ flushed' = (flushed \/ maps # <<>>)
      /\ UNCHANGED <<mmu, cached, dirty, spoilt, sram, pending>>
      /\ UNCHANGED <<chip, pass, maps>> /\ Remapped' = Remapped
  BY SamePlan DEF WriteBack
<1>2. StageInv'
  BY <1>1 DEF HandInv, StageInv, Stages, Drained, Copying
<1>3. CacheInv'
  BY <1>1 DEF HandInv, CacheInv, Drained
<1>4. MmuInv'
  BY <1>1 DEF HandInv, MmuInv, Showing
<1>5. MemoryInv'
  BY <1>1, SameMemory DEF Copying
<1> QED BY <1>2, <1>3, <1>4, <1>5 DEF HandInv

LEMMA HandOfCopySegments ==
  ASSUME PlanInv, HandInv, CopySegments, UNCHANGED ivars
  PROVE  HandInv'
<1>1. /\ stage = "copy" /\ sram' = AfterCopies[Len(copies)]
      /\ pending' = IF chip = "P4" THEN Touched ELSE {}
      /\ cached' = Pages /\ dirty' \in {dirty, {}}
      /\ stage' = IF Storable /\ Touched \cap Resident[chip] = {} THEN "map" ELSE "wild"
      /\ UNCHANGED <<mmu, flushed, spoilt>>
  BY DEF CopySegments
<1>2. /\ UNCHANGED <<chip, pass, maps, copies>> /\ Touched' = Touched
      /\ WellPlaced' = WellPlaced /\ Remapped' = Remapped
  BY SamePlan
<1>3. sram = <<>> /\ \A p \in BufferPages : mmu[p] = Own
  BY <1>1, TheCells DEF HandInv, MemoryInv, MmuInv, Copying, Showing
<1>4. StageInv'
  BY <1>1, <1>2 DEF HandInv, StageInv, Stages, Drained, Copying
<1>5. CacheInv'
  <2>1. stage' \notin {"drain", "jump", "payload"}
    BY <1>1
  <2>2. dirty \subseteq Pages /\ flushed \in BOOLEAN /\ spoilt = {}
        /\ IF chip = "P4" THEN dirty = {} /\ flushed ELSE maps # <<>> => flushed
    BY <1>1 DEF HandInv, CacheInv, Drained
  <2>3. dirty' \subseteq Pages /\ cached' \subseteq Pages /\ flushed' \in BOOLEAN /\ spoilt' = {}
    BY <1>1, <2>2
  <2>4. IF chip' = "P4" THEN dirty' = {} /\ flushed' ELSE maps' # <<>> => flushed'
    BY <1>1, <1>2, <2>2
  <2> QED BY <2>1, <2>3, <2>4 DEF CacheInv
<1>6. MmuInv'
  BY <1>1 DEF HandInv, MmuInv, Showing
<1>7. MemoryInv'
  <2> DEFINE n == Len(copies)
  <2>1. DOMAIN copies = 1..n /\ n \in Nat /\ Touched = UNION {CellsOf(copies[k]) : k \in 1..n}
    BY AllTouched
  <2>2. /\ DOMAIN AfterCopies[n] = Touched
        /\ Storable /\ WellPlaced =>
             \A j \in 1..n : \A b \in 0..(copies[j].len - 1) :
               AfterCopies[n][Cell(copies[j].dest + b)] = copies[j].src + b
    BY <1>3, <2>1, AfterAllCopies
  <2>3. DOMAIN sram' = Touched'
    BY <1>1, <1>2, <2>2
  <2>4. \A a : Cell(a)' = Cell(a)
    BY <1>2 DEF Cell
  <2>5. ASSUME stage' # "wild", WellPlaced' PROVE CopiesStand'
    <3>1. Storable
      BY <1>1, <2>5
    <3>2. \A j \in 1..n : \A b \in 0..(copies[j].len - 1) :
            sram'[Cell(copies[j].dest + b)] = copies[j].src + b
      BY <1>1, <1>2, <2>2, <2>5, <3>1
    <3> QED BY <1>2, <2>1, <2>4, <3>2 DEF CopiesStand
  <2>6. stage' \notin Copying /\ stage' \notin {"jump", "payload"}
    BY <1>1 DEF Copying
  <2>7. pending' \subseteq DOMAIN sram' /\ (chip' = "S3" => pending' = {})
    BY <1>1, <1>2, <2>3
  <2> HIDE DEF n
  <2> QED BY <2>3, <2>5, <2>6, <2>7 DEF MemoryInv
<1> QED BY <1>4, <1>5, <1>6, <1>7 DEF HandInv

LEMMA HandOfProgramMmu ==
  ASSUME PlanInv, HandInv, ProgramMmu, UNCHANGED ivars
  PROVE  HandInv'
<1>1. /\ stage = "map" /\ mmu' = Mapped /\ stage' = "invalidate"
      /\ UNCHANGED <<cached, dirty, flushed, sram, pending>>
      /\ spoilt' \in {spoilt} \cup
           (IF chip = "P4" THEN {spoilt \cup {Mapped[p] : p \in Remapped \cap dirty}} ELSE {})
  BY DEF ProgramMmu
<1>2. /\ UNCHANGED <<chip, pass, maps, copies>> /\ Remapped' = Remapped
      /\ \A m, e : Entry(m, e)' = Entry(m, e)
  BY SamePlan
<1>3. StageInv'
  BY <1>1, <1>2 DEF HandInv, StageInv, Stages, Drained, Copying
<1>4. CacheInv'
  <2>1. /\ dirty \subseteq Pages /\ cached \subseteq Pages /\ flushed \in BOOLEAN /\ spoilt = {}
        /\ IF chip = "P4" THEN dirty = {} /\ flushed ELSE maps # <<>> => flushed
    BY <1>1 DEF HandInv, CacheInv, Drained
  <2>2. spoilt' = {}
    <3>1. chip = "P4" => {Mapped[p] : p \in Remapped \cap dirty} = {}
      BY <2>1
    <3> QED BY <1>1, <2>1, <3>1
  <2> QED BY <1>1, <1>2, <2>1, <2>2 DEF CacheInv
<1>5. MmuInv'
  <2>1. mmu' = [p \in Pages |-> mmu'[p]]
    <3> DEFINE shown(p) ==
                 IF p \notin Remapped THEN mmu[p]
                 ELSE LET k == CHOOSE k \in Covering(p) : \A j \in Covering(p) : j <= k
                          e == CHOOSE e \in 0..(PagesIn(maps[k]) - 1) : Entry(maps[k], e) = p
                      IN (maps[k].paddr \div Page) + e
    <3>2. Mapped = [p \in Pages |-> shown(p)]
      BY Zenon DEF Mapped
    <3> HIDE DEF shown
    <3>1. Mapped = [p \in Pages |-> Mapped[p]]
      BY <3>2
    <3> QED BY <1>1, <3>1, Zenon
  <2>2. ASSUME NEW p \in Pages
        PROVE  IF p \in Remapped THEN Shows(p)' ELSE mmu'[p] = Own
    <3>1. mmu[p] = Own
      BY <1>1 DEF HandInv, MmuInv, Showing
    <3>2. CASE p \notin Remapped
      BY <1>1, <3>1, <3>2, MappedShows
    <3>3. CASE p \in Remapped
      <4>1. PICK j \in DOMAIN maps : \E e \in 0..(PagesIn(maps[j]) - 1) :
              Entry(maps[j], e) = p /\ Mapped[p] = (maps[j].paddr \div Page) + e
        BY <3>3, MappedShows
      <4>2. \E e \in 0..(PagesIn(maps'[j]) - 1) :
              Entry(maps[j], e)' = p /\ mmu'[p] = (maps'[j].paddr \div Page) + e
        BY <1>1, <1>2, <4>1
      <4>3. PagesIn(maps[j])' = PagesIn(maps'[j])
        BY DEF PagesIn
      <4> QED BY <1>2, <3>3, <4>1, <4>2, <4>3 DEF Shows
    <3> QED BY <3>2, <3>3
  <2>3. stage' \in Showing
    BY <1>1 DEF Showing
  <2> QED BY <1>2, <2>1, <2>2, <2>3 DEF MmuInv
<1>6. MemoryInv'
  BY <1>1, SameMemory DEF Copying
<1> QED BY <1>3, <1>4, <1>5, <1>6 DEF HandInv

\* Where the table is not written.
LEMMA SameTable ==
  ASSUME HandInv, UNCHANGED ivars, mmu' = mmu, stage \in Showing, stage' \in Showing
  PROVE  MmuInv'
<1>1. /\ UNCHANGED maps /\ Remapped' = Remapped /\ \A m, e : Entry(m, e)' = Entry(m, e)
  BY SamePlan
<1>2. \A p : Shows(p)' = Shows(p)
  BY <1>1 DEF Shows, PagesIn
<1> QED BY <1>1, <1>2 DEF HandInv, MmuInv

LEMMA HandOfTheRest ==
  ASSUME PlanInv, HandInv, Invalidate \/ Drain \/ Jump, UNCHANGED ivars
  PROVE  HandInv'
<1>1. /\ UNCHANGED <<chip, pass, maps, copies>> /\ Remapped' = Remapped /\ Touched' = Touched
      /\ WellPlaced' = WellPlaced
  BY SamePlan
<1>2. chip = "P4" \/ chip = "S3"
  BY DEF HandInv, StageInv, Chips
<1>3. CASE Invalidate
  <2>1. /\ stage = "invalidate" /\ stage' = IF chip = "P4" THEN "drain" ELSE "jump"
        /\ cached' = IF chip = "P4" THEN cached \ Remapped ELSE {}
        /\ dirty' = dirty \cap cached'
        /\ UNCHANGED <<mmu, flushed, spoilt, sram, pending>>
    BY <1>3 DEF Invalidate
  <2>2. StageInv'
    BY <1>1, <1>2, <2>1 DEF HandInv, StageInv, Stages, Drained, Copying
  <2>3. CacheInv'
    <3>1. /\ dirty \subseteq Pages /\ cached \subseteq Pages /\ flushed \in BOOLEAN /\ spoilt = {}
          /\ IF chip = "P4" THEN dirty = {} /\ flushed ELSE maps # <<>> => flushed
      BY <2>1 DEF HandInv, CacheInv, Drained
    <3> QED BY <1>1, <2>1, <3>1 DEF CacheInv
  <2>4. MmuInv'
    BY <2>1, SameTable DEF Showing
  <2>5. stage' = "jump" => pending = {}
    BY <1>2, <2>1 DEF HandInv, MemoryInv
  <2>6. MemoryInv'
    BY <2>1, <2>5, SameMemory DEF Copying
  <2> QED BY <2>2, <2>3, <2>4, <2>6 DEF HandInv
<1>4. CASE Drain
  <2>1. /\ stage = "drain" /\ stage' = "jump" /\ pending' = {}
        /\ sram' = [c \in DOMAIN sram |-> IF c \in Scratch[chip] THEN Lost ELSE sram[c]]
        /\ UNCHANGED <<mmu, cached, dirty, flushed, spoilt>>
    BY <1>4 DEF Drain, EvictBuf
  <2>2. StageInv'
    BY <1>1, <1>2, <2>1 DEF HandInv, StageInv, Stages, Drained, Copying
  <2>3. CacheInv'
    BY <1>1, <2>1 DEF HandInv, CacheInv, Drained
  <2>4. MmuInv'
    BY <2>1, SameTable DEF Showing
  <2>5. DOMAIN sram = Touched /\ (WellPlaced => CopiesStand)
    BY <2>1 DEF HandInv, MemoryInv, Copying
  <2>6. \A a : Cell(a)' = Cell(a)
    BY <1>1 DEF Cell
  <2>7. ASSUME WellPlaced PROVE CopiesStand'
    <3> SUFFICES ASSUME NEW j \in DOMAIN copies, NEW b \in 0..(copies[j].len - 1),
                        Cell(copies[j].dest + b) \notin Scratch[chip]
                 PROVE  sram'[Cell(copies[j].dest + b)] = copies[j].src + b
      BY <1>1, <2>6 DEF CopiesStand
    <3> DEFINE x == Cell(copies[j].dest + b)
    <3>1. b \in 0..(Stored(copies[j]) - 1)
      BY CopyTypes
    <3>2. x \in DOMAIN sram
      BY <2>5, <3>1 DEF Touched, CellsOf
    <3>3. sram[x] = copies[j].src + b
      BY <2>5, <2>7 DEF CopiesStand
    <3> HIDE DEF x
    <3>4. x \notin Scratch[chip]
      BY DEF x
    <3>5. sram'[x] = sram[x]
      BY <2>1, <3>2, <3>4
    <3> QED BY <3>3, <3>5 DEF x
  <2>8. MemoryInv'
    <3>1. DOMAIN sram' = DOMAIN sram
      BY <2>1
    <3> QED BY <1>1, <2>1, <2>5, <2>7, <3>1 DEF MemoryInv, Copying
  <2> QED BY <2>2, <2>3, <2>4, <2>8 DEF HandInv
<1>5. CASE Jump
  <2>1. /\ stage = "jump" /\ stage' = "payload"
        /\ UNCHANGED <<mmu, cached, dirty, flushed, spoilt, sram, pending>>
    BY <1>5 DEF Jump
  <2>2. StageInv'
    BY <1>1, <2>1 DEF HandInv, StageInv, Stages, Drained, Copying
  <2>3. CacheInv'
    BY <1>1, <2>1 DEF HandInv, CacheInv, Drained
  <2>4. MmuInv'
    BY <2>1, SameTable DEF Showing
  <2>5. pending = {}
    BY <2>1 DEF HandInv, MemoryInv
  <2>6. MemoryInv'
    BY <2>1, <2>5, SameMemory DEF Copying
  <2> QED BY <2>2, <2>3, <2>4, <2>6 DEF HandInv
<1> QED BY <1>3, <1>4, <1>5

LEMMA HandStays ==
  ASSUME HandInv, UNCHANGED vars
  PROVE  HandInv'
<1>1. UNCHANGED ivars /\ UNCHANGED <<stage, mmu, cached, dirty, flushed, spoilt, sram, pending>>
  BY DEF vars, hvars
<1>2. /\ UNCHANGED <<chip, pass, maps, copies>> /\ Remapped' = Remapped /\ Touched' = Touched
      /\ WellPlaced' = WellPlaced /\ \A m, e : Entry(m, e)' = Entry(m, e)
  BY <1>1, SamePlan
<1>3. \A p : Shows(p)' = Shows(p)
  BY <1>1, <1>2 DEF Shows, PagesIn
<1>4. \A a : Cell(a)' = Cell(a)
  BY <1>2 DEF Cell
<1>5. CopiesStand' = CopiesStand
  BY <1>1, <1>2, <1>4 DEF CopiesStand
<1>6. StageInv' /\ CacheInv'
  BY <1>1, <1>2 DEF HandInv, StageInv, CacheInv
<1>7. MmuInv' /\ MemoryInv'
  BY <1>1, <1>2, <1>3, <1>5 DEF HandInv, MmuInv, MemoryInv
<1> QED BY <1>6, <1>7 DEF HandInv

LEMMA HandHolds == Spec => [](PlanInv /\ PlacedInv /\ HandInv)
<1>1. PlanInv /\ HandInv /\ [Next]_vars => HandInv'
  <2> SUFFICES ASSUME PlanInv, HandInv, [Next]_vars PROVE HandInv'
    OBVIOUS
  <2>1. CASE (PlanStep /\ UNCHANGED hvars) \/ Commit
    BY <2>1, HandOfPlan
  <2>2. CASE HandOffStep /\ UNCHANGED ivars
    BY <2>2, HandOfEvict, HandOfWriteBack, HandOfCopySegments, HandOfProgramMmu, HandOfTheRest
       DEF HandOffStep
  <2>3. CASE UNCHANGED vars
    BY <2>3, HandStays
  <2> QED BY <2>1, <2>2, <2>3 DEF Next
<1> QED BY <1>1, InitHand, PlacedHolds, PTL DEF Spec
---------------------------------------------------------------------------
(* What the payload finds *)

\* A mapping is that of a segment, and shows the staging buffer.
LEMMA MapsAreOfSegments ==
  ASSUME PlanInv, PlacedInv, NEW j \in DOMAIN maps
  PROVE  \E k \in 1..Len(image.segs) :
           LET s == SegOf(k)
               p == At(k) \div Page
               n == PagesIn(maps[j])
           IN /\ IsMapped(s.addr) /\ maps[j] = MappingOf(s)
              /\ n \in Nat /\ p \in Nat /\ At(k) \in Nat /\ s.len \in Nat
              /\ Linear(maps[j].vaddr) \div Page = p /\ maps[j].paddr \div Page = p
              /\ Page * (p + n) <= maxOff
              /\ n # 0 => s.len # 0 /\ Page * (p + n) <= At(k) + s.len + Page - 2
<1>1. PICK k \in 1..Len(image.segs) : IsMapped(SegOf(k).addr) /\ maps[j] = MappingOf(SegOf(k))
  BY DEF PlacedInv, ListedInv
<1> DEFINE s == SegOf(k)
           m == maps[j]
           l == At(k)
           p == l \div Page
           n == PagesIn(m)
<1>2. s.addr \in Nat /\ s.len \in Nat /\ l \in Nat
  BY SegTypes
<1>3. /\ Linear(m.vaddr) \div Page = p /\ m.paddr \div Page = p /\ m.paddr = Page * p
      /\ n \in Nat /\ m.len = Page * n
      /\ s.len = 0 => n = 0
      /\ s.len # 0 => Page * (p + n) <= l + s.len + Page - 2
  BY <1>1, <1>2, MappedPages DEF At
<1>4. p \in Nat
  BY <1>2, PageNumber
<1>5. m.paddr + m.len <= maxOff
  BY DEF PlanInv, PlanStaysInBounds
<1>6. Page * (p + n) <= maxOff
  <2> HIDE DEF m, p, n
  <2>1. Page * (p + n) = Page * p + Page * n
    BY <1>3, <1>4, TheSizes
  <2> QED BY <1>3, <1>5, <2>1
<1> QED BY <1>1, <1>2, <1>3, <1>4, <1>6

\* A page that is shown lies in the staging buffer.
LEMMA ShownInBuffer ==
  ASSUME PlanInv, PlacedInv, NEW p \in Pages, Shows(p)
  PROVE  mmu[p] \in 0..(maxOff \div Page)
<1> USE TheSizes
<1>1. PICK j \in DOMAIN maps : \E e \in 0..(PagesIn(maps[j]) - 1) :
        mmu[p] = (maps[j].paddr \div Page) + e
  BY DEF Shows
<1> DEFINE n == PagesIn(maps[j])
<1>2. PICK q \in Nat : n \in Nat /\ maps[j].paddr \div Page = q /\ Page * (q + n) <= maxOff
  BY MapsAreOfSegments
<1>3. PICK e \in 0..(n - 1) : mmu[p] = q + e
  BY <1>1, <1>2
<1> HIDE DEF n
<1>4. maxOff \in Nat
  BY DEF PlanInv, PlanTypes
<1>5. /\ maxOff \div Page \in Nat /\ maxOff < Page * (maxOff \div Page) + Page
  BY <1>4, PageNumber
<1> DEFINE y == maxOff \div Page
<1> HIDE DEF y
<1>6. Page * (q + n) < Page * y + Page
  <2>1. Page * (q + n) \in Nat /\ Page * y \in Nat
    BY <1>2, <1>5 DEF y
  <2> DEFINE x == Page * (q + n)
  <2> HIDE DEF x
  <2>2. x < Page * y + Page
    BY <1>2, <1>4, <1>5, <2>1 DEF x, y
  <2> QED BY <2>2 DEF x
<1>7. q + n <= y
  <2>1. Page * (q + n) <= Page * y
    BY <1>2, <1>5, <1>6, LessThanAPage DEF y
  <2> QED BY <1>2, <1>5, <2>1, Cancel DEF y
<1>8. q + e \in 0..y
  BY <1>2, <1>5, <1>7 DEF y
<1> QED BY <1>3, <1>8 DEF y

\* Type correctness of the hand-off: an entry shows the loader's own page or
\* one of the staging buffer.
THEOREM HandOffTypesHold == Spec => []HandOffTypeOK
<1>1. PlanInv /\ PlacedInv /\ HandInv => HandOffTypeOK
  <2> SUFFICES ASSUME PlanInv, PlacedInv, HandInv PROVE HandOffTypeOK
    OBVIOUS
  <2>1. PlanTypeOK
    BY DEF PlanInv, PlanTypes, PlanTypeOK
  <2>2. /\ stage \in {"plan", "evict", "writeback", "copy", "map", "invalidate", "drain", "jump",
                      "payload", "wild"}
        /\ stage = "plan" \/ pass = "done"
    BY DEF HandInv, StageInv, Stages, Copying, Drained
  <2>3. mmu \in [Pages -> {Own} \cup 0..(maxOff \div Page)]
    <3>1. CASE stage \notin Showing
      BY <3>1 DEF HandInv, MmuInv
    <3>2. CASE stage \in Showing
      <4>1. mmu = [p \in Pages |-> mmu[p]]
        BY <3>2 DEF HandInv, MmuInv
      <4>2. ASSUME NEW p \in Pages PROVE mmu[p] \in {Own} \cup 0..(maxOff \div Page)
        <5>1. Shows(p) \/ mmu[p] = Own
          BY <3>2 DEF HandInv, MmuInv
        <5> QED BY <5>1, ShownInBuffer
      <4> QED BY <4>1, <4>2
    <3> QED BY <3>1, <3>2
  <2>4. dirty \subseteq Pages /\ cached \subseteq Pages /\ flushed \in BOOLEAN /\ spoilt = {}
    BY DEF HandInv, CacheInv
  <2>5. DOMAIN sram \subseteq Touched /\ pending \subseteq DOMAIN sram
    BY DEF HandInv, MemoryInv
  <2> QED BY <2>1, <2>2, <2>3, <2>4, <2>5 DEF HandOffTypeOK
<1> QED BY <1>1, HandHolds, PTL

\* Every segment is behind the walk when the plan is made.
LEMMA AllPlaced ==
  ASSUME PlanInv, PlacedInv, pass = "done"
  PROVE  Placed = 1..Len(image.segs)
<1>1. i = Len(image.segs) + 1 /\ Len(image.segs) \in Nat
  BY SegTypes DEF PlacedInv, WalkInv
<1> QED BY <1>1 DEF Placed

\* Of an image that is well laid out, every entry shows its own page.
LEMMA ShowsItself ==
  ASSUME PlanInv, PlacedInv, WellLaidOut, NEW p \in Pages, Shows(p)
  PROVE  mmu[p] = p
<1>1. PICK j \in DOMAIN maps : \E e \in 0..(PagesIn(maps[j]) - 1) :
        Entry(maps[j], e) = p /\ mmu[p] = (maps[j].paddr \div Page) + e
  BY DEF Shows
<1> DEFINE m == maps[j]
           n == PagesIn(m)
<1>2. PICK e \in 0..(n - 1) : Entry(m, e) = p /\ mmu[p] = (m.paddr \div Page) + e
  BY <1>1
<1>3. PICK k \in 1..Len(image.segs) :
        LET s == SegOf(k)
            q == At(k) \div Page
        IN /\ IsMapped(s.addr)
           /\ n \in Nat /\ q \in Nat /\ At(k) \in Nat /\ s.len \in Nat
           /\ Linear(m.vaddr) \div Page = q /\ m.paddr \div Page = q
           /\ n # 0 => s.len # 0 /\ Page * (q + n) <= At(k) + s.len + Page - 2
  BY MapsAreOfSegments
<1>4. n # 0
  BY <1>2, <1>3
<1> DEFINE q == At(k) \div Page
<1>5. At(k) + SegOf(k).len <= Span
  <2>1. k \in MappedSegs
    BY <1>3, <1>4 DEF MappedSegs, SegOf
  <2> QED BY <2>1 DEF WellLaidOut, At, SegOf
<1>6. chip \in Chips
  BY DEF PlanInv, PlanTypes
<1>7. Entry(m, e) = q + e
  BY <1>2, <1>3, <1>4, <1>5, <1>6, EntryIs
<1> QED BY <1>2, <1>3, <1>7

\* When the payload runs, each byte of its mapped segments is where it was
\* linked to: through the table, past the cache, in the staging buffer.
THEOREM MappedHolds == Spec => []MappedReadsItsImage
<1>1. PlanInv /\ PlacedInv /\ HandInv => MappedReadsItsImage
  <2> SUFFICES ASSUME PlanInv, PlacedInv, HandInv, stage = "payload", WellLaidOut,
                      NEW k \in MappedSegs, NEW b \in 0..(image.segs[k].len - 1),
                      ~IsLastByte(image.segs[k], b)
               PROVE  Load(image.segs[k].addr + b) = DataAt(image.segs)[k] + b
    BY DEF MappedReadsItsImage
  <2> USE TheSizes
  <2> DEFINE s == SegOf(k)
             l == At(k)
             c == (l + b) \div Page
             e == c - (l \div Page)
             m == MappingOf(s)
  <2>1. k \in 1..Len(image.segs) /\ IsMapped(s.addr) /\ s.len > 0 /\ s = image.segs[k]
    BY DEF MappedSegs, SegOf
  <2>2. s.addr \in Nat /\ s.len \in Nat /\ l \in Nat /\ l = Linear(s.addr)
    BY <2>1, SegTypes DEF At
  <2>3. pass = "done" /\ k \in Placed
    <3>1. pass = "done"
      BY DEF HandInv, StageInv
    <3> QED BY <2>1, <3>1, AllPlaced
  <2>4. PICK j \in DOMAIN maps : maps[j] = m
    BY <2>1, <2>3 DEF PlacedInv, ListedInv
  <2>5. l + s.len <= Span
    BY <2>1 DEF WellLaidOut, At, SegOf
  <2>6. /\ Linear(s.addr + b) = l + b /\ (s.addr + b) % Page = (l + b) % Page
        /\ e \in 0..(PagesIn(m) - 1)
    BY <2>1, <2>2, <2>5, ByteIsMapped
  <2>7. /\ Linear(m.vaddr) \div Page = l \div Page /\ PagesIn(m) \in Nat
        /\ Page * ((l \div Page) + PagesIn(m)) <= l + s.len + Page - 2
    <3> HIDE DEF s, l
    <3>1. s.len # 0
      BY <2>1, <2>2
    <3> QED BY <2>2, <3>1, MappedPages
  <2>8. l \div Page \in Nat /\ c \in Nat /\ l + b = c * Page + ((l + b) % Page)
    <3>1. l + b \in Nat
      BY <2>2
    <3> QED BY <2>2, <3>1, PageNumber
  <2>9. Entry(m, e) = c /\ c \in Pages
    <3>1. chip \in Chips
      BY DEF PlanInv, PlanTypes
    <3>2. Entry(m, e) = (l \div Page) + e /\ (l \div Page) + e \in Pages
      <4> DEFINE p == l \div Page
      <4> HIDE DEF p, e, m, l, s
      <4> QED BY <2>2, <2>5, <2>6, <2>7, <2>8, <3>1, EntryIs DEF p
    <3>3. (l \div Page) + e = c
      BY <2>8
    <3> QED BY <3>2, <3>3
  <2>10. c \in Remapped
    BY <2>4, <2>6, <2>9 DEF Remapped, Covering
  <2>11. mmu[c] = c
    <3>1. Shows(c)
      BY <2>9, <2>10 DEF HandInv, MmuInv, Showing
    <3> QED BY <2>9, <3>1, ShowsItself
  <2>12. c \notin cached /\ spoilt = {} /\ flushed
    BY <2>4, <2>10 DEF HandInv, CacheInv, Drained
  <2>13. c # Own
    BY <2>8, TheCells
  <2>14. Load(s.addr + b) = fake[l + b]
    <3>1. Load(s.addr + b) = fake[c * Page + ((l + b) % Page)]
      BY <2>6, <2>11, <2>12, <2>13 DEF Load
    <3> QED BY <2>8, <3>1
  <2>15. fake[l + b] = DataAt(image.segs)[k] + b
    BY <2>1, <2>3 DEF PlacedInv, StagedInv, DataIsStaged
  <2> QED BY <2>1, <2>14, <2>15
<1> QED BY <1>1, HandHolds, PTL

\* And each byte of those that are copied is in its cell, written by no other
\* copy, not drained into, and in the memory behind the cache.
THEOREM DirectHolds == Spec => []DirectReadsItsImage
<1>1. PlanInv /\ PlacedInv /\ HandInv => DirectReadsItsImage
  <2> SUFFICES ASSUME PlanInv, PlacedInv, HandInv, stage = "payload", WellPlaced, ClearOfLoader,
                      NEW k \in DirectSegs, NEW b \in 0..(image.segs[k].len - 1)
               PROVE  /\ Cell(image.segs[k].addr + b) \notin pending
                      /\ sram[Cell(image.segs[k].addr + b)] = DataAt(image.segs)[k] + b
    BY DEF DirectReadsItsImage
  <2> DEFINE s == SegOf(k)
  <2>1. k \in 1..Len(image.segs) /\ IsDirect(s.addr) /\ s = image.segs[k]
    BY DEF DirectSegs, SegOf
  <2>2. pass = "done" /\ k \in Placed
    <3>1. pass = "done"
      BY DEF HandInv, StageInv
    <3> QED BY <2>1, <3>1, AllPlaced
  <2>3. ~IsMapped(s.addr)
    <3> SUFFICES ASSUME NEW w \in MappedWindows[chip], In(s.addr, w) PROVE FALSE
      BY DEF IsMapped
    <3>1. PICK v \in DirectWindows[chip] : In(s.addr, v)
      BY <2>1 DEF IsDirect
    <3>2. chip \in Chips
      BY DEF PlanInv, PlanTypes
    <3>3. w \in Nat \X Nat /\ v \in Nat \X Nat
      BY <3>2, PlanAssumption
    <3>4. w[2] <= v[1] \/ v[2] <= w[1]
      BY <3>2, TheCells
    <3>5. s.addr \in Nat
      BY <2>1, SegTypes
    <3>6. w[1] \in Nat /\ w[2] \in Nat /\ v[1] \in Nat /\ v[2] \in Nat
      BY <3>3
    <3> HIDE DEF s
    <3> QED BY <3>1, <3>4, <3>5, <3>6 DEF In
  <2>4. PICK j \in DOMAIN copies : copies[j] = CopyOf(s, DataAt(image.segs)[k])
    BY <2>1, <2>2, <2>3 DEF PlacedInv, ListedInv
  <2>5. copies[j].dest = s.addr /\ copies[j].src = DataAt(image.segs)[k] /\ copies[j].len = s.len
    BY <2>4 DEF CopyOf
  <2>6. b \in 0..(copies[j].len - 1) /\ b \in 0..(Stored(copies[j]) - 1)
    BY <2>1, <2>5, CopyTypes
  <2>7. Cell(s.addr + b) \notin Scratch[chip]
    <3>1. Cell(copies[j].dest + b) \in Touched
      BY <2>6 DEF Touched, CellsOf
    <3> QED BY <2>5, <3>1 DEF ClearOfLoader
  <2>8. CopiesStand /\ pending = {}
    BY DEF HandInv, MemoryInv, Copying
  <2>9. sram[Cell(copies[j].dest + b)] = copies[j].src + b
    BY <2>5, <2>6, <2>7, <2>8 DEF CopiesStand
  <2> QED BY <2>1, <2>5, <2>8, <2>9
<1> QED BY <1>1, HandHolds, PTL
===========================================================================
