------------------------ MODULE SpecterBundleProofs ------------------------
(***************************************************************************)
(* Theorems about SpecterBundle: for every width of an address, every      *)
(* layout, every bundle that announces whatever sizes it likes, and all    *)
(* lists of keys.                                                          *)
(***************************************************************************)
EXTENDS SpecterBundle, FiniteSetTheorems, SequenceTheorems, WellFoundedInduction, TLAPS

LEMMA Sizes ==
  /\ W \in Nat \ {0} /\ Base \in Nat /\ MaxFw \in Nat
  /\ HdrLen \in Nat \ {0} /\ RecLen \in Nat \ {0} /\ PayloadMax \in Nat
  /\ Base + 2 * MaxFw < W /\ HdrLen + PayloadMax < W
  BY BundleAssumption

LEMMA ModSmall == ASSUME NEW w \in Nat \ {0}, NEW a \in Nat, a < w PROVE a % w = a
  OBVIOUS
LEMMA ModRange == ASSUME NEW w \in Nat \ {0}, NEW a \in Nat PROVE a % w \in 0..(w - 1)
  OBVIOUS

\* A sum that fits the width does not wrap around, and no sum leaves it.
LEMMA PlusSmall ==
  ASSUME NEW a \in Nat, NEW b \in Nat, a + b < W
  PROVE  a (+) b = a + b
  BY ModSmall, Sizes DEF (+)
LEMMA PlusRange ==
  ASSUME NEW a \in Nat, NEW b \in Nat
  PROVE  a (+) b \in 0..(W - 1) /\ a (+) b \in Nat
<1>1. a + b \in Nat /\ W \in Nat \ {0}
  BY Sizes
<1>2. (a + b) % W \in 0..(W - 1)
  BY <1>1, ModRange
<1> QED BY <1>1, <1>2 DEF (+)

LEMMA WholeTimes ==
  ASSUME NEW m \in Nat, NEW r \in Nat \ {0}
  PROVE  (r * m) % r = 0
  OBVIOUS

LEMMA WholeRecords ==
  ASSUME NEW m \in Nat, NEW r \in Nat \ {0}
  PROVE  m \div r \in Nat /\ r * (m \div r) <= m
  OBVIOUS

\* A record within a section that ends below the width ends below it too.
LEMMA Fits ==
  ASSUME NEW w \in Nat, NEW base \in Nat, NEW from \in Nat, NEW end \in Nat,
         NEW b \in Nat, NEW r \in Nat, NEW s \in Nat,
         base <= from, b + r <= s, from + s <= end, end < w
  PROVE  /\ from + b \in Nat /\ from + b + r <= end
         /\ from + b >= base /\ from + b + r < w /\ from + b < w
  OBVIOUS

LEMMA RecordEnds ==
  ASSUME NEW r \in Nat \ {0}, NEW k \in Nat, NEW m \in 1..k
  PROVE  (m - 1) * r \in Nat /\ (m - 1) * r + r <= r * k
<1>1. (m - 1) * r + r = m * r /\ m * r <= k * r
  OBVIOUS
<1> QED BY <1>1
---------------------------------------------------------------------------
(* find_pubkey *)

LessOnNat == OpToRel(<, Nat)

LEMMA LessIsWellFounded == IsWellFoundedOn(LessOnNat, Nat)
  BY NatLessThanWellFounded, Zenon DEF LessOnNat

LEMMA LessIsLess == \A x, y \in Nat : x < y => <<x, y>> \in LessOnNat
<1> SUFFICES ASSUME NEW x \in Nat, NEW y \in Nat, x < y PROVE <<x, y>> \in LessOnNat
  OBVIOUS
<1>1. <<x, y>> \in Nat \X Nat /\ <<x, y>>[1] = x /\ <<x, y>>[2] = y
  OBVIOUS
<1> QED BY <1>1, Zenon DEF LessOnNat, OpToRel

\* A set of numbers that is not empty has a smallest one.
LEMMA Smallest ==
  ASSUME NEW T, T \subseteq Nat, T # {}
  PROVE  \E x \in T : \A y \in T : x <= y
<1>1. PICK x \in T : \A y \in T : ~(<<y, x>> \in LessOnNat)
  <2> HIDE DEF LessOnNat
  <2> QED BY LessIsWellFounded, WFMin, Zenon
<1>2. \A y \in T : ~(y < x)
  BY <1>1, LessIsLess, Zenon
<1> QED BY <1>2

\* A place among the lists is a pair of numbers.
LEMMA PlacesAreNumbers ==
  \A p \in Places : /\ p = <<p[1], p[2]>> /\ p[1] \in Nat /\ p[2] \in Nat
                    /\ KeyLists[p[1]][p[2]] \in Keys
<1> TAKE p \in Places
<1>1. PICK i \in DOMAIN KeyLists : \E j \in DOMAIN KeyLists[i] : p = <<i, j>>
  BY DEF Places
<1>2. PICK j \in DOMAIN KeyLists[i] : p = <<i, j>>
  BY <1>1
<1>3. i \in Nat /\ KeyLists[i] \in Seq(Keys)
  <2>1. KeyLists \in Seq(Seq(Keys))
    BY BundleAssumption, Zenon
  <2> QED BY <2>1
<1>4. j \in Nat
  BY <1>3
<1>5. KeyLists[i][j] \in Keys
  BY <1>3
<1> QED BY <1>2, <1>3, <1>4, <1>5

\* The first place of the keys of a fingerprint.
LEMMA FirstMatch ==
  ASSUME NEW fp, Matches(fp) # {}
  PROVE  \E p \in Matches(fp) : \A q \in Matches(fp) : Before(p, q)
<1> DEFINE M == Matches(fp)
           I == {p[1] : p \in M}
<1>1. \A p \in M : p = <<p[1], p[2]>> /\ p[1] \in Nat /\ p[2] \in Nat
  BY PlacesAreNumbers DEF Matches
<1>2. I \subseteq Nat /\ I # {}
  BY <1>1
<1> HIDE DEF M
<1>3. PICK i \in I : \A y \in I : i <= y
  <2> HIDE DEF I
  <2> QED BY <1>2, Smallest
<1> DEFINE J == {p[2] : p \in {q \in M : q[1] = i}}
<1>4. J \subseteq Nat /\ J # {}
  BY <1>1, <1>3
<1>5. PICK j \in J : \A y \in J : j <= y
  <2> HIDE DEF J
  <2> QED BY <1>4, Smallest
<1>6. PICK p \in M : p[1] = i /\ p[2] = j
  BY <1>5
<1>7. ASSUME NEW q \in M PROVE Before(p, q)
  <2>1. i <= q[1] /\ i \in Nat /\ q[1] \in Nat
    BY <1>1, <1>2, <1>3
  <2>2. q[1] = i => j <= q[2]
    BY <1>5
  <2> QED BY <1>6, <2>1, <2>2 DEF Before
<1> QED BY <1>6, <1>7 DEF M

\* find_pubkey finds no key, or one that has the fingerprint.
LEMMA FoundKeys ==
  ASSUME NEW fp
  PROVE  FindPubkey(fp) = Nobody \/ (FindPubkey(fp) \in Keys /\ Fingerprint[FindPubkey(fp)] = fp)
<1>1. CASE Matches(fp) = {}
  BY <1>1 DEF FindPubkey
<1>2. CASE Matches(fp) # {}
  <2> DEFINE p == CHOOSE p \in Matches(fp) : \A q \in Matches(fp) : Before(p, q)
  <2>1. p \in Matches(fp)
    BY <1>2, FirstMatch, Zenon
  <2>2. FindPubkey(fp) = KeyLists[p[1]][p[2]]
    BY <1>2, Zenon DEF FindPubkey
  <2> HIDE DEF p
  <2>3. KeyLists[p[1]][p[2]] \in Keys /\ Fingerprint[KeyLists[p[1]][p[2]]] = fp
    BY <2>1, PlacesAreNumbers DEF Matches
  <2> QED BY <2>2, <2>3
<1> QED BY <1>1, <1>2
---------------------------------------------------------------------------
(* Bounds *)

LEMMA TheBundle ==
  ASSUME bundle \in Bundles
  PROVE  /\ bundle.size \in 1..MaxFw
         /\ bundle.plSize \in 0..(W - 1) /\ bundle.sigSize \in 0..(W - 1)
         /\ bundle.plSize \in Nat /\ bundle.sigSize \in Nat /\ bundle.size \in Nat
         /\ bundle.sigSize <= bundle.size => Len(Records) = bundle.sigSize \div RecLen
         /\ Len(Records) \in Nat /\ DOMAIN Records = 1..Len(Records)
<1>1. /\ bundle.size \in 1..MaxFw
      /\ bundle.plSize \in 0..(W - 1) /\ bundle.sigSize \in 0..(W - 1)
      /\ Len(bundle.records) \in Nat /\ DOMAIN bundle.records = 1..Len(bundle.records)
      /\ bundle.sigSize <= bundle.size => Len(bundle.records) = bundle.sigSize \div RecLen
  BY BundleAssumption, Zenon
<1> QED BY <1>1 DEF Records

LEMMA TheSizes ==
  ASSUME bundle \in Bundles
  PROVE  /\ bundle.size \in Nat /\ bundle.size <= MaxFw
         /\ bundle.plSize \in Nat /\ bundle.sigSize \in Nat
  BY TheBundle

LEMMA ReadOfBundle ==
  ASSUME bundle \in Bundles, bundle' = bundle,
         NEW from \in Nat, NEW to \in Nat, read' = <<from, to>>,
         Base <= from, from <= to, to <= Base + bundle.size
  PROVE  ReadsStayInBundle' /\ read' \in (0..(W - 1)) \X (0..(W - 1))
<1>1. to < W /\ from < W
  BY TheSizes, Sizes
<1>2. read' \in (0..(W - 1)) \X (0..(W - 1))
  BY <1>1, Sizes
<1>3. read'[1] = from /\ read'[2] = to
  OBVIOUS
<1> QED BY <1>2, <1>3 DEF ReadsStayInBundle

\* What the checks that have passed say of the sizes.
PastHeader == {"platform", "version", "mainSize"}
PastSize   == {"hash", "sigBounds"}
PastSig    == {"sigSection", "message", "duplicates"}
PastDup    == {"record", "accepted"}

SizeInv ==
  /\ check \in PastHeader \cup PastSize \cup PastSig \cup PastDup => bundle.plSize \in 1..PayloadMax
  /\ check \in PastSize \cup PastSig \cup PastDup => HdrLen + bundle.plSize <= bundle.size
  /\ check \in PastSig \cup PastDup =>
       /\ sigHdr = Base + HdrLen + bundle.plSize
       /\ sigHdr + HdrLen + bundle.sigSize <= Base + bundle.size
  /\ check \in PastDup =>
       /\ RecLen * Len(Records) <= bundle.sigSize
       /\ AllDistinct

CountInv ==
  /\ n \in 1..(Len(Records) + 1)
  /\ check \notin {"record", "accepted", "rejected"} => n = 1 /\ valid = 0

BoundInv ==
  /\ bundle \in Bundles
  /\ check \in Checks \cup Verdicts
  /\ sigHdr \in 0..(W - 1)
  /\ read \in (0..(W - 1)) \X (0..(W - 1))
  /\ valid \in 0..(n - 1)
  /\ CountInv
  /\ SizeInv
  /\ ReadsStayInBundle

LEMMA InitBounds == BundleInit => BoundInv
<1> SUFFICES ASSUME BundleInit PROVE BoundInv
  OBVIOUS
<1>1. bundle \in Bundles
  BY DEF BundleInit
<1> QED BY <1>1, TheBundle, Sizes
        DEF BundleInit, BoundInv, CountInv, SizeInv, ReadsStayInBundle, Nothing, Checks,
            PastHeader, PastSize, PastSig, PastDup

\* Where the bundle ends, where its first section ends and where its second
\* header does: none of these sums wraps around.
LEMMA Ends ==
  ASSUME bundle \in Bundles
  PROVE  /\ BundleEnd = Base + bundle.size
         /\ Base (+) HdrLen \in 0..(W - 1)
         /\ HdrLen <= bundle.size => Base (+) HdrLen = Base + HdrLen
         /\ bundle.plSize \in 1..PayloadMax => HdrLen (+) bundle.plSize = HdrLen + bundle.plSize
         /\ HdrLen + bundle.plSize <= bundle.size =>
              /\ Base (+) HdrLen (+) bundle.plSize = Base + HdrLen + bundle.plSize
              /\ Base + HdrLen + bundle.plSize \in 0..(W - 1)
              /\ (Base + HdrLen + bundle.plSize) (+) HdrLen = Base + HdrLen + bundle.plSize + HdrLen
<1> USE TheBundle, Sizes
<1>1. BundleEnd = Base + bundle.size
  BY PlusSmall DEF BundleEnd
<1>2. Base (+) HdrLen \in 0..(W - 1)
  BY PlusRange
<1>3. HdrLen <= bundle.size => Base (+) HdrLen = Base + HdrLen
  BY PlusSmall
<1>4. bundle.plSize \in 1..PayloadMax => HdrLen (+) bundle.plSize = HdrLen + bundle.plSize
  BY PlusSmall
<1>5. ASSUME HdrLen + bundle.plSize <= bundle.size
      PROVE  /\ Base (+) HdrLen (+) bundle.plSize = Base + HdrLen + bundle.plSize
             /\ Base + HdrLen + bundle.plSize \in 0..(W - 1)
             /\ (Base + HdrLen + bundle.plSize) (+) HdrLen = Base + HdrLen + bundle.plSize + HdrLen
  <2>1. Base (+) HdrLen = Base + HdrLen /\ Base + HdrLen \in Nat
    BY <1>3, <1>5
  <2>2. Base + HdrLen + bundle.plSize \in Nat /\ Base + HdrLen + bundle.plSize < W
    BY <1>5
  <2>3. (Base + HdrLen) (+) bundle.plSize = Base + HdrLen + bundle.plSize
    BY <2>1, <2>2, PlusSmall
  <2>4. Base + HdrLen + bundle.plSize + HdrLen < W
    BY <1>5
  <2>5. (Base + HdrLen + bundle.plSize) (+) HdrLen = Base + HdrLen + bundle.plSize + HdrLen
    BY <2>2, <2>4, PlusSmall
  <2> QED BY <2>1, <2>2, <2>3, <2>5
<1> QED BY <1>1, <1>2, <1>3, <1>4, <1>5

\* The first records begin where their header ends, and all of them lie in
\* the bundle.
LEMMA RecordsInBundle ==
  ASSUME bundle \in Bundles, SizeInv, check \in PastSig \cup PastDup
  PROVE  /\ sigHdr \in Nat /\ sigHdr (+) HdrLen = sigHdr + HdrLen
         /\ sigHdr + HdrLen + bundle.sigSize <= Base + bundle.size
         /\ RecordAt(1) = sigHdr + HdrLen
         /\ RecordAt(1) (+) bundle.sigSize = sigHdr + HdrLen + bundle.sigSize
<1> USE TheSizes, Sizes
<1>1. /\ sigHdr = Base + HdrLen + bundle.plSize
      /\ sigHdr + HdrLen + bundle.sigSize <= Base + bundle.size
  BY DEF SizeInv
<1>2. sigHdr \in Nat /\ sigHdr + HdrLen \in Nat /\ sigHdr + HdrLen + bundle.sigSize < W
  BY <1>1, TheSizes
<1>3. sigHdr (+) HdrLen = sigHdr + HdrLen
  BY <1>2, PlusSmall
<1>4. RecordAt(1) = (sigHdr + HdrLen) (+) (0 * RecLen)
  BY <1>3 DEF RecordAt
<1>5. 0 * RecLen = 0
  OBVIOUS
<1>6. (sigHdr + HdrLen) (+) 0 = sigHdr + HdrLen
  BY <1>2, PlusSmall
<1>7. (sigHdr + HdrLen) (+) bundle.sigSize = sigHdr + HdrLen + bundle.sigSize
  BY <1>2, PlusSmall
<1> QED BY <1>1, <1>2, <1>3, <1>4, <1>5, <1>6, <1>7

LEMMA RecordInBundle ==
  ASSUME bundle \in Bundles, SizeInv, check \in PastDup, NEW k \in 1..Len(Records)
  PROVE  /\ RecordAt(k) \in Nat /\ RecordAt(k) >= Base
         /\ RecordAt(k) (+) RecLen = RecordAt(k) + RecLen
         /\ RecordAt(k) + RecLen <= Base + bundle.size
<1>1. /\ sigHdr \in Nat /\ sigHdr >= Base /\ sigHdr (+) HdrLen = sigHdr + HdrLen
      /\ sigHdr + HdrLen + bundle.sigSize <= Base + bundle.size
  BY TheSizes, Sizes, RecordsInBundle DEF SizeInv
<1>2. (k - 1) * RecLen \in Nat /\ (k - 1) * RecLen + RecLen <= RecLen * Len(Records)
  BY TheBundle, Sizes, RecordEnds
<1> DEFINE before == (k - 1) * RecLen
<1>3. before \in Nat /\ before + RecLen <= bundle.sigSize
  <2>1. RecLen * Len(Records) <= bundle.sigSize
    BY DEF SizeInv
  <2>2. Len(Records) \in Nat /\ RecLen \in Nat /\ bundle.sigSize \in Nat
    BY TheBundle, Sizes
  <2>3. RecLen * Len(Records) \in Nat
    BY <2>2
  <2> QED BY <1>2, <2>1, <2>2, <2>3
<1>4. RecordAt(k) = (sigHdr + HdrLen) (+) before
  BY <1>1 DEF RecordAt
<1> HIDE DEF before
<1> DEFINE from == sigHdr + HdrLen
           end  == Base + bundle.size
<1>5. /\ from \in Nat /\ from >= Base /\ from + bundle.sigSize <= end
      /\ end \in Nat /\ end < W
  <2>1. from \in Nat /\ from >= Base /\ from + bundle.sigSize <= end
    BY <1>1, Sizes
  <2>2. end \in Nat /\ end < W
    BY TheSizes, Sizes
  <2> QED BY <2>1, <2>2
<1>6. RecordAt(k) = from (+) before
  BY <1>4
<1>7. bundle.sigSize \in Nat /\ RecLen \in Nat /\ W \in Nat /\ Base \in Nat
  BY TheSizes, Sizes
<1> HIDE DEF from, end
<1>8. /\ from + before \in Nat /\ from + before + RecLen <= end
      /\ from + before >= Base /\ from + before + RecLen < W /\ from + before < W
  BY <1>3, <1>5, <1>7, Fits
<1>9. RecordAt(k) = from + before
  BY <1>3, <1>5, <1>6, <1>8, PlusSmall
<1>10. RecordAt(k) (+) RecLen = RecordAt(k) + RecLen
  BY <1>7, <1>8, <1>9, PlusSmall
<1> QED BY <1>8, <1>9, <1>10 DEF end

LEMMA StepBounds == BoundInv /\ [BundleNext]_bvars => BoundInv'
<1> SUFFICES ASSUME BoundInv, [BundleNext]_bvars PROVE BoundInv'
  OBVIOUS
<1> USE DEF BoundInv, Decide, Reads
<1>0. bundle \in Bundles
  OBVIOUS
<1> USE Sizes
<1>1. CASE UNCHANGED bvars
  BY <1>1 DEF bvars, CountInv, SizeInv, ReadsStayInBundle, Records, AllDistinct
<1>2. CASE CheckMagic \/ CheckHeader \/ CheckPlatform \/ CheckVersion
  <2>1. UNCHANGED <<bundle, sigHdr, n, valid>> /\ read' = <<Base, Base (+) HdrLen>>
    BY <1>2 DEF CheckMagic, CheckHeader, CheckPlatform, CheckVersion
  <2>2. check \in {"magic", "header", "platform", "version"}
    BY <1>2 DEF CheckMagic, CheckHeader, CheckPlatform, CheckVersion
  <2>3. check' \in {"header", "platform", "version", "mainSize", "rejected"}
    BY <1>2 DEF CheckMagic, CheckHeader, CheckPlatform, CheckVersion
  <2>4. check' \in PastHeader => bundle.plSize \in 1..PayloadMax
    BY <1>2 DEF CheckMagic, CheckHeader, CheckPlatform, CheckVersion, PastHeader, SizeInv
  <2>5. ReadsStayInBundle' /\ read' \in (0..(W - 1)) \X (0..(W - 1))
    <3>1. CASE HdrLen <= bundle.size
      <4>1. read' = <<Base, Base + HdrLen>>
        BY <1>0, <2>1, <3>1, Ends
      <4>2. Base + HdrLen \in Nat /\ Base <= Base + HdrLen /\ Base + HdrLen <= Base + bundle.size
        BY <1>0, <3>1, TheSizes
      <4> QED BY <1>0, <2>1, <4>1, <4>2, ReadOfBundle
    <3>2. CASE ~(HdrLen <= bundle.size)
      <4>1. ReadsStayInBundle'
        BY <1>0, <2>1, <3>2, TheSizes DEF ReadsStayInBundle
      <4>2. Base \in 0..(W - 1) /\ Base (+) HdrLen \in 0..(W - 1)
        BY <1>0, Ends
      <4> QED BY <2>1, <4>1, <4>2
    <3> QED BY <3>1, <3>2
  <2>6. SizeInv'
    BY <2>1, <2>3, <2>4 DEF SizeInv, PastHeader, PastSize, PastSig, PastDup
  <2>7. CountInv'
    BY <2>1, <2>2, <2>3 DEF CountInv, Records
  <2> QED BY <2>1, <2>3, <2>5, <2>6, <2>7 DEF Checks, Verdicts
<1>3. CASE CheckMainSize
  <2>1. check = "mainSize" /\ UNCHANGED <<bundle, sigHdr, n, valid, read>>
    BY <1>3 DEF CheckMainSize
  <2>2. check' = "rejected" \/ (check' = "hash" /\ HdrLen (+) bundle.plSize <= bundle.size)
    <3>1. Decide(MainFits, "hash")
      BY <1>3 DEF CheckMainSize
    <3>2. CASE MainFits
      BY <3>1, <3>2 DEF MainFits
    <3>3. CASE ~MainFits
      BY <3>1, <3>3 DEF MainFits
    <3> QED BY <3>2, <3>3
  <2>3. bundle.plSize \in 1..PayloadMax
    BY <2>1 DEF SizeInv, PastHeader
  <2>4. check' = "hash" => HdrLen + bundle.plSize <= bundle.size
    BY <1>0, <2>2, <2>3, Ends
  <2>5. SizeInv'
    BY <2>1, <2>2, <2>3, <2>4 DEF SizeInv, PastHeader, PastSize, PastSig, PastDup
  <2> QED BY <2>1, <2>2, <2>5 DEF CountInv, ReadsStayInBundle, Checks, Verdicts, Records
<1>4. CASE HashMain
  <2>1. /\ check = "hash" /\ UNCHANGED <<bundle, sigHdr, n, valid>>
        /\ check' \in {"rejected", "sigBounds"}
        /\ read' = <<Base, Base (+) HdrLen (+) bundle.plSize>>
    BY <1>4 DEF HashMain
  <2>2. HdrLen + bundle.plSize <= bundle.size /\ bundle.plSize \in 1..PayloadMax
    BY <2>1 DEF SizeInv, PastSize
  <2>3. ReadsStayInBundle' /\ read' \in (0..(W - 1)) \X (0..(W - 1))
    <3>1. Base (+) HdrLen = Base + HdrLen
      BY <1>0, <2>2, Ends, TheSizes
    <3>2. read' = <<Base, Base + HdrLen + bundle.plSize>>
      BY <1>0, <2>1, <2>2, Ends
    <3>3. Base + HdrLen + bundle.plSize \in Nat /\ Base + HdrLen + bundle.plSize <= Base + bundle.size
          /\ Base <= Base + HdrLen + bundle.plSize
      BY <1>0, <2>2, TheSizes
    <3> QED BY <1>0, <2>1, <3>2, <3>3, ReadOfBundle
  <2>4. SizeInv'
    BY <2>1, <2>2 DEF SizeInv, PastHeader, PastSize, PastSig, PastDup
  <2> QED BY <2>1, <2>3, <2>4 DEF CountInv, Checks, Verdicts, Records
<1>5. CASE CheckSigBounds
  <2> DEFINE hdr == Base (+) HdrLen (+) bundle.plSize
  <2>1. check = "sigBounds" /\ sigHdr' = hdr /\ UNCHANGED <<bundle, n, valid>>
    BY <1>5 DEF CheckSigBounds
  <2>2. check' = "rejected" \/ (check' = "sigSection" /\ SigFits(hdr))
    <3>1. Decide(SigFits(hdr), "sigSection")
      BY <1>5 DEF CheckSigBounds
    <3>2. CASE SigFits(hdr)
      BY <3>1, <3>2
    <3>3. CASE ~SigFits(hdr)
      BY <3>1, <3>3, Zenon
    <3> QED BY <3>2, <3>3
  <2>3. \/ read' = read
        \/ read' = <<hdr, hdr (+) HdrLen>> /\ hdr (+) HdrLen <= BundleEnd
    BY <1>5 DEF CheckSigBounds
  <2>4. HdrLen + bundle.plSize <= bundle.size /\ bundle.plSize \in 1..PayloadMax
    BY <2>1 DEF SizeInv, PastSize
  <2>5. /\ hdr = Base + HdrLen + bundle.plSize /\ hdr \in 0..(W - 1)
        /\ hdr (+) HdrLen = hdr + HdrLen
        /\ BundleEnd = Base + bundle.size
    BY <1>0, <2>4, Ends
  <2> HIDE DEF hdr
  <2>6. hdr >= Base /\ hdr \in Nat
    BY <1>0, <2>5, TheSizes
  <2>7. ReadsStayInBundle' /\ read' \in (0..(W - 1)) \X (0..(W - 1))
    <3>1. CASE read' = read
      BY <2>1, <3>1 DEF ReadsStayInBundle
    <3>2. CASE read' = <<hdr, hdr (+) HdrLen>> /\ hdr (+) HdrLen <= BundleEnd
      <4>1. read' = <<hdr, hdr + HdrLen>> /\ hdr + HdrLen <= Base + bundle.size
        BY <2>5, <3>2
      <4> QED BY <1>0, <2>1, <2>6, <4>1, ReadOfBundle
    <3> QED BY <2>3, <3>1, <3>2
  <2>8. check' = "sigSection" => hdr + HdrLen + bundle.sigSize <= Base + bundle.size
    <3> SUFFICES ASSUME check' = "sigSection" PROVE hdr + HdrLen + bundle.sigSize <= Base + bundle.size
      OBVIOUS
    <3>1. /\ hdr + HdrLen <= Base + bundle.size /\ bundle.sigSize <= bundle.size
          /\ (hdr + HdrLen) (+) bundle.sigSize <= Base + bundle.size
      BY <2>2, <2>5 DEF SigFits
    <3>2. hdr + HdrLen \in Nat /\ hdr + HdrLen + bundle.sigSize < W
      BY <1>0, <2>6, <3>1, TheSizes
    <3>3. (hdr + HdrLen) (+) bundle.sigSize = hdr + HdrLen + bundle.sigSize
      BY <1>0, <3>2, PlusSmall, TheBundle
    <3> QED BY <3>1, <3>3
  <2>9. SizeInv'
    BY <2>1, <2>2, <2>4, <2>5, <2>8 DEF SizeInv, PastHeader, PastSize, PastSig, PastDup
  <2> QED BY <2>1, <2>2, <2>5, <2>7, <2>9 DEF CountInv, Checks, Verdicts, Records
<1>6. CASE CheckSigSection
  <2>1. /\ check = "sigSection" /\ UNCHANGED <<bundle, sigHdr, n, valid>>
        /\ check' \in {"rejected", "message"}
        /\ read' = <<sigHdr, sigHdr (+) HdrLen>>
    BY <1>6 DEF CheckSigSection
  <2>2. /\ sigHdr \in Nat /\ sigHdr >= Base /\ sigHdr (+) HdrLen = sigHdr + HdrLen
        /\ sigHdr + HdrLen <= Base + bundle.size
    <3>1. check \in PastSig
      BY <2>1 DEF PastSig
    <3>2. sigHdr = Base + HdrLen + bundle.plSize
      BY <3>1 DEF SizeInv
    <3> QED BY <1>0, <3>1, <3>2, RecordsInBundle, TheSizes
  <2>3. ReadsStayInBundle' /\ read' \in (0..(W - 1)) \X (0..(W - 1))
    BY <1>0, <2>1, <2>2, ReadOfBundle
  <2>4. SizeInv'
    BY <2>1 DEF SizeInv, PastHeader, PastSize, PastSig, PastDup
  <2> QED BY <2>1, <2>3, <2>4 DEF CountInv, Checks, Verdicts, Records
<1>7. CASE MakeMessage
  <2>1. /\ check = "message" /\ UNCHANGED <<bundle, sigHdr, n, valid, read>>
        /\ check' \in {"rejected", "duplicates"}
    BY <1>7 DEF MakeMessage
  <2>2. SizeInv'
    BY <2>1 DEF SizeInv, PastHeader, PastSize, PastSig, PastDup
  <2> QED BY <2>1, <2>2 DEF CountInv, ReadsStayInBundle, Checks, Verdicts, Records
<1>8. CASE CheckDuplicates
  <2>1. check = "duplicates" /\ UNCHANGED <<bundle, sigHdr, n, valid>>
    BY <1>8 DEF CheckDuplicates
  <2>2. check' = "rejected" \/ (check' = "record" /\ AllDistinct)
    <3>1. CASE AllDistinct
      BY <1>8, <3>1 DEF CheckDuplicates
    <3>2. CASE ~AllDistinct
      BY <1>8, <3>2, Zenon DEF CheckDuplicates
    <3> QED BY <3>1, <3>2
  <2>3. read' = read \/ read' = <<RecordAt(1), RecordAt(1) (+) bundle.sigSize>>
    BY <1>8 DEF CheckDuplicates
  <2>4. /\ sigHdr \in Nat /\ sigHdr >= Base
        /\ sigHdr + HdrLen + bundle.sigSize <= Base + bundle.size
        /\ RecordAt(1) = sigHdr + HdrLen
        /\ RecordAt(1) (+) bundle.sigSize = sigHdr + HdrLen + bundle.sigSize
    <3>1. check \in PastSig
      BY <2>1 DEF PastSig
    <3>2. sigHdr = Base + HdrLen + bundle.plSize
      BY <3>1 DEF SizeInv
    <3> QED BY <1>0, <3>1, <3>2, RecordsInBundle, TheSizes
  <2>5. ReadsStayInBundle' /\ read' \in (0..(W - 1)) \X (0..(W - 1))
    <3>1. CASE read' = read
      BY <2>1, <3>1 DEF ReadsStayInBundle
    <3>2. CASE read' # read
      <4>1. read' = <<sigHdr + HdrLen, sigHdr + HdrLen + bundle.sigSize>>
        BY <2>3, <2>4, <3>2
      <4>2. sigHdr + HdrLen \in Nat /\ sigHdr + HdrLen + bundle.sigSize \in Nat
            /\ sigHdr + HdrLen >= Base /\ sigHdr + HdrLen <= sigHdr + HdrLen + bundle.sigSize
        BY <1>0, <2>4, TheSizes
      <4> QED BY <1>0, <2>1, <2>4, <4>1, <4>2, ReadOfBundle
    <3> QED BY <3>1, <3>2
  <2>6. RecLen * Len(Records) <= bundle.sigSize
    <3>1. bundle.sigSize <= bundle.size
      BY <1>0, <2>4, TheBundle
    <3>2. Len(Records) = bundle.sigSize \div RecLen
      BY <1>0, <3>1, TheBundle
    <3> QED BY <1>0, <3>2, WholeRecords, TheBundle
  <2>7. SizeInv'
    BY <2>1, <2>2, <2>6
       DEF SizeInv, PastHeader, PastSize, PastSig, PastDup, Records, AllDistinct
  <2> QED BY <2>1, <2>2, <2>5, <2>7 DEF CountInv, Checks, Verdicts, Records
<1>9. CASE CheckRecord
  <2>1. check = "record" /\ n <= Len(Records) /\ UNCHANGED <<bundle, sigHdr>>
    BY <1>9 DEF CheckRecord
  <2>2. \/ check' = "rejected" /\ n' = n /\ valid' = valid
        \/ check' = "record" /\ n' = n + 1 /\ valid' \in {valid, valid + 1}
    BY <1>9, <2>1 DEF CheckRecord
  <2>3. read' = <<RecordAt(n), RecordAt(n) (+) RecLen>>
    BY <1>9 DEF CheckRecord
  <2>4. n \in 1..Len(Records)
    BY <1>0, <2>1, TheBundle DEF CountInv
  <2>5. /\ RecordAt(n) \in Nat /\ RecordAt(n) >= Base
        /\ RecordAt(n) (+) RecLen = RecordAt(n) + RecLen
        /\ RecordAt(n) + RecLen <= Base + bundle.size
    BY <1>0, <2>1, <2>4, RecordInBundle DEF PastDup
  <2>6. ReadsStayInBundle' /\ read' \in (0..(W - 1)) \X (0..(W - 1))
    BY <1>0, <2>1, <2>3, <2>5, ReadOfBundle
  <2>7. SizeInv'
    BY <2>1, <2>2 DEF SizeInv, PastHeader, PastSize, PastSig, PastDup, Records, AllDistinct
  <2>8. CountInv' /\ valid' \in 0..(n' - 1)
    <3>1. Len(Records) \in Nat /\ Len(Records)' = Len(Records)
      BY <1>0, <2>1, TheBundle DEF Records
    <3> QED BY <2>1, <2>2, <2>4, <3>1 DEF CountInv
  <2> QED BY <2>1, <2>2, <2>6, <2>7, <2>8 DEF Checks, Verdicts
<1>10. CASE CheckThreshold
  <2>1. /\ check = "record" /\ UNCHANGED <<bundle, sigHdr, n, valid, read>>
        /\ check' \in {"rejected", "accepted"}
    BY <1>10 DEF CheckThreshold
  <2>2. SizeInv'
    BY <2>1 DEF SizeInv, PastHeader, PastSize, PastSig, PastDup, Records, AllDistinct
  <2> QED BY <2>1, <2>2 DEF CountInv, ReadsStayInBundle, Checks, Verdicts, Records
<1> QED BY <1>1, <1>2, <1>3, <1>4, <1>5, <1>6, <1>7, <1>8, <1>9, <1>10 DEF BundleNext

\* Type correctness of the checks.
THEOREM BundleTypesHold == BundleSpec => []BundleTypeOK
<1>1. BoundInv => BundleTypeOK
  BY DEF BoundInv, CountInv, BundleTypeOK
<1> QED BY <1>1, InitBounds, StepBounds, PTL DEF BundleSpec

\* No check reads beyond the bundle, in addresses of any width, whatever
\* sizes the bundle announces.
THEOREM ReadsHold == BundleSpec => []ReadsStayInBundle
<1>1. BoundInv => ReadsStayInBundle
  BY DEF BoundInv
<1> QED BY <1>1, InitBounds, StepBounds, PTL DEF BundleSpec
---------------------------------------------------------------------------
(* Signatures *)

Found(k)   == FindPubkey(Records[k].fp)
Counted(m) == {Found(k) : k \in 1..(m - 1)} \ {Nobody}

\* Every record so far that has the fingerprint of a key is that key's
\* signature, and each of these keys has been counted once.
AuthInv ==
  /\ \A k \in 1..(n - 1) : Found(k) # Nobody => Verifies(Records[k], Found(k))
  /\ IsFiniteSet(Counted(n)) /\ valid = Cardinality(Counted(n))
  /\ check = "accepted" => valid >= Threshold

LEMMA InitAuth == BundleInit => AuthInv
<1> SUFFICES ASSUME BundleInit PROVE AuthInv
  OBVIOUS
<1>1. n = 1 /\ valid = 0 /\ check = "magic"
  BY DEF BundleInit
<1>2. Counted(n) = {}
  BY <1>1 DEF Counted
<1> QED BY <1>1, <1>2, FS_EmptySet DEF AuthInv

\* Different fingerprints are different keys'.
LEMMA FoundOnce ==
  ASSUME BoundInv, check = "record", n <= Len(Records), Found(n) # Nobody
  PROVE  Found(n) \notin Counted(n)
<1> SUFFICES ASSUME NEW k \in 1..(n - 1), Found(n) = Found(k) PROVE FALSE
  BY DEF Counted
<1>1. n \in 1..Len(Records) /\ k \in 1..Len(Records) /\ k # n
  BY TheBundle DEF BoundInv, CountInv
<1>2. Records[n].fp = Records[k].fp
  BY FoundKeys DEF Found
<1>3. AllDistinct
  BY DEF BoundInv, SizeInv, PastDup
<1>4. DOMAIN Records = 1..Len(Records)
  BY TheBundle DEF BoundInv
<1> QED BY <1>1, <1>2, <1>3, <1>4 DEF AllDistinct

LEMMA StepAuth == BoundInv /\ AuthInv /\ [BundleNext]_bvars => AuthInv'
<1> SUFFICES ASSUME BoundInv, AuthInv, [BundleNext]_bvars PROVE AuthInv'
  OBVIOUS
<1>1. CASE UNCHANGED bvars
  BY <1>1 DEF bvars, AuthInv, Counted, Found, Records, Verifies
<1>2. CASE CheckMagic \/ CheckHeader \/ CheckPlatform \/ CheckVersion \/ CheckMainSize
             \/ HashMain \/ CheckSigBounds \/ CheckSigSection \/ MakeMessage \/ CheckDuplicates
  <2>1. UNCHANGED <<bundle, n, valid>> /\ check' # "accepted"
    BY <1>2 DEF CheckMagic, CheckHeader, CheckPlatform, CheckVersion, CheckMainSize, HashMain,
                CheckSigBounds, CheckSigSection, MakeMessage, CheckDuplicates, Decide
  <2> QED BY <2>1 DEF AuthInv, Counted, Found, Records, Verifies
<1>3. CASE CheckRecord
  <2>1. check = "record" /\ n <= Len(Records) /\ bundle' = bundle
    BY <1>3 DEF CheckRecord
  <2>2. n \in Nat \ {0}
    BY DEF BoundInv, CountInv
  <2>3. Records' = Records /\ \A m : Counted(m)' = Counted(m)
    BY <2>1 DEF Records, Counted, Found
  <2>4. CASE Found(n) # Nobody /\ ~Verifies(Records[n], Found(n))
    <3>1. check' = "rejected" /\ n' = n /\ valid' = valid
      BY <1>3, <2>4, Zenon DEF CheckRecord, Found
    <3> QED BY <2>1, <3>1 DEF AuthInv, Counted, Found, Records, Verifies
  <2>5. CASE ~(Found(n) # Nobody /\ ~Verifies(Records[n], Found(n)))
    <3>1. n' = n + 1 /\ check' = check /\ valid' = (IF Found(n) = Nobody THEN valid ELSE valid + 1)
      BY <1>3, <2>5, Zenon DEF CheckRecord, Found
    <3>2. \A k \in 1..n : Found(k) # Nobody => Verifies(Records[k], Found(k))
      <4>1. \A k \in 1..n : k = n \/ k \in 1..(n - 1)
        BY <2>2
      <4> QED BY <2>5, <4>1, Zenon DEF AuthInv
    <3>3. Counted(n + 1) = IF Found(n) = Nobody THEN Counted(n) ELSE Counted(n) \cup {Found(n)}
      <4>1. (n + 1) - 1 = n /\ n \in 1..n /\ \A k : k \in 1..n <=> k \in 1..(n - 1) \/ k = n
        BY <2>2
      <4> QED BY <4>1 DEF Counted
    <3>4. IsFiniteSet(Counted(n + 1)) /\ valid' = Cardinality(Counted(n + 1))
      <4>1. CASE Found(n) = Nobody
        BY <3>1, <3>3, <4>1 DEF AuthInv
      <4>2. CASE Found(n) # Nobody
        <5>1. Found(n) \notin Counted(n)
          BY <2>1, <4>2, FoundOnce
        <5>2. IsFiniteSet(Counted(n)) /\ valid = Cardinality(Counted(n))
          BY DEF AuthInv
        <5> QED BY <3>1, <3>3, <4>2, <5>1, <5>2, FS_AddElement
      <4> QED BY <4>1, <4>2
    <3>5. Counted(n)' = Counted(n + 1)
      BY <2>1, <3>1 DEF Counted, Found, Records
    <3>6. \A k \in 1..(n' - 1) : Found(k)' # Nobody => Verifies(Records[k], Found(k))'
      <4>1. n' - 1 = n
        BY <2>2, <3>1
      <4> QED BY <2>1, <3>2, <4>1 DEF Found, Records, Verifies
    <3> QED BY <2>1, <3>1, <3>4, <3>5, <3>6 DEF AuthInv
  <2> QED BY <2>4, <2>5
<1>4. CASE CheckThreshold
  <2>1. UNCHANGED <<bundle, n, valid>> /\ (check' = "accepted" => valid >= Threshold)
    BY <1>4 DEF CheckThreshold, Decide
  <2> QED BY <2>1 DEF AuthInv, Counted, Found, Records, Verifies
<1> QED BY <1>1, <1>2, <1>3, <1>4 DEF BundleNext

\* What is accepted has the signatures of at least Threshold different vendor
\* keys on this very content, however many records it has, and whichever keys
\* share a fingerprint.
THEOREM AuthorizedHolds == BundleSpec => []AcceptedIsAuthorized
<1>1. BoundInv /\ AuthInv => AcceptedIsAuthorized
  <2> SUFFICES ASSUME BoundInv, AuthInv, check = "accepted" PROVE Cardinality(Signers) >= Threshold
    BY DEF AcceptedIsAuthorized
  <2>1. Len(Records) \in Nat /\ DOMAIN Records = 1..Len(Records) /\ n - 1 <= Len(Records)
    BY TheBundle DEF BoundInv, CountInv
  <2>2. Counted(n) \subseteq Signers
    <3> SUFFICES ASSUME NEW k \in 1..(n - 1), Found(k) # Nobody PROVE Found(k) \in Signers
      BY DEF Counted
    <3>1. Found(k) \in Keys
      BY FoundKeys DEF Found
    <3>2. Records[k].signer = Found(k) /\ Records[k].content = bundle.content
      BY DEF AuthInv, Verifies
    <3>3. k \in DOMAIN Records
      BY <2>1 DEF BoundInv, CountInv
    <3> QED BY <3>1, <3>2, <3>3 DEF Signers
  <2>3. IsFiniteSet(Signers)
    <3> DEFINE f == [i \in 1..Len(Records) |-> Records[i].signer]
               T == {Records[i].signer : i \in 1..Len(Records)}
    <3>1. f \in Surjection(1..Len(Records), T)
      BY DEF Surjection
    <3>2. IsFiniteSet(1..Len(Records))
      BY <2>1, FS_Interval
    <3>3. Signers \in SUBSET T
      BY <2>1 DEF Signers
    <3>4. IsFiniteSet(T)
      <4> HIDE DEF f, T
      <4> QED BY <3>1, <3>2, FS_Surjection
    <3> HIDE DEF T
    <3> QED BY <3>3, <3>4, FS_Subset
  <2>4. Cardinality(Counted(n)) <= Cardinality(Signers)
    BY <2>2, <2>3, FS_Subset
  <2>5. Cardinality(Signers) \in Nat /\ Threshold \in Nat
    BY <2>3, FS_CardinalityType, BundleAssumption
  <2>6. valid = Cardinality(Counted(n)) /\ valid >= Threshold /\ valid \in Nat
    BY DEF AuthInv, BoundInv
  <2> QED BY <2>4, <2>5, <2>6
<1> QED BY <1>1, InitBounds, StepBounds, InitAuth, StepAuth, PTL DEF BundleSpec
---------------------------------------------------------------------------
(* The attribute list *)

Lists == [1..AttrLen -> Nat]

LEMMA TheList == AttrLen \in Nat /\ AttrLen > 0 /\ StrMax \in Nat /\ Platform \in Seq(Nat)
  BY BundleAssumption

\* Induction from the end of the list.
LEMMA Downwards ==
  ASSUME NEW N \in Nat, NEW S,
         \A x \in 1..N : (\A y \in (x + 1)..N : y \in S) => x \in S
  PROVE  1..N \subseteq S
<1> SUFFICES ASSUME NEW z \in 1..N, z \notin S PROVE FALSE
  OBVIOUS
<1> DEFINE T == {N - x : x \in {y \in 1..N : y \notin S}}
<1>1. T \subseteq Nat /\ T # {}
  OBVIOUS
<1>2. PICK t \in T : \A y \in T : t <= y
  <2> HIDE DEF T
  <2> QED BY <1>1, Smallest
<1>3. PICK x \in 1..N : x \notin S /\ t = N - x
  BY <1>2
<1>4. ASSUME NEW y \in (x + 1)..N PROVE y \in S
  <2> SUFFICES ASSUME y \notin S PROVE FALSE
    OBVIOUS
  <2>1. N - y \in T
    BY <1>3
  <2> HIDE DEF T
  <2>2. t <= N - y
    BY <1>2, <2>1
  <2> QED BY <1>3, <2>2
<1> QED BY <1>3, <1>4

\* The functions that AttributesFit and FindAttribute are defined by, from
\* position k on.
IsFit(f, list, k) ==
  f = [p \in k..(AttrLen + 1) |->
        IF p > AttrLen THEN TRUE
        ELSE IF list[p] = 0 THEN \A q \in p..AttrLen : list[q] = 0
        ELSE /\ p + 1 <= AttrLen
             /\ p + 1 + list[p + 1] <= AttrLen
             /\ f[p + 2 + list[p + 1]]]
IsFind(f, list, key, k) ==
  f = [p \in k..(AttrLen + 1) |->
        IF p >= AttrLen \/ list[p] = 0 \/ p + 1 + list[p + 1] > AttrLen THEN 0
        ELSE IF list[p] = key THEN p + 1
        ELSE f[p + 2 + list[p + 1]]]

LEMMA NextIsBehind ==
  ASSUME NEW list \in Lists, NEW p \in Nat, p > 0, p + 1 <= AttrLen, p + 1 + list[p + 1] <= AttrLen
  PROVE  /\ list[p + 1] \in Nat
         /\ p + 2 + list[p + 1] \in (p + 1)..(AttrLen + 1)
<1>1. p + 1 \in 1..AttrLen
  BY TheList
<1>2. list[p + 1] \in Nat
  BY <1>1 DEF Lists
<1> QED BY <1>2, TheList

LEMMA FitExists ==
  ASSUME NEW list \in Lists
  PROVE  \E f : IsFit(f, list, 1)
<1> DEFINE N == AttrLen + 1
           S == {k \in 1..N : \E f : IsFit(f, list, k)}
<1>1. ASSUME NEW k \in 1..N, \A y \in (k + 1)..N : y \in S
      PROVE  k \in S
  <2>1. \E f : f = [p \in (k + 1)..N |->
                     IF p > AttrLen THEN TRUE
                     ELSE IF list[p] = 0 THEN \A q \in p..AttrLen : list[q] = 0
                     ELSE /\ p + 1 <= AttrLen
                          /\ p + 1 + list[p + 1] <= AttrLen
                          /\ f[p + 2 + list[p + 1]]]
    <3>1. CASE k = N
      <4>1. (k + 1)..N = {}
        BY <3>1, TheList
      <4> HIDE DEF N
      <4> QED BY <4>1
    <3>2. CASE k # N
      <4>1. k + 1 \in (k + 1)..N
        BY <3>2, TheList
      <4> QED BY <1>1, <4>1 DEF IsFit
    <3> QED BY <3>1, <3>2
  <2>2. PICK f : f = [p \in (k + 1)..N |->
                       IF p > AttrLen THEN TRUE
                       ELSE IF list[p] = 0 THEN \A q \in p..AttrLen : list[q] = 0
                       ELSE /\ p + 1 <= AttrLen
                            /\ p + 1 + list[p + 1] <= AttrLen
                            /\ f[p + 2 + list[p + 1]]]
    BY <2>1
  <2> DEFINE body(h, p) == IF p > AttrLen THEN TRUE
                           ELSE IF list[p] = 0 THEN \A q \in p..AttrLen : list[q] = 0
                           ELSE /\ p + 1 <= AttrLen
                                /\ p + 1 + list[p + 1] <= AttrLen
                                /\ h[p + 2 + list[p + 1]]
             g == [p \in k..N |-> body(f, p)]
             h == [p \in k..N |-> body(g, p)]
  <2>3. \A p \in (k + 1)..N : f[p] = body(f, p)
    BY <2>2
  <2>4. \A p \in k..N : g[p] = body(f, p)
    OBVIOUS
  <2>5. \A p \in (k + 1)..N : g[p] = f[p]
    <3> HIDE DEF g, body
    <3>1. \A p \in (k + 1)..N : p \in k..N
      BY TheList
    <3> HIDE DEF N
    <3> QED BY <2>3, <2>4, <3>1
  <2>6. ASSUME NEW p \in k..N PROVE body(g, p) = body(f, p)
    <3>1. CASE p + 1 <= AttrLen /\ p + 1 + list[p + 1] <= AttrLen
      <4>1. p + 2 + list[p + 1] \in (k + 1)..N
        <5>1. p \in Nat /\ p > 0 /\ p >= k
          OBVIOUS
        <5>2. list[p + 1] \in Nat /\ p + 2 + list[p + 1] \in (p + 1)..(AttrLen + 1)
          BY <3>1, <5>1, NextIsBehind
        <5> QED BY <5>1, <5>2, TheList
      <4>2. g[p + 2 + list[p + 1]] = f[p + 2 + list[p + 1]]
        BY <2>5, <4>1
      <4> HIDE DEF g
      <4> QED BY <4>2
    <3>2. CASE ~(p + 1 <= AttrLen /\ p + 1 + list[p + 1] <= AttrLen)
      <4> HIDE DEF g
      <4> QED BY <3>2
    <3> QED BY <3>1, <3>2
  <2>7. g = [p \in k..N |-> g[p]] /\ h = [p \in k..N |-> h[p]]
    OBVIOUS
  <2>8. \A p \in k..N : h[p] = body(g, p)
    OBVIOUS
  <2> HIDE DEF g, h, body
  <2>9. \A p \in k..N : g[p] = h[p]
    BY <2>4, <2>6, <2>8
  <2>10. g = h
    BY <2>7, <2>9
  <2>11. IsFit(g, list, k)
    BY <2>10 DEF IsFit, h, body
  <2> QED BY <2>11
<1>2. 1..N \subseteq S
  <2> HIDE DEF S
  <2>1. N \in Nat
    BY TheList
  <2> HIDE DEF N
  <2> QED BY <1>1, <2>1, Downwards
<1>3. 1 \in S
  BY <1>2, TheList
<1> QED BY <1>3

LEMMA FindExists ==
  ASSUME NEW list \in Lists, NEW key
  PROVE  \E f : IsFind(f, list, key, 1)
<1> DEFINE N == AttrLen + 1
           S == {k \in 1..N : \E f : IsFind(f, list, key, k)}
<1>1. ASSUME NEW k \in 1..N, \A y \in (k + 1)..N : y \in S
      PROVE  k \in S
  <2>1. \E f : f = [p \in (k + 1)..N |->
                     IF p >= AttrLen \/ list[p] = 0 \/ p + 1 + list[p + 1] > AttrLen THEN 0
                     ELSE IF list[p] = key THEN p + 1
                     ELSE f[p + 2 + list[p + 1]]]
    <3>1. CASE k = N
      <4>1. (k + 1)..N = {}
        BY <3>1, TheList
      <4> HIDE DEF N
      <4> QED BY <4>1
    <3>2. CASE k # N
      <4>1. k + 1 \in (k + 1)..N
        BY <3>2, TheList
      <4> QED BY <1>1, <4>1 DEF IsFind
    <3> QED BY <3>1, <3>2
  <2>2. PICK f : f = [p \in (k + 1)..N |->
                       IF p >= AttrLen \/ list[p] = 0 \/ p + 1 + list[p + 1] > AttrLen THEN 0
                       ELSE IF list[p] = key THEN p + 1
                       ELSE f[p + 2 + list[p + 1]]]
    BY <2>1
  <2> DEFINE body(h, p) == IF p >= AttrLen \/ list[p] = 0 \/ p + 1 + list[p + 1] > AttrLen THEN 0
                           ELSE IF list[p] = key THEN p + 1
                           ELSE h[p + 2 + list[p + 1]]
             g == [p \in k..N |-> body(f, p)]
             h == [p \in k..N |-> body(g, p)]
  <2>3. \A p \in (k + 1)..N : f[p] = body(f, p)
    BY <2>2
  <2>4. \A p \in k..N : g[p] = body(f, p)
    OBVIOUS
  <2>5. \A p \in (k + 1)..N : g[p] = f[p]
    <3> HIDE DEF g, body
    <3>1. \A p \in (k + 1)..N : p \in k..N
      BY TheList
    <3> HIDE DEF N
    <3> QED BY <2>3, <2>4, <3>1
  <2>6. ASSUME NEW p \in k..N PROVE body(g, p) = body(f, p)
    <3>1. CASE p + 1 <= AttrLen /\ p + 1 + list[p + 1] <= AttrLen
      <4>1. p + 2 + list[p + 1] \in (k + 1)..N
        <5>1. p \in Nat /\ p > 0 /\ p >= k
          OBVIOUS
        <5>2. list[p + 1] \in Nat /\ p + 2 + list[p + 1] \in (p + 1)..(AttrLen + 1)
          BY <3>1, <5>1, NextIsBehind
        <5> QED BY <5>1, <5>2, TheList
      <4>2. g[p + 2 + list[p + 1]] = f[p + 2 + list[p + 1]]
        BY <2>5, <4>1
      <4> HIDE DEF g
      <4> QED BY <4>2
    <3>2. CASE ~(p + 1 <= AttrLen /\ p + 1 + list[p + 1] <= AttrLen)
      <4>1. p \in Nat /\ p > 0 /\ AttrLen \in Nat
        BY TheList
      <4>2. p >= AttrLen \/ p + 1 + list[p + 1] > AttrLen
        <5> SUFFICES ASSUME ~(p >= AttrLen) PROVE p + 1 + list[p + 1] > AttrLen
          OBVIOUS
        <5>1. p + 1 \in 1..AttrLen
          BY <4>1
        <5>2. list[p + 1] \in Nat
          BY <5>1 DEF Lists
        <5> QED BY <3>2, <4>1, <5>1, <5>2
      <4> HIDE DEF g
      <4> QED BY <4>2
    <3> QED BY <3>1, <3>2
  <2>7. g = [p \in k..N |-> g[p]] /\ h = [p \in k..N |-> h[p]]
    OBVIOUS
  <2>8. \A p \in k..N : h[p] = body(g, p)
    OBVIOUS
  <2> HIDE DEF g, h, body
  <2>9. \A p \in k..N : g[p] = h[p]
    BY <2>4, <2>6, <2>8
  <2>10. g = h
    BY <2>7, <2>9
  <2>11. IsFind(g, list, key, k)
    BY <2>10 DEF IsFind, h, body
  <2> QED BY <2>11
<1>2. 1..N \subseteq S
  <2> HIDE DEF S
  <2>1. N \in Nat
    BY TheList
  <2> HIDE DEF N
  <2> QED BY <1>1, <2>1, Downwards
<1>3. 1 \in S
  BY <1>2, TheList
<1> QED BY <1>3

LEMMA FitIs ==
  ASSUME NEW list \in Lists
  PROVE  \E f : IsFit(f, list, 1) /\ AttributesFit(list) = f[1]
<1> DEFINE f == CHOOSE f : IsFit(f, list, 1)
<1>1. IsFit(f, list, 1)
  BY FitExists
<1>2. AttributesFit(list) = f[1]
  BY Zenon DEF AttributesFit, IsFit
<1> QED BY <1>1, <1>2

LEMMA FindIs ==
  ASSUME NEW list \in Lists, NEW key
  PROVE  \E f : IsFind(f, list, key, 1) /\ FindAttribute(list, key) = f[1]
<1> DEFINE f == CHOOSE f : IsFind(f, list, key, 1)
<1>1. IsFind(f, list, key, 1)
  BY FindExists
<1>2. FindAttribute(list, key) = f[1]
  BY Zenon DEF FindAttribute, IsFind
<1> QED BY <1>1, <1>2

\* ParsesAs, from a position on.
NextEntry(list, p) == p + 2 + list[p + 1]
ParsesFrom(list, first, starts, end) ==
  /\ \A q \in end..AttrLen : list[q] = 0
  /\ first \in starts \cup {end}
  /\ \A p \in starts : p < end /\ p < AttrLen /\ list[p] # 0 /\ NextEntry(list, p) \in starts \cup {end}
  /\ \A p \in starts : p = first \/ \E q \in starts : q < AttrLen /\ NextEntry(list, q) = p

FirstOf(list, starts, key, p) ==
  p \in starts /\ list[p] = key /\ \A q \in starts : q < p => list[q] # key

\* A list that fits is a sequence of entries, and an attribute that is found
\* is the first of its key.
LEMMA FitsAreParsed ==
  ASSUME NEW list \in Lists, NEW key, NEW f, NEW g, IsFit(f, list, 1), IsFind(g, list, key, 1),
         NEW x \in 1..(AttrLen + 1), f[x]
  PROVE  \E starts \in SUBSET (x..AttrLen), end \in x..(AttrLen + 1) :
           /\ ParsesFrom(list, x, starts, end)
           /\ g[x] # 0 => \E p \in starts : g[x] = p + 1 /\ FirstOf(list, starts, key, p)
<1> DEFINE N == AttrLen + 1
           Parsed(k, starts, end) ==
             /\ ParsesFrom(list, k, starts, end)
             /\ g[k] # 0 => \E p \in starts : g[k] = p + 1 /\ FirstOf(list, starts, key, p)
           S == {k \in 1..N : f[k] => \E starts \in SUBSET (k..AttrLen), end \in k..N :
                                        Parsed(k, starts, end)}
<1> USE TheList
<1>1. ASSUME NEW k \in 1..N, \A y \in (k + 1)..N : y \in S, f[k]
      PROVE  \E starts \in SUBSET (k..AttrLen), end \in k..N : Parsed(k, starts, end)
  <2>1. f[k] = IF k > AttrLen THEN TRUE
               ELSE IF list[k] = 0 THEN \A q \in k..AttrLen : list[q] = 0
               ELSE /\ k + 1 <= AttrLen
                    /\ k + 1 + list[k + 1] <= AttrLen
                    /\ f[k + 2 + list[k + 1]]
    BY DEF IsFit
  <2>2. g[k] = IF k >= AttrLen \/ list[k] = 0 \/ k + 1 + list[k + 1] > AttrLen THEN 0
               ELSE IF list[k] = key THEN k + 1
               ELSE g[k + 2 + list[k + 1]]
    BY DEF IsFind
  <2>3. CASE k > AttrLen \/ list[k] = 0
    <3>1. \A q \in k..AttrLen : list[q] = 0
      <4>1. CASE k > AttrLen
        BY <4>1
      <4>2. CASE ~(k > AttrLen)
        BY <1>1, <2>1, <2>3, <4>2
      <4> QED BY <4>1, <4>2
    <3>2. g[k] = 0
      BY <2>2, <2>3
    <3>3. Parsed(k, {}, k)
      BY <3>1, <3>2 DEF ParsesFrom
    <3> HIDE DEF Parsed
    <3> QED BY <3>3
  <2>4. CASE ~(k > AttrLen \/ list[k] = 0)
    <3> DEFINE nx == NextEntry(list, k)
    <3>1. k + 1 <= AttrLen /\ k + 1 + list[k + 1] <= AttrLen /\ f[nx]
      BY <1>1, <2>1, <2>4 DEF NextEntry
    <3>2. list[k + 1] \in Nat /\ nx \in (k + 1)..N
      BY <3>1, NextIsBehind DEF NextEntry
    <3> HIDE DEF nx
    <3>3. nx \in S
      BY <1>1, <3>2
    <3> HIDE DEF Parsed
    <3>4. PICK starts \in SUBSET (nx..AttrLen), end \in nx..N : Parsed(nx, starts, end)
      BY <3>1, <3>3
    <3> DEFINE all == starts \cup {k}
    <3>5. all \in SUBSET (k..AttrLen) /\ end \in k..N
      BY <2>4, <3>2
    <3>6. ParsesFrom(list, k, all, end)
      <4>1. ParsesFrom(list, nx, starts, end)
        BY <3>4 DEF Parsed
      <4>2. \A q \in end..AttrLen : list[q] = 0
        BY <4>1 DEF ParsesFrom
      <4>3. k < end /\ k < AttrLen /\ list[k] # 0 /\ nx \in starts \cup {end}
        BY <2>4, <3>1, <3>2, <4>1 DEF ParsesFrom
      <4>4. \A p \in all : p < end /\ p < AttrLen /\ list[p] # 0 /\ NextEntry(list, p) \in all \cup {end}
        BY <4>1, <4>3 DEF ParsesFrom, nx
      <4>5. \A p \in all : p = k \/ \E q \in all : q < AttrLen /\ NextEntry(list, q) = p
        BY <4>1, <4>3 DEF ParsesFrom, nx
      <4> QED BY <4>2, <4>4, <4>5 DEF ParsesFrom
    <3>7. ASSUME g[k] # 0 PROVE \E p \in all : g[k] = p + 1 /\ FirstOf(list, all, key, p)
      <4>1. CASE list[k] = key
        <5>1. g[k] = k + 1
          BY <2>2, <2>4, <3>1, <3>2, <4>1
        <5>2. \A q \in all : ~(q < k)
          BY <3>5
        <5>3. FirstOf(list, all, key, k)
          BY <4>1, <5>2 DEF FirstOf
        <5> QED BY <5>1, <5>3
      <4>2. CASE list[k] # key
        <5>1. g[k] = g[nx]
          BY <2>2, <2>4, <3>1, <3>2, <3>7, <4>2 DEF nx, NextEntry
        <5>2. PICK p \in starts : g[nx] = p + 1 /\ FirstOf(list, starts, key, p)
          BY <3>4, <3>7, <5>1 DEF Parsed
        <5>3. FirstOf(list, all, key, p)
          BY <4>2, <5>2 DEF FirstOf
        <5> QED BY <5>1, <5>2, <5>3
      <4> QED BY <4>1, <4>2
    <3>8. Parsed(k, all, end)
      BY <3>6, <3>7 DEF Parsed
    <3> HIDE DEF all
    <3> QED BY <3>5, <3>8
  <2> QED BY <2>3, <2>4
<1>2. x \in S
  <2>1. \A k \in 1..N : (\A y \in (k + 1)..N : y \in S) => k \in S
    <3> HIDE DEF Parsed
    <3> QED BY <1>1
  <2> HIDE DEF S
  <2>2. N \in Nat
    OBVIOUS
  <2> HIDE DEF N
  <2>3. 1..N \subseteq S
    BY <2>1, <2>2, Downwards
  <2> QED BY <2>3 DEF N
<1> QED BY <1>2

\* Of a list that is a sequence of entries, the checks find that it fits and
\* the first entry of a key.
LEMMA ParsedFit ==
  ASSUME NEW list \in Lists, NEW f, IsFit(f, list, 1),
         NEW starts \in SUBSET (1..AttrLen), NEW end \in 1..(AttrLen + 1),
         ParsesFrom(list, 1, starts, end)
  PROVE  f[1]
<1> DEFINE N == AttrLen + 1
           S == {k \in 1..N : k \in starts \cup {end} => f[k]}
<1> USE TheList
<1>1. ASSUME NEW k \in 1..N, \A y \in (k + 1)..N : y \in S PROVE k \in S
  <2> SUFFICES ASSUME k \in starts \cup {end} PROVE f[k]
    OBVIOUS
  <2>1. f[k] = IF k > AttrLen THEN TRUE
               ELSE IF list[k] = 0 THEN \A q \in k..AttrLen : list[q] = 0
               ELSE /\ k + 1 <= AttrLen
                    /\ k + 1 + list[k + 1] <= AttrLen
                    /\ f[k + 2 + list[k + 1]]
    BY DEF IsFit
  <2>2. CASE k = end
    <3>1. \A q \in k..AttrLen : list[q] = 0
      BY <2>2 DEF ParsesFrom
    <3>2. k > AttrLen \/ list[k] = 0
      BY <3>1
    <3> QED BY <2>1, <3>1, <3>2
  <2>3. CASE k \in starts
    <3> DEFINE nx == NextEntry(list, k)
    <3>1. k < AttrLen /\ list[k] # 0 /\ nx \in starts \cup {end}
      BY <2>3 DEF ParsesFrom
    <3>2. k + 1 \in 1..AttrLen
      BY <3>1
    <3>3. list[k + 1] \in Nat
      BY <3>2 DEF Lists
    <3>4. nx \in (k + 1)..N
      BY <3>1, <3>3 DEF NextEntry
    <3>5. f[nx]
      BY <1>1, <3>1, <3>4
    <3>6. k + 1 + list[k + 1] <= AttrLen
      BY <3>1, <3>3, <3>4 DEF NextEntry
    <3> QED BY <2>1, <3>1, <3>2, <3>5, <3>6 DEF NextEntry
  <2> QED BY <2>2, <2>3
<1>2. 1..N \subseteq S
  <2> HIDE DEF S
  <2>1. N \in Nat
    OBVIOUS
  <2> HIDE DEF N
  <2> QED BY <1>1, <2>1, Downwards
<1>3. 1 \in starts \cup {end} /\ 1 \in 1..N
  BY DEF ParsesFrom
<1> QED BY <1>2, <1>3

LEMMA ParsedFound ==
  ASSUME NEW list \in Lists, NEW key, NEW g, IsFind(g, list, key, 1),
         NEW starts \in SUBSET (1..AttrLen), NEW end \in 1..(AttrLen + 1),
         ParsesFrom(list, 1, starts, end), NEW p, FirstOf(list, starts, key, p)
  PROVE  g[1] = p + 1
<1> DEFINE N == AttrLen + 1
           T == {k \in starts : k <= p /\ g[k] = p + 1}
<1> USE TheList
<1>0. /\ \A k \in starts : k \in 1..AttrLen
      /\ \A k \in starts \cup {end} : k \in 1..N
      /\ p \in starts
  BY DEF FirstOf
<1>1. ASSUME NEW k \in starts
      PROVE  /\ k \in Nat /\ k < AttrLen /\ list[k] # 0 /\ list[k + 1] \in Nat
             /\ k < NextEntry(list, k)
             /\ g[k] = IF list[k] = key THEN k + 1 ELSE g[NextEntry(list, k)]
  <2>1. k < AttrLen /\ list[k] # 0 /\ NextEntry(list, k) \in starts \cup {end}
    BY DEF ParsesFrom
  <2>2. k + 1 \in 1..AttrLen
    BY <2>1
  <2>3. list[k + 1] \in Nat
    BY <2>2 DEF Lists
  <2>4. NextEntry(list, k) \in 1..N
    BY <1>0, <2>1
  <2>5. k + 1 + list[k + 1] <= AttrLen
    BY <2>3, <2>4 DEF NextEntry
  <2>6. g[k] = IF k >= AttrLen \/ list[k] = 0 \/ k + 1 + list[k + 1] > AttrLen THEN 0
               ELSE IF list[k] = key THEN k + 1
               ELSE g[k + 2 + list[k + 1]]
    <3>1. k \in 1..N
      BY <1>0
    <3> QED BY <3>1 DEF IsFind
  <2>7. g[k] = IF list[k] = key THEN k + 1 ELSE g[NextEntry(list, k)]
    BY <2>1, <2>3, <2>5, <2>6 DEF NextEntry
  <2> QED BY <2>1, <2>3, <2>7 DEF NextEntry
<1>2. p \in T
  BY <1>0, <1>1 DEF FirstOf
<1>3. T \subseteq Nat
  <2> SUFFICES ASSUME NEW k \in starts PROVE k \in Nat
    OBVIOUS
  <2> QED BY <1>0
<1>4. PICK k \in T : \A y \in T : k <= y
  <2> HIDE DEF T
  <2> QED BY <1>2, <1>3, Smallest
<1>5. k = 1
  <2> SUFFICES ASSUME k # 1 PROVE FALSE
    OBVIOUS
  <2>1. PICK q \in starts : NextEntry(list, q) = k
    BY <1>4 DEF ParsesFrom
  <2>2. q < k /\ q \in Nat
    BY <1>1, <2>1
  <2>3. q < p
    BY <1>0, <1>4, <2>2
  <2>4. list[q] # key
    BY <2>3 DEF FirstOf
  <2>5. g[q] = g[k]
    BY <1>1, <2>1, <2>4
  <2>6. q \in T
    BY <1>0, <1>4, <2>3, <2>5
  <2> QED BY <1>4, <2>2, <2>6
<1> QED BY <1>4, <1>5

LEMMA ParsesAsFrom ==
  ASSUME NEW list, NEW starts, NEW end
  PROVE  ParsesAs(list, starts, end) <=> ParsesFrom(list, 1, starts, end)
  BY DEF ParsesAs, ParsesFrom, NextEntry

\* The checks of the attribute list and of the platform accept the lists that
\* name the platform: nothing in a value is taken for an entry, and no entry
\* is missed.
LEMMA PlatformIsNamed ==
  ASSUME NEW list \in Lists, AttributesFit(list), ForThisPlatform(list)
  PROVE  NamesPlatform(list)
<1> DEFINE at == FindAttribute(list, PlatformKey)
<1>1. PICK f : IsFit(f, list, 1) /\ AttributesFit(list) = f[1]
  BY FitIs
<1>2. PICK g : IsFind(g, list, PlatformKey, 1) /\ at = g[1]
  BY FindIs
<1>3. at > 0 /\ SubSeq(list, at + 1, at + list[at]) = Platform
  BY DEF ForThisPlatform
<1> HIDE DEF at
<1>4. f[1]
  BY <1>1, Zenon
<1>5. PICK starts \in SUBSET (1..AttrLen), end \in 1..(AttrLen + 1) :
        /\ ParsesFrom(list, 1, starts, end)
        /\ g[1] # 0 => \E p \in starts : g[1] = p + 1 /\ FirstOf(list, starts, PlatformKey, p)
  <2>1. 1 \in 1..(AttrLen + 1)
    BY TheList
  <2> QED BY <1>1, <1>2, <1>4, <2>1, FitsAreParsed
<1>6. PICK p \in starts : at = p + 1 /\ FirstOf(list, starts, PlatformKey, p)
  BY <1>2, <1>3, <1>5
<1>7. p \in Nat
  OBVIOUS
<1>8. SubSeq(list, p + 2, p + 1 + list[p + 1]) = Platform
  <2>1. at + 1 = p + 2 /\ at + list[at] = p + 1 + list[p + 1]
    BY <1>6, <1>7
  <2> QED BY <1>3, <2>1
<1>9. ParsesAs(list, starts, end)
  BY <1>5, ParsesAsFrom
<1> QED BY <1>6, <1>8, <1>9 DEF NamesPlatform, FirstOf

LEMMA NamedIsFound ==
  ASSUME NEW list \in Lists, NamesPlatform(list), Len(Platform) < StrMax
  PROVE  AttributesFit(list) /\ ForThisPlatform(list)
<1>1. PICK f : IsFit(f, list, 1) /\ AttributesFit(list) = f[1]
  BY FitIs
<1>2. PICK g : IsFind(g, list, PlatformKey, 1) /\ FindAttribute(list, PlatformKey) = g[1]
  BY FindIs
<1>3. PICK starts \in SUBSET (1..AttrLen), end \in 1..(AttrLen + 1) :
        /\ ParsesFrom(list, 1, starts, end)
        /\ \E p \in starts :
             /\ FirstOf(list, starts, PlatformKey, p)
             /\ SubSeq(list, p + 2, p + 1 + list[p + 1]) = Platform
  BY ParsesAsFrom DEF NamesPlatform, FirstOf
<1>4. PICK p \in starts : /\ FirstOf(list, starts, PlatformKey, p)
                          /\ SubSeq(list, p + 2, p + 1 + list[p + 1]) = Platform
  BY <1>3
<1>5. AttributesFit(list)
  <2>1. f[1]
    BY <1>1, <1>3, ParsedFit
  <2> QED BY <1>1, <2>1
<1>6. FindAttribute(list, PlatformKey) = p + 1
  BY <1>2, <1>3, <1>4, ParsedFound
<1>7. p \in 1..AttrLen /\ p < AttrLen /\ NextEntry(list, p) \in 1..(AttrLen + 1)
  <2>1. \A y \in starts \cup {end} : y \in 1..(AttrLen + 1)
    BY TheList
  <2>2. p \in 1..AttrLen
    OBVIOUS
  <2> QED BY <1>3, <2>1, <2>2 DEF ParsesFrom
<1>8. list[p + 1] \in Nat
  <2>1. p + 1 \in 1..AttrLen
    BY <1>7, TheList
  <2> QED BY <2>1 DEF Lists
<1>9. list[p + 1] + 1 <= StrMax
  <2> DEFINE a == p + 2
             z == p + 1 + list[p + 1]
  <2>1. a \in 1..(AttrLen + 1) /\ z \in (a - 1)..AttrLen
    BY <1>7, <1>8, TheList DEF NextEntry
  <2>2. list \in Seq(Nat) /\ Len(list) = AttrLen
    BY TheList DEF Lists
  <2>3. z - a + 1 = list[p + 1]
    BY <1>7, <1>8
  <2> HIDE DEF a, z
  <2>4. Len(SubSeq(list, a, z)) = z - a + 1
    BY <2>1, <2>2, SubSeqProperties
  <2>5. Len(Platform) = list[p + 1]
    BY <1>4, <2>3, <2>4 DEF a, z
  <2> QED BY <1>8, <2>5, TheList
<1>10. SubSeq(list, p + 1 + 1, p + 1 + list[p + 1]) = Platform
  <2>1. p + 1 + 1 = p + 2
    BY <1>7
  <2> QED BY <1>4, <2>1
<1>11. p + 1 > 0
  BY <1>7
<1>12. ForThisPlatform(list)
  BY <1>6, <1>9, <1>10, <1>11 DEF ForThisPlatform
<1> QED BY <1>5, <1>12
---------------------------------------------------------------------------
(* What is accepted, and what is rejected *)

\* What the checks that have passed say of the bundle.
WellInv ==
  check # "rejected" =>
    /\ check # "magic" => bundle.magic
    /\ check \notin {"magic", "header"} =>
         /\ bundle.sound /\ bundle.version <= VersionMax
         /\ AttributesFit(bundle.attrs)
    /\ check \notin {"magic", "header", "platform"} => ForThisPlatform(bundle.attrs)
    /\ check \notin {"magic", "header", "platform", "version"} => bundle.version >= 1
    /\ check \in {"message", "duplicates", "record", "accepted"} =>
         bundle.sigMagic /\ bundle.sigName = "sign"
    /\ check \in {"duplicates", "record", "accepted"} => bundle.name \in {"boot", "main"}

LEMMA StepWell == WellInv /\ [BundleNext]_bvars => WellInv'
<1> SUFFICES ASSUME WellInv, [BundleNext]_bvars PROVE WellInv'
  OBVIOUS
<1>1. CASE UNCHANGED bvars
  BY <1>1 DEF bvars, WellInv
<1>2. CASE CheckMagic
  <2>1. check = "magic" /\ bundle' = bundle /\ Decide(bundle.magic, "header")
    BY <1>2 DEF CheckMagic
  <2> QED BY <2>1 DEF WellInv, Decide
<1>3. CASE CheckHeader
  <2>1. /\ check = "header" /\ bundle' = bundle
        /\ check' = "rejected" \/ (check' = "platform" /\ bundle.sound
                                   /\ bundle.version <= VersionMax /\ AttributesFit(bundle.attrs))
    <3>1. CASE bundle.sound /\ bundle.version <= VersionMax /\ AttributesFit(bundle.attrs)
      BY <1>3, <3>1 DEF CheckHeader, Decide
    <3>2. CASE ~(bundle.sound /\ bundle.version <= VersionMax /\ AttributesFit(bundle.attrs))
      BY <1>3, <3>2, Zenon DEF CheckHeader, Decide
    <3> QED BY <3>1, <3>2
  <2> QED BY <2>1 DEF WellInv
<1>4. CASE CheckPlatform
  <2>1. check = "platform" /\ bundle' = bundle /\ Decide(ForThisPlatform(bundle.attrs), "version")
    BY <1>4 DEF CheckPlatform
  <2> QED BY <2>1 DEF WellInv, Decide
<1>5. CASE CheckVersion
  <2>1. check = "version" /\ bundle' = bundle /\ Decide(bundle.version >= 1, "mainSize")
    BY <1>5 DEF CheckVersion
  <2> QED BY <2>1 DEF WellInv, Decide
<1>6. CASE CheckMainSize \/ HashMain \/ CheckSigBounds
  <2>1. /\ check \in {"mainSize", "hash", "sigBounds"} /\ bundle' = bundle
        /\ check' \in {"rejected", "hash", "sigBounds", "sigSection"}
    BY <1>6, Zenon DEF CheckMainSize, HashMain, CheckSigBounds, Decide
  <2> QED BY <2>1 DEF WellInv
<1>7. CASE CheckSigSection
  <2>1. /\ check = "sigSection" /\ bundle' = bundle
        /\ Decide(bundle.sigMagic /\ bundle.sigName = "sign", "message")
    BY <1>7 DEF CheckSigSection
  <2> QED BY <2>1 DEF WellInv, Decide
<1>8. CASE MakeMessage
  <2>1. check = "message" /\ bundle' = bundle /\ Decide(bundle.name \in {"boot", "main"}, "duplicates")
    BY <1>8 DEF MakeMessage
  <2> QED BY <2>1 DEF WellInv, Decide
<1>9. CASE CheckDuplicates \/ CheckRecord \/ CheckThreshold
  <2>1. /\ check \in {"duplicates", "record"} /\ bundle' = bundle
        /\ check' \in {"rejected", "record", "accepted"}
    BY <1>9, Zenon DEF CheckDuplicates, CheckRecord, CheckThreshold, Decide
  <2> QED BY <2>1 DEF WellInv
<1> QED BY <1>1, <1>2, <1>3, <1>4, <1>5, <1>6, <1>7, <1>8, <1>9 DEF BundleNext

\* What is accepted has the header of a release for this board, with an
\* attribute list that parses and names its platform, and its parts lie one
\* after the other in it.
THEOREM WellFormedHolds == BundleSpec => []AcceptedIsWellFormed
<1>1. BundleInit => WellInv
  BY DEF BundleInit, WellInv
<1>2. BoundInv /\ WellInv => AcceptedIsWellFormed
  <2> SUFFICES ASSUME BoundInv, WellInv, check = "accepted" PROVE HeaderIsRight /\ LayoutIsRight
    BY DEF AcceptedIsWellFormed
  <2>1. /\ bundle.magic /\ bundle.sound /\ bundle.version <= VersionMax /\ bundle.version >= 1
        /\ bundle.sigMagic /\ bundle.sigName = "sign" /\ bundle.name \in {"boot", "main"}
        /\ AttributesFit(bundle.attrs) /\ ForThisPlatform(bundle.attrs)
    BY DEF WellInv
  <2>2. bundle.version \in Nat /\ bundle.attrs \in Lists /\ VersionMax \in Nat
    BY BundleAssumption DEF BoundInv, Lists
  <2>3. NamesPlatform(bundle.attrs)
    BY <2>1, <2>2, PlatformIsNamed
  <2>4. /\ bundle.plSize \in 1..PayloadMax
        /\ sigHdr = Base + HdrLen + bundle.plSize
        /\ sigHdr + HdrLen + bundle.sigSize <= Base + bundle.size
    BY DEF BoundInv, SizeInv, PastHeader, PastSize, PastSig, PastDup
  <2>5. HdrLen + bundle.plSize + HdrLen + bundle.sigSize <= bundle.size
    BY <2>4, TheSizes, Sizes DEF BoundInv
  <2>6. bundle.version \in 1..VersionMax
    BY <2>1, <2>2
  <2> QED BY <2>1, <2>3, <2>4, <2>5, <2>6 DEF HeaderIsRight, LayoutIsRight
<1> QED BY <1>1, <1>2, InitBounds, StepBounds, StepWell, PTL DEF BundleSpec

\* A release as the packaging tools make it.
SignedByFirst ==
  /\ \A k, m \in DOMAIN Records : k # m => Records[k].signer # Records[m].signer
  /\ \A k \in DOMAIN Records :
       /\ Records[k].signer \in Keys
       /\ Records[k].fp = Fingerprint[Records[k].signer]
       /\ FindPubkey(Records[k].fp) = Records[k].signer
       /\ Records[k].content = bundle.content
Release ==
  /\ HeaderIsRight /\ LayoutIsRight
  /\ Len(Platform) < StrMax
  /\ bundle.sigSize = RecLen * Len(Records)
  /\ SignedByFirst
  /\ Len(Records) >= Threshold

\* Of a release, no check has failed and every record so far has counted.
ReleaseInv == Release => check # "rejected" /\ valid = n - 1

LEMMA StepRelease == BoundInv /\ ReleaseInv /\ [BundleNext]_bvars => ReleaseInv'
<1> SUFFICES ASSUME BoundInv, ReleaseInv, [BundleNext]_bvars, Release'
             PROVE  check' # "rejected" /\ valid' = n' - 1
  BY DEF ReleaseInv
<1>0. bundle' = bundle
  BY DEF BundleNext, bvars, CheckMagic, CheckHeader, CheckPlatform, CheckVersion, CheckMainSize,
         HashMain, CheckSigBounds, CheckSigSection, MakeMessage, CheckDuplicates, CheckRecord,
         CheckThreshold
<1>1. Release
  BY <1>0 DEF Release, HeaderIsRight, LayoutIsRight, SignedByFirst, Records
<1>2. /\ bundle \in Bundles /\ check # "rejected" /\ valid = n - 1
      /\ n \in 1..(Len(Records) + 1) /\ Len(Records) \in Nat
      /\ DOMAIN Records = 1..Len(Records)
  BY <1>1, TheBundle DEF ReleaseInv, BoundInv, CountInv
<1>3. /\ bundle.magic /\ bundle.sound /\ bundle.version \in 1..VersionMax
      /\ bundle.name \in {"boot", "main"} /\ NamesPlatform(bundle.attrs)
      /\ bundle.plSize \in 1..PayloadMax
      /\ bundle.sigMagic /\ bundle.sigName = "sign"
      /\ HdrLen + bundle.plSize + HdrLen + bundle.sigSize <= bundle.size
  BY <1>1 DEF Release, HeaderIsRight, LayoutIsRight
<1>4. /\ bundle.sigSize = RecLen * Len(Records) /\ Len(Records) >= Threshold
      /\ Len(Platform) < StrMax /\ SignedByFirst
  BY <1>1 DEF Release
<1>5. /\ bundle.plSize \in Nat /\ bundle.sigSize \in Nat /\ bundle.size \in Nat
      /\ HdrLen \in Nat /\ RecLen \in Nat \ {0} /\ Base \in Nat /\ Threshold \in Nat \ {0}
  BY <1>2, TheBundle, Sizes, BundleAssumption
<1>6. AttributesFit(bundle.attrs) /\ ForThisPlatform(bundle.attrs)
  <2>1. bundle.attrs \in Lists
    BY <1>2, BundleAssumption DEF Lists
  <2> QED BY <1>3, <1>4, <2>1, NamedIsFound
<1>7. CASE UNCHANGED bvars
  BY <1>2, <1>7 DEF bvars
<1>8. CASE CheckMagic
  BY <1>2, <1>3, <1>8, Zenon DEF CheckMagic, Decide
<1>9. CASE CheckHeader
  <2>1. bundle.version <= VersionMax
    BY <1>3
  <2> QED BY <1>2, <1>3, <1>6, <1>9, <2>1, Zenon DEF CheckHeader, Decide
<1>10. CASE CheckPlatform
  BY <1>2, <1>6, <1>10, Zenon DEF CheckPlatform, Decide
<1>11. CASE CheckVersion
  <2>1. bundle.version >= 1
    BY <1>3
  <2> QED BY <1>2, <1>11, <2>1, Zenon DEF CheckVersion, Decide
<1>12. MainFits
  <2>1. HdrLen (+) bundle.plSize = HdrLen + bundle.plSize
    BY <1>2, <1>3, Ends
  <2>2. HdrLen + bundle.plSize <= bundle.size
    BY <1>3, <1>5
  <2> QED BY <2>1, <2>2 DEF MainFits
<1>13. CASE CheckMainSize
  BY <1>2, <1>12, <1>13, Zenon DEF CheckMainSize, Decide
<1>14. CASE HashMain
  <2>1. bundle.name # "sign"
    BY <1>3
  <2> QED BY <1>2, <1>14, <2>1, Zenon DEF HashMain, Decide
<1>15. CASE CheckSigBounds
  <2> DEFINE hdr == Base (+) HdrLen (+) bundle.plSize
             at  == Base + HdrLen + bundle.plSize
  <2>1. HdrLen + bundle.plSize <= bundle.size
    BY <1>3, <1>5
  <2>2. hdr = at /\ at (+) HdrLen = at + HdrLen /\ BundleEnd = Base + bundle.size /\ at \in Nat
    BY <1>2, <1>5, <2>1, Ends
  <2> HIDE DEF hdr
  <2>3. at + HdrLen + bundle.sigSize <= Base + bundle.size /\ bundle.sigSize <= bundle.size
        /\ at + HdrLen <= Base + bundle.size
    BY <1>3, <1>5
  <2>4. Base + bundle.size < W
    BY <1>2, TheBundle, Sizes
  <2>5. (at + HdrLen) (+) bundle.sigSize = at + HdrLen + bundle.sigSize
    <3>1. at + HdrLen \in Nat /\ at + HdrLen + bundle.sigSize < W
      BY <1>5, <2>2, <2>3, <2>4, Sizes
    <3> HIDE DEF at
    <3> QED BY <1>5, <3>1, PlusSmall
  <2>6. SigFits(hdr)
    BY <1>12, <2>2, <2>3, <2>5 DEF SigFits
  <2>7. Decide(SigFits(hdr), "sigSection") /\ UNCHANGED <<n, valid>>
    BY <1>15 DEF CheckSigBounds, hdr
  <2> QED BY <1>2, <2>6, <2>7, Zenon DEF Decide
<1>16. CASE CheckSigSection
  BY <1>2, <1>3, <1>16, Zenon DEF CheckSigSection, Decide
<1>17. CASE MakeMessage
  BY <1>2, <1>3, <1>17, Zenon DEF MakeMessage, Decide
<1>18. CASE CheckDuplicates
  <2>1. bundle.sigSize >= RecLen
    <3>1. RecLen * Len(Records) >= RecLen * 1
      BY <1>2, <1>4, <1>5
    <3> QED BY <1>4, <1>5, <3>1
  <2>2. bundle.sigSize % RecLen = 0
    <3>1. (RecLen * Len(Records)) % RecLen = 0
      BY <1>2, <1>5, WholeTimes
    <3> QED BY <1>4, <3>1, Zenon
  <2>3. AllDistinct
    <3> SUFFICES ASSUME NEW k \in DOMAIN Records, NEW m \in DOMAIN Records, k # m,
                        Records[k].fp = Records[m].fp
                 PROVE  FALSE
      BY DEF AllDistinct
    <3> QED BY <1>4 DEF SignedByFirst
  <2> QED BY <1>2, <1>18, <2>1, <2>2, <2>3, Zenon DEF CheckDuplicates, Decide
<1>19. CASE CheckRecord
  <2>1. n \in DOMAIN Records
    BY <1>2, <1>19 DEF CheckRecord
  <2>2. FindPubkey(Records[n].fp) # Nobody /\ Verifies(Records[n], FindPubkey(Records[n].fp))
    <3>1. /\ Records[n].signer \in Keys /\ FindPubkey(Records[n].fp) = Records[n].signer
          /\ Records[n].content = bundle.content
      BY <1>4, <2>1 DEF SignedByFirst
    <3>2. Nobody \notin Keys
      BY BundleAssumption
    <3> QED BY <3>1, <3>2 DEF Verifies
  <2>3. check' = check /\ n' = n + 1 /\ valid' = valid + 1
    BY <1>19, <2>2, Zenon DEF CheckRecord
  <2> QED BY <1>2, <2>3
<1>20. CASE CheckThreshold
  <2>1. valid >= Threshold
    BY <1>2, <1>4, <1>20 DEF CheckThreshold
  <2> QED BY <1>2, <1>20, <2>1, Zenon DEF CheckThreshold, Decide
<1> QED BY <1>7, <1>8, <1>9, <1>10, <1>11, <1>13, <1>14, <1>15, <1>16, <1>17, <1>18, <1>19, <1>20
        DEF BundleNext

\* No release is refused, whatever its attribute list, sizes and signers.
THEOREM ReleasesHold == BundleSpec => []RejectedIsFaulty
<1>1. BundleInit => ReleaseInv
  BY DEF BundleInit, ReleaseInv
<1>2. ReleaseInv => RejectedIsFaulty
  BY DEF ReleaseInv, RejectedIsFaulty, Release, SignedByFirst
<1> QED BY <1>1, <1>2, InitBounds, StepBounds, StepRelease, PTL DEF BundleSpec
===========================================================================
