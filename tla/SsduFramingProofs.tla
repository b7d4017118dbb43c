------------------------- MODULE SsduFramingProofs -------------------------
(***************************************************************************)
(* For any magic that does not end with what it begins with, any lengths   *)
(* and any damage: the board's parser never writes past its buffer, a      *)
(* frame that meets a silent line is passed on, and all that happens to    *)
(* frames is that some are lost.  Both parsers are covered; what the       *)
(* host's loop and the list of pending CRCs compute is recursive and       *)
(* characterised by induction.                                             *)
(***************************************************************************)
EXTENDS SsduFraming, SequenceTheorems, WellFoundedInduction, TLAPS

LEMMA LeastElement ==
  ASSUME NEW T \in SUBSET Nat, T # {}
  PROVE  \E x \in T : \A y \in T : x <= y
<1> DEFINE R == OpToRel(<, Nat)
<1>1. IsWellFoundedOn(R, Nat)
  BY NatLessThanWellFounded
<1>2. PICK x \in T : \A y \in T : ~(<<y, x>> \in R)
  BY <1>1, WFMin, Zenon
<1>3. \A y \in T : ~(y < x)
  BY <1>2 DEF OpToRel
<1> QED BY <1>3

LEMMA SetInduction ==
  ASSUME NEW S, 0 \in S, \A n \in Nat : n \in S => n + 1 \in S
  PROVE  Nat \subseteq S
<1> DEFINE T == {n \in Nat : n \notin S}
<1>1. SUFFICES ASSUME T # {} PROVE FALSE
  OBVIOUS
<1>2. PICK x \in T : \A y \in T : x <= y
  <2>1. T \in SUBSET Nat
    OBVIOUS
  <2> HIDE DEF T
  <2> QED BY <1>1, <2>1, LeastElement
<1>3. x \in Nat /\ x # 0
  OBVIOUS
<1>4. x - 1 \in S
  BY <1>2, <1>3
<1> QED BY <1>3, <1>4
---------------------------------------------------------------------------
\* What Resync returns is determined by the first suffix not rejected.
LEMMA ResyncIs ==
  ASSUME NEW S, NEW b \in Seq(S), NEW k \in 0..Len(b), ~Rejected(After(b, k)),
         \A j \in 0..(k - 1) : Rejected(After(b, j))
  PROVE  Resync(b) = After(b, k)
<1> DEFINE Good(m) == /\ ~Rejected(After(b, m))
                      /\ \A j \in 0..(m - 1) : Rejected(After(b, j))
<1>1. Good(k)
  OBVIOUS
<1>2. \A m \in 0..Len(b) : Good(m) => m = k
  OBVIOUS
<1>3. PICK m \in 0..Len(b) : Good(m) /\ Resync(b) = After(b, m)
  BY <1>1 DEF Resync
<1> QED BY <1>2, <1>3

\* ssdu_feed's loop ends, with a suffix of what it began with.
LEMMA ResyncResult ==
  ASSUME NEW S, NEW b \in Seq(S)
  PROVE  /\ Resync(b) \in Seq(S)
         /\ Len(Resync(b)) <= Len(b)
         /\ ~Rejected(Resync(b))
         /\ \E k \in 0..Len(b) : Resync(b) = After(b, k)
<1> DEFINE Good(k) == /\ ~Rejected(After(b, k))
                      /\ \A j \in 0..(k - 1) : Rejected(After(b, j))
           T == {k \in 0..Len(b) : ~Rejected(After(b, k))}
<1>1. Len(b) \in T
  <2>1. After(b, Len(b)) = <<>>
    BY SubSeqEmpty DEF After
  <2>2. Len(<<>>) < Len(Magic)
    BY FramingAssumption, EmptySeq
  <2> QED BY <2>1, <2>2 DEF Rejected
<1>2. PICK x \in T : \A y \in T : x <= y
  <2>1. T \in SUBSET Nat /\ T # {}
    BY <1>1, LenProperties
  <2> HIDE DEF T
  <2> QED BY <2>1, LeastElement
<1>3. Good(x)
  BY <1>2
<1>4. PICK k \in 0..Len(b) : Good(k) /\ Resync(b) = After(b, k)
  BY <1>3 DEF Resync
<1>5. After(b, k) \in Seq(S) /\ Len(After(b, k)) <= Len(b)
  BY LenProperties, SubSeqProperties DEF After
<1> QED BY <1>4, <1>5

\* A buffer that is neither rejected nor whole has room for another byte.
LEMMA PartialIsShort ==
  ASSUME NEW S, NEW b \in Seq(S), ~Rejected(b), ~IsWhole(b)
  PROVE  Len(b) < MaxFrame
<1>1. Len(Magic) \in Nat /\ Len(b) \in Nat /\ MaxPayload \in Nat
  BY FramingAssumption
<1>2. CASE ~HasHeader(b)
  BY <1>1, <1>2 DEF HasHeader, MaxFrame, Envelope
<1>3. CASE HasHeader(b)
  <2>1. GoodHeader(b) /\ ~(Len(b) >= FrameLen(b))
    BY <1>1, <1>3 DEF HasHeader, Rejected, IsWhole
  <2>2. PICK n \in 0..MaxPayload : b[Len(Magic) + 2] = Byte(n)
    BY <2>1 DEF GoodHeader
  <2>3. FrameLen(b) = Envelope + n
    BY <2>2 DEF FrameLen, Byte
  <2> QED BY <1>1, <2>1, <2>3 DEF MaxFrame, Envelope
<1> QED BY <1>2, <1>3

\* Only an undamaged body comes with its CRC.
LEMMA WholeWasSent ==
  ASSUME NEW b \in Seq(Tokens), IsWhole(b)
  PROVE  /\ Body(b) \in Bodies
         /\ FrameLen(b) \in 1..Len(b)
         /\ b[FrameLen(b)] = Crc(Body(b))
<1>1. Len(Magic) \in Nat /\ Len(b) \in Nat /\ MaxPayload \in Nat
  BY FramingAssumption
<1>2. GoodHeader(b) /\ GoodCrc(b)
  BY <1>1 DEF IsWhole, Rejected, HasHeader
<1>3. PICK n \in 0..MaxPayload : b[Len(Magic) + 2] = Byte(n)
  BY <1>2 DEF GoodHeader
<1>4. FrameLen(b) = Envelope + n
  BY <1>3 DEF FrameLen, Byte
<1>5. FrameLen(b) \in 1..Len(b)
  BY <1>1, <1>4 DEF IsWhole, Envelope
<1>6. Crc(Body(b)) \in Tokens
  BY <1>2, <1>5, ElementOfSeq DEF GoodCrc
<1>7. \A m : Crc(Body(b)) # Byte(m)
  BY DEF Crc, Byte
<1>8. PICK body \in Bodies : Crc(Body(b)) = Crc(body)
  BY <1>6, <1>7 DEF Tokens
<1> QED BY <1>2, <1>5, <1>8 DEF Crc, GoodCrc
---------------------------------------------------------------------------
\* What is left behind the first k tokens.
LEMMA AfterIsRest ==
  ASSUME NEW S, NEW b \in Seq(S), NEW k \in 0..Len(b)
  PROVE  /\ After(b, k) \in Seq(S)
         /\ Len(After(b, k)) = Len(b) - k
         /\ SubSeq(b, 1, k) \in Seq(S)
         /\ Len(SubSeq(b, 1, k)) = k
         /\ b = SubSeq(b, 1, k) \o After(b, k)
<1>1. /\ After(b, k) \in Seq(S) /\ Len(After(b, k)) = Len(b) - k
      /\ \A i \in 1..(Len(b) - k) : After(b, k)[i] = b[k + i]
  BY LenProperties, SubSeqProperties DEF After
<1>2. /\ SubSeq(b, 1, k) \in Seq(S) /\ Len(SubSeq(b, 1, k)) = k
      /\ \A i \in 1..k : SubSeq(b, 1, k)[i] = b[i]
  BY LenProperties, SubSeqProperties
<1> DEFINE c == SubSeq(b, 1, k) \o After(b, k)
<1>3. c \in Seq(S) /\ Len(c) = Len(b)
  BY <1>1, <1>2, LenProperties, ConcatProperties
<1>4. \A i \in 1..Len(b) : c[i] = b[i]
  <2> SUFFICES ASSUME NEW i \in 1..Len(b) PROVE c[i] = b[i]
    OBVIOUS
  <2>1. Len(b) \in Nat
    BY LenProperties
  <2>2. CASE i <= k
    BY <1>1, <1>2, <2>1, <2>2, ConcatProperties
  <2>3. CASE i > k
    <3>1. c[i] = After(b, k)[i - k]
      BY <1>1, <1>2, <2>1, <2>3, ConcatProperties
    <3> QED BY <1>1, <2>1, <2>3, <3>1
  <2>4. i <= k \/ i > k
    BY <2>1
  <2> QED BY <2>2, <2>3, <2>4
<1> HIDE DEF c
<1>5. c = b
  BY <1>3, <1>4, SeqEqual
<1> QED BY <1>1, <1>2, <1>5 DEF c
---------------------------------------------------------------------------
\* The CRCs of a sequence, one token after the other.
LEMMA CrcsExist ==
  ASSUME NEW s \in Seq(Tokens)
  PROVE  \E f : f = [i \in 0..Len(s) |-> IF i = 0 THEN <<>>
                                         ELSE IF Len(s[i]) = 2 THEN Append(f[i - 1], s[i][2])
                                         ELSE f[i - 1]]
<1> DEFINE Is(f, n) == f = [i \in 0..n |-> IF i = 0 THEN <<>>
                                           ELSE IF Len(s[i]) = 2 THEN Append(f[i - 1], s[i][2])
                                           ELSE f[i - 1]]
           S == {n \in Nat : \E f : Is(f, n)}
<1>1. 0 \in S
  <2>1. Is([i \in 0..0 |-> <<>>], 0)
    OBVIOUS
  <2> QED BY <2>1
<1>2. ASSUME NEW n \in Nat, n \in S PROVE n + 1 \in S
  <2>1. PICK f : Is(f, n)
    BY <1>2
  <2> DEFINE g == [i \in 0..(n + 1) |-> IF i = 0 THEN <<>>
                                        ELSE IF Len(s[i]) = 2 THEN Append(f[i - 1], s[i][2])
                                        ELSE f[i - 1]]
             h == [i \in 0..(n + 1) |-> IF i = 0 THEN <<>>
                                        ELSE IF Len(s[i]) = 2 THEN Append(g[i - 1], s[i][2])
                                        ELSE g[i - 1]]
             e == [i \in 0..n |-> IF i = 0 THEN <<>>
                                   ELSE IF Len(s[i]) = 2 THEN Append(f[i - 1], s[i][2])
                                   ELSE f[i - 1]]
  <2>2. \A i \in 0..n : g[i] = f[i]
    <3>1. \A i \in 0..n : g[i] = e[i]
      OBVIOUS
    <3>2. f = e
      BY <2>1
    <3> HIDE DEF g, e
    <3> QED BY <3>1, <3>2
  <2>3. \A i \in 0..(n + 1) : i # 0 => i - 1 \in 0..n
    OBVIOUS
  <2>4. \A i \in 0..(n + 1) : g[i] = IF i = 0 THEN <<>>
                                     ELSE IF Len(s[i]) = 2 THEN Append(f[i - 1], s[i][2])
                                     ELSE f[i - 1]
    OBVIOUS
  <2>5. g = [i \in 0..(n + 1) |-> g[i]]
    OBVIOUS
  <2> HIDE DEF g
  <2>6. \A i \in 0..(n + 1) : g[i] = h[i]
    BY <2>2, <2>3, <2>4
  <2>7. h = [i \in 0..(n + 1) |-> h[i]]
    OBVIOUS
  <2> HIDE DEF h
  <2>8. g = h
    BY <2>5, <2>6, <2>7
  <2>9. Is(g, n + 1)
    BY <2>8 DEF h
  <2> HIDE DEF Is
  <2> QED BY <2>9
<1> HIDE DEF S
<1>3. Nat \subseteq S
  BY <1>1, <1>2, SetInduction
<1>4. Len(s) \in S
  BY <1>3, LenProperties
<1> QED BY <1>4 DEF S

LEMMA CrcsSteps ==
  ASSUME NEW s \in Seq(Tokens)
  PROVE  \E f : /\ f[0] = <<>>
                /\ \A i \in 1..Len(s) :
                     f[i] = IF Len(s[i]) = 2 THEN Append(f[i - 1], s[i][2]) ELSE f[i - 1]
                /\ CrcsOf(s) = f[Len(s)]
<1> DEFINE f == CHOOSE f : f = [i \in 0..Len(s) |->
                                  IF i = 0 THEN <<>>
                                  ELSE IF Len(s[i]) = 2 THEN Append(f[i - 1], s[i][2])
                                  ELSE f[i - 1]]
<1>1. CrcsOf(s) = f[Len(s)]
  BY DEF CrcsOf
<1>2. f = [i \in 0..Len(s) |-> IF i = 0 THEN <<>>
                               ELSE IF Len(s[i]) = 2 THEN Append(f[i - 1], s[i][2])
                               ELSE f[i - 1]]
  BY CrcsExist
<1> HIDE DEF f
<1>3. Len(s) \in Nat
  BY LenProperties
<1>4. f[0] = <<>>
  BY <1>2, <1>3
<1>5. ASSUME NEW i \in 1..Len(s)
      PROVE  f[i] = IF Len(s[i]) = 2 THEN Append(f[i - 1], s[i][2]) ELSE f[i - 1]
  <2>1. i \in 0..Len(s) /\ i # 0
    BY <1>3
  <2> QED BY <1>2, <2>1
<1> QED BY <1>1, <1>4, <1>5

LEMMA CrcsOfNone == CrcsOf(<<>>) = <<>>
<1>1. <<>> \in Seq(Tokens) /\ Len(<<>>) = 0
  BY EmptySeq
<1>2. PICK f : f[0] = <<>> /\ CrcsOf(<<>>) = f[Len(<<>>)]
  BY <1>1, CrcsSteps
<1> QED BY <1>1, <1>2

LEMMA CrcsOfAppend ==
  ASSUME NEW s \in Seq(Tokens), NEW x \in Tokens
  PROVE  CrcsOf(Append(s, x)) = IF Len(x) = 2 THEN Append(CrcsOf(s), x[2]) ELSE CrcsOf(s)
<1> DEFINE t == Append(s, x)
<1>1. /\ t \in Seq(Tokens) /\ Len(t) = Len(s) + 1 /\ Len(s) \in Nat
      /\ \A i \in 1..Len(s) : t[i] = s[i]
      /\ t[Len(s) + 1] = x
  BY AppendProperties, LenProperties
<1> HIDE DEF t
<1>2. PICK f : /\ f[0] = <<>>
               /\ \A i \in 1..Len(s) :
                    f[i] = IF Len(s[i]) = 2 THEN Append(f[i - 1], s[i][2]) ELSE f[i - 1]
               /\ CrcsOf(s) = f[Len(s)]
  BY CrcsSteps
<1>3. PICK g : /\ g[0] = <<>>
               /\ \A i \in 1..Len(t) :
                    g[i] = IF Len(t[i]) = 2 THEN Append(g[i - 1], t[i][2]) ELSE g[i - 1]
               /\ CrcsOf(t) = g[Len(t)]
  BY <1>1, CrcsSteps
<1> DEFINE S == {n \in Nat : n <= Len(s) => f[n] = g[n]}
<1>4. 0 \in S
  BY <1>2, <1>3
<1>5. ASSUME NEW n \in Nat, n \in S PROVE n + 1 \in S
  <2>1. SUFFICES ASSUME n + 1 <= Len(s) PROVE f[n + 1] = g[n + 1]
    OBVIOUS
  <2>2. n + 1 \in 1..Len(s) /\ n + 1 \in 1..Len(t) /\ n + 1 - 1 = n /\ f[n] = g[n]
    BY <1>1, <1>5, <2>1
  <2>3. f[n + 1] = IF Len(s[n + 1]) = 2 THEN Append(f[n], s[n + 1][2]) ELSE f[n]
    BY <1>2, <2>2
  <2>4. g[n + 1] = IF Len(t[n + 1]) = 2 THEN Append(g[n], t[n + 1][2]) ELSE g[n]
    BY <1>3, <2>2
  <2> QED BY <1>1, <2>2, <2>3, <2>4
<1> HIDE DEF S
<1>6. Nat \subseteq S
  BY <1>4, <1>5, SetInduction
<1>7. g[Len(s)] = CrcsOf(s)
  BY <1>1, <1>2, <1>6 DEF S
<1>8. Len(s) + 1 \in 1..Len(t) /\ Len(s) + 1 - 1 = Len(s)
  BY <1>1
<1>9. g[Len(s) + 1] = IF Len(x) = 2 THEN Append(g[Len(s)], x[2]) ELSE g[Len(s)]
  BY <1>1, <1>3, <1>8
<1>10. CrcsOf(t) = IF Len(x) = 2 THEN Append(CrcsOf(s), x[2]) ELSE CrcsOf(s)
  BY <1>1, <1>3, <1>7, <1>9
<1> QED BY <1>10 DEF t

\* The tokens of length 2 are the CRCs.
LEMMA TokenKinds ==
  ASSUME NEW x \in Tokens
  PROVE  Len(x) = 2 => x[2] \in Bodies /\ x = Crc(x[2])
<1>1. CASE \E n \in Bytes : x = Byte(n)
  BY <1>1 DEF Byte
<1>2. CASE \E body \in Bodies : x = Crc(body)
  BY <1>2 DEF Crc
<1> QED BY <1>1, <1>2 DEF Tokens

\* What holds of the empty sequence and survives Append holds of every one.
LEMMA AppendInduction ==
  ASSUME NEW S, NEW P, <<>> \in P, \A s \in Seq(S), x \in S : s \in P => Append(s, x) \in P
  PROVE  Seq(S) \subseteq P
<1> DEFINE T == {n \in Nat : \A s \in Seq(S) : Len(s) = n => s \in P}
<1>1. 0 \in T
  BY EmptySeq
<1>2. ASSUME NEW n \in Nat, n \in T PROVE n + 1 \in T
  <2>1. SUFFICES ASSUME NEW s \in Seq(S), Len(s) = n + 1 PROVE s \in P
    OBVIOUS
  <2>2. s # <<>>
    BY <2>1, EmptySeq
  <2>3. PICK r \in Seq(S), x \in S : s = Append(r, x)
    BY <2>2, SequenceEmptyOrAppend
  <2>4. Len(r) = n
    BY <2>1, <2>3, AppendProperties, LenProperties
  <2> QED BY <1>2, <2>3, <2>4
<1> HIDE DEF T
<1>3. Nat \subseteq T
  BY <1>1, <1>2, SetInduction
<1> QED BY <1>3, LenProperties DEF T

LEMMA CrcsAreBodies ==
  ASSUME NEW s \in Seq(Tokens)
  PROVE  CrcsOf(s) \in Seq(Bodies)
<1> DEFINE P == {r \in Seq(Tokens) : CrcsOf(r) \in Seq(Bodies)}
<1>1. <<>> \in P
  BY CrcsOfNone, EmptySeq
<1>2. ASSUME NEW r \in Seq(Tokens), NEW x \in Tokens, r \in P PROVE Append(r, x) \in P
  <2>1. Append(r, x) \in Seq(Tokens)
    BY AppendProperties
  <2>2. CrcsOf(r) \in Seq(Bodies)
    BY <1>2
  <2>3. CASE Len(x) = 2
    <3>1. CrcsOf(Append(r, x)) = Append(CrcsOf(r), x[2]) /\ x[2] \in Bodies
      BY <2>3, CrcsOfAppend, TokenKinds
    <3>2. Append(CrcsOf(r), x[2]) \in Seq(Bodies)
      BY <2>2, <3>1, AppendProperties
    <3> QED BY <2>1, <3>1, <3>2
  <2>4. CASE Len(x) # 2
    BY <2>1, <2>2, <2>4, CrcsOfAppend
  <2> QED BY <2>3, <2>4
<1> HIDE DEF P
<1>3. Seq(Tokens) \subseteq P
  BY <1>1, <1>2, AppendInduction
<1> QED BY <1>3 DEF P

\* \o as a name the provers do not unfold.
Cat(s, t) == s \o t

LEMMA CatAssociative ==
  ASSUME NEW S, NEW s \in Seq(S), NEW t \in Seq(S), NEW u \in Seq(S)
  PROVE  Cat(s, Cat(t, u)) = Cat(Cat(s, t), u)
BY ConcatAssociative, SMTT(30) DEF Cat

LEMMA CrcsOfConcat ==
  ASSUME NEW s \in Seq(Tokens), NEW t \in Seq(Tokens)
  PROVE  CrcsOf(s \o t) = CrcsOf(s) \o CrcsOf(t)
<1> DEFINE P == {r \in Seq(Tokens) : CrcsOf(s \o r) = CrcsOf(s) \o CrcsOf(r)}
<1>1. <<>> \in P
  BY CrcsOfNone, CrcsAreBodies, EmptySeq, ConcatEmptySeq
<1>2. ASSUME NEW r \in Seq(Tokens), NEW x \in Tokens, r \in P PROVE Append(r, x) \in P
  <2>1. Append(r, x) \in Seq(Tokens) /\ s \o r \in Seq(Tokens)
    BY AppendProperties, ConcatProperties
  <2>2. s \o Append(r, x) = Append(s \o r, x)
    <3>1. <<x>> \in Seq(Tokens)
      OBVIOUS
    <3>2. s \o (r \o <<x>>) = (s \o r) \o <<x>>
      BY <3>1, ConcatAssociative
    <3> QED BY <2>1, <3>2, AppendIsConcat
  <2>3. CrcsOf(s \o r) = CrcsOf(s) \o CrcsOf(r)
    BY <1>2
  <2>4. CASE Len(x) = 2
    <3>1. /\ CrcsOf(Append(s \o r, x)) = Append(CrcsOf(s) \o CrcsOf(r), x[2])
          /\ CrcsOf(Append(r, x)) = Append(CrcsOf(r), x[2])
          /\ x[2] \in Bodies
      BY <2>1, <2>3, <2>4, CrcsOfAppend, TokenKinds
    <3>2. /\ CrcsOf(s) \in Seq(Bodies) /\ CrcsOf(r) \in Seq(Bodies)
          /\ CrcsOf(s) \o CrcsOf(r) \in Seq(Bodies)
          /\ <<x[2]>> \in Seq(Bodies)
      BY <3>1, CrcsAreBodies, ConcatProperties
    <3>3. Append(CrcsOf(s) \o CrcsOf(r), x[2]) = CrcsOf(s) \o Append(CrcsOf(r), x[2])
      <4>1. (CrcsOf(s) \o CrcsOf(r)) \o <<x[2]>> = CrcsOf(s) \o (CrcsOf(r) \o <<x[2]>>)
        <5> DEFINE w == <<x[2]>>
        <5>1. CrcsOf(s) \in Seq(Bodies) /\ CrcsOf(r) \in Seq(Bodies) /\ w \in Seq(Bodies)
          BY <3>2
        <5> HIDE DEF w
        <5>2. Cat(CrcsOf(s), Cat(CrcsOf(r), w)) = Cat(Cat(CrcsOf(s), CrcsOf(r)), w)
          BY <5>1, CatAssociative
        <5> QED BY <5>2, Zenon DEF Cat, w
      <4>2. Append(CrcsOf(s) \o CrcsOf(r), x[2]) = (CrcsOf(s) \o CrcsOf(r)) \o <<x[2]>>
        BY <3>1, <3>2, AppendIsConcat, Zenon
      <4>3. Append(CrcsOf(r), x[2]) = CrcsOf(r) \o <<x[2]>>
        BY <3>1, <3>2, AppendIsConcat, Zenon
      <4> QED BY <4>1, <4>2, <4>3, Zenon
    <3> QED BY <2>1, <2>2, <3>1, <3>3
  <2>5. CASE Len(x) # 2
    BY <2>1, <2>2, <2>3, <2>5, CrcsOfAppend
  <2> QED BY <2>4, <2>5
<1> HIDE DEF P
<1>3. Seq(Tokens) \subseteq P
  BY <1>1, <1>2, AppendInduction
<1> QED BY <1>3 DEF P

\* Bytes hold no CRC.
LEMMA BytesHoldNoCrc ==
  ASSUME NEW s \in Seq(Bytes)
  PROVE  AsTokens(s) \in Seq(Tokens) /\ CrcsOf(AsTokens(s)) = <<>>
<1> DEFINE P == {r \in Seq(Bytes) : AsTokens(r) \in Seq(Tokens) /\ CrcsOf(AsTokens(r)) = <<>>}
<1>1. <<>> \in P
  <2>1. AsTokens(<<>>) = <<>>
    BY EmptySeq DEF AsTokens
  <2> QED BY <2>1, CrcsOfNone, EmptySeq
<1>2. ASSUME NEW r \in Seq(Bytes), NEW n \in Bytes, r \in P PROVE Append(r, n) \in P
  <2>1. AsTokens(r) \in Seq(Tokens) /\ Byte(n) \in Tokens /\ CrcsOf(AsTokens(r)) = <<>>
    BY <1>2 DEF Tokens
  <2>2. AsTokens(Append(r, n)) = Append(AsTokens(r), Byte(n))
    <3>1. /\ Append(r, n) \in Seq(Bytes) /\ Len(Append(r, n)) = Len(r) + 1 /\ Len(r) \in Nat
          /\ \A i \in 1..Len(r) : Append(r, n)[i] = r[i]
          /\ Append(r, n)[Len(r) + 1] = n
      BY AppendProperties, LenProperties
    <3>2. Len(AsTokens(r)) = Len(r) /\ \A i \in 1..Len(r) : AsTokens(r)[i] = Byte(r[i])
      BY <3>1 DEF AsTokens
    <3> DEFINE q == Append(r, n)
               c == Append(AsTokens(r), Byte(n))
    <3>3. /\ c \in Seq(Tokens) /\ Len(c) = Len(r) + 1
          /\ \A i \in 1..Len(r) : c[i] = Byte(r[i])
          /\ c[Len(r) + 1] = Byte(n)
      BY <2>1, <3>2, AppendProperties
    <3> HIDE DEF q, c
    <3>4. c = [i \in 1..(Len(r) + 1) |-> c[i]]
      BY <3>3, LenProperties
    <3>5. \A i \in 1..(Len(r) + 1) : c[i] = Byte(q[i])
      BY <3>1, <3>3 DEF q
    <3>6. AsTokens(q) = [i \in 1..(Len(r) + 1) |-> Byte(q[i])]
      BY <3>1 DEF AsTokens, q
    <3>7. c = AsTokens(q)
      BY <3>4, <3>5, <3>6
    <3> QED BY <3>7 DEF c, q
  <2>3. Len(Byte(n)) # 2
    BY DEF Byte
  <2>4. Append(r, n) \in Seq(Bytes) /\ Append(AsTokens(r), Byte(n)) \in Seq(Tokens)
    BY <2>1, AppendProperties
  <2> QED BY <2>1, <2>2, <2>3, <2>4, CrcsOfAppend
<1> HIDE DEF P
<1>3. Seq(Bytes) \subseteq P
  BY <1>1, <1>2, AppendInduction
<1> QED BY <1>3 DEF P
---------------------------------------------------------------------------
\* What increasing positions pick out of a sequence is a remnant of it.
LEMMA RemnantIntro ==
  ASSUME NEW s, NEW k \in 0..Len(s), NEW f \in [1..k -> 1..Len(s)],
         \A i, j \in 1..k : i < j => f[i] < f[j]
  PROVE  [i \in 1..k |-> s[f[i]]] \in Line!Remnants(s)
<1>1. f \in Line!Increasing(k, Len(s))
  BY DEF Line!Increasing
<1> QED BY <1>1 DEF Line!Remnants

Picked(t, s) ==
  \E k \in 0..Len(s) : \E f \in [1..k -> 1..Len(s)] :
    /\ \A i, j \in 1..k : i < j => f[i] < f[j]
    /\ t = [i \in 1..k |-> s[f[i]]]

LEMMA RemnantElim ==
  ASSUME NEW s, NEW t \in Line!Remnants(s)
  PROVE  Picked(t, s)
<1>1. PICK k \in 0..Len(s) :
        t \in {[i \in 1..k |-> s[f[i]]] : f \in Line!Increasing(k, Len(s))}
  BY DEF Line!Remnants
<1>2. PICK f \in Line!Increasing(k, Len(s)) : t = [i \in 1..k |-> s[f[i]]]
  BY <1>1
<1> QED BY <1>2 DEF Line!Increasing, Picked

LEMMA NothingIsARemnant ==
  ASSUME NEW S, NEW s \in Seq(S)
  PROVE  <<>> \in Line!Remnants(s)
<1> DEFINE f == [i \in 1..0 |-> i]
<1>1. 0 \in 0..Len(s) /\ f \in [1..0 -> 1..Len(s)]
  BY LenProperties
<1>2. [i \in 1..0 |-> s[f[i]]] \in Line!Remnants(s)
  <2>1. \A i, j \in 1..0 : i < j => f[i] < f[j]
    OBVIOUS
  <2> HIDE DEF f
  <2> QED BY <1>1, <2>1, RemnantIntro
<1>3. [i \in 1..0 |-> s[f[i]]] = <<>>
  OBVIOUS
<1> QED BY <1>2, <1>3

LEMMA AllIsARemnant ==
  ASSUME NEW S, NEW s \in Seq(S)
  PROVE  s \in Line!Remnants(s)
<1> DEFINE f == [i \in 1..Len(s) |-> i]
<1>1. Len(s) \in 0..Len(s) /\ f \in [1..Len(s) -> 1..Len(s)]
  BY LenProperties
<1>2. \A i, j \in 1..Len(s) : i < j => f[i] < f[j]
  OBVIOUS
<1>3. [i \in 1..Len(s) |-> s[f[i]]] = s
  <2>1. \A i \in 1..Len(s) : s[f[i]] = s[i]
    OBVIOUS
  <2>2. s = [i \in 1..Len(s) |-> s[i]]
    BY LenProperties
  <2> HIDE DEF f
  <2> QED BY <2>1, <2>2
<1> HIDE DEF f
<1> QED BY <1>1, <1>2, <1>3, RemnantIntro

LEMMA RemnantsConcat ==
  ASSUME NEW S, NEW s \in Seq(S), NEW t \in Seq(S),
         NEW p \in Line!Remnants(s), NEW q \in Line!Remnants(t)
  PROVE  p \o q \in Line!Remnants(s \o t)
<1>0. Picked(p, s) /\ Picked(q, t)
  BY RemnantElim
<1>1. PICK k \in 0..Len(s) : \E f \in [1..k -> 1..Len(s)] :
             /\ \A i, j \in 1..k : i < j => f[i] < f[j]
             /\ p = [i \in 1..k |-> s[f[i]]]
  BY <1>0 DEF Picked
<1>2. PICK f \in [1..k -> 1..Len(s)] :
             /\ \A i, j \in 1..k : i < j => f[i] < f[j]
             /\ p = [i \in 1..k |-> s[f[i]]]
  BY <1>1
<1>3. PICK m \in 0..Len(t) : \E g \in [1..m -> 1..Len(t)] :
             /\ \A i, j \in 1..m : i < j => g[i] < g[j]
             /\ q = [i \in 1..m |-> t[g[i]]]
  BY <1>0 DEF Picked
<1>4. PICK g \in [1..m -> 1..Len(t)] :
             /\ \A i, j \in 1..m : i < j => g[i] < g[j]
             /\ q = [i \in 1..m |-> t[g[i]]]
  BY <1>3
<1> DEFINE st == s \o t
           h == [i \in 1..(k + m) |-> IF i <= k THEN f[i] ELSE Len(s) + g[i - k]]
<1>5. /\ st \in Seq(S) /\ Len(st) = Len(s) + Len(t)
      /\ \A i \in 1..Len(s) : st[i] = s[i]
      /\ \A i \in 1..Len(t) : st[Len(s) + i] = t[i]
  <2>1. /\ st \in Seq(S) /\ Len(st) = Len(s) + Len(t)
        /\ \A i \in 1..(Len(s) + Len(t)) : st[i] = IF i <= Len(s) THEN s[i] ELSE t[i - Len(s)]
    BY ConcatProperties
  <2> HIDE DEF st
  <2>2. Len(s) \in Nat /\ Len(t) \in Nat
    BY LenProperties
  <2>3. ASSUME NEW i \in 1..Len(t) PROVE st[Len(s) + i] = t[i]
    <3>1. Len(s) + i \in 1..(Len(s) + Len(t)) /\ ~(Len(s) + i <= Len(s)) /\ (Len(s) + i) - Len(s) = i
      BY <2>2
    <3> QED BY <2>1, <3>1
  <2> QED BY <2>1, <2>2, <2>3
<1> HIDE DEF st
<1>6. Len(s) \in Nat /\ Len(t) \in Nat /\ k \in Nat /\ m \in Nat
  BY LenProperties
<1>7. \A i \in 1..k : i \in 1..(k + m) /\ h[i] = f[i] /\ f[i] \in 1..Len(s)
  BY <1>6
<1>8. \A i \in (k + 1)..(k + m) : /\ i \in 1..(k + m) /\ i - k \in 1..m
                                  /\ h[i] = Len(s) + g[i - k] /\ g[i - k] \in 1..Len(t)
  BY <1>6
<1>9. \A i \in 1..(k + m) : i \in 1..k \/ i \in (k + 1)..(k + m)
  BY <1>6
<1>10. h = [i \in 1..(k + m) |-> h[i]]
  OBVIOUS
<1> HIDE DEF h
<1>11. \A i \in 1..(k + m) : h[i] \in 1..Len(st)
  <2>1. \A i \in 1..k : h[i] \in 1..Len(st)
    BY <1>5, <1>6, <1>7
  <2>2. \A i \in (k + 1)..(k + m) : h[i] \in 1..Len(st)
    BY <1>5, <1>6, <1>8
  <2> QED BY <1>9, <2>1, <2>2
<1>12. h \in [1..(k + m) -> 1..Len(st)]
  BY <1>10, <1>11
<1>13. ASSUME NEW i \in 1..(k + m), NEW j \in 1..(k + m), i < j PROVE h[i] < h[j]
  <2>1. CASE j \in 1..k
    <3>1. i \in 1..k
      BY <1>6, <1>13, <2>1
    <3> QED BY <1>2, <1>7, <1>13, <2>1, <3>1
  <2>2. CASE i \in 1..k /\ j \in (k + 1)..(k + m)
    BY <1>6, <1>7, <1>8, <2>2
  <2>3. CASE i \in (k + 1)..(k + m)
    <3>1. j \in (k + 1)..(k + m) /\ i - k < j - k
      BY <1>6, <1>13, <2>3
    <3>2. i - k \in 1..m /\ j - k \in 1..m /\ h[i] = Len(s) + g[i - k] /\ h[j] = Len(s) + g[j - k]
      BY <1>8, <2>3, <3>1
    <3>3. g[i - k] < g[j - k] /\ g[i - k] \in 1..Len(t) /\ g[j - k] \in 1..Len(t)
      BY <1>4, <3>1, <3>2
    <3> QED BY <1>6, <3>2, <3>3
  <2> QED BY <1>9, <2>1, <2>2, <2>3
<1> DEFINE c == [i \in 1..(k + m) |-> st[h[i]]]
<1>14. c \in Line!Remnants(st)
  <2>1. k + m \in 0..Len(st)
    BY <1>5, <1>6
  <2> QED BY <1>12, <1>13, <2>1, RemnantIntro
<1>15. p \o q = c
  <2>1. p \in Seq(S) /\ Len(p) = k /\ \A i \in 1..k : p[i] = s[f[i]]
    <3>1. \A i \in 1..k : s[f[i]] \in S
      BY <1>7, ElementOfSeq
    <3> QED BY <1>2, <1>6, <3>1
  <2>2. q \in Seq(S) /\ Len(q) = m /\ \A i \in 1..m : q[i] = t[g[i]]
    <3>1. \A i \in 1..m : t[g[i]] \in S
      <4>1. \A i \in 1..m : g[i] \in 1..Len(t)
        OBVIOUS
      <4> QED BY <4>1, ElementOfSeq
    <3> QED BY <1>4, <1>6, <3>1
  <2> DEFINE pq == p \o q
  <2>3. /\ pq \in Seq(S) /\ Len(pq) = k + m
        /\ \A i \in 1..(k + m) : pq[i] = IF i <= k THEN p[i] ELSE q[i - k]
    <3>1. /\ pq \in Seq(S) /\ Len(pq) = Len(p) + Len(q)
          /\ \A i \in 1..(Len(p) + Len(q)) : pq[i] = IF i <= Len(p) THEN p[i] ELSE q[i - Len(p)]
      <4>1. p \in Seq(S) /\ q \in Seq(S)
        BY <2>1, <2>2
      <4> QED BY <4>1, ConcatProperties
    <3>2. Len(p) = k /\ Len(q) = m
      BY <2>1, <2>2
    <3> HIDE DEF pq
    <3> QED BY <3>1, <3>2
  <2> HIDE DEF pq
  <2>4. \A i \in 1..(k + m) : c[i] = st[h[i]]
    OBVIOUS
  <2>5. c = [i \in 1..(k + m) |-> c[i]]
    OBVIOUS
  <2> HIDE DEF c
  <2>6. ASSUME NEW i \in 1..(k + m) PROVE pq[i] = c[i]
    <3>1. CASE i \in 1..k
      <4>1. pq[i] = p[i] /\ c[i] = st[f[i]] /\ f[i] \in 1..Len(s)
        <5>1. i <= k
          BY <3>1
        <5> QED BY <1>7, <2>3, <2>4, <3>1, <5>1
      <4> QED BY <1>5, <2>1, <3>1, <4>1
    <3>2. CASE i \in (k + 1)..(k + m)
      <4>1. /\ pq[i] = q[i - k] /\ i - k \in 1..m
            /\ c[i] = st[Len(s) + g[i - k]] /\ g[i - k] \in 1..Len(t)
        <5>1. ~(i <= k)
          BY <1>6, <3>2
        <5> QED BY <1>8, <2>3, <2>4, <3>2, <5>1
      <4> QED BY <1>5, <2>2, <4>1
    <3> QED BY <1>9, <3>1, <3>2
  <2>7. pq = [i \in 1..(k + m) |-> pq[i]]
    BY <2>3, LenProperties
  <2>8. pq = c
    BY <2>5, <2>6, <2>7
  <2> QED BY <2>8 DEF pq
<1> QED BY <1>14, <1>15 DEF st

LEMMA TailsAreRemnants ==
  ASSUME NEW S, NEW s \in Seq(S), NEW t \in Seq(S), NEW q \in Line!Remnants(t)
  PROVE  q \in Line!Remnants(s \o t)
<1>1. <<>> \in Line!Remnants(s)
  BY NothingIsARemnant
<1>2. <<>> \o q \in Line!Remnants(s \o t)
  BY <1>1, RemnantsConcat
<1>0. Picked(q, t)
  BY RemnantElim
<1>3. PICK k \in 0..Len(t) : \E f \in [1..k -> 1..Len(t)] :
             /\ \A i, j \in 1..k : i < j => f[i] < f[j]
             /\ q = [i \in 1..k |-> t[f[i]]]
  BY <1>0 DEF Picked
<1>4. PICK f \in [1..k -> 1..Len(t)] : q = [i \in 1..k |-> t[f[i]]]
  BY <1>3
<1>5. \A i \in 1..k : t[f[i]] \in S
  <2>1. \A i \in 1..k : f[i] \in 1..Len(t)
    OBVIOUS
  <2> QED BY <2>1, ElementOfSeq
<1>6. q \in Seq(S)
  BY <1>4, <1>5
<1>7. <<>> \o q = q
  BY <1>6, ConcatEmptySeq
<1> QED BY <1>2, <1>7

\* Of the frames u at the head of the line, t arrives; of v, some stay.
LEMMA MoveIntro ==
  ASSUME NEW u \in Seq(Bodies), NEW v \in Seq(Bodies), Pending = u \o v,
         NEW t \in Line!Remnants(u), got' = got \o t, Pending' \in Line!Remnants(v)
  PROVE  Line!Next
<1>1. Len(u) \in Nat /\ Len(v) \in Nat /\ Len(u \o v) = Len(u) + Len(v)
  BY LenProperties, ConcatProperties
<1>2. Len(u) \in 0..Len(Pending)
  BY <1>1
<1>3. SubSeq(u \o v, 1, Len(u)) = u
  <2>1. CASE u = <<>>
    <3>1. Len(u) = 0
      BY <2>1, EmptySeq
    <3>2. u \o v \in Seq(Bodies)
      BY ConcatProperties
    <3> QED BY <2>1, <3>1, <3>2, SubSeqEmpty
  <2>2. CASE u # <<>>
    <3>1. Len(u) \in 1..Len(u) /\ 1 \in 1..Len(u)
      BY <1>1, <2>2, EmptySeq
    <3>2. SubSeq(u \o v, 1, Len(u)) = SubSeq(u, 1, Len(u))
      BY <3>1, SubSeqOfConcat1
    <3> QED BY <3>2, SubSeqFull
  <2> QED BY <2>1, <2>2
<1>4. SubSeq(u \o v, Len(u) + 1, Len(u \o v)) = v
  <2>1. CASE v = <<>>
    <3>1. Len(v) = 0 /\ Len(u) + 1 > Len(u \o v)
      BY <1>1, <2>1, EmptySeq
    <3>2. u \o v \in Seq(Bodies)
      BY ConcatProperties
    <3> QED BY <1>1, <2>1, <3>1, <3>2, SubSeqEmpty
  <2>2. CASE v # <<>>
    <3>1. /\ Len(u) + 1 \in (Len(u) + 1)..(Len(u) + Len(v))
          /\ Len(u) + Len(v) \in (Len(u) + 1)..(Len(u) + Len(v))
          /\ Len(u) + 1 - Len(u) = 1 /\ Len(u) + Len(v) - Len(u) = Len(v)
      BY <1>1, <2>2, EmptySeq
    <3>2. SubSeq(u \o v, Len(u) + 1, Len(u) + Len(v))
          = SubSeq(v, Len(u) + 1 - Len(u), Len(u) + Len(v) - Len(u))
      BY <3>1, SubSeqOfConcat2
    <3> QED BY <1>1, <3>1, <3>2, SubSeqFull
  <2> QED BY <2>1, <2>2
<1>5. Line!Move(Len(u))
  BY <1>3, <1>4 DEF Line!Move
<1> QED BY <1>2, <1>5 DEF Line!Next

\* Whatever is lost on the line, the frames that stay on their way do.
LEMMA LossIsMove ==
  ASSUME NEW v \in Seq(Bodies), Pending = v, got' = got, got \in Seq(Bodies),
         Pending' \in Line!Remnants(v)
  PROVE  Line!Next
<1>1. <<>> \in Seq(Bodies) /\ Pending = <<>> \o v /\ got' = got \o <<>>
  BY EmptySeq, ConcatEmptySeq
<1>2. <<>> \in Line!Remnants(<<>>)
  BY <1>1, NothingIsARemnant
<1> QED BY <1>1, <1>2, MoveIntro
---------------------------------------------------------------------------
\* What Frames.feed looks at, frame after frame.
LEMMA RestsExist ==
  ASSUME NEW b \in Seq(Tokens)
  PROVE  \E f : f = [n \in 0..Len(b) |->
                       IF n = 0 THEN Resync(b)
                       ELSE Resync(After(f[n - 1], FrameLen(f[n - 1])))]
<1> DEFINE Is(f, m) == f = [n \in 0..m |-> IF n = 0 THEN Resync(b)
                                           ELSE Resync(After(f[n - 1], FrameLen(f[n - 1])))]
           S == {m \in Nat : \E f : Is(f, m)}
<1>1. 0 \in S
  <2>1. Is([n \in 0..0 |-> Resync(b)], 0)
    OBVIOUS
  <2> QED BY <2>1
<1>2. ASSUME NEW m \in Nat, m \in S PROVE m + 1 \in S
  <2>1. PICK f : Is(f, m)
    BY <1>2
  <2> DEFINE g == [n \in 0..(m + 1) |-> IF n = 0 THEN Resync(b)
                                        ELSE Resync(After(f[n - 1], FrameLen(f[n - 1])))]
             h == [n \in 0..(m + 1) |-> IF n = 0 THEN Resync(b)
                                        ELSE Resync(After(g[n - 1], FrameLen(g[n - 1])))]
             e == [n \in 0..m |-> IF n = 0 THEN Resync(b)
                                  ELSE Resync(After(f[n - 1], FrameLen(f[n - 1])))]
  <2>2. \A n \in 0..m : g[n] = f[n]
    <3>1. \A n \in 0..m : g[n] = e[n]
      OBVIOUS
    <3>2. f = e
      BY <2>1
    <3> HIDE DEF g, e
    <3> QED BY <3>1, <3>2
  <2>3. \A n \in 0..(m + 1) : n # 0 => n - 1 \in 0..m
    OBVIOUS
  <2>4. \A n \in 0..(m + 1) : g[n] = IF n = 0 THEN Resync(b)
                                     ELSE Resync(After(f[n - 1], FrameLen(f[n - 1])))
    OBVIOUS
  <2>5. g = [n \in 0..(m + 1) |-> g[n]]
    OBVIOUS
  <2> HIDE DEF g
  <2>6. \A n \in 0..(m + 1) : g[n] = h[n]
    BY <2>2, <2>3, <2>4
  <2>7. h = [n \in 0..(m + 1) |-> h[n]]
    OBVIOUS
  <2> HIDE DEF h
  <2>8. g = h
    BY <2>5, <2>6, <2>7
  <2>9. Is(g, m + 1)
    BY <2>8 DEF h
  <2> HIDE DEF Is
  <2> QED BY <2>9
<1> HIDE DEF S
<1>3. Nat \subseteq S
  BY <1>1, <1>2, SetInduction
<1>4. Len(b) \in S
  BY <1>3, LenProperties
<1> QED BY <1>4 DEF S

LEMMA RestsSteps ==
  ASSUME NEW b \in Seq(Tokens)
  PROVE  /\ Rests(b)[0] = Resync(b)
         /\ \A n \in 1..Len(b) :
              Rests(b)[n] = Resync(After(Rests(b)[n - 1], FrameLen(Rests(b)[n - 1])))
<1> DEFINE f == Rests(b)
<1>1. f = [n \in 0..Len(b) |-> IF n = 0 THEN Resync(b)
                               ELSE Resync(After(f[n - 1], FrameLen(f[n - 1])))]
  BY RestsExist DEF Rests
<1> HIDE DEF f
<1>2. Len(b) \in Nat
  BY LenProperties
<1>3. f[0] = Resync(b)
  BY <1>1, <1>2
<1>4. ASSUME NEW n \in 1..Len(b)
      PROVE  f[n] = Resync(After(f[n - 1], FrameLen(f[n - 1])))
  <2>1. n \in 0..Len(b) /\ n # 0
    BY <1>2
  <2> QED BY <1>1, <2>1
<1> QED BY <1>3, <1>4 DEF f
---------------------------------------------------------------------------
LEMMA CatIsASeq ==
  ASSUME NEW S, NEW s \in Seq(S), NEW t \in Seq(S)
  PROVE  Cat(s, t) \in Seq(S)
BY ConcatProperties DEF Cat

LEMMA Regroup ==
  ASSUME NEW S, NEW s \in Seq(S), NEW t \in Seq(S), NEW u \in Seq(S), NEW v \in Seq(S)
  PROVE  Cat(s, Cat(t, Cat(u, v))) = Cat(Cat(Cat(s, t), u), v)
<1>1. Cat(u, v) \in Seq(S) /\ Cat(s, t) \in Seq(S)
  BY CatIsASeq
<1>2. Cat(s, Cat(t, Cat(u, v))) = Cat(Cat(s, t), Cat(u, v))
  BY <1>1, CatAssociative
<1>3. Cat(Cat(s, t), Cat(u, v)) = Cat(Cat(Cat(s, t), u), v)
  BY <1>1, CatAssociative
<1> QED BY <1>2, <1>3

\* Resync loses the CRCs of the tokens it drops.
LEMMA ResyncCrcs ==
  ASSUME NEW b \in Seq(Tokens)
  PROVE  \E w \in Seq(Bodies) : CrcsOf(b) = w \o CrcsOf(Resync(b))
<1>1. PICK k \in 0..Len(b) : Resync(b) = After(b, k)
  BY ResyncResult
<1>2. /\ SubSeq(b, 1, k) \in Seq(Tokens) /\ After(b, k) \in Seq(Tokens)
      /\ b = SubSeq(b, 1, k) \o After(b, k)
  BY AfterIsRest
<1>3. CrcsOf(SubSeq(b, 1, k) \o After(b, k)) = CrcsOf(SubSeq(b, 1, k)) \o CrcsOf(After(b, k))
  BY <1>2, CrcsOfConcat
<1>4. CrcsOf(SubSeq(b, 1, k)) \in Seq(Bodies)
  BY <1>2, CrcsAreBodies
<1> QED BY <1>1, <1>2, <1>3, <1>4

\* A whole frame ends with its CRC.
LEMMA WholeSplits ==
  ASSUME NEW r \in Seq(Tokens), IsWhole(r)
  PROVE  \E v \in Seq(Bodies) :
           CrcsOf(r) = (v \o <<Body(r)>>) \o CrcsOf(After(r, FrameLen(r)))
<1> DEFINE F == FrameLen(r)
           front == SubSeq(r, 1, F - 1)
<1>1. Body(r) \in Bodies /\ F \in 1..Len(r) /\ r[F] = Crc(Body(r)) /\ Len(r) \in Nat
  BY WholeWasSent, LenProperties
<1> HIDE DEF F
<1>2. /\ F \in 0..Len(r) /\ F - 1 \in 0..Len(r) /\ 1 \in 1..Len(r)
  BY <1>1
<1>3. /\ front \in Seq(Tokens)
      /\ SubSeq(r, 1, F) \in Seq(Tokens) /\ After(r, F) \in Seq(Tokens)
      /\ r = SubSeq(r, 1, F) \o After(r, F)
  BY <1>2, AfterIsRest
<1>4. SubSeq(r, 1, F) = front \o <<r[F]>>
  BY <1>1, <1>2, SubSeqRecursiveSecond
<1>5. Crc(Body(r)) \in Tokens /\ Len(Crc(Body(r))) = 2 /\ Crc(Body(r))[2] = Body(r)
  BY <1>1 DEF Tokens, Crc
<1> HIDE DEF front
<1>6. SubSeq(r, 1, F) = Append(front, Crc(Body(r)))
  BY <1>1, <1>3, <1>4, <1>5, AppendIsConcat
<1>7. CrcsOf(SubSeq(r, 1, F)) = Append(CrcsOf(front), Body(r))
  BY <1>3, <1>5, <1>6, CrcsOfAppend
<1>8. CrcsOf(front) \in Seq(Bodies)
  BY <1>3, CrcsAreBodies
<1>9. CrcsOf(SubSeq(r, 1, F)) = CrcsOf(front) \o <<Body(r)>>
  BY <1>1, <1>7, <1>8, AppendIsConcat
<1>10. CrcsOf(SubSeq(r, 1, F) \o After(r, F)) = CrcsOf(SubSeq(r, 1, F)) \o CrcsOf(After(r, F))
  BY <1>3, CrcsOfConcat
<1> QED BY <1>3, <1>8, <1>9, <1>10 DEF F

\* A whole frame is longer than nothing.
LEMMA BehindWhole ==
  ASSUME NEW r \in Seq(Tokens), IsWhole(r)
  PROVE  /\ After(r, FrameLen(r)) \in Seq(Tokens)
         /\ Len(After(r, FrameLen(r))) < Len(r)
<1>1. FrameLen(r) \in 1..Len(r) /\ Len(r) \in Nat
  BY WholeWasSent, LenProperties
<1>2. FrameLen(r) \in 0..Len(r)
  BY <1>1
<1>3. After(r, FrameLen(r)) \in Seq(Tokens) /\ Len(After(r, FrameLen(r))) = Len(r) - FrameLen(r)
  BY <1>2, AfterIsRest
<1> QED BY <1>1, <1>3

\* While it finds frames, the loop looks at shorter and shorter rests, and
\* the frames it has found stood in what it has passed.
Passed(b, n) ==
  /\ Rests(b)[n] \in Seq(Tokens)
  /\ ~Rejected(Rests(b)[n])
  /\ Len(Rests(b)[n]) + n <= Len(b)
  /\ \A i \in 1..n : Body(Rests(b)[i - 1]) \in Bodies
  /\ \E u \in Seq(Bodies) :
       /\ CrcsOf(b) = u \o CrcsOf(Rests(b)[n])
       /\ [i \in 1..n |-> Body(Rests(b)[i - 1])] \in Line!Remnants(u)

LEMMA PassedAtFirst ==
  ASSUME NEW b \in Seq(Tokens)
  PROVE  Passed(b, 0)
<1>1. Rests(b)[0] = Resync(b)
  BY RestsSteps
<1>2. /\ Resync(b) \in Seq(Tokens) /\ ~Rejected(Resync(b))
      /\ Len(Resync(b)) <= Len(b)
  BY ResyncResult
<1>3. PICK u \in Seq(Bodies) : CrcsOf(b) = u \o CrcsOf(Resync(b))
  BY ResyncCrcs
<1>4. <<>> \in Line!Remnants(u)
  BY NothingIsARemnant
<1>5. [i \in 1..0 |-> Body(Rests(b)[i - 1])] = <<>>
  OBVIOUS
<1>6. Len(Resync(b)) + 0 <= Len(b)
  BY <1>2, LenProperties
<1>7. \A i \in 1..0 : Body(Rests(b)[i - 1]) \in Bodies
  OBVIOUS
<1> QED BY <1>1, <1>2, <1>3, <1>4, <1>5, <1>6, <1>7 DEF Passed

LEMMA PassedNext ==
  ASSUME NEW b \in Seq(Tokens), NEW n \in Nat, n + 1 <= Len(b), Passed(b, n),
         IsWhole(Rests(b)[n])
  PROVE  Passed(b, n + 1)
<1> DEFINE r == Rests(b)[n]
           a == After(r, FrameLen(r))
           bodies(k) == [i \in 1..k |-> Body(Rests(b)[i - 1])]
<1>2. IsWhole(r)
  OBVIOUS
<1>3. /\ r \in Seq(Tokens) /\ Len(r) + n <= Len(b)
      /\ \A i \in 1..n : Body(Rests(b)[i - 1]) \in Bodies
      /\ \E u \in Seq(Bodies) : CrcsOf(b) = u \o CrcsOf(r) /\ bodies(n) \in Line!Remnants(u)
  BY DEF Passed
<1>4. Rests(b)[n + 1] = Resync(a)
  <2>1. n + 1 \in 1..Len(b) /\ n + 1 - 1 = n
    BY LenProperties
  <2> QED BY <2>1, RestsSteps
<1> HIDE DEF r
<1>5. a \in Seq(Tokens) /\ Len(a) < Len(r)
  BY <1>2, <1>3, BehindWhole
<1>6. Body(r) \in Bodies
  BY <1>2, <1>3, WholeWasSent
<1> HIDE DEF a
<1>7. /\ Resync(a) \in Seq(Tokens) /\ ~Rejected(Resync(a))
      /\ Len(Resync(a)) <= Len(a)
  BY <1>5, ResyncResult
<1>8. Len(Resync(a)) + (n + 1) <= Len(b)
  <2>1. Len(Resync(a)) \in Nat /\ Len(a) \in Nat /\ Len(r) \in Nat /\ Len(b) \in Nat
    BY <1>3, <1>5, <1>7, LenProperties
  <2> QED BY <1>3, <1>5, <1>7, <2>1
<1>9. PICK u \in Seq(Bodies) : CrcsOf(b) = u \o CrcsOf(r) /\ bodies(n) \in Line!Remnants(u)
  BY <1>3
<1>10. PICK v \in Seq(Bodies) : CrcsOf(r) = (v \o <<Body(r)>>) \o CrcsOf(a)
  BY <1>2, <1>3, WholeSplits DEF a
<1>11. PICK w \in Seq(Bodies) : CrcsOf(a) = w \o CrcsOf(Resync(a))
  BY <1>5, ResyncCrcs
<1>12. \A i \in 1..(n + 1) : Body(Rests(b)[i - 1]) \in Bodies
  <2>1. \A i \in 1..(n + 1) : i \in 1..n \/ i = n + 1
    OBVIOUS
  <2>2. n + 1 - 1 = n
    OBVIOUS
  <2> QED BY <1>3, <1>6, <2>1, <2>2 DEF r
<1>13. bodies(n) \in Seq(Bodies) /\ Len(bodies(n)) = n
  BY <1>3
<1>14. bodies(n + 1) = bodies(n) \o <<Body(r)>>
  <2> DEFINE p == bodies(n)
             q == bodies(n + 1)
             c == p \o <<Body(r)>>
  <2>1. \A i \in 1..n : p[i] = Body(Rests(b)[i - 1])
    OBVIOUS
  <2>2. \A i \in 1..(n + 1) : q[i] = Body(Rests(b)[i - 1])
    OBVIOUS
  <2>3. q = [i \in 1..(n + 1) |-> q[i]]
    OBVIOUS
  <2>4. p \in Seq(Bodies) /\ Len(p) = n
    BY <1>13
  <2> HIDE DEF p, q
  <2>5. /\ c \in Seq(Bodies) /\ Len(c) = n + 1
        /\ \A i \in 1..n : c[i] = p[i]
        /\ c[n + 1] = Body(r)
    <3>1. c = Append(p, Body(r))
      BY <1>6, <2>4, AppendIsConcat
    <3> HIDE DEF c
    <3> QED BY <1>6, <2>4, <3>1, AppendProperties
  <2> HIDE DEF c
  <2>6. \A i \in 1..(n + 1) : i \in 1..n \/ i = n + 1
    OBVIOUS
  <2>7. n + 1 - 1 = n /\ n + 1 \in 1..(n + 1) /\ \A i \in 1..n : i \in 1..(n + 1)
    OBVIOUS
  <2>8. \A i \in 1..(n + 1) : c[i] = q[i]
    <3> SUFFICES ASSUME NEW i \in 1..(n + 1) PROVE c[i] = q[i]
      OBVIOUS
    <3>1. CASE i \in 1..n
      BY <2>1, <2>2, <2>5, <3>1
    <3>2. CASE i = n + 1
      <4>1. q[n + 1] = Body(Rests(b)[n + 1 - 1])
        BY <2>2, <2>7
      <4> QED BY <2>5, <2>7, <3>2, <4>1 DEF r
    <3> QED BY <2>6, <3>1, <3>2
  <2>9. c = [i \in 1..(n + 1) |-> c[i]]
    BY <2>5, LenProperties
  <2>10. c = q
    BY <2>3, <2>8, <2>9
  <2> QED BY <2>10 DEF p, q, c
<1> HIDE DEF bodies
<1> DEFINE vb == v \o <<Body(r)>>
           x == (u \o vb) \o w
<1>15. <<Body(r)>> \in Seq(Bodies) /\ CrcsOf(Resync(a)) \in Seq(Bodies)
  BY <1>6, <1>7, CrcsAreBodies
<1>16. vb \in Seq(Bodies) /\ u \o vb \in Seq(Bodies) /\ x \in Seq(Bodies)
  BY <1>15, ConcatProperties
<1>17. CrcsOf(b) = x \o CrcsOf(Resync(a))
  <2> HIDE DEF vb
  <2>1. CrcsOf(b) = u \o (vb \o (w \o CrcsOf(Resync(a))))
    BY <1>9, <1>10, <1>11 DEF vb
  <2> DEFINE y == CrcsOf(Resync(a))
  <2>2. y \in Seq(Bodies) /\ vb \in Seq(Bodies)
    BY <1>15, <1>16
  <2> HIDE DEF y
  <2>3. CrcsOf(b) = Cat(u, Cat(vb, Cat(w, y)))
    BY <2>1, Zenon DEF Cat, y
  <2>4. Cat(u, Cat(vb, Cat(w, y))) = Cat(Cat(Cat(u, vb), w), y)
    BY <2>2, Regroup
  <2>5. CrcsOf(b) = Cat(Cat(Cat(u, vb), w), y)
    BY <2>3, <2>4, Zenon
  <2> QED BY <2>5, Zenon DEF Cat, y
<1>18. bodies(n) \o <<Body(r)>> \in Line!Remnants(x)
  <2>1. <<Body(r)>> \in Line!Remnants(vb)
    BY <1>15, AllIsARemnant, TailsAreRemnants
  <2> HIDE DEF vb
  <2>2. bodies(n) \o <<Body(r)>> \in Line!Remnants(u \o vb)
    BY <1>9, <1>16, <2>1, RemnantsConcat
  <2>3. <<>> \in Line!Remnants(w)
    BY NothingIsARemnant
  <2>4. (bodies(n) \o <<Body(r)>>) \o <<>> \in Line!Remnants(x)
    BY <1>16, <2>2, <2>3, RemnantsConcat
  <2>5. bodies(n) \o <<Body(r)>> \in Seq(Bodies)
    BY <1>13, <1>15, ConcatProperties
  <2>6. (bodies(n) \o <<Body(r)>>) \o <<>> = bodies(n) \o <<Body(r)>>
    BY <2>5, ConcatEmptySeq
  <2> QED BY <2>4, <2>6
<1> HIDE DEF x
<1>19. bodies(n + 1) \in Line!Remnants(x)
  BY <1>14, <1>18
<1> QED BY <1>4, <1>7, <1>8, <1>12, <1>16, <1>17, <1>19 DEF Passed, bodies
---------------------------------------------------------------------------
LEMMA FoundIs ==
  ASSUME NEW b \in Seq(Tokens)
  PROVE  /\ Found(b) \in 0..Len(b)
         /\ ~IsWhole(Rests(b)[Found(b)])
         /\ \A i \in 0..(Found(b) - 1) : IsWhole(Rests(b)[i])
         /\ Passed(b, Found(b))
<1> DEFINE AllWhole(n) == \A i \in 0..(n - 1) : IsWhole(Rests(b)[i])
           S == {n \in Nat : n <= Len(b) /\ AllWhole(n) => Passed(b, n)}
           T == {n \in 0..Len(b) : ~IsWhole(Rests(b)[n])}
<1>1. Len(b) \in Nat
  BY LenProperties
<1>2. 0 \in S
  BY PassedAtFirst
<1>3. ASSUME NEW n \in Nat, n \in S PROVE n + 1 \in S
  <2>1. SUFFICES ASSUME n + 1 <= Len(b), AllWhole(n + 1) PROVE Passed(b, n + 1)
    OBVIOUS
  <2>2. n <= Len(b)
    BY <1>1, <2>1
  <2>3. AllWhole(n) /\ IsWhole(Rests(b)[n])
    <3>1. \A i \in 0..(n - 1) : i \in 0..(n + 1 - 1)
      OBVIOUS
    <3>2. n \in 0..(n + 1 - 1)
      OBVIOUS
    <3> QED BY <2>1, <3>1, <3>2
  <2>4. Passed(b, n)
    BY <1>3, <2>2, <2>3
  <2> QED BY <2>1, <2>3, <2>4, PassedNext
<1>4. Nat \subseteq S
  <2> HIDE DEF S
  <2> QED BY <1>2, <1>3, SetInduction
<1>5. T # {}
  <2>1. SUFFICES ASSUME T = {} PROVE FALSE
    OBVIOUS
  <2>2. \A n \in 0..Len(b) : IsWhole(Rests(b)[n])
    BY <2>1
  <2>3. AllWhole(Len(b))
    BY <1>1, <2>2
  <2>4. Passed(b, Len(b))
    BY <1>1, <1>4, <2>3
  <2>5. Rests(b)[Len(b)] \in Seq(Tokens) /\ Len(Rests(b)[Len(b)]) + Len(b) <= Len(b)
    BY <2>4 DEF Passed
  <2>6. Len(Rests(b)[Len(b)]) = 0
    BY <1>1, <2>5, LenProperties
  <2>7. ~HasHeader(Rests(b)[Len(b)])
    BY <2>6, FramingAssumption, LenProperties DEF HasHeader
  <2>8. Len(b) \in 0..Len(b)
    BY <1>1
  <2> QED BY <2>2, <2>7, <2>8 DEF IsWhole
<1>6. PICK x \in T : \A y \in T : x <= y
  <2>1. T \in SUBSET Nat
    BY <1>1
  <2> HIDE DEF T
  <2> QED BY <1>5, <2>1, LeastElement
<1>7. /\ x \in 0..Len(b) /\ ~IsWhole(Rests(b)[x])
      /\ \A i \in 0..(x - 1) : IsWhole(Rests(b)[i])
  <2>1. x \in 0..Len(b) /\ ~IsWhole(Rests(b)[x])
    OBVIOUS
  <2>2. ASSUME NEW i \in 0..(x - 1) PROVE IsWhole(Rests(b)[i])
    <3>1. i \in 0..Len(b) /\ ~(x <= i)
      BY <1>1, <2>1
    <3> QED BY <1>6, <3>1
  <2> QED BY <2>1, <2>2
<1>8. /\ Found(b) \in 0..Len(b)
      /\ ~IsWhole(Rests(b)[Found(b)]) /\ \A i \in 0..(Found(b) - 1) : IsWhole(Rests(b)[i])
  <2>1. \E n \in 0..Len(b) : ~IsWhole(Rests(b)[n]) /\ \A i \in 0..(n - 1) : IsWhole(Rests(b)[i])
    BY <1>7
  <2> HIDE DEF S, T
  <2> QED BY <2>1, Zenon DEF Found
<1>9. Found(b) \in Nat /\ Found(b) <= Len(b)
  BY <1>1, <1>8
<1>10. Passed(b, Found(b))
  BY <1>4, <1>8, <1>9
<1> QED BY <1>8, <1>10

LEMMA FoundBodies ==
  ASSUME NEW b \in Seq(Tokens)
  PROVE  [i \in 1..Found(b) |-> Body(Rests(b)[i - 1])] \in Seq(Bodies)
<1>1. Found(b) \in Nat /\ \A i \in 1..Found(b) : Body(Rests(b)[i - 1]) \in Bodies
  BY FoundIs DEF Passed
<1> QED BY <1>1
---------------------------------------------------------------------------
\* What either parser makes of the bytes b: it keeps some of them and passes
\* on frames t that stood, whole and in order, in those it has passed.
Parsed(b) ==
  /\ buf' \in Seq(Tokens)
  /\ \E u, v, t \in Seq(Bodies) :
       /\ CrcsOf(b) = u \o v
       /\ t \in Line!Remnants(u)
       /\ got' = got \o t
       /\ CrcsOf(Open') \in Line!Remnants(v)

LEMMA DeviceParses ==
  ASSUME NEW b \in Seq(Tokens), DeviceFeed(b), got \in Seq(Bodies)
  PROVE  Parsed(b)
<1>1. /\ buf' = Resync(b) /\ delivered' = IsWhole(buf')
      /\ got' = IF IsWhole(buf') THEN Append(got, Body(buf')) ELSE got
  BY DEF DeviceFeed
<1>2. buf' \in Seq(Tokens)
  BY <1>1, ResyncResult
<1>3. PICK w \in Seq(Bodies) : CrcsOf(b) = w \o CrcsOf(buf')
  BY <1>1, ResyncCrcs
<1>4. CrcsOf(buf') \in Seq(Bodies) /\ <<>> \in Seq(Bodies)
  BY <1>2, CrcsAreBodies, EmptySeq
<1>5. CASE IsWhole(buf')
  <2> DEFINE x == Body(buf')
             a == CrcsOf(After(buf', FrameLen(buf')))
             u == CrcsOf(b)
  <2>1. x \in Bodies /\ <<x>> \in Seq(Bodies)
    BY <1>2, <1>5, WholeWasSent
  <2>2. a \in Seq(Bodies)
    BY <1>2, <1>5, BehindWhole, CrcsAreBodies
  <2>3. PICK v \in Seq(Bodies) : CrcsOf(buf') = (v \o <<x>>) \o a
    BY <1>2, <1>5, WholeSplits
  <2>4. got' = got \o <<x>> /\ Open' = <<>>
    BY <1>1, <1>5, <2>1, AppendIsConcat DEF Open
  <2> HIDE DEF x, a
  <2>5. <<x>> \in Line!Remnants(v \o <<x>>)
    BY <2>1, AllIsARemnant, TailsAreRemnants
  <2>6. v \o <<x>> \in Seq(Bodies)
    BY <2>1, ConcatProperties
  <2>7. <<x>> \o <<>> \in Line!Remnants((v \o <<x>>) \o a)
    BY <2>2, <2>5, <2>6, NothingIsARemnant, RemnantsConcat
  <2>8. <<x>> \in Line!Remnants(CrcsOf(buf'))
    BY <2>1, <2>3, <2>7, ConcatEmptySeq
  <2>9. <<x>> \in Line!Remnants(u)
    BY <1>3, <1>4, <2>8, TailsAreRemnants
  <2>10. u \in Seq(Bodies)
    BY CrcsAreBodies
  <2> HIDE DEF u
  <2>11. u = u \o <<>> /\ CrcsOf(Open') \in Line!Remnants(<<>>)
    BY <1>4, <2>4, <2>10, CrcsOfNone, NothingIsARemnant, ConcatEmptySeq
  <2> QED BY <1>2, <1>4, <2>1, <2>4, <2>9, <2>10, <2>11 DEF Parsed, u
<1>6. CASE ~IsWhole(buf')
  <2>1. got' = got \o <<>> /\ Open' = buf'
    BY <1>1, <1>6, ConcatEmptySeq DEF Open
  <2>2. <<>> \in Line!Remnants(w) /\ CrcsOf(buf') \in Line!Remnants(CrcsOf(buf'))
    BY <1>4, NothingIsARemnant, AllIsARemnant
  <2> QED BY <1>2, <1>3, <1>4, <2>1, <2>2 DEF Parsed
<1> QED BY <1>5, <1>6

LEMMA HostParses ==
  ASSUME NEW b \in Seq(Tokens), HostFeed(b), got \in Seq(Bodies)
  PROVE  Parsed(b)
<1> DEFINE t == [i \in 1..Found(b) |-> Body(Rests(b)[i - 1])]
<1>1. buf' = Rests(b)[Found(b)] /\ got' = got \o t /\ delivered' = delivered
  BY DEF HostFeed
<1>2. t \in Seq(Bodies)
  BY FoundBodies
<1>3. /\ buf' \in Seq(Tokens)
      /\ \E u \in Seq(Bodies) : CrcsOf(b) = u \o CrcsOf(buf') /\ t \in Line!Remnants(u)
  BY <1>1, FoundIs DEF Passed
<1> HIDE DEF t
<1>4. PICK u \in Seq(Bodies) : CrcsOf(b) = u \o CrcsOf(buf') /\ t \in Line!Remnants(u)
  BY <1>3
<1>5. CrcsOf(buf') \in Seq(Bodies)
  BY <1>3, CrcsAreBodies
<1>6. CrcsOf(Open') \in Line!Remnants(CrcsOf(buf'))
  <2>1. CASE delivered'
    <3>1. Open' = <<>>
      BY <2>1 DEF Open
    <3> QED BY <1>5, <3>1, CrcsOfNone, NothingIsARemnant
  <2>2. CASE ~delivered'
    <3>1. Open' = buf'
      BY <2>2 DEF Open
    <3> QED BY <1>5, <3>1, AllIsARemnant
  <2> QED BY <2>1, <2>2
<1> QED BY <1>1, <1>2, <1>3, <1>4, <1>5, <1>6 DEF Parsed
---------------------------------------------------------------------------
LEMMA BodiesAreTokens ==
  ASSUME NEW body \in Bodies
  PROVE  body \in Seq(Tokens) /\ CrcsOf(body) = <<>>
<1>1. PICK t \in Types, p \in Payloads : body = AsTokens(<<t, Len(p)>> \o p)
  BY DEF Bodies
<1>2. <<t, Len(p)>> \o p \in Seq(Bytes)
  BY FramingAssumption, ConcatProperties
<1> QED BY <1>1, <1>2, BytesHoldNoCrc

LEMMA EncodingIsTokens ==
  ASSUME NEW body \in Bodies
  PROVE  Encode(body) \in Seq(Tokens) /\ CrcsOf(Encode(body)) = <<body>>
<1>3. /\ AsTokens(Magic) \in Seq(Tokens) /\ CrcsOf(AsTokens(Magic)) = <<>>
      /\ body \in Seq(Tokens) /\ CrcsOf(body) = <<>>
  BY BodiesAreTokens, BytesHoldNoCrc, FramingAssumption
<1>4. /\ Crc(body) \in Tokens /\ Len(Crc(body)) = 2 /\ Crc(body)[2] = body
  BY DEF Tokens, Crc
<1> DEFINE front == AsTokens(Magic) \o body
<1>5. front \in Seq(Tokens) /\ CrcsOf(front) = <<>>
  <2>1. front \in Seq(Tokens)
    BY <1>3, ConcatProperties
  <2>2. CrcsOf(front) = <<>> \o <<>>
    BY <1>3, CrcsOfConcat
  <2> QED BY <2>1, <2>2
<1>6. Encode(body) = front \o <<Crc(body)>>
  BY DEF Encode
<1> HIDE DEF front
<1>7. Encode(body) = Append(front, Crc(body))
  BY <1>4, <1>5, <1>6, AppendIsConcat
<1>8. Encode(body) \in Seq(Tokens)
  BY <1>4, <1>5, <1>7, AppendProperties
<1>9. CrcsOf(Encode(body)) = Append(<<>>, body)
  BY <1>4, <1>5, <1>7, CrcsOfAppend
<1> QED BY <1>8, <1>9

\* The types, with the bound of the board's buffer, are inductive.
TypeInv == FramingTypeOK /\ BufferBounded

LEMMA InitTypeInv == Init => TypeInv
<1>1. MaxFrame \in Nat /\ MaxFrame >= 1
  BY FramingAssumption, LenProperties DEF MaxFrame, Envelope
<1>2. <<>> \in Seq(Tokens) /\ <<>> \in Seq(Bodies) /\ Len(<<>>) = 0
  BY EmptySeq
<1>3. 0 \in 0..MaxSends /\ 0 \in 0..MaxFaults
  BY FramingAssumption
<1> SUFFICES ASSUME Init PROVE TypeInv
  OBVIOUS
<1>4. /\ side \in {"device", "host"} /\ wire = <<>> /\ buf = <<>>
      /\ late = FALSE /\ delivered = FALSE /\ got = <<>>
      /\ sends = 0 /\ faults = 0 /\ due = None
  BY DEF Init
<1>5. FramingTypeOK
  BY <1>2, <1>3, <1>4 DEF FramingTypeOK
<1>6. BufferBounded
  BY <1>1, <1>2, <1>4 DEF BufferBounded
<1> QED BY <1>5, <1>6 DEF TypeInv

LEMMA KeptIsTokens ==
  ASSUME FramingTypeOK
  PROVE  Kept \in Seq(Tokens) /\ Open \in Seq(Tokens)
<1>1. <<>> \in Seq(Tokens)
  BY EmptySeq
<1> QED BY <1>1 DEF FramingTypeOK, Kept, Open

LEMMA ReceiveParses ==
  ASSUME FramingTypeOK, Receive
  PROVE  /\ wire # <<>> /\ wire' = Tail(wire) /\ wire' \in Seq(Tokens)
         /\ Append(Kept, Head(wire)) \in Seq(Tokens)
         /\ Parsed(Append(Kept, Head(wire)))
<1> DEFINE b == Append(Kept, Head(wire))
<1>1. wire # <<>> /\ wire' = Tail(wire) /\ wire \in Seq(Tokens)
  BY DEF Receive, FramingTypeOK
<1>2. wire' \in Seq(Tokens) /\ Head(wire) \in Tokens
  BY <1>1, HeadTailProperties
<1>3. b \in Seq(Tokens)
  BY <1>2, KeptIsTokens, AppendProperties
<1>4. IF side = "device" THEN DeviceFeed(b) ELSE HostFeed(b)
  BY Zenon DEF Receive
<1>5. got \in Seq(Bodies)
  BY DEF FramingTypeOK
<1> HIDE DEF b
<1>6. Parsed(b)
  BY <1>3, <1>4, <1>5, DeviceParses, HostParses
<1> QED BY <1>1, <1>2, <1>3, <1>6 DEF b

LEMMA ReceiveTypes ==
  ASSUME FramingTypeOK, Receive
  PROVE  FramingTypeOK'
<1> DEFINE b == Append(Kept, Head(wire))
<1>1. wire' \in Seq(Tokens) /\ Parsed(b) /\ got \in Seq(Bodies)
  BY ReceiveParses DEF FramingTypeOK
<1> HIDE DEF b
<1>2. buf' \in Seq(Tokens)
  BY <1>1 DEF Parsed
<1>3. got' \in Seq(Bodies)
  <2>1. PICK t \in Seq(Bodies) : got' = got \o t
    BY <1>1 DEF Parsed
  <2> QED BY <1>1, <2>1, ConcatProperties
<1>4. delivered' \in BOOLEAN
  <2>1. CASE side = "device"
    <3>1. delivered' = IsWhole(buf')
      BY <2>1 DEF Receive, DeviceFeed
    <3>2. IsWhole(buf') \in BOOLEAN
      BY Zenon DEF IsWhole
    <3> QED BY <3>1, <3>2, Zenon
  <2>2. CASE side # "device"
    BY <2>2 DEF Receive, HostFeed, FramingTypeOK
  <2> QED BY <2>1, <2>2
<1>5. late' \in BOOLEAN /\ UNCHANGED <<side, sends, faults, due>>
  BY DEF Receive
<1>6. /\ side' \in {"device", "host"}
      /\ sends' \in 0..MaxSends /\ faults' \in 0..MaxFaults
      /\ due' \in Seq(Bodies) \cup {None}
  BY <1>5 DEF FramingTypeOK
<1> QED BY <1>1, <1>2, <1>3, <1>4, <1>5, <1>6, Zenon DEF FramingTypeOK

LEMMA ReceiveIsBounded ==
  ASSUME TypeInv, Receive
  PROVE  BufferBounded'
<1> DEFINE b == Append(Kept, Head(wire))
<1>1. b \in Seq(Tokens)
  BY ReceiveParses DEF TypeInv
<1>2. SUFFICES ASSUME side' = "device"
               PROVE  Len(buf') <= MaxFrame /\ (~delivered' => Len(buf') < MaxFrame)
  BY DEF BufferBounded
<1>3. DeviceFeed(b) /\ side = "device"
  BY <1>2 DEF Receive
<1>4. Kept \in Seq(Tokens) /\ Len(Kept) < MaxFrame
  <2>1. CASE delivered \/ late
    <3>1. Kept = <<>> /\ Len(<<>>) = 0
      BY <2>1 DEF Kept
    <3> QED BY <3>1, FramingAssumption, LenProperties DEF MaxFrame, Envelope
  <2>2. CASE ~(delivered \/ late)
    <3>1. Kept = buf /\ ~delivered
      BY <2>2 DEF Kept
    <3> QED BY <1>3, <3>1 DEF TypeInv, FramingTypeOK, BufferBounded
  <2> QED BY <2>1, <2>2
<1>5. Len(b) <= MaxFrame
  <2>1. wire \in Seq(Tokens) /\ wire # <<>>
    BY DEF TypeInv, FramingTypeOK, Receive
  <2>2. Head(wire) \in Tokens
    BY <2>1, HeadTailProperties
  <2>3. Len(b) = Len(Kept) + 1
    BY <1>4, <2>2, AppendProperties
  <2> HIDE DEF b
  <2> QED BY <1>4, <2>3, FramingAssumption, LenProperties DEF MaxFrame, Envelope
<1> HIDE DEF b
<1>6. buf' = Resync(b) /\ delivered' = IsWhole(buf')
  BY <1>3 DEF DeviceFeed
<1>7. /\ buf' \in Seq(Tokens) /\ ~Rejected(buf')
      /\ Len(buf') <= Len(b)
  BY <1>1, <1>6, ResyncResult
<1>8. Len(buf') <= MaxFrame
  <2>1. Len(buf') \in Nat /\ Len(b) \in Nat /\ MaxFrame \in Nat
    BY <1>1, <1>7, FramingAssumption, LenProperties DEF MaxFrame, Envelope
  <2> QED BY <1>5, <1>7, <2>1
<1>9. ~delivered' => Len(buf') < MaxFrame
  BY <1>6, <1>7, PartialIsShort
<1> QED BY <1>8, <1>9

LEMMA SendTypes ==
  ASSUME TypeInv, NEW body \in Bodies, Send(body)
  PROVE  TypeInv'
<1>1. wire' \in Seq(Tokens)
  <2>1. wire' = wire \o Encode(body) /\ wire \in Seq(Tokens)
    BY DEF Send, TypeInv, FramingTypeOK
  <2> QED BY <2>1, EncodingIsTokens, ConcatProperties
<1>2. due' \in Seq(Bodies) \cup {None}
  <2>1. Append(got, body) \in Seq(Bodies)
    BY AppendProperties DEF TypeInv, FramingTypeOK
  <2> QED BY <2>1 DEF Send
<1>3. sends' \in 0..MaxSends
  BY FramingAssumption DEF Send, TypeInv, FramingTypeOK
<1>4. UNCHANGED <<side, buf, late, delivered, got, faults>>
  BY DEF Send
<1> QED BY <1>1, <1>2, <1>3, <1>4 DEF TypeInv, FramingTypeOK, BufferBounded

LEMMA FaultTypes ==
  ASSUME TypeInv, NEW n \in Bytes, Fault(n)
  PROVE  TypeInv'
<1>1. <<Byte(n)>> \in Seq(Tokens) /\ wire \in Seq(Tokens)
  BY DEF Tokens, TypeInv, FramingTypeOK
<1>2. /\ <<Byte(n)>> \o wire \in Seq(Tokens)
      /\ wire # <<>> => /\ Tail(wire) \in Seq(Tokens)
                        /\ <<Byte(n)>> \o Tail(wire) \in Seq(Tokens)
  BY <1>1, ConcatProperties, HeadTailProperties
<1>3. wire' \in Seq(Tokens)
  BY <1>2 DEF Fault
<1>4. faults' \in 0..MaxFaults
  BY FramingAssumption DEF Fault, TypeInv, FramingTypeOK
<1>5. UNCHANGED <<side, buf, late, delivered, got, sends>> /\ due' = None
  BY DEF Fault
<1> QED BY <1>3, <1>4, <1>5 DEF TypeInv, FramingTypeOK, BufferBounded

LEMMA NextTypeInv == TypeInv /\ [Next]_vars => TypeInv'
<1> SUFFICES ASSUME TypeInv, [Next]_vars PROVE TypeInv'
  OBVIOUS
<1>1. CASE \E body \in Bodies : Send(body)
  BY <1>1, SendTypes
<1>2. CASE \E n \in Bytes : Fault(n)
  BY <1>2, FaultTypes
<1>3. CASE Receive
  BY <1>3, ReceiveTypes, ReceiveIsBounded DEF TypeInv
<1>4. CASE Wait
  BY <1>4 DEF Wait, TypeInv, FramingTypeOK, BufferBounded
<1>5. CASE UNCHANGED vars
  BY <1>5 DEF vars, TypeInv, FramingTypeOK, BufferBounded
<1> QED BY <1>1, <1>2, <1>3, <1>4, <1>5 DEF Next

LEMMA TypesHold == Spec => []TypeInv
BY InitTypeInv, NextTypeInv, PTL DEF Spec

\* ssdu_feed and Frames.feed keep bytes of the line and pass on types and
\* payloads that were sent.
THEOREM FramingTypesHold == Spec => []FramingTypeOK
<1>1. TypeInv => FramingTypeOK
  BY DEF TypeInv
<1> QED BY <1>1, TypesHold, PTL

\* s_buf[s_used++] = byte stays in s_buf, whatever arrives and whenever.
THEOREM BufferHasRoom == Spec => []BufferBounded
<1>1. TypeInv => BufferBounded
  BY DEF TypeInv
<1> QED BY <1>1, TypesHold, PTL
---------------------------------------------------------------------------
LEMMA HeadAndTail ==
  ASSUME NEW S, NEW s \in Seq(S), s # <<>>
  PROVE  s = <<Head(s)>> \o Tail(s)
<1>1. Len(s) \in 1..Len(s) /\ 1 \in 1..Len(s)
  BY EmptySeq, LenProperties
<1>2. SubSeq(s, 1, Len(s)) = <<s[1]>> \o SubSeq(s, 2, Len(s))
  <2>1. SubSeq(s, 1, Len(s)) = <<s[1]>> \o SubSeq(s, 1 + 1, Len(s))
    BY <1>1, SubSeqRecursiveFirst
  <2> QED BY <2>1
<1>3. SubSeq(s, 1, Len(s)) = s /\ SubSeq(s, 2, Len(s)) = Tail(s)
  BY SubSeqFull, TailIsSubSeq
<1>4. Head(s) = s[1]
  OBVIOUS
<1> QED BY <1>2, <1>3, <1>4

LEMMA CrcsOfTail ==
  ASSUME NEW s \in Seq(Tokens), s # <<>>
  PROVE  /\ <<Head(s)>> \in Seq(Tokens) /\ Tail(s) \in Seq(Tokens)
         /\ CrcsOf(s) = CrcsOf(<<Head(s)>>) \o CrcsOf(Tail(s))
<1> DEFINE h == <<Head(s)>>
           r == Tail(s)
<1>1. h \in Seq(Tokens) /\ r \in Seq(Tokens)
  BY HeadTailProperties
<1>2. s = h \o r
  BY HeadAndTail
<1> HIDE DEF h, r
<1>3. CrcsOf(h \o r) = CrcsOf(h) \o CrcsOf(r)
  BY <1>1, CrcsOfConcat
<1> QED BY <1>1, <1>2, <1>3 DEF h, r

LEMMA PendingSplits ==
  ASSUME FramingTypeOK
  PROVE  /\ CrcsOf(Open) \in Seq(Bodies) /\ CrcsOf(wire) \in Seq(Bodies)
         /\ Pending = CrcsOf(Open) \o CrcsOf(wire)
         /\ Pending \in Seq(Bodies) /\ got \in Seq(Bodies)
<1>1. Open \in Seq(Tokens) /\ wire \in Seq(Tokens) /\ got \in Seq(Bodies)
  BY KeptIsTokens DEF FramingTypeOK
<1>2. CrcsOf(Open) \in Seq(Bodies) /\ CrcsOf(wire) \in Seq(Bodies)
  BY <1>1, CrcsAreBodies
<1>3. Pending = CrcsOf(Open) \o CrcsOf(wire)
  BY <1>1, CrcsOfConcat DEF Pending
<1> QED BY <1>1, <1>2, <1>3, ConcatProperties

\* The same in the next state.
LEMMA PendingSplitsNext ==
  ASSUME FramingTypeOK'
  PROVE  /\ CrcsOf(Open') \in Seq(Bodies) /\ CrcsOf(wire') \in Seq(Bodies)
         /\ Pending' = CrcsOf(Open') \o CrcsOf(wire')
         /\ Pending' \in Seq(Bodies) /\ got' \in Seq(Bodies)
<1>1. wire' \in Seq(Tokens) /\ buf' \in Seq(Tokens) /\ got' \in Seq(Bodies)
  BY DEF FramingTypeOK
<1>2. Open' \in Seq(Tokens)
  BY <1>1, EmptySeq DEF Open
<1>3. CrcsOf(Open') \in Seq(Bodies) /\ CrcsOf(wire') \in Seq(Bodies)
  BY <1>1, <1>2, CrcsAreBodies
<1>4. Pending' = CrcsOf(Open') \o CrcsOf(wire')
  BY <1>1, <1>2, CrcsOfConcat DEF Pending
<1> QED BY <1>1, <1>3, <1>4, ConcatProperties

LEMMA InitMaps == Init => Line!Init
<1> SUFFICES ASSUME Init PROVE Line!Init
  OBVIOUS
<1>1. got = <<>> /\ wire = <<>> /\ Open = <<>>
  BY DEF Init, Open
<1>2. <<>> \in Seq(Tokens)
  BY EmptySeq
<1>3. Pending = CrcsOf(<<>> \o <<>>)
  BY <1>1 DEF Pending
<1>4. <<>> \o <<>> = <<>>
  BY <1>2, ConcatEmptySeq
<1> QED BY <1>1, <1>3, <1>4, CrcsOfNone DEF Line!Init

LEMMA SendMaps ==
  ASSUME TypeInv, NEW body \in Bodies, Send(body)
  PROVE  Line!Next
<1> DEFINE o == CrcsOf(Open)
           w == CrcsOf(wire)
<1>1. /\ o \in Seq(Bodies) /\ w \in Seq(Bodies) /\ Pending = o \o w
      /\ wire \in Seq(Tokens)
  BY PendingSplits DEF TypeInv, FramingTypeOK
<1>2. TypeInv'
  BY SendTypes
<1>3. Pending' = CrcsOf(Open') \o CrcsOf(wire')
  BY <1>2, PendingSplitsNext DEF TypeInv
<1>4. wire' = wire \o Encode(body) /\ Open' = Open /\ got' = got
  BY DEF Send, Open
<1>5. CrcsOf(wire') = w \o <<body>>
  BY <1>1, <1>4, EncodingIsTokens, CrcsOfConcat
<1>6. <<body>> \in Seq(Bodies)
  OBVIOUS
<1> HIDE DEF o, w
<1>7. Pending' = o \o (w \o <<body>>)
  BY <1>3, <1>4, <1>5 DEF o
<1>8. Pending' = Append(Pending, body)
  <2> DEFINE z == <<body>>
  <2>1. Pending' = Cat(o, Cat(w, z))
    BY <1>7, Zenon DEF Cat
  <2>2. Cat(o, Cat(w, z)) = Cat(Cat(o, w), z)
    <3>1. z \in Seq(Bodies)
      BY <1>6
    <3> HIDE DEF z
    <3> QED BY <1>1, <3>1, CatAssociative
  <2>3. Pending' = Pending \o <<body>>
    BY <1>1, <2>1, <2>2, Zenon DEF Cat
  <2>4. Pending \in Seq(Bodies)
    BY <1>1, ConcatProperties
  <2> QED BY <2>3, <2>4, AppendIsConcat
<1>9. Line!Send(body)
  BY <1>4, <1>8 DEF Line!Send
<1> QED BY <1>9 DEF Line!Next

LEMMA FaultMaps ==
  ASSUME TypeInv, NEW n \in Bytes, Fault(n)
  PROVE  Line!Next
<1> DEFINE o == CrcsOf(Open)
           w == CrcsOf(wire)
           y == <<Byte(n)>>
<1>1. /\ o \in Seq(Bodies) /\ w \in Seq(Bodies) /\ Pending = o \o w
      /\ wire \in Seq(Tokens) /\ got \in Seq(Bodies) /\ Pending \in Seq(Bodies)
  BY PendingSplits DEF TypeInv, FramingTypeOK
<1>2. Pending' = CrcsOf(Open') \o CrcsOf(wire')
  BY FaultTypes, PendingSplitsNext DEF TypeInv
<1>3. Open' = Open /\ got' = got
  BY DEF Fault, Open
<1>4. y \in Seq(Tokens) /\ CrcsOf(y) = <<>>
  <2>1. Byte(n) \in Tokens /\ Len(Byte(n)) # 2
    BY DEF Tokens, Byte
  <2>2. CrcsOf(Append(<<>>, Byte(n))) = CrcsOf(<<>>)
    BY <2>1, CrcsOfAppend, EmptySeq
  <2>3. Append(<<>>, Byte(n)) = y
    OBVIOUS
  <2> QED BY <2>1, <2>2, <2>3, CrcsOfNone
<1> HIDE DEF y
<1>5. ASSUME NEW s \in Seq(Tokens)
      PROVE  y \o s \in Seq(Tokens) /\ CrcsOf(y \o s) = CrcsOf(s)
  <2>1. CrcsOf(y \o s) = <<>> \o CrcsOf(s) /\ CrcsOf(s) \in Seq(Bodies)
    BY <1>4, CrcsOfConcat, CrcsAreBodies
  <2> QED BY <1>4, <2>1, ConcatEmptySeq, ConcatProperties
<1>6. CrcsOf(wire') \in Line!Remnants(w)
  <2>1. CASE wire' = y \o wire
    <3>1. CrcsOf(wire') = w
      BY <1>1, <1>5, <2>1
    <3> HIDE DEF w
    <3> QED BY <1>1, <3>1, AllIsARemnant
  <2>2. CASE wire # <<>> /\ wire' \in {Tail(wire), y \o Tail(wire)}
    <3>1. /\ <<Head(wire)>> \in Seq(Tokens) /\ Tail(wire) \in Seq(Tokens)
          /\ w = CrcsOf(<<Head(wire)>>) \o CrcsOf(Tail(wire))
      BY <1>1, <2>2, CrcsOfTail
    <3>2. CrcsOf(wire') = CrcsOf(Tail(wire))
      BY <1>5, <2>2, <3>1
    <3>3. CrcsOf(<<Head(wire)>>) \in Seq(Bodies) /\ CrcsOf(Tail(wire)) \in Seq(Bodies)
      BY <3>1, CrcsAreBodies
    <3>4. CrcsOf(Tail(wire)) \in Line!Remnants(CrcsOf(<<Head(wire)>>) \o CrcsOf(Tail(wire)))
      BY <3>3, AllIsARemnant, TailsAreRemnants
    <3> HIDE DEF w
    <3> QED BY <3>1, <3>2, <3>4
  <2> QED BY <2>1, <2>2 DEF Fault, y
<1> HIDE DEF o, w
<1>7. Pending' \in Line!Remnants(Pending)
  <2>1. o \in Line!Remnants(o)
    BY <1>1, AllIsARemnant
  <2>2. o \o CrcsOf(wire') \in Line!Remnants(o \o w)
    BY <1>1, <1>6, <2>1, RemnantsConcat
  <2> QED BY <1>1, <1>2, <1>3, <2>2 DEF o
<1> QED BY <1>1, <1>3, <1>7, LossIsMove

LEMMA ReceiveMaps ==
  ASSUME TypeInv, Receive
  PROVE  Line!Next
<1> DEFINE b == Append(Kept, Head(wire))
           o == CrcsOf(Open)
           k == CrcsOf(Kept)
           c == CrcsOf(<<Head(wire)>>)
           w == CrcsOf(wire')
<1>1. /\ wire # <<>> /\ wire' = Tail(wire) /\ wire' \in Seq(Tokens) /\ wire \in Seq(Tokens)
      /\ b \in Seq(Tokens) /\ Parsed(b)
      /\ Kept \in Seq(Tokens) /\ Open \in Seq(Tokens) /\ got \in Seq(Bodies)
  BY ReceiveParses, KeptIsTokens DEF TypeInv, FramingTypeOK
<1>2. /\ <<Head(wire)>> \in Seq(Tokens) /\ Head(wire) \in Tokens
      /\ CrcsOf(wire) = c \o w
  BY <1>1, CrcsOfTail, HeadTailProperties
<1>3. /\ o \in Seq(Bodies) /\ k \in Seq(Bodies) /\ c \in Seq(Bodies) /\ w \in Seq(Bodies)
  BY <1>1, <1>2, CrcsAreBodies
<1>4. CrcsOf(b) = k \o c
  <2>1. b = Kept \o <<Head(wire)>>
    BY <1>1, <1>2, AppendIsConcat
  <2> HIDE DEF b
  <2> QED BY <1>1, <1>2, <2>1, CrcsOfConcat
<1>5. Pending = o \o (c \o w)
  <2>1. Pending = o \o CrcsOf(wire)
    BY PendingSplits DEF TypeInv
  <2> QED BY <1>2, <2>1, Zenon
<1>6. Pending' = CrcsOf(Open') \o w
  BY ReceiveTypes, PendingSplitsNext DEF TypeInv
<1>7. PICK p \in Seq(Bodies) : o = p \o k
  <2>1. CASE Kept = Open
    <3>1. o = <<>> \o k
      BY <1>3, <2>1, ConcatEmptySeq
    <3>2. <<>> \in Seq(Bodies)
      BY EmptySeq
    <3> HIDE DEF o, k
    <3> QED BY <3>1, <3>2
  <2>2. CASE Kept = <<>>
    <3>1. o = o \o k
      BY <1>3, <2>2, CrcsOfNone, ConcatEmptySeq
    <3> HIDE DEF o, k
    <3> QED BY <1>3, <3>1
  <2> QED BY <2>1, <2>2 DEF Kept, Open
<1>8. PICK u \in Seq(Bodies), v \in Seq(Bodies), t \in Seq(Bodies) :
        /\ CrcsOf(b) = u \o v
        /\ t \in Line!Remnants(u)
        /\ got' = got \o t
        /\ CrcsOf(Open') \in Line!Remnants(v)
  BY <1>1 DEF Parsed
<1> HIDE DEF b, o, k, c, w
<1>9. Pending = Cat(Cat(p, u), Cat(v, w))
  <2>1. Pending = Cat(Cat(p, k), Cat(c, w))
    BY <1>5, <1>7, Zenon DEF Cat
  <2>2. Cat(k, c) = Cat(u, v)
    BY <1>4, <1>8, Zenon DEF Cat
  <2>3. /\ Cat(c, w) \in Seq(Bodies) /\ Cat(k, c) \in Seq(Bodies)
        /\ Cat(u, v) \in Seq(Bodies) /\ Cat(v, w) \in Seq(Bodies)
    BY <1>3, <1>8, CatIsASeq
  <2>4. Cat(Cat(p, k), Cat(c, w)) = Cat(p, Cat(k, Cat(c, w)))
    BY <1>3, <1>7, <2>3, CatAssociative
  <2>5. Cat(k, Cat(c, w)) = Cat(Cat(k, c), w)
    BY <1>3, CatAssociative
  <2>6. Cat(u, Cat(v, w)) = Cat(Cat(u, v), w)
    BY <1>3, <1>8, CatAssociative
  <2>7. Cat(p, Cat(u, Cat(v, w))) = Cat(Cat(p, u), Cat(v, w))
    BY <1>7, <1>8, <2>3, CatAssociative
  <2> QED BY <2>1, <2>2, <2>4, <2>5, <2>6, <2>7, Zenon
<1>10. Cat(p, u) \in Seq(Bodies) /\ Cat(v, w) \in Seq(Bodies)
  BY <1>3, <1>7, <1>8, CatIsASeq
<1>11. t \in Line!Remnants(Cat(p, u))
  <2>1. t \in Line!Remnants(p \o u)
    BY <1>7, <1>8, TailsAreRemnants
  <2> QED BY <2>1, Zenon DEF Cat
<1>12. Pending' \in Line!Remnants(Cat(v, w))
  <2>1. w \in Line!Remnants(w)
    BY <1>3, AllIsARemnant
  <2>2. CrcsOf(Open') \o w \in Line!Remnants(v \o w)
    BY <1>3, <1>8, <2>1, RemnantsConcat
  <2> QED BY <1>6, <2>2, Zenon DEF Cat
<1> DEFINE uu == Cat(p, u)
           vv == Cat(v, w)
<1>13. Pending = uu \o vv
  BY <1>9, Zenon DEF Cat
<1>14. /\ uu \in Seq(Bodies) /\ vv \in Seq(Bodies)
       /\ t \in Line!Remnants(uu) /\ Pending' \in Line!Remnants(vv)
  BY <1>10, <1>11, <1>12
<1> HIDE DEF uu, vv
<1> QED BY <1>8, <1>13, <1>14, MoveIntro

LEMMA NextMaps == TypeInv /\ [Next]_vars => [Line!Next]_(Line!lvars)
<1> SUFFICES ASSUME TypeInv, [Next]_vars PROVE [Line!Next]_(Line!lvars)
  OBVIOUS
<1>1. CASE \E body \in Bodies : Send(body)
  BY <1>1, SendMaps
<1>2. CASE \E n \in Bytes : Fault(n)
  BY <1>2, FaultMaps
<1>3. CASE Receive
  BY <1>3, ReceiveMaps
<1>4. CASE Wait \/ UNCHANGED vars
  <2>1. Open' = Open /\ wire' = wire /\ got' = got
    BY <1>4 DEF Wait, vars, Open
  <2>2. Pending' = Pending
    BY <2>1 DEF Pending
  <2> QED BY <2>1, <2>2 DEF Line!lvars
<1> QED BY <1>1, <1>2, <1>3, <1>4 DEF Next

\* Whatever is lost, altered or mixed in on the line: behind ssdu_feed and
\* Frames.feed, all that has happened to frames is that some are lost.
THEOREM FramesOnlyGetLost == Spec => IsLossyLine
<1>1. Init => Line!Init
  BY InitMaps
<1>2. TypeInv /\ [Next]_vars => [Line!Next]_(Line!lvars)
  BY NextMaps
<1> QED
  BY <1>1, <1>2, TypesHold, PTL DEF Spec, IsLossyLine, Line!Spec
---------------------------------------------------------------------------
\* The tokens of a frame, by their place.
LEMMA FrameTokens ==
  ASSUME NEW body \in Bodies
  PROVE  LET e == Encode(body)
             m == Len(Magic)
         IN /\ e \in Seq(Tokens) /\ m \in Nat /\ m >= 1
            /\ Len(e) = m + Len(body) + 1 /\ Len(body) \in Nat /\ Len(body) >= 2
            /\ \A i \in 1..m : e[i] = Byte(Magic[i])
            /\ \A i \in 1..Len(body) : e[m + i] = body[i]
            /\ e[m + Len(body) + 1] = Crc(body)
            /\ \E t \in Types : e[m + 1] = Byte(t)
            /\ e[m + 2] = Byte(Len(body) - 2) /\ Len(body) - 2 \in 0..MaxPayload
<1> DEFINE e == Encode(body)
           m == Len(Magic)
           a == AsTokens(Magic)
           f == a \o body
<1>1. PICK t \in Types, p \in Payloads : body = AsTokens(<<t, Len(p)>> \o p)
  BY DEF Bodies
<1>2. /\ m \in Nat /\ m >= 1 /\ Len(p) \in Nat /\ Len(p) \in 0..MaxPayload
      /\ Magic \in Seq(Bytes) /\ p \in Seq(Bytes) /\ t \in Bytes /\ Len(p) \in Bytes
  <2>1. /\ Magic \in Seq(Bytes) /\ Magic # <<>> /\ p \in Seq(Bytes)
        /\ t \in Bytes /\ Len(p) \in Bytes /\ Len(p) <= MaxPayload /\ MaxPayload \in Nat
    BY FramingAssumption
  <2> QED BY <2>1, EmptySeq, LenProperties
<1>3. a \in Seq(Tokens) /\ Len(a) = m /\ \A i \in 1..m : a[i] = Byte(Magic[i])
  <2>1. a \in Seq(Tokens)
    BY <1>2, BytesHoldNoCrc
  <2> QED BY <1>2, <2>1 DEF AsTokens
<1>4. /\ body \in Seq(Tokens) /\ Len(body) = 2 + Len(p)
      /\ body[1] = Byte(t) /\ body[2] = Byte(Len(p))
  <2> DEFINE q == <<t, Len(p)>> \o p
             h == <<t, Len(p)>>
  <2>1. h \in Seq(Bytes) /\ Len(h) = 2 /\ h[1] = t /\ h[2] = Len(p)
    BY <1>2
  <2> HIDE DEF h
  <2>2. /\ h \o p \in Seq(Bytes) /\ Len(h \o p) = 2 + Len(p)
        /\ (h \o p)[1] = t /\ (h \o p)[2] = Len(p)
    <3>1. h \in Seq(Bytes) /\ p \in Seq(Bytes)
      BY <1>2, <2>1
    <3>2. /\ h \o p \in Seq(Bytes) /\ Len(h \o p) = Len(h) + Len(p)
          /\ \A i \in 1..(Len(h) + Len(p)) :
               (h \o p)[i] = IF i <= Len(h) THEN h[i] ELSE p[i - Len(h)]
      BY <3>1, ConcatProperties
    <3>3. 1 \in 1..(Len(h) + Len(p)) /\ 2 \in 1..(Len(h) + Len(p))
      BY <1>2, <2>1
    <3> QED BY <2>1, <3>2, <3>3
  <2>3. /\ q \in Seq(Bytes) /\ Len(q) = 2 + Len(p) /\ q[1] = t /\ q[2] = Len(p)
    BY <2>2 DEF h
  <2>4. body = AsTokens(q)
    BY <1>1
  <2> HIDE DEF q
  <2>5. body \in Seq(Tokens)
    BY <2>3, <2>4, BytesHoldNoCrc
  <2>6. Len(body) = Len(q) /\ \A i \in 1..Len(q) : body[i] = Byte(q[i])
    BY <2>3, <2>4, LenProperties DEF AsTokens
  <2>7. 1 \in 1..Len(q) /\ 2 \in 1..Len(q)
    BY <1>2, <2>3
  <2> QED BY <2>3, <2>5, <2>6, <2>7
<1> HIDE DEF a, m
<1>5. /\ f \in Seq(Tokens) /\ Len(f) = m + Len(body)
      /\ \A i \in 1..m : f[i] = a[i]
      /\ \A i \in 1..Len(body) : f[m + i] = body[i]
  <2>1. /\ f \in Seq(Tokens) /\ Len(f) = Len(a) + Len(body)
        /\ \A i \in 1..(Len(a) + Len(body)) : f[i] = IF i <= Len(a) THEN a[i] ELSE body[i - Len(a)]
    <3>1. a \in Seq(Tokens) /\ body \in Seq(Tokens)
      BY <1>3, <1>4
    <3> QED BY <3>1, ConcatProperties
  <2> HIDE DEF f
  <2>2. Len(a) = m /\ Len(body) \in Nat /\ m \in Nat
    BY <1>2, <1>3, <1>4
  <2>3. ASSUME NEW i \in 1..Len(body) PROVE f[m + i] = body[i]
    <3>1. m + i \in 1..(m + Len(body)) /\ ~(m + i <= m) /\ m + i - m = i
      BY <2>2
    <3> QED BY <2>1, <2>2, <3>1
  <2>4. ASSUME NEW i \in 1..m PROVE f[i] = a[i]
    BY <2>1, <2>2
  <2> QED BY <2>1, <2>2, <2>3, <2>4
<1>6. e = f \o <<Crc(body)>>
  BY DEF Encode, a
<1>7. Crc(body) \in Tokens
  BY DEF Tokens
<1> HIDE DEF f, e
<1>8. e = Append(f, Crc(body))
  BY <1>5, <1>6, <1>7, AppendIsConcat
<1>9. /\ e \in Seq(Tokens) /\ Len(e) = m + Len(body) + 1
      /\ \A i \in 1..(m + Len(body)) : e[i] = f[i]
      /\ e[m + Len(body) + 1] = Crc(body)
  BY <1>5, <1>7, <1>8, AppendProperties
<1>10. Len(body) \in Nat /\ Len(body) >= 2 /\ Len(body) - 2 = Len(p)
  BY <1>2, <1>4
<1>11. \A i \in 1..m : e[i] = Byte(Magic[i])
  <2>1. \A i \in 1..m : i \in 1..(m + Len(body))
    BY <1>2, <1>10
  <2> QED BY <1>3, <1>5, <1>9, <2>1
<1>12. \A i \in 1..Len(body) : e[m + i] = body[i]
  <2>1. \A i \in 1..Len(body) : m + i \in 1..(m + Len(body))
    BY <1>2, <1>10
  <2> QED BY <1>5, <1>9, <2>1
<1>13. e[m + 1] = Byte(t) /\ e[m + 2] = Byte(Len(body) - 2)
  <2>1. 1 \in 1..Len(body) /\ 2 \in 1..Len(body)
    BY <1>10
  <2> QED BY <1>4, <1>10, <1>12, <2>1
<1> QED BY <1>2, <1>9, <1>10, <1>11, <1>12, <1>13 DEF e, m

LEMMA FrontOf ==
  ASSUME NEW S, NEW s \in Seq(S), NEW k \in 0..Len(s)
  PROVE  /\ SubSeq(s, 1, k) \in Seq(S) /\ Len(SubSeq(s, 1, k)) = k
         /\ \A j \in 1..k : SubSeq(s, 1, k)[j] = s[j]
<1>1. Len(s) \in Nat /\ k \in Nat
  BY LenProperties
<1>2. \A j \in 1..k : s[j] \in S
  <2>1. \A j \in 1..k : j \in 1..Len(s)
    BY <1>1
  <2> QED BY <2>1, ElementOfSeq
<1>3. /\ SubSeq(s, 1, k) \in Seq(S)
      /\ Len(SubSeq(s, 1, k)) = IF 1 <= k THEN k - 1 + 1 ELSE 0
      /\ \A j \in 1..(k - 1 + 1) : SubSeq(s, 1, k)[j] = s[1 + j - 1]
  BY <1>1, <1>2, SubSeqProperties
<1>4. k - 1 + 1 = k /\ \A j \in 1..k : 1 + j - 1 = j
  BY <1>1
<1>5. Len(SubSeq(s, 1, k)) = k
  BY <1>1, <1>3, <1>4
<1>6. \A j \in 1..k : SubSeq(s, 1, k)[j] = s[j]
  BY <1>3, <1>4
<1> QED BY <1>3, <1>5, <1>6

LEMMA MiddleOf ==
  ASSUME NEW S, NEW s \in Seq(S), NEW k \in 0..Len(s), NEW n \in k..Len(s)
  PROVE  /\ SubSeq(s, k + 1, n) \in Seq(S) /\ Len(SubSeq(s, k + 1, n)) = n - k
         /\ \A j \in 1..(n - k) : SubSeq(s, k + 1, n)[j] = s[k + j]
<1>1. Len(s) \in Nat /\ k \in Nat /\ n \in Nat /\ k <= n /\ n <= Len(s)
  BY LenProperties
<1>2. \A j \in (k + 1)..n : s[j] \in S
  <2>1. \A j \in (k + 1)..n : j \in 1..Len(s)
    BY <1>1
  <2> QED BY <2>1, ElementOfSeq
<1>3. /\ SubSeq(s, k + 1, n) \in Seq(S)
      /\ Len(SubSeq(s, k + 1, n)) = IF k + 1 <= n THEN n - (k + 1) + 1 ELSE 0
      /\ \A j \in 1..(n - (k + 1) + 1) : SubSeq(s, k + 1, n)[j] = s[(k + 1) + j - 1]
  <2>1. k + 1 \in Int /\ n \in Int
    BY <1>1
  <2> QED BY <1>2, <2>1, SubSeqProperties
<1>4. n - (k + 1) + 1 = n - k /\ \A j \in 1..(n - k) : (k + 1) + j - 1 = k + j
  BY <1>1
<1>5. Len(SubSeq(s, k + 1, n)) = n - k
  BY <1>1, <1>3, <1>4
<1>6. \A j \in 1..(n - k) : SubSeq(s, k + 1, n)[j] = s[k + j]
  BY <1>3, <1>4
<1> QED BY <1>3, <1>5, <1>6

LEMMA MagicIs ==
  ASSUME NEW s \in Seq(Tokens), Len(s) = Len(Magic)
  PROVE  s = AsTokens(Magic) <=> \A j \in 1..Len(Magic) : s[j] = Byte(Magic[j])
<1>1. Len(Magic) \in Nat
  BY FramingAssumption, LenProperties
<1>2. s = [j \in 1..Len(Magic) |-> s[j]]
  BY LenProperties
<1> QED BY <1>1, <1>2 DEF AsTokens

\* What the receiver has of a frame when i of its tokens have come.
Prefix(body, i) == SubSeq(Encode(body), 1, i)

\* No part of an undamaged frame is rejected, and all of it is the frame.
LEMMA PrefixParses ==
  ASSUME NEW body \in Bodies, NEW i \in 0..Len(Encode(body))
  PROVE  /\ Prefix(body, i) \in Seq(Tokens) /\ Len(Prefix(body, i)) = i
         /\ ~Rejected(Prefix(body, i))
         /\ i < Len(Encode(body)) => ~IsWhole(Prefix(body, i))
         /\ i = Len(Encode(body)) =>
              /\ IsWhole(Prefix(body, i))
              /\ FrameLen(Prefix(body, i)) = Len(Prefix(body, i))
              /\ Body(Prefix(body, i)) = body
<1> DEFINE e == Encode(body)
           m == Len(Magic)
           n == Len(body)
           pre == Prefix(body, i)
<1>1. /\ e \in Seq(Tokens) /\ m \in Nat /\ m >= 1
      /\ Len(e) = m + n + 1 /\ n \in Nat /\ n >= 2
      /\ \A j \in 1..m : e[j] = Byte(Magic[j])
      /\ \A j \in 1..n : e[m + j] = body[j]
      /\ e[m + n + 1] = Crc(body)
      /\ \E t \in Types : e[m + 1] = Byte(t)
      /\ e[m + 2] = Byte(n - 2) /\ n - 2 \in 0..MaxPayload
  BY FrameTokens
<1>2. pre \in Seq(Tokens) /\ Len(pre) = i /\ \A j \in 1..i : pre[j] = e[j]
  BY <1>1, FrontOf DEF Prefix
<1>3. i \in 0..Len(e)
  OBVIOUS
<1> HIDE DEF e, pre, n
<1>4. /\ i \in Nat /\ i <= Len(e) /\ Len(e) = m + n + 1
      /\ m \in Nat /\ n \in Nat /\ m >= 1 /\ n >= 2
  BY <1>1, <1>3
<1>5. CASE i < m
  <2>1. ~HasHeader(pre) /\ ~Rejected(pre)
    BY <1>2, <1>4, <1>5 DEF HasHeader, Rejected
  <2>2. i # Len(e)
    BY <1>4, <1>5
  <2> QED BY <1>2, <2>1, <2>2 DEF IsWhole, e, pre
<1>6. ASSUME i >= m PROVE HasMagic(pre)
  <2> DEFINE s == SubSeq(pre, 1, m)
  <2>1. s \in Seq(Tokens) /\ Len(s) = m /\ \A j \in 1..m : s[j] = pre[j]
    <3>1. m \in 0..Len(pre)
      BY <1>2, <1>4, <1>6
    <3> QED BY <1>2, <3>1, FrontOf
  <2> HIDE DEF s
  <2>2. \A j \in 1..m : j \in 1..i
    BY <1>4, <1>6
  <2>3. \A j \in 1..m : s[j] = Byte(Magic[j])
    BY <1>1, <1>2, <2>1, <2>2
  <2>4. s = AsTokens(Magic)
    BY <2>1, <2>3, MagicIs
  <2> QED BY <2>4 DEF HasMagic, s
<1>7. CASE i >= m /\ i < m + 2
  <2>1. ~HasHeader(pre) /\ i # Len(e)
    <3>1. Len(pre) = i
      BY <1>2
    <3> QED BY <1>4, <1>7, <3>1 DEF HasHeader
  <2>2. ~Rejected(pre)
    BY <1>6, <1>7, <2>1 DEF Rejected
  <2> QED BY <1>2, <2>1, <2>2 DEF IsWhole, e, pre
<1>8. CASE i >= m + 2
  <2>1. m + 1 \in 1..i /\ m + 2 \in 1..i /\ i >= m
    BY <1>4, <1>8
  <2>2. GoodHeader(pre)
    BY <1>1, <1>2, <2>1 DEF GoodHeader
  <2>3. HasHeader(pre) /\ HasMagic(pre)
    BY <1>2, <1>6, <1>8, <2>1 DEF HasHeader
  <2>4. FrameLen(pre) = Len(e)
    <3>1. pre[m + 2] = Byte(n - 2)
      BY <1>1, <1>2, <2>1
    <3>2. FrameLen(pre) = m + 3 + (n - 2)
      BY <3>1 DEF FrameLen, Envelope, Byte
    <3> QED BY <1>4, <3>2
  <2>5. CASE i < Len(e)
    <3>1. ~(Len(pre) >= FrameLen(pre)) /\ i # Len(e)
      BY <1>2, <1>4, <2>4, <2>5
    <3>2. ~Rejected(pre) /\ ~IsWhole(pre)
      BY <2>2, <2>3, <3>1 DEF Rejected, IsWhole
    <3> QED BY <1>2, <3>1, <3>2 DEF e, pre
  <2>6. CASE i = Len(e)
    <3>1. Len(pre) >= FrameLen(pre) /\ FrameLen(pre) = Len(pre)
      BY <1>2, <1>4, <2>4, <2>6
    <3>2. Body(pre) = body
      <4> DEFINE s == SubSeq(pre, m + 1, i - 1)
      <4>1. m \in 0..Len(pre) /\ i - 1 \in m..Len(pre) /\ i - 1 - m = n
        BY <1>2, <1>4, <2>6
      <4>2. s \in Seq(Tokens) /\ Len(s) = n /\ \A j \in 1..n : s[j] = pre[m + j]
        <5>1. /\ s \in Seq(Tokens) /\ Len(s) = i - 1 - m
              /\ \A j \in 1..(i - 1 - m) : s[j] = pre[m + j]
          BY <1>2, <4>1, MiddleOf
        <5> HIDE DEF s
        <5> QED BY <4>1, <5>1
      <4> HIDE DEF s
      <4>3. \A j \in 1..n : m + j \in 1..i
        BY <1>4, <2>6
      <4>4. \A j \in 1..n : s[j] = body[j]
        BY <1>1, <1>2, <4>2, <4>3
      <4>5. s = body
        <5>1. body \in Seq(Tokens) /\ Len(body) = n
          BY EncodingIsTokens, BodiesAreTokens DEF n
        <5> QED BY <4>2, <4>4, <5>1, SeqEqual
      <4>6. Body(pre) = s
        BY <1>2, <2>4, <2>6 DEF Body, s
      <4> QED BY <4>5, <4>6
    <3>3. GoodCrc(pre)
      <4>1. i \in 1..i /\ i = m + n + 1
        BY <1>4, <2>6
      <4> QED BY <1>1, <1>2, <2>4, <2>6, <3>2, <4>1 DEF GoodCrc
    <3>4. ~Rejected(pre) /\ IsWhole(pre)
      BY <2>2, <2>3, <3>1, <3>3 DEF Rejected, IsWhole
    <3> QED BY <1>2, <3>1, <3>2, <3>4, <2>6 DEF e, pre
  <2> QED BY <1>4, <2>5, <2>6
<1> QED BY <1>4, <1>5, <1>7, <1>8
---------------------------------------------------------------------------
\* While less than a magic has come, what is in front of it slides out.
LEMMA JunkSlides ==
  ASSUME NEW body \in Bodies, NEW i \in 1..Len(Encode(body)), NEW junk \in Seq(Tokens),
         junk = <<>> \/ Len(junk) + i <= Len(Magic)
  PROVE  \E rest \in Seq(Tokens) :
           /\ Resync(junk \o Prefix(body, i)) = rest \o Prefix(body, i)
           /\ rest = <<>> \/ Len(rest) + i < Len(Magic)
<1> DEFINE pre == Prefix(body, i)
           b == junk \o pre
           m == Len(Magic)
<1>1. /\ pre \in Seq(Tokens) /\ Len(pre) = i /\ ~Rejected(pre)
      /\ i \in Nat /\ i >= 1 /\ m \in Nat /\ m >= 1
      /\ \A j \in 1..i : pre[j] = Encode(body)[j]
      /\ \A j \in 1..m : Encode(body)[j] = Byte(Magic[j])
  <2>1. Encode(body) \in Seq(Tokens) /\ m \in Nat /\ m >= 1
        /\ \A j \in 1..m : Encode(body)[j] = Byte(Magic[j])
    BY FrameTokens
  <2>2. i \in 0..Len(Encode(body)) /\ i \in Nat /\ i >= 1
    BY <2>1, LenProperties
  <2>3. pre \in Seq(Tokens) /\ Len(pre) = i /\ ~Rejected(pre)
    BY <2>2, PrefixParses
  <2>4. \A j \in 1..i : pre[j] = Encode(body)[j]
    BY <2>1, <2>2, FrontOf DEF Prefix
  <2> QED BY <2>1, <2>2, <2>3, <2>4
<1> HIDE DEF pre
<1>2. /\ b \in Seq(Tokens) /\ Len(b) = Len(junk) + i /\ Len(junk) \in Nat
      /\ \A j \in 1..(Len(junk) + i) : b[j] = IF j <= Len(junk) THEN junk[j] ELSE pre[j - Len(junk)]
  <2>1. pre \in Seq(Tokens) /\ Len(pre) = i
    BY <1>1
  <2>2. /\ b \in Seq(Tokens) /\ Len(b) = Len(junk) + Len(pre)
        /\ \A j \in 1..(Len(junk) + Len(pre)) :
             b[j] = IF j <= Len(junk) THEN junk[j] ELSE pre[j - Len(junk)]
    BY <2>1, ConcatProperties
  <2>3. Len(junk) \in Nat
    BY LenProperties
  <2> HIDE DEF b
  <2> QED BY <2>1, <2>2, <2>3
<1> HIDE DEF b
<1>3. After(b, 0) = b
  BY <1>2, SubSeqFull DEF After
<1>4. ASSUME ~Rejected(b) PROVE Resync(b) = b
  <2>1. 0 \in 0..Len(b) /\ \A j \in 0..(0 - 1) : Rejected(After(b, j))
    BY <1>1, <1>2
  <2> QED BY <1>2, <1>3, <1>4, <2>1, ResyncIs
<1>5. CASE junk = <<>>
  <2>1. b = pre
    BY <1>1, <1>5, ConcatEmptySeq DEF b
  <2>2. Resync(b) = pre
    BY <1>1, <1>4, <2>1
  <2>3. pre = <<>> \o pre /\ <<>> \in Seq(Tokens)
    BY <1>1, ConcatEmptySeq, EmptySeq
  <2>4. Resync(b) = <<>> \o pre
    BY <2>2, <2>3, Zenon
  <2> QED BY <2>3, <2>4 DEF b, pre
<1>6. CASE junk # <<>> /\ Len(junk) + i < m
  <2>1. ~Rejected(b)
    BY <1>1, <1>2, <1>6 DEF Rejected
  <2>2. Resync(b) = b
    BY <1>4, <2>1
  <2> QED BY <1>6, <2>2 DEF b, pre
<1>7. CASE junk # <<>> /\ Len(junk) + i = m
  <2>1. Len(junk) >= 1 /\ Len(junk) <= m - 1 /\ i <= m - 1
    BY <1>1, <1>2, <1>7, EmptySeq
  <2>2. ~HasMagic(b)
    <3>1. SUFFICES ASSUME HasMagic(b) PROVE FALSE
      OBVIOUS
    <3>2. b = AsTokens(Magic)
      BY <1>2, <1>7, <3>1, SubSeqFull DEF HasMagic
    <3>3. \A j \in 1..m : b[j] = Byte(Magic[j])
      BY <1>2, <1>7, <3>2, MagicIs
    <3>4. \A j \in 1..i : Magic[Len(junk) + j] = Magic[j]
      <4> SUFFICES ASSUME NEW j \in 1..i PROVE Magic[Len(junk) + j] = Magic[j]
        OBVIOUS
      <4>1. /\ Len(junk) + j \in 1..m /\ j \in 1..m /\ ~(Len(junk) + j <= Len(junk))
            /\ Len(junk) + j \in 1..(Len(junk) + i) /\ Len(junk) + j - Len(junk) = j
        BY <1>1, <1>2, <1>7, <2>1
      <4>2. b[Len(junk) + j] = pre[j]
        BY <1>2, <4>1
      <4>3. b[Len(junk) + j] = Byte(Magic[Len(junk) + j])
        BY <3>3, <4>1
      <4>4. pre[j] = Byte(Magic[j])
        BY <1>1, <4>1
      <4>5. Byte(Magic[Len(junk) + j]) = Byte(Magic[j])
        BY <4>2, <4>3, <4>4, Zenon
      <4> QED BY <4>5 DEF Byte
    <3> DEFINE f == SubSeq(Magic, 1, i)
               g == SubSeq(Magic, Len(junk) + 1, m)
    <3>5. Magic \in Seq(Bytes)
      BY FramingAssumption
    <3>6. f \in Seq(Bytes) /\ Len(f) = i /\ \A j \in 1..i : f[j] = Magic[j]
      <4>1. i \in 0..Len(Magic)
        BY <1>1, <2>1
      <4> QED BY <3>5, <4>1, FrontOf
    <3>7. g \in Seq(Bytes) /\ Len(g) = i /\ \A j \in 1..i : g[j] = Magic[Len(junk) + j]
      <4>1. Len(junk) \in 0..Len(Magic) /\ m \in Len(junk)..Len(Magic) /\ m - Len(junk) = i
        BY <1>1, <1>2, <1>7, <2>1
      <4>2. /\ g \in Seq(Bytes) /\ Len(g) = m - Len(junk)
            /\ \A j \in 1..(m - Len(junk)) : g[j] = Magic[Len(junk) + j]
        BY <3>5, <4>1, MiddleOf
      <4> HIDE DEF g
      <4> QED BY <4>1, <4>2
    <3> HIDE DEF f, g
    <3>8. f = g
      BY <3>4, <3>6, <3>7, SeqEqual
    <3>9. i \in 1..(Len(Magic) - 1) /\ Len(Magic) - i + 1 = Len(junk) + 1
      <4>1. Len(junk) \in Nat /\ i \in Nat /\ i >= 1 /\ m \in Nat
        BY <1>1, <1>2
      <4> HIDE DEF m
      <4>2. i \in 1..(m - 1) /\ m - i + 1 = Len(junk) + 1
        BY <1>7, <2>1, <4>1
      <4> QED BY <4>2 DEF m
    <3>10. SubSeq(Magic, 1, i) # SubSeq(Magic, Len(Magic) - i + 1, Len(Magic))
      BY <3>9, FramingAssumption
    <3> QED BY <3>8, <3>9, <3>10 DEF f, g
  <2>3. Rejected(b)
    BY <1>1, <1>2, <1>7, <2>2 DEF Rejected
  <2> DEFINE r == Tail(junk)
  <2>4. /\ r \in Seq(Tokens) /\ Len(r) = Len(junk) - 1
        /\ \A j \in 1..(Len(junk) - 1) : r[j] = junk[j + 1]
    BY <1>7, HeadTailProperties
  <2> HIDE DEF r
  <2>5. After(b, 1) = r \o pre
    <3> DEFINE c == r \o pre
               d == SubSeq(b, 1 + 1, Len(b))
    <3>1. /\ c \in Seq(Tokens) /\ Len(c) = Len(r) + i
          /\ \A j \in 1..(Len(r) + i) : c[j] = IF j <= Len(r) THEN r[j] ELSE pre[j - Len(r)]
      <4>1. r \in Seq(Tokens) /\ pre \in Seq(Tokens) /\ Len(pre) = i
        BY <1>1, <2>4
      <4>2. /\ c \in Seq(Tokens) /\ Len(c) = Len(r) + Len(pre)
            /\ \A j \in 1..(Len(r) + Len(pre)) :
                 c[j] = IF j <= Len(r) THEN r[j] ELSE pre[j - Len(r)]
        BY <4>1, ConcatProperties
      <4> HIDE DEF c
      <4> QED BY <4>1, <4>2
    <3>2. d \in Seq(Tokens) /\ Len(d) = Len(b) - 1 /\ \A j \in 1..(Len(b) - 1) : d[j] = b[1 + j]
      <4>1. 1 \in 0..Len(b) /\ Len(b) \in 1..Len(b)
        BY <1>1, <1>2
      <4> QED BY <1>2, <4>1, MiddleOf
    <3> HIDE DEF c, d
    <3>3. Len(c) = Len(d) /\ Len(c) = m - 1
      BY <1>1, <1>2, <1>7, <2>4, <3>1, <3>2
    <3>4. ASSUME NEW j \in 1..Len(c) PROVE c[j] = d[j]
      <4>1. d[j] = b[1 + j] /\ 1 + j \in 1..(Len(junk) + i)
        BY <1>1, <1>2, <1>7, <3>2, <3>3
      <4>2. CASE j <= Len(r)
        <5>1. c[j] = r[j] /\ j \in 1..(Len(junk) - 1)
          BY <1>1, <1>2, <2>4, <3>1, <4>2
        <5>2. b[1 + j] = junk[1 + j]
          BY <1>2, <2>4, <4>1, <5>1
        <5>3. r[j] = junk[j + 1] /\ 1 + j = j + 1
          BY <2>4, <5>1
        <5> QED BY <4>1, <5>1, <5>2, <5>3
      <4>3. CASE ~(j <= Len(r))
        <5>1. c[j] = pre[j - Len(r)]
          BY <1>1, <3>1, <4>3
        <5>2. b[1 + j] = pre[1 + j - Len(junk)]
          BY <1>2, <2>4, <4>1, <4>3
        <5>3. j - Len(r) = 1 + j - Len(junk)
          BY <1>2, <2>4
        <5> QED BY <4>1, <5>1, <5>2, <5>3
      <4> QED BY <4>2, <4>3
    <3>5. c = d
      BY <3>1, <3>2, <3>3, <3>4, SeqEqual
    <3> QED BY <3>5 DEF c, d, After
  <2>6. r \o pre \in Seq(Tokens) /\ Len(r \o pre) = m - 1
    <3>1. r \in Seq(Tokens) /\ pre \in Seq(Tokens) /\ Len(pre) = i
      BY <1>1, <2>4
    <3>2. r \o pre \in Seq(Tokens) /\ Len(r \o pre) = Len(r) + Len(pre)
      BY <3>1, ConcatProperties
    <3> QED BY <1>1, <1>2, <1>7, <2>4, <3>1, <3>2
  <2>7. Resync(b) = After(b, 1)
    <3>1. ~Rejected(After(b, 1))
      <4>1. Len(After(b, 1)) < m
        BY <1>1, <2>5, <2>6
      <4> QED BY <1>1, <4>1 DEF Rejected
    <3>2. 1 \in 0..Len(b) /\ \A j \in 0..(1 - 1) : Rejected(After(b, j))
      <4>1. \A j \in 0..(1 - 1) : j = 0
        OBVIOUS
      <4> QED BY <1>1, <1>2, <1>3, <2>3, <4>1
    <3> QED BY <1>2, <3>1, <3>2, ResyncIs
  <2>8. Len(r) + i < m
    BY <1>1, <1>2, <1>7, <2>4
  <2>9. Resync(b) = r \o pre
    BY <2>5, <2>7, Zenon
  <2> QED BY <2>4, <2>8, <2>9 DEF b, pre
<1>8. junk = <<>> \/ Len(junk) + i < m \/ Len(junk) + i = m
  BY <1>1, <1>2
<1> QED BY <1>5, <1>6, <1>7, <1>8
---------------------------------------------------------------------------
\* What the parsers do with bytes that end in no frame.
LEMMA FeedNothing ==
  ASSUME NEW b \in Seq(Tokens), got \in Seq(Bodies), ~IsWhole(Resync(b)),
         IF side = "device" THEN DeviceFeed(b) ELSE HostFeed(b)
  PROVE  /\ buf' = Resync(b) /\ got' = got
         /\ delivered' = IF side = "device" THEN FALSE ELSE delivered
<1>1. CASE side = "device"
  <2>1. DeviceFeed(b)
    BY <1>1
  <2>2. buf' = Resync(b) /\ got' = got
    BY <2>1 DEF DeviceFeed
  <2>3. delivered' = IsWhole(buf') /\ IsWhole(buf') \in BOOLEAN
    BY <2>1, Zenon DEF DeviceFeed, IsWhole
  <2>4. delivered' = FALSE
    BY <2>2, <2>3, Zenon
  <2> QED BY <1>1, <2>2, <2>4
<1>2. CASE side # "device"
  <2>1. HostFeed(b)
    BY <1>2
  <2>2. Rests(b)[0] = Resync(b)
    BY RestsSteps
  <2>3. Found(b) = 0
    <3>1. Found(b) \in 0..Len(b) /\ \A i \in 0..(Found(b) - 1) : IsWhole(Rests(b)[i])
      BY FoundIs
    <3>2. Len(b) \in Nat
      BY LenProperties
    <3>3. Found(b) # 0 => 0 \in 0..(Found(b) - 1)
      BY <3>1, <3>2
    <3> QED BY <2>2, <3>1, <3>3
  <2>4. [i \in 1..0 |-> Body(Rests(b)[i - 1])] = <<>>
    OBVIOUS
  <2>5. got' = got \o <<>>
    BY <2>1, <2>3, <2>4 DEF HostFeed
  <2> QED BY <1>2, <2>1, <2>2, <2>3, <2>5, ConcatEmptySeq DEF HostFeed
<1> QED BY <1>1, <1>2

\* What they do with bytes that end in exactly one.
LEMMA FeedWhole ==
  ASSUME NEW b \in Seq(Tokens), got \in Seq(Bodies), IsWhole(Resync(b)),
         FrameLen(Resync(b)) = Len(Resync(b)),
         IF side = "device" THEN DeviceFeed(b) ELSE HostFeed(b)
  PROVE  /\ got' = Append(got, Body(Resync(b)))
         /\ side # "device" => delivered' = delivered
<1>1. CASE side = "device"
  BY <1>1 DEF DeviceFeed
<1>2. CASE side # "device"
  <2> DEFINE r == Resync(b)
  <2>1. HostFeed(b)
    BY <1>2
  <2>2. r \in Seq(Tokens) /\ Rests(b)[0] = r /\ Len(r) <= Len(b) /\ Len(r) \in Nat /\ Len(b) \in Nat
    BY RestsSteps, ResyncResult, LenProperties
  <2>3. IsWhole(r) /\ FrameLen(r) = Len(r)
    OBVIOUS
  <2> HIDE DEF r
  <2>4. /\ Found(b) \in 0..Len(b) /\ ~IsWhole(Rests(b)[Found(b)])
        /\ \A i \in 0..(Found(b) - 1) : IsWhole(Rests(b)[i])
    BY FoundIs
  <2>5. FrameLen(r) \in 1..Len(r)
    BY <2>2, <2>3, WholeWasSent
  <2>6. 1 \in 1..Len(b) /\ 1 - 1 = 0
    BY <2>2, <2>3, <2>5
  <2>7. Rests(b)[1] = Resync(After(r, FrameLen(r)))
    <3>1. Rests(b)[1] = Resync(After(Rests(b)[1 - 1], FrameLen(Rests(b)[1 - 1])))
      BY <2>6, RestsSteps
    <3> QED BY <2>2, <2>6, <3>1
  <2>8. After(r, FrameLen(r)) \in Seq(Tokens) /\ Len(After(r, FrameLen(r))) = 0
    <3>1. FrameLen(r) \in 0..Len(r) /\ Len(r) - FrameLen(r) = 0
      BY <2>2, <2>3
    <3> QED BY <2>2, <3>1, AfterIsRest
  <2>9. ~IsWhole(Rests(b)[1])
    <3>1. Rests(b)[1] \in Seq(Tokens) /\ Len(Rests(b)[1]) <= 0
      BY <2>7, <2>8, ResyncResult
    <3>2. ~HasHeader(Rests(b)[1])
      BY <3>1, FramingAssumption, LenProperties DEF HasHeader
    <3> QED BY <3>2 DEF IsWhole
  <2>10. Found(b) = 1
    <3>1. Found(b) # 0
      BY <2>2, <2>3, <2>4
    <3>2. ~(Found(b) > 1)
      <4>1. Found(b) > 1 => 1 \in 0..(Found(b) - 1)
        BY <2>2, <2>4
      <4> QED BY <2>4, <2>9, <4>1
    <3> QED BY <2>2, <2>4, <3>1, <3>2
  <2>11. [i \in 1..1 |-> Body(Rests(b)[i - 1])] = <<Body(r)>>
    <3>1. \A i \in 1..1 : i = 1 /\ i - 1 = 0
      OBVIOUS
    <3>2. \A i \in 1..1 : Body(Rests(b)[i - 1]) = Body(r)
      BY <2>2, <3>1
    <3>3. [i \in 1..1 |-> Body(Rests(b)[i - 1])] = [i \in 1..1 |-> Body(r)]
      BY <3>2
    <3>4. [i \in 1..1 |-> Body(r)] = <<Body(r)>>
      OBVIOUS
    <3> QED BY <3>3, <3>4
  <2>12. got' = got \o <<Body(r)>>
    BY <2>1, <2>10, <2>11 DEF HostFeed
  <2>13. Body(r) \in Bodies
    BY <2>2, <2>3, WholeWasSent
  <2> QED BY <2>1, <2>12, <2>13, AppendIsConcat DEF HostFeed, r
<1> QED BY <1>1, <1>2
---------------------------------------------------------------------------
\* While a frame that met a silent line comes in undamaged, what the parser
\* has kept ends with the part of it that has come, and what stands before
\* that cannot hide it.
Arriving(body, i) ==
  /\ wire = After(Encode(body), i)
  /\ i = Len(Encode(body)) => got = due
  /\ i # Len(Encode(body)) =>
       /\ due = Append(got, body)
       /\ \E junk \in Seq(Tokens) :
            /\ Kept = junk \o Prefix(body, i)
            /\ junk = <<>> \/ Len(junk) + i < Len(Magic)

QuietInv ==
  /\ side = "host" => ~delivered
  /\ due # None => \E body \in Bodies : \E i \in 0..Len(Encode(body)) : Arriving(body, i)

\* One token more.
LEMMA NextToken ==
  ASSUME NEW body \in Bodies, NEW i \in 0..Len(Encode(body)), i # Len(Encode(body)),
         wire = After(Encode(body), i), NEW junk \in Seq(Tokens)
  PROVE  /\ i + 1 \in 1..Len(Encode(body))
         /\ wire # <<>> /\ Tail(wire) = After(Encode(body), i + 1)
         /\ Append(junk \o Prefix(body, i), Head(wire)) = junk \o Prefix(body, i + 1)
<1> DEFINE e == Encode(body)
<1>1. e \in Seq(Tokens) /\ Len(e) \in Nat /\ i \in 0..Len(e) /\ i # Len(e) /\ wire = After(e, i)
  BY FrameTokens, LenProperties
<1>2. Prefix(body, i) = SubSeq(e, 1, i) /\ Prefix(body, i + 1) = SubSeq(e, 1, i + 1)
  BY DEF Prefix
<1> HIDE DEF e
<1>3. i + 1 \in 1..Len(e) /\ i \in Nat /\ 1 \in 1..Len(e) /\ i + 1 \in 0..Len(e) /\ Len(e) \in i..Len(e)
      /\ Len(e) \in (i + 1)..Len(e)
  BY <1>1
<1>4. wire = <<e[i + 1]>> \o After(e, i + 1)
  <2>1. SubSeq(e, i + 1, Len(e)) = <<e[i + 1]>> \o SubSeq(e, i + 1 + 1, Len(e))
    BY <1>1, <1>3, SubSeqRecursiveFirst
  <2> QED BY <1>1, <2>1, Zenon DEF After
<1>5. Head(wire) = e[i + 1] /\ Tail(wire) = After(e, i + 1)
  <2>1. Head(SubSeq(e, i + 1, Len(e))) = e[i + 1]
        /\ Tail(SubSeq(e, i + 1, Len(e))) = SubSeq(e, i + 1 + 1, Len(e))
    BY <1>1, <1>3, HeadTailOfSubSeq
  <2> QED BY <1>1, <2>1, Zenon DEF After
<1>6. wire # <<>>
  <2>1. Len(wire) = Len(e) - i
    BY <1>1, AfterIsRest
  <2> QED BY <1>1, <2>1, EmptySeq
<1>7. SubSeq(e, 1, i + 1) = SubSeq(e, 1, i) \o <<e[i + 1]>>
  <2>1. SubSeq(e, 1, i + 1) = SubSeq(e, 1, i + 1 - 1) \o <<e[i + 1]>>
    <3>1. 1 \in 1..Len(e) /\ i + 1 \in 1..Len(e)
      BY <1>3
    <3> QED BY <1>1, <3>1, SubSeqRecursiveSecond
  <2>2. i + 1 - 1 = i
    BY <1>3
  <2> QED BY <2>1, <2>2
<1> DEFINE p == Prefix(body, i)
           q == Prefix(body, i + 1)
           z == <<e[i + 1]>>
<1>8. e[i + 1] \in Tokens /\ p \in Seq(Tokens)
  BY <1>1, <1>2, <1>3, ElementOfSeq, FrontOf
<1>9. z \in Seq(Tokens) /\ q = p \o z
  BY <1>2, <1>7, <1>8
<1> HIDE DEF p, q
<1>10. Append(junk \o p, e[i + 1]) = junk \o q
  <2>1. junk \o p \in Seq(Tokens)
    BY <1>8, ConcatProperties
  <2>2. Append(junk \o p, e[i + 1]) = (junk \o p) \o z
    BY <1>8, <2>1, AppendIsConcat
  <2> HIDE DEF z
  <2>3. Cat(junk, Cat(p, z)) = Cat(Cat(junk, p), z)
    BY <1>8, <1>9, CatAssociative
  <2> QED BY <1>9, <2>2, <2>3, Zenon DEF Cat
<1> QED BY <1>3, <1>5, <1>6, <1>10 DEF e, p, q

LEMMA LastIsLast ==
  ASSUME NEW body \in Bodies, NEW i \in 0..Len(Encode(body))
  PROVE  After(Encode(body), i) = <<>> <=> i = Len(Encode(body))
<1> DEFINE e == Encode(body)
<1>1. e \in Seq(Tokens) /\ Len(e) \in Nat /\ i \in 0..Len(e)
  BY FrameTokens, LenProperties
<1> HIDE DEF e
<1>2. After(e, i) \in Seq(Tokens) /\ Len(After(e, i)) = Len(e) - i
  BY <1>1, AfterIsRest
<1>3. After(e, i) = <<>> <=> Len(After(e, i)) = 0
  BY <1>2, EmptySeq
<1> QED BY <1>1, <1>2, <1>3 DEF e

LEMMA ReceiveArrives ==
  ASSUME TypeInv, QuietInv, Receive, NEW body \in Bodies,
         NEW i \in 0..Len(Encode(body)), Arriving(body, i)
  PROVE  i + 1 \in 0..Len(Encode(body)) /\ Arriving(body, i + 1)'
<1> DEFINE e == Encode(body)
           b == Append(Kept, Head(wire))
<1>1. /\ wire # <<>> /\ wire' = Tail(wire) /\ b \in Seq(Tokens) /\ got \in Seq(Bodies)
      /\ late' = FALSE /\ due' = due /\ side' = side /\ side \in {"device", "host"}
  BY ReceiveParses DEF Receive, TypeInv, FramingTypeOK
<1>2. e \in Seq(Tokens) /\ Len(e) \in Nat /\ i \in Nat /\ i <= Len(e) /\ Len(e) > Len(Magic)
      /\ Len(Magic) \in Nat
  BY FrameTokens, LenProperties
<1>3. i # Len(e)
  <2>1. wire = After(e, i)
    BY DEF Arriving
  <2> QED BY <1>1, <2>1, LastIsLast
<1>4. due = Append(got, body) /\ wire = After(e, i)
  BY <1>3 DEF Arriving
<1>5. PICK junk \in Seq(Tokens) : /\ Kept = junk \o Prefix(body, i)
                                  /\ junk = <<>> \/ Len(junk) + i < Len(Magic)
  BY <1>3 DEF Arriving
<1>6. /\ i + 1 \in 1..Len(e) /\ Tail(wire) = After(e, i + 1)
      /\ b = junk \o Prefix(body, i + 1)
  <2>1. /\ i + 1 \in 1..Len(e) /\ Tail(wire) = After(e, i + 1)
        /\ Append(junk \o Prefix(body, i), Head(wire)) = junk \o Prefix(body, i + 1)
    BY <1>3, <1>4, NextToken
  <2> QED BY <1>5, <2>1, Zenon
<1> HIDE DEF e
<1>7. i + 1 \in 0..Len(e) /\ wire' = After(e, i + 1)
  BY <1>1, <1>2, <1>6
<1>8. junk = <<>> \/ Len(junk) + (i + 1) <= Len(Magic)
  BY <1>2, <1>5, LenProperties
<1>9. PICK rest \in Seq(Tokens) : /\ Resync(b) = rest \o Prefix(body, i + 1)
                                  /\ rest = <<>> \/ Len(rest) + (i + 1) < Len(Magic)
  <2>1. \E rest \in Seq(Tokens) :
           /\ Resync(junk \o Prefix(body, i + 1)) = rest \o Prefix(body, i + 1)
           /\ rest = <<>> \/ Len(rest) + (i + 1) < Len(Magic)
    BY <1>6, <1>8, JunkSlides DEF e
  <2> HIDE DEF b
  <2> QED BY <1>6, <2>1
<1>10. /\ Prefix(body, i + 1) \in Seq(Tokens) /\ Len(Prefix(body, i + 1)) = i + 1
       /\ i + 1 < Len(e) => ~IsWhole(Prefix(body, i + 1))
       /\ i + 1 = Len(e) => /\ IsWhole(Prefix(body, i + 1))
                            /\ FrameLen(Prefix(body, i + 1)) = Len(Prefix(body, i + 1))
                            /\ Body(Prefix(body, i + 1)) = body
  BY <1>7, PrefixParses DEF e
<1>11. IF side = "device" THEN DeviceFeed(b) ELSE HostFeed(b)
  BY Zenon DEF Receive
<1> HIDE DEF b
<1>12. CASE i + 1 = Len(e)
  <2>1. rest = <<>>
    BY <1>2, <1>9, <1>12, LenProperties
  <2>2. Resync(b) = Prefix(body, i + 1)
    BY <1>9, <1>10, <2>1, ConcatEmptySeq
  <2>3. got' = Append(got, body)
    BY <1>1, <1>10, <1>11, <1>12, <2>2, FeedWhole
  <2>4. got' = due'
    BY <1>1, <1>4, <2>3, Zenon
  <2> QED BY <1>7, <1>12, <2>4 DEF Arriving, e
<1>13. CASE i + 1 # Len(e)
  <2>1. ~IsWhole(Resync(b))
    <3>1. CASE rest = <<>>
      <4>1. Resync(b) = Prefix(body, i + 1)
        BY <1>9, <1>10, <3>1, ConcatEmptySeq
      <4>2. i + 1 < Len(e)
        BY <1>2, <1>7, <1>13
      <4> QED BY <1>10, <4>1, <4>2
    <3>2. CASE Len(rest) + (i + 1) < Len(Magic)
      <4>1. Len(rest \o Prefix(body, i + 1)) = Len(rest) + (i + 1)
        <5>1. Prefix(body, i + 1) \in Seq(Tokens)
          BY <1>10
        <5>2. Len(rest \o Prefix(body, i + 1)) = Len(rest) + Len(Prefix(body, i + 1))
          BY <5>1, ConcatProperties
        <5> QED BY <1>10, <5>2
      <4>2. Len(Resync(b)) < Len(Magic)
        BY <1>9, <3>2, <4>1, Zenon
      <4>3. Resync(b) \in Seq(Tokens)
        BY <1>1, ResyncResult DEF b
      <4>4. ~HasHeader(Resync(b))
        BY <1>2, <4>2, <4>3, LenProperties DEF HasHeader
      <4> QED BY <4>4 DEF IsWhole
    <3> QED BY <1>9, <3>1, <3>2
  <2>2. /\ buf' = Resync(b) /\ got' = got
        /\ delivered' = IF side = "device" THEN FALSE ELSE delivered
    BY <1>1, <1>11, <2>1, FeedNothing DEF b
  <2>3. ~delivered'
    <3>1. CASE side = "device"
      BY <2>2, <3>1
    <3>2. CASE side = "host"
      BY <2>2, <3>2 DEF QuietInv
    <3> QED BY <1>1, <3>1, <3>2
  <2>4. Kept' = Resync(b)
    BY <1>1, <2>2, <2>3 DEF Kept
  <2>5. due' = Append(got', body)
    BY <1>1, <1>4, <2>2, Zenon
  <2>6. Kept' = rest \o Prefix(body, i + 1)
    BY <1>9, <2>4, Zenon
  <2> QED BY <1>7, <1>9, <1>13, <2>5, <2>6, Zenon DEF Arriving, e
<1> QED BY <1>12, <1>13

LEMMA InitQuiet == Init => QuietInv
BY DEF Init, QuietInv

LEMMA SendQuiet ==
  ASSUME TypeInv, QuietInv, NEW body \in Bodies, Send(body)
  PROVE  QuietInv'
<1> DEFINE e == Encode(body)
<1>1. UNCHANGED <<side, buf, late, delivered, got>> /\ wire' = wire \o e
  BY DEF Send
<1>2. side' = "host" => ~delivered'
  BY <1>1 DEF QuietInv
<1>3. SUFFICES ASSUME due' # None PROVE Arriving(body, 0)'
  <2>1. 0 \in 0..Len(e)
    BY FrameTokens, LenProperties
  <2> QED BY <1>2, <1>3, <2>1, Zenon DEF QuietInv
<1>4. Silent /\ due' = Append(got', body)
  BY <1>1, <1>3 DEF Send
<1>5. e \in Seq(Tokens) /\ Len(e) \in Nat /\ Len(e) # 0 /\ Len(Magic) \in Nat /\ Len(Magic) >= 1
  BY FrameTokens, LenProperties
<1>6. wire' = After(e, 0)
  <2>1. wire' = <<>> \o e
    BY <1>1, <1>4 DEF Silent
  <2>2. wire' = e
    BY <1>5, <2>1, ConcatEmptySeq
  <2>3. After(e, 0) = e
    BY <1>5, SubSeqFull DEF After
  <2> QED BY <2>2, <2>3
<1>7. Kept \in Seq(Tokens) /\ (Kept = <<>> \/ Len(Kept) + 0 < Len(Magic))
  <2>1. Kept \in Seq(Tokens)
    BY KeptIsTokens DEF TypeInv
  <2>2. CASE late \/ delivered
    BY <2>1, <2>2 DEF Kept
  <2>3. CASE ~(late \/ delivered)
    <3>1. Kept = buf /\ Len(buf) < Len(Magic)
      BY <1>4, <2>3 DEF Silent, Kept
    <3> QED BY <1>5, <2>1, <3>1, LenProperties
  <2> QED BY <2>2, <2>3
<1>8. Kept' = Kept
  BY <1>1 DEF Kept
<1>9. Kept' = Kept \o Prefix(body, 0)
  <2>1. Prefix(body, 0) = <<>>
    BY SubSeqEmpty DEF Prefix
  <2> QED BY <1>7, <1>8, <2>1, ConcatEmptySeq
<1> QED BY <1>4, <1>5, <1>6, <1>7, <1>9, Zenon DEF Arriving, e

LEMMA NextQuiet == TypeInv /\ QuietInv /\ [Next]_vars => QuietInv'
<1> SUFFICES ASSUME TypeInv, QuietInv, [Next]_vars PROVE QuietInv'
  OBVIOUS
<1>1. CASE \E body \in Bodies : Send(body)
  BY <1>1, SendQuiet
<1>2. CASE \E n \in Bytes : Fault(n)
  BY <1>2 DEF Fault, QuietInv
<1>3. CASE Receive
  <2>1. side' = side /\ due' = due
    BY <1>3 DEF Receive
  <2>2. side' = "host" => ~delivered'
    <3>1. side # "device" => delivered' = delivered
      BY <1>3 DEF Receive, HostFeed
    <3> QED BY <2>1, <3>1 DEF QuietInv
  <2>3. ASSUME due' # None
        PROVE  \E body \in Bodies : \E i \in 0..Len(Encode(body)) : Arriving(body, i)'
    <3>1. PICK body \in Bodies : \E i \in 0..Len(Encode(body)) : Arriving(body, i)
      BY <2>1, <2>3 DEF QuietInv
    <3>2. PICK i \in 0..Len(Encode(body)) : Arriving(body, i)
      BY <3>1
    <3>3. i + 1 \in 0..Len(Encode(body)) /\ Arriving(body, i + 1)'
      BY <1>3, <3>2, ReceiveArrives
    <3> QED BY <3>3
  <2> QED BY <2>2, <2>3, Zenon DEF QuietInv
<1>4. CASE Wait
  <2>1. /\ UNCHANGED <<side, wire, buf, delivered, got>>
        /\ due' = IF wire = <<>> THEN due ELSE None
    BY <1>4 DEF Wait
  <2>2. side' = "host" => ~delivered'
    BY <2>1 DEF QuietInv
  <2>3. ASSUME due' # None
        PROVE  \E body \in Bodies : \E i \in 0..Len(Encode(body)) : Arriving(body, i)'
    <3>1. wire = <<>> /\ due' = due
      BY <2>1, <2>3
    <3>2. PICK body \in Bodies : \E i \in 0..Len(Encode(body)) : Arriving(body, i)
      BY <2>3, <3>1 DEF QuietInv
    <3>3. PICK i \in 0..Len(Encode(body)) : Arriving(body, i)
      BY <3>2
    <3>4. i = Len(Encode(body))
      <4>1. wire = After(Encode(body), i)
        BY <3>3 DEF Arriving
      <4> QED BY <3>1, <4>1, LastIsLast
    <3>5. Arriving(body, i)'
      BY <2>1, <3>1, <3>3, <3>4, Zenon DEF Arriving
    <3> QED BY <3>5
  <2> QED BY <2>2, <2>3, Zenon DEF QuietInv
<1>5. CASE UNCHANGED vars
  BY <1>5, Zenon DEF vars, QuietInv, Arriving, Kept
<1> QED BY <1>1, <1>2, <1>3, <1>4, <1>5 DEF Next

\* ssdu_feed and Frames.feed pass on a frame that is sent on a silent line
\* and left alone, whatever has come before it.
THEOREM QuietFramesArrive == Spec => []QuietFrameArrives
<1>1. QuietInv => QuietFrameArrives
  <2>1. SUFFICES ASSUME QuietInv, due # None, wire = <<>> PROVE got = due
    BY DEF QuietFrameArrives
  <2>2. PICK body \in Bodies : \E i \in 0..Len(Encode(body)) : Arriving(body, i)
    BY <2>1 DEF QuietInv
  <2>3. PICK i \in 0..Len(Encode(body)) : Arriving(body, i)
    BY <2>2
  <2>4. i = Len(Encode(body))
    BY <2>1, <2>3, LastIsLast DEF Arriving
  <2> QED BY <2>3, <2>4 DEF Arriving
<1> QED BY <1>1, InitQuiet, NextQuiet, TypesHold, PTL DEF Spec
===========================================================================
