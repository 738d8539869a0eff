--------------------------- MODULE KL02WireProofs ---------------------------
(***************************************************************************)
(* From the wire to the values, for every word and byte of noise and every *)
(* way to cut a line into chunks: a frame behind up to MAX_FRAME_LENGTH    *)
(* bytes of garbage without a start byte is found (FrameIsFound), a buffer *)
(* in which frames are found no more stays like that (DeafForever), hence  *)
(* an answer is handled or the buffer is deaf (AnswersAreHandled); what is *)
(* handled is what was sent, with the words it was sent with, and the      *)
(* bands and the filter those words run into have no gap.                  *)
(***************************************************************************)
EXTENDS KL02Wire, SequenceTheorems, FiniteSetTheorems,
        NaturalsInduction, WellFoundedInduction, TLAPS

(* A whole frame: the length is the one it states, and the checksum is the *)
(* one of the bytes before it.                                             *)
IsFrame(w) ==
    /\ Len(w) >= MIN_FRAME_LENGTH
    /\ w[1] = STX
    /\ Len(w) = w[2] + 2
    /\ w[Len(w)] = calc_checksum(SubSeq(w, 1, Len(w) - 1))

-----------------------------------------------------------------------------
LEMMA ByteRange ==
    ASSUME NEW b \in Bytes
    PROVE  b \in Int /\ 0 <= b /\ b <= 255
  BY DEF Bytes

(* Min picks the smallest element.                                         *)
LEMMA MinIs ==
    ASSUME NEW S \in SUBSET Int, NEW m \in S, \A x \in S : m <= x
    PROVE  Min(S) = m
  <1>1. \A y \in S : m <= y
    OBVIOUS
  <1>2. \A x \in S : (\A y \in S : x <= y) => x = m
    <2> SUFFICES ASSUME NEW x \in S, \A y \in S : x <= y
                 PROVE  x = m
      OBVIOUS
    <2>1. x <= m /\ m <= x /\ x \in Int /\ m \in Int
      OBVIOUS
    <2> QED
      BY <2>1
  <1>3. (CHOOSE x \in S : \A y \in S : x <= y) = m
    BY <1>1, <1>2
  <1> QED
    BY <1>3 DEF Min

(* How far the search goes, without Min.                                   *)
LEMMA LimitIs ==
    ASSUME NEW f \in Seq(Bytes), Len(f) >= MIN_FRAME_LENGTH
    PROVE  /\ Limit(f) \in Nat
           /\ Limit(f) = IF Len(f) - 4 <= 261 THEN Len(f) - 4 ELSE 261
  <1>1. Len(f) \in Nat
    OBVIOUS
  <1>2. CASE Len(f) - 4 <= 261
    <2>1. Min({Len(f) - 4, 261}) = Len(f) - 4
      BY <1>1, <1>2, MinIs
    <2> QED
      BY <1>1, <1>2, <2>1 DEF Limit, MIN_FRAME_LENGTH, MAX_FRAME_LENGTH
  <1>3. CASE ~(Len(f) - 4 <= 261)
    <2>1. /\ {Len(f) - 4, 261} \in SUBSET Int
          /\ 261 \in {Len(f) - 4, 261}
          /\ \A x \in {Len(f) - 4, 261} : 261 <= x
      BY <1>1, <1>3
    <2>2. Min({Len(f) - 4, 261}) = 261
      BY <2>1, MinIs
    <2> QED
      BY <1>1, <1>3, <2>2 DEF Limit, MIN_FRAME_LENGTH, MAX_FRAME_LENGTH
  <1> QED
    BY <1>2, <1>3

(* The search goes as far as it ever does from 265 bytes on.               *)
LEMMA LimitIsFull ==
    ASSUME NEW f \in Seq(Bytes)
    PROVE  Limit(f) = MAX_FRAME_LENGTH + 1 <=> Len(f) >= 265
  <1>1. Len(f) \in Nat /\ MAX_FRAME_LENGTH + 1 = 261
    BY DEF MAX_FRAME_LENGTH
  <1>2. CASE Len(f) >= 5
    <2>1. Len(f) >= MIN_FRAME_LENGTH
      BY <1>2 DEF MIN_FRAME_LENGTH
    <2>2. Limit(f) = IF Len(f) - 4 <= 261 THEN Len(f) - 4 ELSE 261
      BY <2>1, LimitIs
    <2> DEFINE n == Len(f)
    <2>3. n \in Nat /\ Limit(f) = IF n - 4 <= 261 THEN n - 4 ELSE 261
      BY <1>1, <2>2
    <2> HIDE DEF n
    <2>4. Limit(f) = 261 <=> n >= 265
      BY <2>3
    <2> QED
      BY <1>1, <2>4 DEF n
  <1>3. CASE ~(Len(f) >= 5)
    <2>1. Limit(f) = 0
      BY <1>1, <1>3 DEF Limit, MIN_FRAME_LENGTH
    <2> QED
      BY <1>1, <1>3, <2>1
  <1> QED
    BY <1>2, <1>3

(* A frame at the first position.                                          *)
LEMMA FrameAtFront ==
    ASSUME NEW f, f[2] \in Int, Len(f) \in Int
    PROVE  FrameAt(f, 1) <=> /\ f[2] >= 3
                             /\ f[2] + 2 <= Len(f)
                             /\ f[f[2] + 2] = calc_checksum(SubSeq(f, 1, f[2] + 1))
  <1>1. TotalLength(f, 1) = f[2] + 2
    <2>1. 1 + 1 = 2
      OBVIOUS
    <2> QED
      BY <2>1, Zenon DEF TotalLength
  <1> DEFINE T == TotalLength(f, 1)
  <1>2. /\ 1 + 1 = 2
        /\ 1 + T - 1 = f[2] + 2
        /\ (1 + T - 1) - 1 = f[2] + 1
        /\ T <= Len(f) - 1 + 1 <=> f[2] + 2 <= Len(f)
    BY <1>1
  <1>3. FrameAt(f, 1) <=> /\ f[1 + 1] >= 3
                          /\ T <= Len(f) - 1 + 1
                          /\ f[1 + T - 1] = calc_checksum(SubSeq(f, 1, (1 + T - 1) - 1))
    BY Zenon DEF FrameAt
  <1> HIDE DEF T
  <1>4. f[1 + 1] = f[2] /\ f[1 + T - 1] = f[f[2] + 2]
    BY <1>2, Zenon
  <1>5. SubSeq(f, 1, (1 + T - 1) - 1) = SubSeq(f, 1, f[2] + 1)
    BY <1>2, Zenon
  <1> QED
    BY <1>2, <1>3, <1>4, <1>5, Zenon

-----------------------------------------------------------------------------
(* A frame that comes behind garbage without a start byte, no longer than  *)
(* MAX_FRAME_LENGTH, is found and moved to the front of the buffer,        *)
(* whatever follows it (check_frame with garbage g, frame w, rest t).      *)
THEOREM FrameIsFound ==
    ASSUME NEW g \in Seq(Bytes), NEW w \in Seq(Bytes), NEW t \in Seq(Bytes),
           Len(g) <= MAX_FRAME_LENGTH,
           \A i \in 1 .. Len(g) : g[i] # STX,
           IsFrame(w)
    PROVE  check_frame(g \o (w \o t)) = [frame |-> w \o t, valid |-> TRUE]
  <1> DEFINE r == w \o t
             f == g \o r
             p == Len(g) + 1
  <1>1. /\ Len(g) \in Nat /\ Len(w) \in Nat /\ Len(t) \in Nat
        /\ r \in Seq(Bytes) /\ Len(r) = Len(w) + Len(t)
        /\ f \in Seq(Bytes) /\ Len(f) = Len(g) + Len(r)
    BY ConcatProperties
  <1>2. \A i \in 1 .. Len(w) : r[i] = w[i]
    BY <1>1, ConcatProperties
  <1>3. /\ \A i \in 1 .. Len(g) : f[i] = g[i]
        /\ \A i \in 1 .. Len(w) : f[Len(g) + i] = w[i]
    <2>1. \A i \in 1 .. Len(g) : f[i] = g[i]
      BY <1>1, ConcatProperties
    <2>2. \A i \in 1 .. Len(w) : f[Len(g) + i] = r[i]
      BY <1>1, ConcatProperties
    <2> QED
      BY <1>2, <2>1, <2>2
  <1>4. Len(w) >= 5 /\ Len(g) <= 260
    BY DEF IsFrame, MIN_FRAME_LENGTH, MAX_FRAME_LENGTH
  <1>5. Limit(f) \in Nat /\ p <= Limit(f)
    <2>1. Len(f) >= MIN_FRAME_LENGTH /\ p <= Len(f) - 4 /\ p <= 261
      BY <1>1, <1>4 DEF MIN_FRAME_LENGTH
    <2> HIDE DEF f, p
    <2>2. p \in Int /\ Len(f) \in Int
      BY <1>1 DEF p
    <2>3. /\ Limit(f) \in Nat
          /\ Limit(f) = IF Len(f) - 4 <= 261 THEN Len(f) - 4 ELSE 261
      BY <1>1, <2>1, LimitIs
    <2> QED
      BY <2>1, <2>2, <2>3
  <1>6. p \in StartsAt(f)
    <2>1. f[p] = w[1]
      BY <1>1, <1>3, <1>4
    <2>2. p \in 1 .. Limit(f)
      BY <1>1, <1>5
    <2> HIDE DEF f, p
    <2> QED
      BY <2>1, <2>2 DEF StartsAt, IsFrame
  <1>7. FrameAt(f, p)
    <2>1. f[p + 1] = w[2] /\ w[2] \in Int
      <3>1. f[Len(g) + 2] = w[2]
        BY <1>1, <1>3, <1>4
      <3>2. p + 1 = Len(g) + 2
        BY <1>1
      <3>3. w[2] \in Int
        <4>1. 2 \in 1 .. Len(w)
          BY <1>1, <1>4
        <4>2. w[2] \in Bytes
          BY <4>1
        <4> QED
          BY <4>2, ByteRange
      <3> QED
        BY <3>1, <3>2, <3>3
    <2>2. f[p + 1] >= 3 /\ TotalLength(f, p) = Len(w)
      BY <1>1, <1>4, <2>1 DEF TotalLength, IsFrame
    <2>3. TotalLength(f, p) <= Len(f) - p + 1
      BY <1>1, <2>2
    <2>4. SubSeq(f, p, Len(g) + Len(w) - 1) = SubSeq(w, 1, Len(w) - 1)
      <3> DEFINE a == SubSeq(f, p, Len(g) + Len(w) - 1)
                 b == SubSeq(w, 1, Len(w) - 1)
      <3>1. /\ a \in Seq(Bytes) /\ Len(a) = Len(w) - 1
            /\ \A i \in 1 .. Len(w) - 1 : a[i] = f[p + i - 1]
        <4>1. \A i \in p .. Len(g) + Len(w) - 1 : f[i] \in Bytes
          BY <1>1
        <4>2. p \in Int /\ Len(g) + Len(w) - 1 \in Int
          BY <1>1
        <4>3. Len(g) + Len(w) - 1 - p + 1 = Len(w) - 1 /\ p <= Len(g) + Len(w) - 1
          BY <1>1, <1>4
        <4> QED
          BY <4>1, <4>2, <4>3, SubSeqProperties
      <3>2. /\ b \in Seq(Bytes) /\ Len(b) = Len(w) - 1
            /\ \A i \in 1 .. Len(w) - 1 : b[i] = w[i]
        <4>1. \A i \in 1 .. Len(w) - 1 : w[i] \in Bytes
          BY <1>1
        <4> QED
          BY <1>1, <1>4, <4>1, SubSeqProperties
      <3>3. \A i \in 1 .. Len(w) - 1 : a[i] = b[i]
        BY <1>1, <1>3, <3>1, <3>2
      <3> HIDE DEF a, b
      <3>4. a = b
        BY <3>1, <3>2, <3>3, SeqEqual
      <3> QED
        BY <3>4 DEF a, b
    <2>5. f[Len(g) + Len(w)] = w[Len(w)]
      BY <1>1, <1>3, <1>4
    <2>6. p + TotalLength(f, p) - 1 = Len(g) + Len(w)
      <3>1. p + Len(w) - 1 = Len(g) + Len(w)
        BY <1>1
      <3> HIDE DEF f, p
      <3> QED
        BY <2>2, <3>1
    <2> HIDE DEF f, p
    <2>7. f[Len(g) + Len(w)] = calc_checksum(SubSeq(f, p, Len(g) + Len(w) - 1))
      BY <2>4, <2>5 DEF IsFrame
    <2> QED
      BY <2>2, <2>3, <2>6, <2>7 DEF FrameAt
  <1>8. \A i \in FramesIn(f) : p <= i
    <2>1. \A i \in 1 .. Len(g) : f[i] # STX
      BY <1>3
    <2> HIDE DEF f
    <2> QED
      BY <1>1, <1>5, <2>1 DEF FramesIn, StartsAt
  <1>9. Min(FramesIn(f)) = p
    <2>1. p \in FramesIn(f)
      BY <1>6, <1>7 DEF FramesIn
    <2>2. FramesIn(f) \in SUBSET Int
      BY <1>5 DEF FramesIn, StartsAt
    <2> HIDE DEF f, p
    <2> QED
      BY <1>8, <2>1, <2>2, MinIs
  <1>10. From(f, p) = r
    <2>1. SubSeq(f, p, Len(f)) = r
      <3>1. \A i \in p .. Len(f) : f[i] \in Bytes
        BY <1>1
      <3>2. /\ SubSeq(f, p, Len(f)) \in Seq(Bytes)
            /\ Len(SubSeq(f, p, Len(f))) = Len(r)
            /\ \A i \in 1 .. Len(r) : SubSeq(f, p, Len(f))[i] = f[p + i - 1]
        <4>1. p \in Int /\ Len(f) \in Int /\ p <= Len(f) /\ Len(f) - p + 1 = Len(r)
          BY <1>1, <1>4
        <4> HIDE DEF f, p, r
        <4> QED
          BY <3>1, <4>1, SubSeqProperties
      <3>3. \A i \in 1 .. Len(r) : f[p + i - 1] = r[i]
        <4>1. \A i \in 1 .. Len(r) : f[Len(g) + i] = r[i]
          BY <1>1, ConcatProperties
        <4>2. \A i \in 1 .. Len(r) : p + i - 1 = Len(g) + i
          BY <1>1
        <4> QED
          BY <4>1, <4>2
      <3> HIDE DEF f, p, r
      <3> QED
        BY <1>1, <3>2, <3>3, SeqEqual
    <2> QED
      BY <2>1 DEF From
  <1>11. FramesIn(f) # {}
    BY <1>6, <1>7 DEF FramesIn
  <1> HIDE DEF f, p, r
  <1>12. check_frame(f) = [frame |-> r, valid |-> TRUE]
    BY <1>9, <1>10, <1>11 DEF check_frame
  <1> QED
    BY <1>12 DEF f, r

-----------------------------------------------------------------------------
(* Once a buffer is deaf, whatever is received is only appended to it: it  *)
(* stays deaf, and no frame is ever found again (push_back).               *)
THEOREM DeafForever ==
    ASSUME NEW f \in Seq(Bytes), NEW c \in Seq(Bytes), Deaf(f)
    PROVE  /\ push_back(f, c) = [frame |-> f \o c, valid |-> FALSE]
           /\ Deaf(f \o c)
  <1> DEFINE h == f \o c
  <1>1. /\ Len(f) \in Nat /\ Len(c) \in Nat
        /\ h \in Seq(Bytes) /\ Len(h) = Len(f) + Len(c)
        /\ \A i \in 1 .. Len(f) : h[i] = f[i]
    BY ConcatProperties
  <1>2. Len(f) >= 265
    BY LimitIsFull DEF Deaf
  <1>3. Limit(f) = 261 /\ Limit(h) = 261
    <2>1. Len(h) >= 265
      BY <1>1, <1>2
    <2> HIDE DEF h
    <2>2. Limit(f) = MAX_FRAME_LENGTH + 1 /\ Limit(h) = MAX_FRAME_LENGTH + 1
      BY <1>1, <1>2, <2>1, LimitIsFull
    <2> QED
      BY <2>2 DEF MAX_FRAME_LENGTH
  <1>4. StartsAt(h) = StartsAt(f)
    <2>1. \A i \in 1 .. 261 : h[i] = f[i]
      BY <1>1, <1>2
    <2> HIDE DEF h
    <2> QED
      BY <1>3, <2>1 DEF StartsAt
  <1>5. StartsAt(f) \subseteq {1}
    BY DEF Deaf
  <1>6. FramesIn(h) = {}
    <2> SUFFICES ASSUME 1 \in StartsAt(f), FrameAt(h, 1)
                 PROVE  FrameAt(f, 1)
      BY <1>4, <1>5 DEF FramesIn, Deaf
    <2>1. f[2] \in Int /\ 0 <= f[2] /\ f[2] <= 255
      <3>1. f[2] \in Bytes
        BY <1>1, <1>2
      <3> QED
        BY <3>1, ByteRange
    <2>2. h[2] = f[2]
      BY <1>1, <1>2
    <2>3. Len(f) \in Int /\ Len(h) \in Int /\ h[2] \in Int
      BY <1>1, <2>1, <2>2
    <2> HIDE DEF h
    <2>4. h[2] >= 3 /\ h[h[2] + 2] = calc_checksum(SubSeq(h, 1, h[2] + 1))
      BY <2>3, FrameAtFront
    <2>5. f[2] + 2 \in 1 .. Len(f) /\ f[2] + 1 \in 1 .. Len(f) /\ 1 \in 1 .. Len(f)
      BY <1>1, <1>2, <2>1
    <2>6. h[f[2] + 2] = f[f[2] + 2]
      BY <1>1, <2>5
    <2>7. SubSeq(h, 1, f[2] + 1) = SubSeq(f, 1, f[2] + 1)
      BY <2>5, SubSeqOfConcat1 DEF h
    <2>8. f[f[2] + 2] = calc_checksum(SubSeq(f, 1, f[2] + 1))
      BY <2>2, <2>4, <2>6, <2>7, Zenon
    <2>9. f[2] >= 3 /\ f[2] + 2 <= Len(f)
      BY <2>2, <2>4, <2>5
    <2> QED
      BY <2>1, <2>3, <2>8, <2>9, FrameAtFront
  <1>7. check_frame(h) = [frame |-> h, valid |-> FALSE]
    <2>1. CASE StartsAt(h) = {}
      BY <1>6, <2>1 DEF check_frame
    <2>2. CASE StartsAt(h) # {}
      <3>1. StartsAt(h) = {1}
        BY <1>4, <1>5, <2>2
      <3>2. Max({1}) = 1
        BY DEF Max
      <3>3. From(h, 1) = h
        BY <1>1, SubSeqFull DEF From
      <3>4. Limit(h) = MAX_FRAME_LENGTH + 1 /\ {1} # {}
        BY <1>3 DEF MAX_FRAME_LENGTH
      <3> HIDE DEF h
      <3> QED
        BY <1>6, <3>1, <3>2, <3>3, <3>4, Zenon DEF check_frame
    <2> QED
      BY <2>1, <2>2
  <1>8. Deaf(h)
    BY <1>3, <1>4, <1>5, <1>6 DEF Deaf, MAX_FRAME_LENGTH
  <1> QED
    BY <1>7, <1>8 DEF push_back

-----------------------------------------------------------------------------
(* What the constructor builds.                                            *)

(* The part of a sequence from m to k.                                     *)
LEMMA CutIs ==
    ASSUME NEW s \in Seq(Bytes), NEW m \in Int, NEW k \in Int,
           1 <= m, m <= k + 1, k <= Len(s)
    PROVE  /\ SubSeq(s, m, k) \in Seq(Bytes)
           /\ Len(SubSeq(s, m, k)) = k - m + 1
           /\ \A i \in 1 .. k - m + 1 : SubSeq(s, m, k)[i] = s[m + i - 1]
  <1>1. Len(s) \in Nat /\ \A i \in 1 .. Len(s) : s[i] \in Bytes
    BY LenProperties, ElementOfSeq
  <1>2. \A i \in m .. k : s[i] \in Bytes
    BY <1>1
  <1>3. /\ SubSeq(s, m, k) \in Seq(Bytes)
        /\ Len(SubSeq(s, m, k)) = IF m <= k THEN k - m + 1 ELSE 0
        /\ \A i \in 1 .. k - m + 1 : SubSeq(s, m, k)[i] = s[m + i - 1]
    BY <1>2, SubSeqProperties
  <1> QED
    BY <1>3

LEMMA ParityIsBit ==
    ASSUME NEW s \in Seq(Bytes), NEW b
    PROVE  Parity(s, b) \in {0, 1}
  <1> DEFINE D == {i \in DOMAIN s : (s[i] \div b) % 2 = 1}
  <1>1. DOMAIN s = 1 .. Len(s) /\ Len(s) \in Nat
    BY LenProperties
  <1>2. IsFiniteSet(DOMAIN s)
    BY <1>1, FS_Interval
  <1>3. D \in SUBSET DOMAIN s
    OBVIOUS
  <1>4. IsFiniteSet(D)
    BY <1>2, <1>3, FS_Subset
  <1> HIDE DEF D
  <1>5. Cardinality(D) \in Nat
    BY <1>4, FS_CardinalityType
  <1>6. Cardinality(D) % 2 \in {0, 1}
    BY <1>5
  <1> QED
    BY <1>6 DEF D, Parity

LEMMA ChecksumIsByte ==
    ASSUME NEW s \in Seq(Bytes)
    PROVE  calc_checksum(s) \in Bytes
  <1>1. /\ Parity(s, 1) \in {0, 1} /\ Parity(s, 2) \in {0, 1}
        /\ Parity(s, 4) \in {0, 1} /\ Parity(s, 8) \in {0, 1}
        /\ Parity(s, 16) \in {0, 1} /\ Parity(s, 32) \in {0, 1}
        /\ Parity(s, 64) \in {0, 1} /\ Parity(s, 128) \in {0, 1}
    BY ParityIsBit
  <1>2. PICK a, b, c, d, e, f, g, h \in {0, 1} :
            /\ Parity(s, 1) = a /\ Parity(s, 2) = b /\ Parity(s, 4) = c
            /\ Parity(s, 8) = d /\ Parity(s, 16) = e /\ Parity(s, 32) = f
            /\ Parity(s, 64) = g /\ Parity(s, 128) = h
    BY <1>1
  <1>3. calc_checksum(s) =
            1 * a + 2 * b + 4 * c + 8 * d + 16 * e + 32 * f + 64 * g + 128 * h
    BY <1>2 DEF calc_checksum
  <1>4. /\ a \in 0 .. 1 /\ b \in 0 .. 1 /\ c \in 0 .. 1 /\ d \in 0 .. 1
        /\ e \in 0 .. 1 /\ f \in 0 .. 1 /\ g \in 0 .. 1 /\ h \in 0 .. 1
    OBVIOUS
  <1> QED
    BY <1>3, <1>4 DEF Bytes

LEMMA FrameBuilt ==
    ASSUME NEW data \in Seq(Bytes), Len(data) \in 1 .. 4, NEW svc \in Bytes
    PROVE  LET a == NewFrame(ADR, svc, data)
           IN  /\ a \in Seq(Bytes) /\ Len(a) = Len(data) + 5
               /\ a[1] = STX /\ a[2] = Len(data) + 3 /\ a[3] = ADR /\ a[4] = svc
               /\ IsFrame(a)
  <1> DEFINE n == Len(data)
             a == NewFrame(ADR, svc, data)
             h == <<STX, n + 3, ADR, svc>>
             f == h \o data
             c == calc_checksum(f)
  <1>1. /\ n \in 1 .. 4
        /\ (3 + n) % 256 = n + 3
        /\ h \in Seq(Bytes) /\ Len(h) = 4
        /\ h[1] = STX /\ h[2] = n + 3 /\ h[3] = ADR /\ h[4] = svc
    <2>1. n \in 1 .. 4
      OBVIOUS
    <2> HIDE DEF n
    <2>2. (3 + n) % 256 = n + 3
      BY <2>1
    <2>3. /\ STX \in Bytes /\ n + 3 \in Bytes /\ ADR \in Bytes /\ svc \in Bytes
      BY <2>1 DEF Bytes, STX, ADR
    <2>4. h \in Seq(Bytes)
      BY <2>3
    <2> QED
      BY <2>1, <2>2, <2>4
  <1>2. a = Append(f, c)
    BY <1>1 DEF NewFrame
  <1> HIDE DEF h, n, a
  <1>3. /\ f \in Seq(Bytes) /\ Len(f) = n + 4
        /\ f[1] = STX /\ f[2] = n + 3 /\ f[3] = ADR /\ f[4] = svc
        /\ \A i \in 1 .. n : f[i + 4] = data[i]
    <2>1. /\ f \in Seq(Bytes) /\ Len(f) = 4 + Len(data)
          /\ \A i \in 1 .. 4 + Len(data) : f[i] = IF i <= 4 THEN h[i] ELSE data[i - 4]
      <3>1. /\ f \in Seq(Bytes) /\ Len(f) = Len(h) + Len(data)
            /\ \A i \in 1 .. Len(h) + Len(data) :
                   f[i] = IF i <= Len(h) THEN h[i] ELSE data[i - Len(h)]
        BY <1>1, ConcatProperties
      <3> QED
        BY <1>1, <3>1
    <2>2. Len(data) = n
      BY DEF n
    <2> HIDE DEF f
    <2> QED
      BY <1>1, <2>1, <2>2
  <1>4. c \in Bytes
    BY <1>3, ChecksumIsByte
  <1> HIDE DEF f, c
  <1>5. /\ a \in Seq(Bytes) /\ Len(a) = n + 5
        /\ \A i \in 1 .. n + 4 : a[i] = f[i]
        /\ a[n + 5] = c
    BY <1>1, <1>2, <1>3, <1>4, AppendProperties
  <1>6. a[1] = STX /\ a[2] = n + 3 /\ a[3] = ADR /\ a[4] = svc
    BY <1>1, <1>3, <1>5
  <1>7. SubSeq(a, 1, Len(a) - 1) = f
    <2>1. Len(a) - 1 = n + 4 /\ 1 \in Int /\ n + 4 \in Int
      BY <1>1, <1>5
    <2>3. /\ SubSeq(a, 1, n + 4) \in Seq(Bytes)
          /\ Len(SubSeq(a, 1, n + 4)) = n + 4
          /\ \A i \in 1 .. n + 4 : SubSeq(a, 1, n + 4)[i] = a[i]
      <3> DEFINE k == n + 4
      <3>1. k \in Int /\ 1 \in Int /\ 1 <= 1 /\ 1 <= k + 1 /\ k <= Len(a)
        BY <1>1, <1>5
      <3> HIDE DEF k
      <3>2. /\ SubSeq(a, 1, k) \in Seq(Bytes)
            /\ Len(SubSeq(a, 1, k)) = k - 1 + 1
            /\ \A i \in 1 .. k - 1 + 1 : SubSeq(a, 1, k)[i] = a[1 + i - 1]
        BY <1>5, <3>1, CutIs
      <3>3. /\ SubSeq(a, 1, k) \in Seq(Bytes) /\ Len(SubSeq(a, 1, k)) = k
            /\ \A i \in 1 .. k : SubSeq(a, 1, k)[i] = a[i]
        BY <3>1, <3>2
      <3> QED
        BY <3>3 DEF k
    <2>4. /\ Len(SubSeq(a, 1, n + 4)) = Len(f)
          /\ \A i \in 1 .. Len(SubSeq(a, 1, n + 4)) : SubSeq(a, 1, n + 4)[i] = f[i]
      BY <1>1, <1>3, <1>5, <2>3
    <2>5. SubSeq(a, 1, n + 4) = f
      BY <1>3, <2>3, <2>4, SeqEqual
    <2> QED
      BY <2>1, <2>5
  <1>8. IsFrame(a)
    <2>1. a[Len(a)] = calc_checksum(SubSeq(a, 1, Len(a) - 1))
      BY <1>5, <1>7 DEF c
    <2> QED
      BY <1>1, <1>5, <1>6, <2>1 DEF IsFrame, MIN_FRAME_LENGTH
  <1> QED
    BY <1>5, <1>6, <1>8 DEF n, a

-----------------------------------------------------------------------------
(* What the KL02 answers with.                                             *)

LEMMA BytesOfWord ==
    ASSUME NEW w \in Int, 0 <= w, w <= 65535
    PROVE  /\ w % 256 \in 0 .. 255 /\ w \div 256 \in 0 .. 255
           /\ 256 * (w \div 256) + (w % 256) = w
           /\ w \div 256 >= 128 <=> w > 32767
  <1> DEFINE q == w \div 256
             r == w % 256
  <1>1. q \in Int /\ r \in Int
    OBVIOUS
  <1>2. 0 <= q
    OBVIOUS
  <1>3. q <= 255
    OBVIOUS
  <1>4. 0 <= r /\ r <= 255
    OBVIOUS
  <1>5. 256 * q + r = w
    OBVIOUS
  <1> HIDE DEF q, r
  <1>6. r \in 0 .. 255 /\ q \in 0 .. 255 /\ (q >= 128 <=> w > 32767)
    BY <1>1, <1>2, <1>3, <1>4, <1>5
  <1> QED
    BY <1>5, <1>6 DEF q, r

(* The range of a word is given a name before the provers see it.          *)
LEMMA WordRange ==
    ASSUME NEW w
    PROVE  w \in Words <=> w \in Int /\ 0 <= w /\ w <= 65535
  <1> DEFINE m == 65535
  <1>1. Words = 0 .. m
    BY DEF Words
  <1>2. m \in Int
    OBVIOUS
  <1>3. m = 65535
    OBVIOUS
  <1> HIDE DEF m
  <1>4. w \in 0 .. m <=> w \in Int /\ 0 <= w /\ w <= m
    BY <1>2
  <1>5. w \in Words <=> w \in Int /\ 0 <= w /\ w <= m
    BY <1>1, <1>4
  <1> QED
    BY <1>3, <1>5

LEMMA WordIs ==
    ASSUME NEW w \in Words
    PROVE  /\ InBytes(w) \in Seq(Bytes) /\ Len(InBytes(w)) = 2
           /\ read_i16(append_u16(w)) = Signed(w)
  <1>1. w \in Int /\ 0 <= w /\ w <= 65535
    BY WordRange
  <1>2. /\ w % 256 \in Bytes /\ w \div 256 \in Bytes
        /\ 256 * (w \div 256) + (w % 256) = w
        /\ w \div 256 >= 128 <=> w > 32767
    BY <1>1, BytesOfWord DEF Bytes
  <1>3. InBytes(w) \in Seq(Bytes) /\ Len(InBytes(w)) = 2
    BY <1>2 DEF InBytes
  <1>4. read_i16(append_u16(w)) = Signed(w)
    BY <1>1, <1>2 DEF append_u16, read_i16, read_u16, Signed
  <1> QED
    BY <1>3, <1>4

LEMMA PayloadIs ==
    ASSUME service \in Asked, word \in Words
    PROVE  /\ Payload \in Seq(Bytes) /\ Len(Payload) \in 1 .. 4
           /\ service = RESET => Payload = <<word % 2>>
  <1>1. 1000 \in Words /\ 65535 - word \in Words /\ word % 2 \in Bytes
    <2>1. word \in Int /\ 0 <= word /\ word <= 65535
      BY WordRange
    <2>2. /\ 65535 - word \in Int /\ 0 <= 65535 - word /\ 65535 - word <= 65535
          /\ 1000 \in Int /\ 0 <= 1000 /\ 1000 <= 65535
      BY <2>1
    <2>3. word % 2 \in 0 .. 1
      BY <2>1
    <2>4. word % 2 \in Bytes
      BY <2>3 DEF Bytes
    <2> QED
      BY <2>2, <2>4, WordRange
  <1>2. \A v, w \in Words : /\ InBytes(v) \o InBytes(w) \in Seq(Bytes)
                            /\ Len(InBytes(v) \o InBytes(w)) = 4
    <2> SUFFICES ASSUME NEW v \in Words, NEW w \in Words
                 PROVE  /\ InBytes(v) \o InBytes(w) \in Seq(Bytes)
                        /\ Len(InBytes(v) \o InBytes(w)) = 4
      OBVIOUS
    <2> DEFINE a == InBytes(v)
               b == InBytes(w)
    <2>1. a \in Seq(Bytes) /\ Len(a) = 2 /\ b \in Seq(Bytes) /\ Len(b) = 2
      BY WordIs
    <2> HIDE DEF a, b
    <2> DEFINE e == a \o b
    <2>2. e \in Seq(Bytes) /\ Len(e) = Len(a) + Len(b)
      BY <2>1, ConcatProperties
    <2> HIDE DEF e
    <2>3. e \in Seq(Bytes) /\ Len(e) = 4
      BY <2>1, <2>2
    <2> QED
      BY <2>3 DEF e, a, b
  <1>3. CASE service = GET_PWM \/ service = GET_UCP
    <2> DEFINE u == 1000
               v == 65535 - word
    <2>0. \/ Payload = InBytes(u) \o InBytes(word)
          \/ Payload = InBytes(word) \o InBytes(v)
      BY <1>3 DEF Payload, GET_PWM, GET_UCP, RESET, PP_VOLTAGE
    <2>a. u \in Words /\ v \in Words
      BY <1>1
    <2> HIDE DEF u, v
    <2>1. \E x, w \in Words : Payload = InBytes(x) \o InBytes(w)
      BY <2>0, <2>a
    <2>2. Payload \in Seq(Bytes) /\ Len(Payload) = 4
      BY <1>2, <2>1
    <2> QED
      BY <1>3, <2>2 DEF GET_PWM, GET_UCP, RESET
  <1>4. CASE service = RESET
    <2>1. Payload = <<word % 2>>
      BY <1>4 DEF Payload, GET_PWM, GET_UCP, RESET, PP_VOLTAGE
    <2> QED
      BY <1>1, <2>1
  <1>5. CASE service = PP_VOLTAGE
    <2>1. Payload = InBytes(word)
      BY <1>5 DEF Payload, GET_PWM, GET_UCP, RESET, PP_VOLTAGE
    <2> QED
      BY <1>5, <2>1, WordIs DEF RESET, PP_VOLTAGE
  <1> QED
    BY <1>3, <1>4, <1>5 DEF Asked

LEMMA AnswerIs ==
    ASSUME service \in Asked, word \in Words
    PROVE  /\ Answer \in Seq(Bytes) /\ Len(Answer) \in 6 .. 9
           /\ Answer[1] = STX /\ Answer[2] = Len(Answer) - 2
           /\ Answer[3] # STX /\ Answer[4] >= RSP
           /\ IsFrame(Answer)
           /\ is_svc_response_frame(Answer)
  <1>1. /\ Payload \in Seq(Bytes) /\ Len(Payload) \in 1 .. 4
        /\ service + RSP \in Bytes /\ service + RSP >= RSP
    BY PayloadIs DEF Asked, GET_PWM, GET_UCP, RESET, PP_VOLTAGE, RSP, Bytes
  <1> DEFINE a == Answer
             v == service + RSP
  <1>2. a = NewFrame(ADR, v, Payload) /\ v \in Bytes /\ v >= RSP
    BY <1>1 DEF Answer
  <1> HIDE DEF a, v
  <1>3. /\ a \in Seq(Bytes) /\ Len(a) = Len(Payload) + 5
        /\ a[1] = STX /\ a[2] = Len(Payload) + 3 /\ a[3] = ADR
        /\ a[4] = v
        /\ IsFrame(a)
    BY <1>1, <1>2, FrameBuilt
  <1>4. /\ Len(a) \in 6 .. 9 /\ a[2] = Len(a) - 2
        /\ a[3] # STX /\ a[4] >= RSP
    <2> DEFINE n == Len(Payload)
    <2>1. n \in 1 .. 4 /\ Len(a) = n + 5 /\ a[2] = n + 3
      BY <1>1, <1>3
    <2> HIDE DEF n
    <2>2. Len(a) \in 6 .. 9 /\ a[2] = Len(a) - 2
      BY <2>1
    <2> QED
      BY <1>2, <1>3, <2>2 DEF ADR, STX
  <1>5. is_svc_response_frame(a)
    BY <1>4 DEF is_svc_response_frame, get_service
  <1> QED
    BY <1>3, <1>4, <1>5 DEF a

(* No byte of the answer to a RESET looks like the report of the           *)
(* bootloader: bit 6 of its checksum is not set.                           *)
LEMMA NoAckInAnswer ==
    ASSUME service = RESET, word \in Words
    PROVE  \A i \in 1 .. Len(Answer) : Answer[i] # AN2295_ACK
  <1> DEFINE a == Answer
             b == word % 2
             h == <<STX, 1 + 3, ADR, RESET + RSP>>
             t == <<b>>
             f == h \o t
             c == calc_checksum(f)
  <1>1. Payload = <<b>> /\ b \in {0, 1} /\ b \in Bytes
    <2>1. service \in Asked /\ word \in Int
      BY WordRange DEF Asked
    <2>2. Payload = <<b>>
      BY <2>1, PayloadIs
    <2>3. b \in 0 .. 1
      BY <2>1
    <2> HIDE DEF b
    <2>4. b \in {0, 1} /\ b \in Bytes
      BY <2>3 DEF Bytes
    <2> QED
      BY <2>2, <2>4
  <1> HIDE DEF b
  <1>2. /\ h \in Seq(Bytes) /\ Len(h) = 4
        /\ h[1] = 2 /\ h[2] = 4 /\ h[3] = 0 /\ h[4] = 179
        /\ t \in Seq(Bytes) /\ Len(t) = 1 /\ t[1] = b
    BY <1>1 DEF STX, ADR, RESET, RSP, Bytes
  <1>3. a = Append(f, c)
    BY <1>1 DEF Answer, NewFrame
  <1> HIDE DEF a, h, t
  <1>4. /\ f \in Seq(Bytes) /\ Len(f) = 5
        /\ \A i \in 1 .. 5 : f[i] = IF i <= 4 THEN h[i] ELSE t[i - 4]
    <2>1. /\ f \in Seq(Bytes) /\ Len(f) = Len(h) + Len(t)
          /\ \A i \in 1 .. Len(h) + Len(t) :
                 f[i] = IF i <= Len(h) THEN h[i] ELSE t[i - Len(h)]
      <3>1. h \in Seq(Bytes) /\ t \in Seq(Bytes)
        BY <1>2
      <3> QED
        BY <3>1, ConcatProperties
    <2> HIDE DEF f
    <2> QED
      BY <1>2, <2>1
  <1> HIDE DEF f
  <1>5. /\ f[1] = 2 /\ f[2] = 4 /\ f[3] = 0 /\ f[4] = 179 /\ f[5] = b
    BY <1>2, <1>4
  <1>6. Parity(f, 64) = 0
    <2>1. {i \in DOMAIN f : (f[i] \div 64) % 2 = 1} = {}
      BY <1>1, <1>4, <1>5
    <2>2. Cardinality({i \in DOMAIN f : (f[i] \div 64) % 2 = 1}) = 0
      BY <2>1, FS_EmptySet
    <2> QED
      BY <2>2 DEF Parity
  <1>7. c \in Bytes /\ c # 252
    <2>1. c \in Bytes
      BY <1>4, ChecksumIsByte
    <2>2. PICK p1, p2, p4, p8, p16, p32, p128 \in {0, 1} :
              /\ Parity(f, 1) = p1 /\ Parity(f, 2) = p2 /\ Parity(f, 4) = p4
              /\ Parity(f, 8) = p8 /\ Parity(f, 16) = p16 /\ Parity(f, 32) = p32
              /\ Parity(f, 128) = p128
      BY <1>4, ParityIsBit
    <2>3. c = 1 * p1 + 2 * p2 + 4 * p4 + 8 * p8 + 16 * p16 + 32 * p32 + 64 * 0 + 128 * p128
      BY <1>6, <2>2 DEF calc_checksum
    <2>4. /\ p1 \in 0 .. 1 /\ p2 \in 0 .. 1 /\ p4 \in 0 .. 1 /\ p8 \in 0 .. 1
          /\ p16 \in 0 .. 1 /\ p32 \in 0 .. 1 /\ p128 \in 0 .. 1
      OBVIOUS
    <2> HIDE DEF c
    <2>5. c # 252
      BY <2>3, <2>4
    <2> QED
      BY <2>1, <2>5
  <1> HIDE DEF c
  <1>8. /\ Len(a) = 6
        /\ \A i \in 1 .. 5 : a[i] = f[i]
        /\ a[6] = c
    <2>1. /\ Len(Append(f, c)) = Len(f) + 1
          /\ \A i \in 1 .. Len(f) : Append(f, c)[i] = f[i]
          /\ Append(f, c)[Len(f) + 1] = c
      <3>1. f \in Seq(Bytes) /\ c \in Bytes
        BY <1>4, <1>7
      <3> QED
        BY <3>1, AppendProperties
    <2> DEFINE e == Append(f, c)
    <2>2. Len(e) = Len(f) + 1 /\ (\A i \in 1 .. Len(f) : e[i] = f[i]) /\ e[Len(f) + 1] = c
      BY <2>1
    <2>3. a = e
      BY <1>3
    <2> HIDE DEF e
    <2> QED
      BY <1>4, <2>2, <2>3
  <1>9. \A i \in 1 .. Len(a) : a[i] # 252
    BY <1>1, <1>5, <1>7, <1>8
  <1> QED
    BY <1>9 DEF a, AN2295_ACK

-----------------------------------------------------------------------------
(* A frame of which the end is still missing is not found, whatever part   *)
(* of it and of the garbage before it is there, and if something is        *)
(* discarded it is garbage.                                                *)

StartFree(g) == \A i \in 1 .. Len(g) : g[i] # STX

(* What distinguishes an answer: a frame with the length it states and no  *)
(* further start byte among the first four.                                *)
Shape(a) ==
    /\ Len(a) \in 6 .. 9
    /\ a[1] = STX /\ a[2] = Len(a) - 2 /\ a[3] # STX /\ a[4] >= RSP

(* A frame a with nothing but garbage before it.                           *)
Behind(x, a) == \E g \in Seq(Bytes) : StartFree(g) /\ x = g \o a

LEMMA StartsUpTo ==
    ASSUME NEW f \in Seq(Bytes), NEW i \in StartsAt(f)
    PROVE  /\ i \in Int /\ 1 <= i /\ i <= Len(f) - 4 /\ i <= 261
           /\ f[i] = STX
  <1> DEFINE n == Len(f)
  <1>1. n \in Nat
    OBVIOUS
  <1>2. CASE n >= 5
    <2>1. n >= MIN_FRAME_LENGTH
      BY <1>2 DEF MIN_FRAME_LENGTH
    <2>2. /\ Limit(f) \in Nat
          /\ Limit(f) = IF n - 4 <= 261 THEN n - 4 ELSE 261
      BY <2>1, LimitIs
    <2>3. i \in 1 .. Limit(f) /\ f[i] = STX
      BY DEF StartsAt
    <2> HIDE DEF n
    <2>4. i \in Int /\ 1 <= i /\ i <= n - 4 /\ i <= 261
      BY <1>1, <2>2, <2>3
    <2> QED
      BY <2>3, <2>4 DEF n
  <1>3. CASE ~(n >= 5)
    <2>1. Limit(f) = 0
      BY <1>1, <1>3 DEF Limit, MIN_FRAME_LENGTH
    <2>2. i \in 1 .. 0
      BY <2>1 DEF StartsAt
    <2> QED
      BY <2>2
  <1> QED
    BY <1>2, <1>3

LEMMA MaxOfOne ==
    ASSUME NEW i \in Int
    PROVE  Max({i}) = i
  BY DEF Max

LEMMA FrameIncomplete ==
    ASSUME NEW a \in Seq(Bytes), Shape(a),
           NEW b \in Seq(Bytes), NEW r \in Seq(Bytes), r # <<>>,
           Behind(b \o r, a)
    PROVE  check_frame(b).valid = FALSE /\ Behind(check_frame(b).frame \o r, a)
  <1>0. PICK g \in Seq(Bytes) : StartFree(g) /\ b \o r = g \o a
    BY DEF Behind
  <1>a. /\ Len(a) \in 6 .. 9
        /\ a[1] = STX /\ a[2] = Len(a) - 2 /\ a[3] # STX /\ a[4] >= RSP
    BY DEF Shape
  <1> DEFINE x == g \o a
             y == b \o r
             L == Len(g)
             N == Len(b)
             A == Len(a)
             R == Len(r)
  <1>1. L \in Nat /\ N \in Nat /\ A \in 6 .. 9 /\ R \in Nat /\ R > 0
    BY <1>a, EmptySeq
  <1>2. x = y
    BY <1>0
  <1>3. /\ x \in Seq(Bytes) /\ Len(x) = L + A
        /\ \A i \in 1 .. L + A : x[i] = IF i <= L THEN g[i] ELSE a[i - L]
    BY ConcatProperties
  <1>4. /\ y \in Seq(Bytes) /\ Len(y) = N + R
        /\ \A i \in 1 .. N + R : y[i] = IF i <= N THEN b[i] ELSE r[i - N]
    BY ConcatProperties
  <1> HIDE DEF x, y, L, N, A, R
  <1>5. L + A = N + R /\ N < L + A
    BY <1>1, <1>2, <1>3, <1>4
  <1>6. \A i \in 1 .. L + A : (IF i <= L THEN g[i] ELSE a[i - L])
                                = (IF i <= N THEN b[i] ELSE r[i - N])
    BY <1>2, <1>3, <1>4, <1>5
  <1>7. /\ \A i \in 1 .. L : g[i] # STX
        /\ a[1] = STX /\ a[2] # STX /\ a[3] # STX /\ a[4] # STX /\ a[2] = A - 2
    <2>1. 4 \in 1 .. Len(a)
      BY <1>a
    <2>2. a[4] \in Int
      BY <2>1, ByteRange
    <2>3. a[4] # STX
      BY <1>a, <2>2 DEF STX, RSP
    <2> DEFINE n == a[2]
    <2>6. n = A - 2
      BY <1>a DEF A
    <2> HIDE DEF n
    <2>7. n # STX
      BY <1>1, <2>6 DEF STX
    <2>4. a[2] # STX /\ a[2] = A - 2
      BY <2>6, <2>7 DEF n
    <2>5. \A i \in 1 .. L : g[i] # STX
      BY <1>0 DEF StartFree, L
    <2> QED
      BY <1>a, <2>3, <2>4, <2>5
  <1>8. \A i \in StartsAt(b) : i = L + 1 /\ i <= N - 4
    <2> SUFFICES ASSUME NEW i \in StartsAt(b)
                 PROVE  i = L + 1 /\ i <= N - 4
      OBVIOUS
    <2>1. i \in Int /\ 1 <= i /\ i <= N - 4 /\ b[i] = STX
      BY StartsUpTo DEF N
    <2>2. i \in 1 .. L + A /\ i <= N
      BY <1>1, <1>5, <2>1
    <2>3. (IF i <= L THEN g[i] ELSE a[i - L]) = STX
      BY <1>6, <2>1, <2>2
    <2>4. i > L /\ a[i - L] = STX
      BY <1>1, <1>7, <2>1, <2>2, <2>3
    <2>5. i - L \in {1, 2, 3, 4}
      BY <1>1, <1>5, <2>1, <2>4
    <2>6. i - L = 1
      BY <1>7, <2>4, <2>5
    <2> QED
      BY <1>1, <2>1, <2>6
  <1>9. FramesIn(b) = {}
    <2> SUFFICES ASSUME L + 1 \in StartsAt(b), FrameAt(b, L + 1)
                 PROVE  FALSE
      BY <1>8 DEF FramesIn
    <2>1. L + 1 <= N - 4
      BY <1>8
    <2>2. b[L + 2] = a[2]
      <3> DEFINE k == L + 2
      <3>1. k \in 1 .. L + A /\ ~(k <= L) /\ k <= N /\ k - L = 2
        BY <1>1, <1>5, <2>1
      <3> HIDE DEF k
      <3>2. (IF k <= L THEN g[k] ELSE a[k - L]) = (IF k <= N THEN b[k] ELSE r[k - N])
        BY <1>6, <3>1
      <3>3. a[2] = b[k]
        BY <3>1, <3>2
      <3> QED
        BY <3>3 DEF k
    <2>3. L + 1 + 1 = L + 2
      BY <1>1
    <2>4. TotalLength(b, L + 1) = A
      BY <1>1, <1>7, <2>2, <2>3 DEF TotalLength
    <2>5. TotalLength(b, L + 1) <= N - (L + 1) + 1
      BY Zenon DEF FrameAt, N
    <2> QED
      BY <1>1, <1>5, <2>4, <2>5
  <1>10. CASE check_frame(b) = [frame |-> b, valid |-> FALSE]
    <2>1. check_frame(b).valid = FALSE /\ check_frame(b).frame = b
      BY <1>10
    <2>2. check_frame(b).frame \o r = g \o a
      BY <1>0, <2>1
    <2> QED
      BY <1>0, <2>1, <2>2 DEF Behind
  <1>11. CASE L + 1 \in StartsAt(b) /\ check_frame(b) = [frame |-> From(b, L + 1), valid |-> FALSE]
    <2> DEFINE f == From(b, L + 1)
               e == f \o r
    <2>1. L + 1 <= N - 4
      BY <1>8, <1>11
    <2>2. /\ f \in Seq(Bytes) /\ Len(f) = N - L
          /\ \A i \in 1 .. N - L : f[i] = b[L + i]
      <3> DEFINE m == L + 1
      <3>1. m \in Int /\ N \in Int /\ 1 <= m /\ m <= N + 1 /\ N <= Len(b) /\ N = Len(b)
        BY <1>1, <2>1 DEF N
      <3>2. N - m + 1 = N - L /\ \A i \in 1 .. N - L : m + i - 1 = L + i
        BY <1>1
      <3> HIDE DEF m
      <3>3. /\ SubSeq(b, m, N) \in Seq(Bytes)
            /\ Len(SubSeq(b, m, N)) = N - m + 1
            /\ \A i \in 1 .. N - m + 1 : SubSeq(b, m, N)[i] = b[m + i - 1]
        BY <3>1, CutIs
      <3>4. f = SubSeq(b, m, N)
        BY DEF From, m, N
      <3> HIDE DEF f
      <3> QED
        BY <3>2, <3>3, <3>4
    <2> HIDE DEF f
    <2>3. /\ e \in Seq(Bytes) /\ Len(e) = Len(f) + Len(r)
          /\ \A i \in 1 .. Len(f) + Len(r) :
                 e[i] = IF i <= Len(f) THEN f[i] ELSE r[i - Len(f)]
      BY <2>2, ConcatProperties
    <2> HIDE DEF e
    <2>4. Len(e) = A /\ \A i \in 1 .. A : e[i] = IF i <= N - L THEN b[L + i] ELSE r[L + i - N]
      <3>1. Len(f) + Len(r) = A /\ Len(f) = N - L
        BY <1>1, <1>5, <2>2 DEF R
      <3>2. Len(e) = A
        BY <2>3, <3>1
      <3> SUFFICES ASSUME NEW i \in 1 .. A
                   PROVE  e[i] = IF i <= N - L THEN b[L + i] ELSE r[L + i - N]
        BY <3>2
      <3>3. e[i] = IF i <= N - L THEN f[i] ELSE r[i - (N - L)]
        BY <2>3, <3>1
      <3>4. i - (N - L) = L + i - N
        BY <1>1
      <3>5. i <= N - L => f[i] = b[L + i]
        <4>1. i <= N - L => i \in 1 .. N - L
          BY <1>1
        <4> QED
          BY <2>2, <4>1
      <3> QED
        BY <3>3, <3>4, <3>5
    <2>5. \A i \in 1 .. A : e[i] = a[i]
      <3> SUFFICES ASSUME NEW i \in 1 .. A
                   PROVE  e[i] = a[i]
        OBVIOUS
      <3>0. PICK k \in Int : k = L + i
        BY <1>1
      <3>1. k \in 1 .. L + A /\ ~(k <= L) /\ k - L = i
        BY <1>1, <3>0
      <3>2. (IF k <= L THEN g[k] ELSE a[k - L]) = (IF k <= N THEN b[k] ELSE r[k - N])
        BY <1>6, <3>1
      <3>3. a[i] = IF k <= N THEN b[k] ELSE r[k - N]
        BY <3>1, <3>2
      <3>4. a[i] = IF L + i <= N THEN b[L + i] ELSE r[L + i - N]
        BY <1>1, <3>0, <3>3
      <3>5. L + i <= N <=> i <= N - L
        BY <1>1
      <3> QED
        BY <2>4, <3>4, <3>5
    <2>6. e = a
      BY <2>3, <2>4, <2>5, SeqEqual DEF A
    <2>7. <<>> \in Seq(Bytes) /\ StartFree(<<>>) /\ <<>> \o a = a
      BY ConcatEmptySeq DEF StartFree
    <2>8. check_frame(b).valid = FALSE /\ check_frame(b).frame = f
      BY <1>11 DEF f
    <2>9. f \o r = <<>> \o a
      BY <2>6, <2>7 DEF e
    <2> QED
      BY <2>2, <2>7, <2>8, <2>9 DEF Behind
  <1>12. check_frame(b) = [frame |-> b, valid |-> FALSE]
         \/ (L + 1 \in StartsAt(b)
             /\ check_frame(b) = [frame |-> From(b, L + 1), valid |-> FALSE])
    <2>1. CASE StartsAt(b) = {}
      BY <1>9, <2>1 DEF check_frame
    <2>2. CASE StartsAt(b) # {}
      <3>1. StartsAt(b) = {L + 1}
        BY <1>8, <2>2
      <3>2. Max(StartsAt(b)) = L + 1
        BY <1>1, <3>1, MaxOfOne
      <3> QED
        BY <1>9, <3>1, <3>2, Zenon DEF check_frame
    <2> QED
      BY <2>1, <2>2
  <1> QED
    BY <1>10, <1>11, <1>12

(* With more garbage in front of it a frame makes the buffer deaf.         *)
LEMMA FrameTooFar ==
    ASSUME NEW g \in Seq(Bytes), NEW a \in Seq(Bytes), StartFree(g),
           Len(g) > MAX_FRAME_LENGTH, Len(a) >= 6
    PROVE  /\ check_frame(g \o a) = [frame |-> g \o a, valid |-> FALSE]
           /\ Deaf(g \o a)
  <1> DEFINE x == g \o a
  <1>1. /\ x \in Seq(Bytes) /\ Len(x) = Len(g) + Len(a)
        /\ \A i \in 1 .. Len(g) : x[i] = g[i]
    BY ConcatProperties
  <1>2. Len(g) \in Nat /\ Len(g) >= 261 /\ Len(a) \in Nat /\ Len(x) >= 265
    BY <1>1 DEF MAX_FRAME_LENGTH
  <1> HIDE DEF x
  <1>3. StartsAt(x) = {}
    <2> SUFFICES ASSUME NEW i \in StartsAt(x)
                 PROVE  FALSE
      OBVIOUS
    <2>1. i \in Int /\ 1 <= i /\ i <= 261 /\ x[i] = STX
      BY <1>1, StartsUpTo
    <2>2. i \in 1 .. Len(g)
      BY <1>2, <2>1
    <2> QED
      BY <1>1, <2>1, <2>2 DEF StartFree
  <1>4. FramesIn(x) = {}
    BY <1>3 DEF FramesIn
  <1>5. Limit(x) = MAX_FRAME_LENGTH + 1
    BY <1>1, <1>2, LimitIsFull
  <1>6. check_frame(x) = [frame |-> x, valid |-> FALSE]
    BY <1>3, <1>4 DEF check_frame
  <1>7. Deaf(x)
    BY <1>3, <1>4, <1>5 DEF Deaf
  <1> QED
    BY <1>6, <1>7 DEF x

(* A set of natural numbers below a bound has a maximum.                   *)
LEMMA MaxExists ==
    ASSUME NEW n \in Nat, NEW S \in SUBSET (0 .. n), S # {}
    PROVE  Max(S) \in S
  <1> DEFINE T == {n - x : x \in S}
  <1>1. T \in SUBSET Nat /\ T # {}
    <2>1. \A x \in S : x \in Nat /\ n - x \in Nat
      OBVIOUS
    <2>2. PICK x \in S : TRUE
      OBVIOUS
    <2>3. n - x \in T
      OBVIOUS
    <2> QED
      BY <2>1, <2>3
  <1>2. PICK t \in T : \A y \in T : t <= y
    <2>1. \E x \in T : \A y \in T : <<y, x>> \notin OpToRel(<, Nat)
      BY <1>1, NatLessThanWellFounded, WFMin
    <2>2. \A x, y \in Nat : <<y, x>> \notin OpToRel(<, Nat) => x <= y
      BY DEF OpToRel
    <2> QED
      BY <1>1, <2>1, <2>2
  <1>3. PICK x \in S : t = n - x
    BY <1>2
  <1>4. \A y \in S : x >= y
    BY <1>2, <1>3
  <1> QED
    BY <1>3, <1>4 DEF Max

(* What check_frame leaves of a buffer of bytes are bytes.                 *)
LEMMA CheckedIsBytes ==
    ASSUME NEW b \in Seq(Bytes), ~check_frame(b).valid
    PROVE  check_frame(b).frame \in Seq(Bytes)
  <1>1. \A i \in StartsAt(b) : i \in Int /\ 1 <= i /\ i <= Len(b) - 4
    BY StartsUpTo
  <1>2. \A i \in StartsAt(b) : From(b, i) \in Seq(Bytes)
    <2> SUFFICES ASSUME NEW i \in StartsAt(b)
                 PROVE  From(b, i) \in Seq(Bytes)
      OBVIOUS
    <2> DEFINE k == Len(b)
    <2>1. i \in Int /\ k \in Int /\ 1 <= i /\ i <= k + 1 /\ k <= Len(b)
      BY <1>1
    <2> HIDE DEF k
    <2>2. SubSeq(b, i, k) \in Seq(Bytes)
      BY <2>1, CutIs
    <2> QED
      BY <2>2 DEF k, From
  <1>3. StartsAt(b) # {} => Max(StartsAt(b)) \in StartsAt(b)
    <2> DEFINE n == Len(b)
    <2>1. n \in Nat /\ StartsAt(b) \in SUBSET (0 .. n)
      BY <1>1
    <2> HIDE DEF n
    <2> QED
      BY <2>1, MaxExists
  <1>4. FramesIn(b) = {}
    BY DEF check_frame
  <1> QED
    BY <1>2, <1>3, <1>4 DEF check_frame

-----------------------------------------------------------------------------
(* Where an answer is while no start byte precedes it: on its way behind   *)
(* garbage, handled, or lost in a deaf buffer.                             *)

OnItsWay == line # <<>> /\ handled = <<>> /\ Behind(rx_frame \o line, Answer)

Arrived == line = <<>> /\ rx_frame = <<>> /\ handled = <<Answer>>

Lost == handled = <<>> /\ Deaf(rx_frame)

Types ==
    /\ service \in Asked /\ word \in Measured(service)
    /\ rx_frame \in Seq(Bytes) /\ line \in Seq(Bytes) /\ noise \in Seq(Bytes)
    /\ round \in Nat

WireInv ==
    /\ Types
    /\ ~Sent => line = <<>> /\ rx_frame = <<>> /\ handled = <<>>
    /\ Sent /\ NoStartByte => OnItsWay \/ Arrived \/ Lost

LEMMA WordType ==
    ASSUME Types
    PROVE  service \in Asked /\ word \in Words
  BY WireAssumption DEF Types

LEMMA WireInit == Init => WireInv
  <1> SUFFICES ASSUME Init
               PROVE  WireInv
    OBVIOUS
  <1>1. Types
    BY EmptySeq DEF Init, Types
  <1> QED
    BY <1>1 DEF Init, WireInv, Sent

LEMMA SameAnswer ==
    ASSUME UNCHANGED <<service, word>>
    PROVE  Answer' = Answer
  BY DEF Answer, Payload, NewFrame

LEMMA Joined ==
    ASSUME NEW x \in Seq(Bytes), NEW c \in Seq(Bytes), NEW r \in Seq(Bytes)
    PROVE  x \o c \in Seq(Bytes) /\ (x \o c) \o r = x \o (c \o r)
  BY ConcatProperties, ConcatAssociative

LEMMA WireRespond ==
    ASSUME WireInv, Respond
    PROVE  WireInv'
  <1>1. /\ Types /\ service \in Asked /\ word \in Words /\ Answer \in Seq(Bytes)
        /\ Len(Answer) \in 6 .. 9
    BY WordType, AnswerIs DEF WireInv
  <1>2. /\ Answer' = Answer /\ round \in Nat /\ round' = round + 1
        /\ handled' = <<>> /\ rx_frame' = rx_frame /\ line = <<>>
        /\ UNCHANGED <<service, word>>
    BY <1>1, SameAnswer DEF Respond, Types
  <1>3. Answer # <<>>
    BY <1>1
  <1>4. CASE round = 0
    <2>1. noise' \in Seq(Bytes) /\ line' = noise' \o Answer
      <3>1. noise' \in Noises(service, word) /\ line' = noise' \o Answer
        BY <1>4 DEF Respond
      <3>2. Noises(service, word) \subseteq Seq(Bytes)
        BY <1>1, WireAssumption DEF Types
      <3> QED
        BY <3>1, <3>2
    <2>2. line' \in Seq(Bytes) /\ line' # <<>>
      <3>1. /\ line' \in Seq(Bytes)
            /\ noise' \o Answer = <<>> <=> noise' = <<>> /\ Answer = <<>>
        BY <1>1, <2>1, ConcatProperties, ConcatEqualIffEmpty
      <3> QED
        BY <1>3, <2>1, <3>1
    <2>3. rx_frame = <<>>
      BY <1>4 DEF WireInv, Sent
    <2>4. rx_frame' \o line' = noise' \o Answer
      BY <1>2, <2>1, <2>2, <2>3, ConcatEmptySeq
    <2>5. Types'
      BY <1>1, <1>2, <2>1, <2>2 DEF Types
    <2>6. NoStartByte' => StartFree(noise')
      BY <2>1, LenProperties DEF NoStartByte, StartFree
    <2>7. NoStartByte' => OnItsWay'
      BY <1>2, <2>1, <2>2, <2>4, <2>6 DEF OnItsWay, Behind
    <2>8. Sent'
      BY <1>2 DEF Sent
    <2> QED
      BY <2>5, <2>7, <2>8 DEF WireInv
  <1>5. CASE round # 0
    <2>1. noise' = noise /\ line' = Answer /\ Sent /\ Sent'
      BY <1>2, <1>5 DEF Respond, Sent
    <2>2. Types'
      BY <1>1, <1>2, <2>1 DEF Types
    <2>3. NoStartByte' => NoStartByte
      BY <2>1 DEF NoStartByte
    <2>4. NoStartByte => Arrived \/ Lost
      BY <1>2, <2>1 DEF WireInv, OnItsWay
    <2>5. Arrived => OnItsWay'
      <3> SUFFICES ASSUME Arrived
                   PROVE  OnItsWay'
        OBVIOUS
      <3>1. rx_frame' = <<>>
        BY <1>2 DEF Arrived
      <3>2. <<>> \in Seq(Bytes) /\ StartFree(<<>>)
        BY DEF StartFree
      <3>3. rx_frame' \o line' = <<>> \o Answer'
        BY <1>2, <2>1, <3>1
      <3> QED
        BY <1>2, <1>3, <2>1, <3>2, <3>3 DEF OnItsWay, Behind
    <2>6. Lost => Lost'
      BY <1>2 DEF Lost, Deaf, Limit, StartsAt, FramesIn, FrameAt, TotalLength
    <2> QED
      BY <2>1, <2>2, <2>3, <2>4, <2>5, <2>6 DEF WireInv
  <1> QED
    BY <1>4, <1>5

(* A chunk and what is left of the line.                                   *)
LEMMA LineCut ==
    ASSUME NEW l \in Seq(Bytes), NEW n \in Nat, n <= Len(l)
    PROVE  /\ SubSeq(l, 1, n) \in Seq(Bytes)
           /\ SubSeq(l, n + 1, Len(l)) \in Seq(Bytes)
           /\ SubSeq(l, 1, n) \o SubSeq(l, n + 1, Len(l)) = l
           /\ SubSeq(l, n + 1, Len(l)) = <<>> <=> n = Len(l)
           /\ Len(SubSeq(l, n + 1, Len(l))) = Len(l) - n
           /\ \A i \in 1 .. Len(l) - n : SubSeq(l, n + 1, Len(l))[i] = l[n + i]
  <1> DEFINE m == n + 1
             L == Len(l)
  <1>1. L \in Nat /\ m \in Int /\ 1 <= m /\ m <= L + 1 /\ n \in Int /\ 1 <= n + 1
        /\ n <= Len(l) /\ L <= Len(l) /\ L - m + 1 = L - n
    OBVIOUS
  <1>2. \A i \in 1 .. L - n : m + i - 1 = n + i
    BY <1>1
  <1>3. SubSeq(l, 1, n) \in Seq(Bytes)
    BY <1>1, CutIs
  <1>4. SubSeq(l, 1, n) \o SubSeq(l, m, L) = l
    <2>1. /\ 1 \in 1 .. Len(l) + 1 /\ n \in 1 - 1 .. Len(l) /\ Len(l) \in n .. Len(l)
      BY <1>1
    <2>2. SubSeq(l, 1, n) \o SubSeq(l, n + 1, Len(l)) = SubSeq(l, 1, Len(l))
      BY <2>1, ConcatAdjacentSubSeq
    <2> QED
      BY <2>2, SubSeqFull
  <1> HIDE DEF m, L
  <1>5. /\ SubSeq(l, m, L) \in Seq(Bytes) /\ Len(SubSeq(l, m, L)) = L - m + 1
        /\ \A i \in 1 .. L - m + 1 : SubSeq(l, m, L)[i] = l[m + i - 1]
    BY <1>1, CutIs
  <1>6. SubSeq(l, m, L) = <<>> <=> n = L
    BY <1>1, <1>5, EmptySeq
  <1>7. /\ Len(SubSeq(l, m, L)) = L - n
        /\ \A i \in 1 .. L - n : SubSeq(l, m, L)[i] = l[n + i]
    BY <1>1, <1>2, <1>5
  <1> QED
    BY <1>3, <1>4, <1>5, <1>6, <1>7 DEF m, L

(* A byte that is taken off the line and does not occur in the frame was   *)
(* garbage.                                                                *)
Without(b, a) == \A i \in 1 .. Len(a) : a[i] # b

LEMMA TakenIsGarbage ==
    ASSUME NEW x \in Seq(Bytes), NEW l \in Seq(Bytes), l # <<>>,
           NEW a \in Seq(Bytes), Len(a) > 0, Behind(x \o l, a), Without(l[1], a)
    PROVE  /\ SubSeq(l, 2, Len(l)) # <<>>
           /\ Behind(x \o SubSeq(l, 2, Len(l)), a)
  <1>0. PICK g \in Seq(Bytes) : StartFree(g) /\ x \o l = g \o a
    BY DEF Behind
  <1> DEFINE r == SubSeq(l, 2, Len(l))
             X == Len(x)
             L == Len(l)
             G == Len(g)
             A == Len(a)
             p == X + 1
  <1>1. X \in Nat /\ L \in Nat /\ L > 0 /\ G \in Nat /\ A \in Nat /\ A > 0
    BY EmptySeq
  <1>2. /\ r \in Seq(Bytes) /\ Len(r) = L - 1
        /\ \A i \in 1 .. L - 1 : r[i] = l[1 + i]
    <2>1. PICK n \in Nat : n = 1
      OBVIOUS
    <2>2. n <= Len(l)
      BY <1>1, <2>1
    <2>3. /\ SubSeq(l, n + 1, Len(l)) \in Seq(Bytes)
          /\ Len(SubSeq(l, n + 1, Len(l))) = Len(l) - n
          /\ \A i \in 1 .. Len(l) - n : SubSeq(l, n + 1, Len(l))[i] = l[n + i]
      BY <2>2, LineCut
    <2> QED
      BY <2>1, <2>3
  <1>3. /\ X + L = G + A
        /\ \A i \in 1 .. X + L : (IF i <= X THEN x[i] ELSE l[i - X])
                                  = (IF i <= G THEN g[i] ELSE a[i - G])
    <2> DEFINE y == x \o l
               z == g \o a
    <2>1. /\ y \in Seq(Bytes) /\ Len(y) = X + L
          /\ \A i \in 1 .. X + L : y[i] = IF i <= X THEN x[i] ELSE l[i - X]
      BY ConcatProperties
    <2>2. /\ z \in Seq(Bytes) /\ Len(z) = G + A
          /\ \A i \in 1 .. G + A : z[i] = IF i <= G THEN g[i] ELSE a[i - G]
      BY ConcatProperties
    <2>3. y = z
      BY <1>0
    <2> HIDE DEF y, z, X, L, G, A
    <2> QED
      BY <2>1, <2>2, <2>3
  <1> HIDE DEF r, X, L, G, A
  <1>4. p <= G
    <2> SUFFICES ASSUME p > G
                 PROVE  FALSE
      BY <1>1
    <2>1. p \in 1 .. X + L /\ ~(p <= X) /\ ~(p <= G) /\ p - X = 1
      BY <1>1
    <2> HIDE DEF p
    <2>2. (IF p <= X THEN x[p] ELSE l[p - X]) = (IF p <= G THEN g[p] ELSE a[p - G])
      BY <1>3, <2>1
    <2>3. l[1] = a[p - G]
      BY <2>1, <2>2
    <2>4. p - G \in 1 .. A
      BY <1>1, <1>3, <2>1 DEF p
    <2> QED
      BY <2>3, <2>4 DEF A, Without
  <1>5. L > 1
    BY <1>1, <1>3, <1>4
  <1> DEFINE q == SubSeq(g, 1, X)
             s == SubSeq(g, X + 2, G)
             h == q \o s
  <1>6. /\ q \in Seq(Bytes) /\ Len(q) = X
        /\ \A i \in 1 .. X : q[i] = g[i]
    <2>1. 1 \in Int /\ X \in Int /\ 1 <= 1 /\ 1 <= X + 1 /\ X <= Len(g)
      BY <1>1, <1>4 DEF G
    <2>2. X - 1 + 1 = X /\ \A i \in 1 .. X : 1 + i - 1 = i
      BY <1>1
    <2>3. /\ q \in Seq(Bytes) /\ Len(q) = X - 1 + 1
          /\ \A i \in 1 .. X - 1 + 1 : q[i] = g[1 + i - 1]
      BY <2>1, CutIs
    <2> HIDE DEF q
    <2> QED
      BY <1>1, <2>2, <2>3
  <1>7. /\ s \in Seq(Bytes) /\ Len(s) = G - p
        /\ \A i \in 1 .. G - p : s[i] = g[p + i]
    <2> DEFINE m == X + 2
    <2>1. m \in Int /\ G \in Int /\ 1 <= m /\ m <= G + 1 /\ G <= Len(g)
      BY <1>1, <1>4 DEF G
    <2>2. G - m + 1 = G - p /\ \A i \in 1 .. G - p : m + i - 1 = p + i
      BY <1>1
    <2> HIDE DEF m
    <2>3. /\ SubSeq(g, m, G) \in Seq(Bytes) /\ Len(SubSeq(g, m, G)) = G - m + 1
          /\ \A i \in 1 .. G - m + 1 : SubSeq(g, m, G)[i] = g[m + i - 1]
      BY <2>1, CutIs
    <2>4. s = SubSeq(g, m, G)
      BY DEF m
    <2> HIDE DEF s, p
    <2> QED
      BY <2>2, <2>3, <2>4
  <1> HIDE DEF q, s
  <1>8. /\ h \in Seq(Bytes) /\ Len(h) = G - 1
        /\ \A i \in 1 .. G - 1 : h[i] = IF i <= X THEN g[i] ELSE g[i + 1]
    <2>1. /\ h \in Seq(Bytes) /\ Len(h) = Len(q) + Len(s)
          /\ \A i \in 1 .. Len(q) + Len(s) :
                 h[i] = IF i <= Len(q) THEN q[i] ELSE s[i - Len(q)]
      <3>1. q \in Seq(Bytes) /\ s \in Seq(Bytes)
        BY <1>6, <1>7
      <3> QED
        BY <3>1, ConcatProperties
    <2> HIDE DEF h
    <2>2. Len(q) + Len(s) = G - 1 /\ Len(q) = X
      BY <1>1, <1>4, <1>6, <1>7
    <2> SUFFICES ASSUME NEW i \in 1 .. G - 1
                 PROVE  h[i] = IF i <= X THEN g[i] ELSE g[i + 1]
      BY <2>1, <2>2
    <2>3. h[i] = IF i <= X THEN q[i] ELSE s[i - X]
      BY <2>1, <2>2
    <2>4. CASE i <= X
      <3>1. i \in 1 .. X
        BY <2>4
      <3> QED
        BY <1>6, <2>3, <2>4, <3>1
    <2>5. CASE ~(i <= X)
      <3>1. i - X \in 1 .. G - p /\ p + (i - X) = i + 1
        BY <1>1, <2>5
      <3>2. s[i - X] = g[p + (i - X)]
        BY <1>7, <3>1
      <3> QED
        BY <2>3, <2>5, <3>1, <3>2
    <2> QED
      BY <2>4, <2>5
  <1> HIDE DEF h
  <1>9. StartFree(h)
    <2> SUFFICES ASSUME NEW i \in 1 .. G - 1
                 PROVE  h[i] # STX
      BY <1>8 DEF StartFree
    <2>1. i \in 1 .. G /\ i + 1 \in 1 .. G
      BY <1>1
    <2>2. g[i] # STX /\ g[i + 1] # STX
      BY <1>0, <2>1 DEF StartFree, G
    <2> QED
      BY <1>8, <2>2
  <1>10. x \o r = h \o a
    <2> DEFINE y == x \o r
               z == h \o a
    <2>1. /\ y \in Seq(Bytes) /\ Len(y) = X + (L - 1)
          /\ \A i \in 1 .. X + (L - 1) : y[i] = IF i <= X THEN x[i] ELSE r[i - X]
      <3>1. r \in Seq(Bytes)
        BY <1>2
      <3>2. /\ y \in Seq(Bytes) /\ Len(y) = Len(x) + Len(r)
            /\ \A i \in 1 .. Len(x) + Len(r) :
                   y[i] = IF i <= Len(x) THEN x[i] ELSE r[i - Len(x)]
        BY <3>1, ConcatProperties
      <3> HIDE DEF y
      <3> QED
        BY <1>2, <3>2 DEF X
    <2>2. /\ z \in Seq(Bytes) /\ Len(z) = G - 1 + A
          /\ \A i \in 1 .. G - 1 + A : z[i] = IF i <= G - 1 THEN h[i] ELSE a[i - (G - 1)]
      <3>1. h \in Seq(Bytes)
        BY <1>8
      <3>2. /\ z \in Seq(Bytes) /\ Len(z) = Len(h) + Len(a)
            /\ \A i \in 1 .. Len(h) + Len(a) :
                   z[i] = IF i <= Len(h) THEN h[i] ELSE a[i - Len(h)]
        BY <3>1, ConcatProperties
      <3> HIDE DEF z
      <3> QED
        BY <1>8, <3>2 DEF A
    <2> HIDE DEF y, z
    <2>3. X + (L - 1) = G - 1 + A
      BY <1>1, <1>3
    <2>4. \A i \in 1 .. G - 1 + A : y[i] = z[i]
      <3> SUFFICES ASSUME NEW i \in 1 .. G - 1 + A
                   PROVE  y[i] = z[i]
        OBVIOUS
      <3>1. y[i] = IF i <= X THEN x[i] ELSE r[i - X]
        BY <2>1, <2>3
      <3>2. z[i] = IF i <= G - 1 THEN h[i] ELSE a[i - (G - 1)]
        BY <2>2
      <3>3. CASE i <= X
        <4>1. i \in 1 .. X + L /\ i <= G /\ i <= G - 1 /\ i \in 1 .. G - 1
          BY <1>1, <1>3, <1>4, <3>3
        <4>2. x[i] = g[i]
          BY <1>3, <3>3, <4>1
        <4>3. h[i] = g[i]
          BY <1>8, <3>3, <4>1
        <4> QED
          BY <3>1, <3>2, <3>3, <4>1, <4>2, <4>3
      <3>4. CASE ~(i <= X)
        <4>0. PICK k \in Int : k = i + 1
          BY <1>1
        <4>1. /\ k \in 1 .. X + L /\ ~(k <= X) /\ i - X \in 1 .. L - 1
              /\ k - X = 1 + (i - X) /\ k - G = i - (G - 1)
              /\ k <= G <=> i <= G - 1
          BY <1>1, <1>3, <3>4, <4>0
        <4>2. (IF k <= X THEN x[k] ELSE l[k - X]) = (IF k <= G THEN g[k] ELSE a[k - G])
          BY <1>3, <4>1
        <4>3. l[k - X] = IF k <= G THEN g[k] ELSE a[k - G]
          BY <4>1, <4>2
        <4>4. r[i - X] = l[1 + (i - X)]
          BY <1>2, <4>1
        <4>5. y[i] = IF k <= G THEN g[k] ELSE a[k - G]
          BY <3>1, <3>4, <4>1, <4>3, <4>4
        <4>6. i <= G - 1 => h[i] = g[k]
          <5>1. i <= G - 1 => i \in 1 .. G - 1
            BY <1>1
          <5> QED
            BY <1>8, <3>4, <4>0, <5>1
        <4> QED
          BY <3>2, <4>1, <4>5, <4>6
      <3> QED
        BY <3>3, <3>4
    <2>5. y = z
      BY <2>1, <2>2, <2>3, <2>4, SeqEqual
    <2> QED
      BY <2>5 DEF y, z
  <1>11. r # <<>>
    <2>1. Len(r) > 0
      BY <1>1, <1>2, <1>5
    <2> QED
      BY <2>1, EmptySeq
  <1> QED
    BY <1>8, <1>9, <1>10, <1>11 DEF r, Behind

LEMMA WireReadAck ==
    ASSUME WireInv, ReadAck
    PROVE  WireInv'
  <1>1. /\ Types /\ service \in Asked /\ word \in Words /\ Answer \in Seq(Bytes)
        /\ Len(Answer) \in 6 .. 9 /\ service = RESET /\ line # <<>>
        /\ Head(line) = AN2295_ACK /\ line \in Seq(Bytes) /\ rx_frame \in Seq(Bytes)
    BY WordType, AnswerIs DEF WireInv, ReadAck, Types, reinit
  <1>2. /\ Answer' = Answer /\ round' = round /\ handled' = handled /\ noise' = noise
        /\ rx_frame' = rx_frame /\ UNCHANGED <<service, word>>
        /\ line' = SubSeq(line, 2, Len(line))
    BY SameAnswer DEF ReadAck, Consume
  <1>3. line' \in Seq(Bytes)
    <2>1. 1 \in Nat /\ 1 <= Len(line) /\ 1 + 1 = 2
      BY <1>1, EmptySeq
    <2> QED
      BY <1>1, <1>2, <2>1, LineCut
  <1>4. Types'
    BY <1>1, <1>2, <1>3 DEF Types
  <1>5. Sent /\ Sent'
    BY <1>1, <1>2 DEF WireInv, Sent
  <1>6. NoStartByte' => OnItsWay \/ Lost
    BY <1>1, <1>2, <1>5 DEF WireInv, NoStartByte, Arrived
  <1>7. OnItsWay => OnItsWay'
    <2> SUFFICES ASSUME OnItsWay
                 PROVE  OnItsWay'
      OBVIOUS
    <2>2. Head(line) = line[1]
      BY <1>1
    <2>3. Without(line[1], Answer)
      BY <1>1, <2>2, NoAckInAnswer DEF Without
    <2>4. Len(Answer) > 0
      <3>1. PICK n \in 6 .. 9 : Len(Answer) = n
        BY <1>1
      <3>2. n > 0
        OBVIOUS
      <3> QED
        BY <3>1, <3>2
    <2>5. line' # <<>> /\ Behind(rx_frame \o line', Answer)
      BY <1>1, <1>2, <2>3, <2>4, TakenIsGarbage DEF OnItsWay
    <2> QED
      BY <1>2, <2>5 DEF OnItsWay
  <1>8. Lost => Lost'
    BY <1>2 DEF Lost, Deaf, Limit, StartsAt, FramesIn, FrameAt, TotalLength
  <1> QED
    BY <1>4, <1>5, <1>6, <1>7, <1>8 DEF WireInv

(* The last chunk of an answer completes it, every other leaves it on its  *)
(* way.                                                                    *)
LEMMA WireReadChunk ==
    ASSUME WireInv, NEW n \in Nat, n > 0, ReadChunk(n)
    PROVE  WireInv'
  <1> DEFINE c == SubSeq(line, 1, n)
             r == SubSeq(line, n + 1, Len(line))
             b == rx_frame \o c
             a == Answer
  <1>1. /\ Types /\ line \in Seq(Bytes) /\ rx_frame \in Seq(Bytes) /\ n <= Len(line)
        /\ service \in Asked /\ word \in Words
    BY WordType DEF WireInv, ReadChunk, Types
  <1>2. /\ a \in Seq(Bytes) /\ Len(a) \in 6 .. 9
        /\ Shape(a) /\ IsFrame(a) /\ is_svc_response_frame(a)
    BY <1>1, AnswerIs DEF Shape
  <1>3. /\ Answer' = a /\ round' = round /\ noise' = noise
        /\ UNCHANGED <<service, word>> /\ line' = r
    BY SameAnswer DEF ReadChunk, Consume
  <1>4. /\ c \in Seq(Bytes) /\ r \in Seq(Bytes) /\ c \o r = line
        /\ r = <<>> <=> n = Len(line)
    BY <1>1, LineCut
  <1>5. IF check_frame(b).valid
        THEN /\ rx_frame' = <<>>
             /\ handled' = IF is_svc_response_frame(check_frame(b).frame)
                           THEN Append(handled, check_frame(b).frame) ELSE handled
        ELSE rx_frame' = check_frame(b).frame /\ handled' = handled
    BY DEF ReadChunk, push_back, clear
  <1> HIDE DEF c, r, a
  <1>6. b \in Seq(Bytes) /\ b \o r = rx_frame \o line
    <2>1. rx_frame \in Seq(Bytes) /\ c \in Seq(Bytes) /\ r \in Seq(Bytes)
      BY <1>1, <1>4
    <2>2. b \in Seq(Bytes) /\ b \o r = rx_frame \o (c \o r)
      BY <2>1, Joined
    <2> QED
      BY <1>4, <2>2
  <1>7. line # <<>>
    <2> SUFFICES ASSUME line = <<>>
                 PROVE  FALSE
      OBVIOUS
    <2>1. Len(line) = 0
      BY EmptySeq
    <2> QED
      BY <1>1, <2>1
  <1>8. Sent /\ Sent' /\ (NoStartByte' => NoStartByte)
    BY <1>3, <1>7 DEF WireInv, Sent, NoStartByte
  <1> HIDE DEF b
  <1>9. rx_frame' \in Seq(Bytes)
    <2>1. CASE check_frame(b).valid
      BY <1>5, <2>1
    <2>2. CASE ~check_frame(b).valid
      <3>1. check_frame(b).frame \in Seq(Bytes)
        BY <1>6, <2>2, CheckedIsBytes
      <3> QED
        BY <1>5, <2>2, <3>1
    <2> QED
      BY <2>1, <2>2
  <1>10. Types'
    BY <1>1, <1>3, <1>4, <1>9 DEF Types
  <1>11. CASE OnItsWay
    <2>1. PICK g \in Seq(Bytes) : StartFree(g) /\ rx_frame \o line = g \o a
      BY <1>11 DEF OnItsWay, Behind, a
    <2>2. handled = <<>> /\ b \o r = g \o a
      BY <1>6, <1>11, <2>1 DEF OnItsWay
    <2>3. ASSUME r # <<>>
          PROVE  OnItsWay'
      <3>1. /\ check_frame(b).valid = FALSE
            /\ Behind(check_frame(b).frame \o r, a)
        <4>1. /\ a \in Seq(Bytes) /\ Shape(a)
              /\ b \in Seq(Bytes) /\ r \in Seq(Bytes) /\ r # <<>>
              /\ Behind(b \o r, a)
          BY <1>2, <1>4, <1>6, <2>1, <2>2, <2>3 DEF Behind
        <4> QED
          BY <4>1, FrameIncomplete
      <3>2. handled' = <<>> /\ line' # <<>> /\ Behind(rx_frame' \o line', Answer')
        BY <1>3, <1>5, <2>2, <2>3, <3>1
      <3> QED
        BY <3>2 DEF OnItsWay
    <2>4. ASSUME r = <<>>, Len(g) <= MAX_FRAME_LENGTH
          PROVE  Arrived'
      <3>1. b = g \o (a \o <<>>) /\ a \o <<>> = a /\ <<>> \in Seq(Bytes)
        BY <1>2, <1>6, <2>2, <2>4, ConcatEmptySeq
      <3>2. \A i \in 1 .. Len(g) : g[i] # STX
        BY <2>1 DEF StartFree
      <3>3. check_frame(g \o (a \o <<>>)) = [frame |-> a \o <<>>, valid |-> TRUE]
        BY <1>2, <2>1, <2>4, <3>1, <3>2, FrameIsFound
      <3>4. check_frame(b).valid = TRUE /\ check_frame(b).frame = a
        BY <3>1, <3>3
      <3>5. rx_frame' = <<>> /\ handled' = <<a>> /\ line' = <<>>
        BY <1>2, <1>3, <1>5, <2>2, <2>4, <3>4
      <3> QED
        BY <1>3, <3>5 DEF Arrived
    <2>5. ASSUME r = <<>>, ~(Len(g) <= MAX_FRAME_LENGTH)
          PROVE  Lost'
      <3>1. b = g \o a
        BY <1>6, <2>2, <2>5, ConcatEmptySeq
      <3>2. Len(g) > MAX_FRAME_LENGTH /\ Len(a) >= 6
        <4>1. PICK k \in 6 .. 9 : Len(a) = k
          BY <1>2
        <4>2. k >= 6
          OBVIOUS
        <4>3. Len(g) \in Nat
          OBVIOUS
        <4> QED
          BY <2>5, <4>1, <4>2, <4>3 DEF MAX_FRAME_LENGTH
      <3>3. check_frame(b) = [frame |-> b, valid |-> FALSE] /\ Deaf(b)
        BY <1>2, <2>1, <3>1, <3>2, FrameTooFar
      <3>4. rx_frame' = b /\ handled' = <<>>
        BY <1>5, <2>2, <3>3
      <3>5. Deaf(rx_frame)'
        BY <3>3, <3>4 DEF Deaf, Limit, StartsAt, FramesIn, FrameAt, TotalLength
      <3> QED
        BY <3>4, <3>5 DEF Lost
    <2>6. OnItsWay' \/ Arrived' \/ Lost'
      BY <2>3, <2>4, <2>5
    <2> QED
      BY <1>8, <1>10, <2>6 DEF WireInv
  <1>12. CASE Lost
    <2>1. handled = <<>> /\ Deaf(rx_frame)
      BY <1>12 DEF Lost
    <2>2. push_back(rx_frame, c) = [frame |-> rx_frame \o c, valid |-> FALSE]
          /\ Deaf(rx_frame \o c)
      BY <1>1, <1>4, <2>1, DeafForever
    <2>3. check_frame(b) = [frame |-> b, valid |-> FALSE] /\ Deaf(b)
      BY <2>2 DEF b, push_back
    <2>4. rx_frame' = b /\ handled' = <<>>
      BY <1>5, <2>1, <2>3
    <2>5. Deaf(rx_frame)'
      BY <2>3, <2>4 DEF Deaf, Limit, StartsAt, FramesIn, FrameAt, TotalLength
    <2> QED
      BY <1>8, <1>10, <2>4, <2>5 DEF WireInv, Lost
  <1>13. CASE ~NoStartByte
    BY <1>8, <1>10, <1>13 DEF WireInv
  <1> QED
    BY <1>7, <1>8, <1>11, <1>12, <1>13 DEF WireInv, Arrived

LEMMA WireNext ==
    ASSUME WireInv, [Next]_vars
    PROVE  WireInv'
  <1>1. CASE Respond
    BY <1>1, WireRespond
  <1>2. CASE ReadAck
    BY <1>2, WireReadAck
  <1>3. ASSUME NEW n \in Chunks(service, word) \cup {Len(line)}, n > 0, ReadChunk(n)
        PROVE  WireInv'
    <2>1. Types
      BY DEF WireInv
    <2>2. Chunks(service, word) \subseteq Nat /\ Len(line) \in Nat
      BY <2>1, WireAssumption DEF Types
    <2>3. n \in Nat
      BY <2>2
    <2> QED
      BY <1>3, <2>3, WireReadChunk
  <1>4. CASE UNCHANGED vars
    <2>1. Answer' = Answer
      BY <1>4, SameAnswer DEF vars
    <2> QED
      BY <1>4, <2>1 DEF vars, WireInv, Types, Sent, NoStartByte, OnItsWay, Arrived,
         Lost, Deaf, Limit, StartsAt, FramesIn, FrameAt, TotalLength
  <1> QED
    BY <1>1, <1>2, <1>3, <1>4 DEF Next, Read

THEOREM WireInvariant == Spec => []WireInv
  BY WireInit, WireNext, PTL DEF Spec

-----------------------------------------------------------------------------
(* An answer is handled however it is cut into chunks and whatever garbage *)
(* precedes it, unless the buffer is deaf (KL02::read).                    *)
THEOREM AnswersAreHandled == Spec => []AnswerIsHandled
  <1>1. WireInv => AnswerIsHandled
    BY DEF WireInv, AnswerIsHandled, Delivered, OnItsWay, Arrived, Lost
  <1> QED
    BY <1>1, WireInvariant, PTL

(* What is handled is what was sent, once (KL02::read).                    *)
THEOREM OnlyTheSentIsHandled == Spec => []HandledIsSent
  <1>1. WireInv => HandledIsSent
    BY DEF WireInv, HandledIsSent, OnItsWay, Arrived, Lost
  <1> QED
    BY <1>1, WireInvariant, PTL

-----------------------------------------------------------------------------
(* The bands and the filter, for every word.                               *)

LEMMA AlwaysWord == Spec => [](word \in Words)
  <1>1. WireInv => word \in Words
    BY WordType DEF WireInv
  <1> QED
    BY <1>1, WireInvariant, PTL

LEMMA Threshold ==
    /\ DOMAIN CpThresholds = 1 .. 11
    /\ CpThresholds[1] = [from |-> 11000, means |-> "A"]
    /\ CpThresholds[2] = [from |-> 10000, means |-> OutOfRange]
    /\ CpThresholds[3] = [from |-> 8000, means |-> "B"]
    /\ CpThresholds[4] = [from |-> 7000, means |-> OutOfRange]
    /\ CpThresholds[5] = [from |-> 5000, means |-> "C"]
    /\ CpThresholds[6] = [from |-> 4000, means |-> OutOfRange]
    /\ CpThresholds[7] = [from |-> 2000, means |-> "D"]
    /\ CpThresholds[8] = [from |-> 1500, means |-> OutOfRange]
    /\ CpThresholds[9] = [from |-> -1500, means |-> "E"]
    /\ CpThresholds[10] = [from |-> -11000, means |-> OutOfRange]
    /\ CpThresholds[11] = [from |-> -13000, means |-> "F"]
  BY DEF CpThresholds

(* The band of a voltage: that of the first threshold that is reached.     *)
LEMMA BandOf ==
    ASSUME NEW mV \in Int, mV <= 13000, NEW k \in 1 .. 11,
           mV >= CpThresholds[k].from,
           \A i \in 1 .. 11 : i < k => mV < CpThresholds[i].from
    PROVE  CpBand(mV) = CpThresholds[k].means
  <1>1. \A i \in 1 .. 11 : CpThresholds[i].from \in Int
    BY Threshold
  <1>2. Reached(mV) = {i \in 1 .. 11 : mV >= CpThresholds[i].from}
    BY Threshold DEF Reached
  <1>3. \A i \in Reached(mV) : k <= i
    BY <1>1, <1>2
  <1>4. k \in Reached(mV) /\ Reached(mV) \in SUBSET Int
    BY <1>2
  <1>5. Min(Reached(mV)) = k
    BY <1>3, <1>4, MinIs
  <1> QED
    BY <1>4, <1>5 DEF CpBand

LEMMA BandIs ==
    ASSUME NEW mV \in Int
    PROVE  CpBand(mV) =
             IF mV > 13000 THEN OutOfRange
             ELSE IF mV >= 11000 THEN "A"
             ELSE IF mV >= 10000 THEN OutOfRange
             ELSE IF mV >= 8000 THEN "B"
             ELSE IF mV >= 7000 THEN OutOfRange
             ELSE IF mV >= 5000 THEN "C"
             ELSE IF mV >= 4000 THEN OutOfRange
             ELSE IF mV >= 2000 THEN "D"
             ELSE IF mV >= 1500 THEN OutOfRange
             ELSE IF mV >= -1500 THEN "E"
             ELSE IF mV >= -11000 THEN OutOfRange
             ELSE IF mV >= -13000 THEN "F" ELSE OutOfRange
  <1> DEFINE T(i) == CpThresholds[i].from
  <1>1. /\ T(1) = 11000 /\ T(2) = 10000 /\ T(3) = 8000 /\ T(4) = 7000 /\ T(5) = 5000
        /\ T(6) = 4000 /\ T(7) = 2000 /\ T(8) = 1500 /\ T(9) = -1500
        /\ T(10) = -11000 /\ T(11) = -13000
    BY Threshold
  <1>2. \A k \in 1 .. 11 :
            mV <= 13000 /\ mV >= T(k) /\ (\A i \in 1 .. 11 : i < k => mV < T(i))
                => CpBand(mV) = CpThresholds[k].means
    BY BandOf
  <1> HIDE DEF T
  <1>3. \A k \in 1 .. 11 :
            k = 1 \/ mV < T(k - 1) => \A i \in 1 .. 11 : i < k => mV < T(i)
    <2>1. \A i \in 1 .. 11 : i = 1 \/ i = 2 \/ i = 3 \/ i = 4 \/ i = 5 \/ i = 6 \/ i = 7
                             \/ i = 8 \/ i = 9 \/ i = 10 \/ i = 11
      OBVIOUS
    <2>2. \A i, j \in 1 .. 11 : i <= j => T(i) >= T(j)
      BY <1>1, <2>1
    <2>3. \A i \in 1 .. 11 : T(i) \in Int
      BY <1>1, <2>1
    <2> SUFFICES ASSUME NEW k \in 1 .. 11, k = 1 \/ mV < T(k - 1),
                        NEW i \in 1 .. 11, i < k
                 PROVE  mV < T(i)
      OBVIOUS
    <2>4. k - 1 \in 1 .. 11 /\ i <= k - 1 /\ mV < T(k - 1)
      OBVIOUS
    <2> QED
      BY <2>2, <2>3, <2>4
  <1>4. \A k \in 1 .. 11 : mV <= 13000 /\ mV >= T(k) /\ (k = 1 \/ mV < T(k - 1))
                               => CpBand(mV) = CpThresholds[k].means
    BY <1>2, <1>3
  <1>5. /\ mV <= 13000 /\ mV >= T(1) => CpBand(mV) = CpThresholds[1].means
        /\ mV <= 13000 /\ mV >= T(2) /\ mV < T(1) => CpBand(mV) = CpThresholds[2].means
        /\ mV <= 13000 /\ mV >= T(3) /\ mV < T(2) => CpBand(mV) = CpThresholds[3].means
        /\ mV <= 13000 /\ mV >= T(4) /\ mV < T(3) => CpBand(mV) = CpThresholds[4].means
        /\ mV <= 13000 /\ mV >= T(5) /\ mV < T(4) => CpBand(mV) = CpThresholds[5].means
        /\ mV <= 13000 /\ mV >= T(6) /\ mV < T(5) => CpBand(mV) = CpThresholds[6].means
        /\ mV <= 13000 /\ mV >= T(7) /\ mV < T(6) => CpBand(mV) = CpThresholds[7].means
        /\ mV <= 13000 /\ mV >= T(8) /\ mV < T(7) => CpBand(mV) = CpThresholds[8].means
        /\ mV <= 13000 /\ mV >= T(9) /\ mV < T(8) => CpBand(mV) = CpThresholds[9].means
        /\ mV <= 13000 /\ mV >= T(10) /\ mV < T(9) => CpBand(mV) = CpThresholds[10].means
        /\ mV <= 13000 /\ mV >= T(11) /\ mV < T(10) => CpBand(mV) = CpThresholds[11].means
    BY <1>4
  <1>6. mV < T(11) => CpBand(mV) = OutOfRange
    <2> SUFFICES ASSUME mV < T(11)
                 PROVE  Reached(mV) = {}
      BY DEF CpBand
    <2>1. \A i \in 1 .. 11 : mV < T(i) /\ T(i) \in Int
      BY <1>1
    <2> QED
      BY <2>1, Threshold DEF Reached, T
  <1>7. mV > 13000 => CpBand(mV) = OutOfRange
    BY DEF CpBand
  <1> QED
    BY <1>1, <1>5, <1>6, <1>7, Threshold

(* Every measurable CP voltage is taken for the state within whose         *)
(* tolerance it is (cp_voltage_to_cp_state): no multiple of the resolution *)
(* falls on an end of a band.                                              *)
THEOREM CpBandsAreTolerances == Spec => []CpBandIsTolerance
  <1>1. word \in Words => CpBandIsTolerance
    <2> SUFFICES ASSUME word \in Words
                 PROVE  CpBandIsTolerance
      OBVIOUS
    <2> DEFINE p == append_u16(word)
               n == read_i16(p)
               mV == Millivolt(n)
    <2>1. n = Signed(word) /\ n \in Int
      BY WordIs, WordRange DEF Signed
    <2>2. n \in Int
      BY <2>1
    <2> HIDE DEF p
    <2> HIDE DEF n
    <2>3. mV \in Int /\ mV = 29 * n
      BY <2>2 DEF Millivolt
    <2> HIDE DEF mV
    <2>4. /\ mV # 10000 /\ mV # 7000 /\ mV # 4000 /\ mV # 1500 /\ mV # -11000
      BY <2>2, <2>3
    <2>5. \A s \in CpStates : CpBand(mV) = s <=> Near(mV, s)
      <3>1. CpBand(mV) = "A" <=> Near(mV, "A")
        BY <2>3, <2>4, BandIs DEF Near, Nominal, OutOfRange
      <3>2. CpBand(mV) = "B" <=> Near(mV, "B")
        BY <2>3, <2>4, BandIs DEF Near, Nominal, OutOfRange
      <3>3. CpBand(mV) = "C" <=> Near(mV, "C")
        BY <2>3, <2>4, BandIs DEF Near, Nominal, OutOfRange
      <3>4. CpBand(mV) = "D" <=> Near(mV, "D")
        BY <2>3, <2>4, BandIs DEF Near, Nominal, OutOfRange
      <3>5. CpBand(mV) = "E" <=> Near(mV, "E")
        BY <2>3, <2>4, BandIs DEF Near, Nominal, OutOfRange
      <3>6. CpBand(mV) = "F" <=> Near(mV, "F")
        BY <2>3, <2>4, BandIs DEF Near, Nominal, OutOfRange
      <3> QED
        BY <3>1, <3>2, <3>3, <3>4, <3>5, <3>6 DEF CpStates
    <2> QED
      BY <2>1, <2>3, <2>5 DEF CpBandIsTolerance, mV, n, p
  <1> QED
    BY <1>1, AlwaysWord, PTL

(* The one band a voltage is in.                                           *)
LEMMA PpBandOf ==
    ASSUME NEW mV \in Int, mV >= 900, NEW b \in PpBands, b.above < mV, mV < b.below
    PROVE  PpBand(mV) = b.means
  <1>1. \A c \in PpBands : c.above < mV /\ mV < c.below => c = b
    BY DEF PpBands
  <1>2. (CHOOSE c \in PpBands : c.above < mV /\ mV < c.below) = b
    BY <1>1
  <1>3. ~(mV < 900) /\ \E c \in PpBands : c.above < mV /\ mV < c.below
    OBVIOUS
  <1> QED
    BY <1>2, <1>3, Zenon DEF PpBand

LEMMA PpBandIs ==
    ASSUME NEW mV \in Int
    PROVE  /\ mV < 900 => PpBand(mV) = "invalid"
           /\ 900 < mV /\ mV < 1600 => PpBand(mV) = "A_63_3ph_70_1ph"
           /\ 1600 < mV /\ mV < 2500 => PpBand(mV) = "A_32"
           /\ 2500 < mV /\ mV < 3800 => PpBand(mV) = "A_20"
           /\ 3800 < mV /\ mV < 4500 => PpBand(mV) = "A_13"
           /\ 4500 <= mV => PpBand(mV) = "None"
  <1> DEFINE B(a, b, m) == [above |-> a, below |-> b, means |-> m]
  <1>1. /\ B(3800, 4500, "A_13") \in PpBands /\ B(2500, 3800, "A_20") \in PpBands
        /\ B(1600, 2500, "A_32") \in PpBands /\ B(900, 1600, "A_63_3ph_70_1ph") \in PpBands
    BY DEF PpBands
  <1>2. mV < 900 => PpBand(mV) = "invalid"
    BY DEF PpBand
  <1>3. 900 < mV /\ mV < 1600 => PpBand(mV) = "A_63_3ph_70_1ph"
    BY <1>1, PpBandOf
  <1>4. 1600 < mV /\ mV < 2500 => PpBand(mV) = "A_32"
    BY <1>1, PpBandOf
  <1>5. 2500 < mV /\ mV < 3800 => PpBand(mV) = "A_20"
    BY <1>1, PpBandOf
  <1>6. 3800 < mV /\ mV < 4500 => PpBand(mV) = "A_13"
    BY <1>1, PpBandOf
  <1>7. 4500 <= mV => PpBand(mV) = "None"
    <2> SUFFICES ASSUME 4500 <= mV
                 PROVE  PpBand(mV) = "None"
      OBVIOUS
    <2>1. ~\E b \in PpBands : b.above < mV /\ mV < b.below
      BY DEF PpBands
    <2> QED
      BY <2>1 DEF PpBand
  <1> QED
    BY <1>2, <1>3, <1>4, <1>5, <1>6, <1>7

(* No measurable PP voltage falls between two codings, and a lower one     *)
(* never means a thinner cable (pp_voltage_to_pp_state).                   *)
THEOREM PpBandsHaveNoGap == Spec => []PpBandsMeet
  <1>1. word \in Words => PpBandsMeet
    <2> SUFFICES ASSUME word \in Words
                 PROVE  PpBandsMeet
      OBVIOUS
    <2>1. word \in Int
      BY WordRange
    <2>2. PICK mV \in Int, nV \in Int :
              /\ mV = 29 * word /\ nV = mV + 29
              /\ Millivolt(word) = mV /\ Millivolt(word + 1) = nV
      <3>1. 29 * word \in Int /\ 29 * word + 29 \in Int /\ 29 * (word + 1) = 29 * word + 29
        BY <2>1
      <3> QED
        BY <3>1 DEF Millivolt
    <2>3. /\ mV # 900 /\ mV # 1600 /\ mV # 2500 /\ mV # 3800
          /\ nV # 900 /\ nV # 1600 /\ nV # 2500 /\ nV # 3800
      BY <2>1, <2>2
    <2>4. mV < 4500 => PpBand(mV) # "None"
      BY <2>3, PpBandIs
    <2>5. Rating[PpBand(mV)] >= Rating[PpBand(nV)]
      <3> DEFINE R(v) == Rating[PpBand(v)]
      <3>1. \A v \in Int : v # 900 /\ v # 1600 /\ v # 2500 /\ v # 3800 =>
                R(v) = IF v < 900 THEN 100 ELSE IF v < 1600 THEN 63
                       ELSE IF v < 2500 THEN 32 ELSE IF v < 3800 THEN 20
                       ELSE IF v < 4500 THEN 13 ELSE 0
        BY PpBandIs DEF Rating
      <3> HIDE DEF R
      <3>2. /\ R(mV) = IF mV < 900 THEN 100 ELSE IF mV < 1600 THEN 63
                       ELSE IF mV < 2500 THEN 32 ELSE IF mV < 3800 THEN 20
                       ELSE IF mV < 4500 THEN 13 ELSE 0
            /\ R(nV) = IF nV < 900 THEN 100 ELSE IF nV < 1600 THEN 63
                       ELSE IF nV < 2500 THEN 32 ELSE IF nV < 3800 THEN 20
                       ELSE IF nV < 4500 THEN 13 ELSE 0
        BY <2>3, <3>1
      <3>3. R(mV) >= R(nV)
        BY <2>2, <3>2
      <3> QED
        BY <3>3 DEF R
    <2> QED
      BY <2>2, <2>4, <2>5 DEF PpBandsMeet
  <1> QED
    BY <1>1, AlwaysWord, PTL

(* What the filter passes on has a meaning, and no error value is ever     *)
(* taken for a good one (filter_duty_cycle).                               *)
THEOREM DutyHasMeaning == Spec => []DutyIsMeaningful
  <1>1. word \in Words => DutyIsMeaningful
    <2> SUFFICES ASSUME word \in Words
                 PROVE  DutyIsMeaningful
      OBVIOUS
    <2> DEFINE dc == word
               filtered == FilteredDuty(dc)
               lo == 100
               hi == 960
    <2>1. dc \in Int /\ 0 <= dc
      BY WordRange
    <2>2. \A x : x \in lo .. hi <=> x \in Int /\ lo <= x /\ x <= hi
      <3>1. lo \in Int /\ hi \in Int
        OBVIOUS
      <3> HIDE DEF lo, hi
      <3> QED
        BY <3>1
    <2>3. lo = 100 /\ hi = 960
      OBVIOUS
    <2> HIDE DEF lo, hi, dc
    <2>4. DutyError(dc) => \A x \in {0, 50, 1000} \cup (lo .. hi) : filtered # x
      BY <2>1, <2>2, <2>3 DEF DutyError, FilteredDuty
    <2>5. ~DutyError(dc) => filtered \in {0, 50, 1000} \cup (lo .. hi)
      BY <2>1, <2>2, <2>3 DEF DutyError, FilteredDuty
    <2>6. ~DutyError(dc) => FilteredDuty(filtered) = filtered
      BY <2>1 DEF DutyError, FilteredDuty
    <2>7. CASE DutyError(word)
      BY <2>4, <2>7 DEF DutyIsMeaningful, lo, hi, dc
    <2>8. CASE ~DutyError(word)
      BY <2>5, <2>6, <2>8 DEF DutyIsMeaningful, lo, hi, dc
    <2> QED
      BY <2>7, <2>8
  <1> QED
    BY <1>1, AlwaysWord, PTL

=============================================================================
