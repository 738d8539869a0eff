-------------------------- MODULE SL032ReaderProofs --------------------------
(***************************************************************************)
(* For all lengths of the frames, numbers of tags and failures, with and   *)
(* without an echo: a tag is reported at most once each time it is put in  *)
(* front of the reader and in that order; and as long as nothing fails     *)
(* driver and reader stay in step.                                         *)
(*                                                                         *)
(* The first: buffer, read in progress and line are one row of cells that  *)
(* leads to what the reader would answer now.  Verdicts in it are in the   *)
(* order they were given in, so none is about a tag before the one         *)
(* reported last.  What is discarded, cut short or dropped on the way      *)
(* leaves a subsequence of the row, with the same order.                   *)
(*                                                                         *)
(* The second: every exchange is a row of its own, an echo and an answer,  *)
(* that is gone when the next request is counted.                          *)
(***************************************************************************)
EXTENDS SL032Reader, SequenceTheorems, WellFoundedInduction, TLAPS

Messages == [status : {"Request", "Success", "NoTag", "Collision"},
             tag : Tags \cup {NoTag}, placement : Nat]

CellSet == [of : Messages, k : Nat]

Verdict(m) == m.status \in {"Success", "NoTag"}

(* A placement comes before the removal of its tag, and that one before    *)
(* the next placement.                                                     *)
Before(m, n) ==
    /\ m.placement <= n.placement
    /\ m.placement = n.placement /\ n.status = "Success" =>
          m.status = "Success" /\ m.tag = n.tag

InOrder(s) ==
    \A i, j \in DOMAIN s :
        i < j /\ Verdict(s[i].of) /\ Verdict(s[j].of) => Before(s[i].of, s[j].of)

(* What the reader would answer now.                                       *)
Scene == Message(IF tag = NoTag THEN "NoTag" ELSE "Success", tag, placement)

LastReport == IF reports = <<>> THEN 0 ELSE reports[Len(reports)]

(* To report m, if it is about a tag other than t, keeps the order of the  *)
(* reports, the last one of which is about a tag of placement last.        *)
Ahead(m, last, t) ==
    /\ last <= m.placement
    /\ last = m.placement /\ m.status = "Success" => m.tag = t

Pipe == (rx_frame \o chunk) \o line

Fits(m, first, last, t) == Verdict(m) => Before(m, first) /\ Ahead(m, last, t)

PipeOK ==
    /\ InOrder(Pipe)
    /\ \A i \in DOMAIN Pipe : Fits(Pipe[i].of, Scene, LastReport, reported_tag)
    /\ Ahead(Scene, LastReport, reported_tag)

Types ==
    /\ {rx_frame, chunk, line} \subseteq Seq(CellSet)
    /\ {tag, reported_tag} \subseteq Tags \cup {NoTag}
    /\ placement \in Nat
    /\ reports \in Seq(Nat)

IInv == Types /\ PipeOK /\ ReportsInOrder

-----------------------------------------------------------------------------
(* Numbers and sequences.                                                  *)

(* A set of natural numbers has a minimum.                                 *)
LEMMA MinExists ==
    ASSUME NEW S \in SUBSET Nat, S # {}
    PROVE  Min(S) \in S /\ \A y \in S : Min(S) <= y
<1>1. \E x \in S : \A y \in S : <<y, x>> \notin OpToRel(<, Nat)
  BY NatLessThanWellFounded, WFMin
<1>2. \A x, y \in Nat : <<y, x>> \notin OpToRel(<, Nat) => x <= y
  BY DEF OpToRel
<1>3. \E x \in S : \A y \in S : x =< y
  BY <1>1, <1>2
<1> QED BY <1>3 DEF Min

(* A set of natural numbers below a bound has a maximum.                   *)
LEMMA MaxExists ==
    ASSUME NEW n \in Nat, NEW S \in SUBSET (0 .. n), S # {}
    PROVE  Max(S) \in S /\ \A y \in S : y <= Max(S)
<1> DEFINE T == {n - x : x \in S}
<1>1. T \in SUBSET Nat /\ T # {}
  <2>1. \A x \in S : x \in Nat /\ n - x \in Nat
    OBVIOUS
  <2>2. PICK x \in S : TRUE
    OBVIOUS
  <2>3. n - x \in T
    OBVIOUS
  <2> QED BY <2>1, <2>3
<1>2. PICK t \in T : \A y \in T : t <= y
  BY <1>1, MinExists
<1>3. PICK x \in S : t = n - x
  BY <1>2
<1>4. \A y \in S : x >= y
  BY <1>2, <1>3
<1> QED BY <1>3, <1>4 DEF Max

(* t is a subsequence of s.                                                *)
Within(t, s) ==
    \E f \in [DOMAIN t -> DOMAIN s] :
        /\ \A i, j \in DOMAIN t : i < j => f[i] < f[j]
        /\ \A i \in DOMAIN t : t[i] = s[f[i]]

(* What holds for the elements of a sequence and their order holds for a   *)
(* subsequence.                                                            *)
LEMMA WithinInOrder ==
    ASSUME NEW s, NEW t, Within(t, s), InOrder(s)
    PROVE  InOrder(t)
  BY DEF Within, InOrder

(* A sequence is within itself.                                            *)
LEMMA WithinSelf ==
    ASSUME NEW s
    PROVE  Within(s, s)
<1> DEFINE f == [i \in DOMAIN s |-> i]
<1>1. f \in [DOMAIN s -> DOMAIN s]
  OBVIOUS
<1> QED BY <1>1 DEF Within

(* A part of a sequence is within it.                                      *)
LEMMA WithinSubSeq ==
    ASSUME NEW S, NEW s \in Seq(S), NEW m \in 1 .. Len(s) + 1, NEW n \in 0 .. Len(s)
    PROVE  SubSeq(s, m, n) \in Seq(S) /\ Within(SubSeq(s, m, n), s)
<1> DEFINE t == SubSeq(s, m, n)
           f == [i \in DOMAIN t |-> m + i - 1]
<1>1. /\ t \in Seq(S) /\ Len(t) = IF m <= n THEN n - m + 1 ELSE 0
      /\ \A i \in 1 .. n - m + 1 : t[i] = s[m + i - 1]
  BY SubSeqProperties
<1>2. DOMAIN t = 1 .. Len(t) /\ DOMAIN s = 1 .. Len(s) /\ Len(s) \in Nat
  BY <1>1
<1>3. f \in [DOMAIN t -> DOMAIN s]
  BY <1>1, <1>2
<1>4. \A i, j \in DOMAIN t : i < j => f[i] < f[j]
  BY <1>2
<1>5. \A i \in DOMAIN t : t[i] = s[f[i]]
  BY <1>1, <1>2
<1> QED BY <1>1, <1>3, <1>4, <1>5 DEF Within

(* Parts of two sequences are within their concatenation.                  *)
LEMMA WithinConcat ==
    ASSUME NEW S, NEW a \in Seq(S), NEW b \in Seq(S), NEW c \in Seq(S),
           NEW d \in Seq(S), Within(a, b), Within(c, d)
    PROVE  Within(a \o c, b \o d)
<1>1. PICK f \in [DOMAIN a -> DOMAIN b] :
          /\ \A i, j \in DOMAIN a : i < j => f[i] < f[j]
          /\ \A i \in DOMAIN a : a[i] = b[f[i]]
  BY DEF Within
<1>2. PICK g \in [DOMAIN c -> DOMAIN d] :
          /\ \A i, j \in DOMAIN c : i < j => g[i] < g[j]
          /\ \A i \in DOMAIN c : c[i] = d[g[i]]
  BY DEF Within
<1> DEFINE h == [i \in 1 .. Len(a) + Len(c) |->
                     IF i <= Len(a) THEN f[i] ELSE Len(b) + g[i - Len(a)]]
<1>3. /\ DOMAIN a = 1 .. Len(a) /\ DOMAIN b = 1 .. Len(b)
      /\ DOMAIN c = 1 .. Len(c) /\ DOMAIN d = 1 .. Len(d)
      /\ {Len(a), Len(b), Len(c), Len(d)} \subseteq Nat
      /\ DOMAIN (a \o c) = 1 .. Len(a) + Len(c)
      /\ DOMAIN (b \o d) = 1 .. Len(b) + Len(d)
  BY ConcatProperties
<1>4. \A i \in 1 .. Len(a) + Len(c) :
          \/ i \in DOMAIN a /\ h[i] = f[i] /\ f[i] \in DOMAIN b /\ i <= Len(a)
          \/ /\ i - Len(a) \in DOMAIN c /\ h[i] = Len(b) + g[i - Len(a)]
             /\ g[i - Len(a)] \in DOMAIN d /\ i > Len(a)
  <2> SUFFICES ASSUME NEW i \in 1 .. Len(a) + Len(c)
               PROVE  \/ i \in DOMAIN a /\ h[i] = f[i] /\ f[i] \in DOMAIN b /\ i <= Len(a)
                      \/ /\ i - Len(a) \in DOMAIN c /\ h[i] = Len(b) + g[i - Len(a)]
                         /\ g[i - Len(a)] \in DOMAIN d /\ i > Len(a)
    OBVIOUS
  <2>1. CASE i <= Len(a)
    <3>1. i \in DOMAIN a
      BY <1>3, <2>1
    <3> QED BY <2>1, <3>1
  <2>2. CASE ~(i <= Len(a))
    <3>1. i - Len(a) \in DOMAIN c /\ i > Len(a)
      BY <1>3, <2>2
    <3> QED BY <2>2, <3>1
  <2> QED BY <2>1, <2>2
<1>5. h \in [DOMAIN (a \o c) -> DOMAIN (b \o d)]
  BY <1>3, <1>4
<1>6. ASSUME NEW i \in DOMAIN (a \o c), NEW j \in DOMAIN (a \o c), i < j
      PROVE  h[i] < h[j]
  <2>1. CASE i > Len(a)
    <3>1. /\ i - Len(a) \in DOMAIN c /\ h[i] = Len(b) + g[i - Len(a)]
          /\ j - Len(a) \in DOMAIN c /\ h[j] = Len(b) + g[j - Len(a)]
          /\ g[i - Len(a)] \in 1 .. Len(d) /\ g[j - Len(a)] \in 1 .. Len(d)
      BY <1>3, <1>4, <1>6, <2>1
    <3>2. i - Len(a) < j - Len(a)
      BY <1>3, <1>6
    <3>3. g[i - Len(a)] < g[j - Len(a)]
      BY <1>2, <3>1, <3>2
    <3> QED BY <1>3, <3>1, <3>3
  <2>2. CASE i <= Len(a) /\ j > Len(a)
    BY <1>3, <1>4, <2>2
  <2>3. CASE i <= Len(a) /\ j <= Len(a)
    BY <1>1, <1>3, <1>4, <1>6, <2>3
  <2> QED BY <1>3, <2>1, <2>2, <2>3
<1>7. ASSUME NEW i \in DOMAIN (a \o c)
      PROVE  (a \o c)[i] = (b \o d)[h[i]]
  <2>1. (a \o c)[i] = IF i <= Len(a) THEN a[i] ELSE c[i - Len(a)]
    BY <1>3, ConcatProperties
  <2>2. /\ h[i] \in 1 .. Len(b) + Len(d)
        /\ (b \o d)[h[i]] = IF h[i] <= Len(b) THEN b[h[i]] ELSE d[h[i] - Len(b)]
    BY <1>3, <1>5, ConcatProperties
  <2>3. CASE i <= Len(a)
    BY <1>1, <1>3, <1>4, <2>1, <2>2, <2>3
  <2>4. CASE i > Len(a)
    <3>1. i - Len(a) \in DOMAIN c /\ h[i] = Len(b) + g[i - Len(a)]
          /\ g[i - Len(a)] \in 1 .. Len(d)
      BY <1>3, <1>4, <2>4
    <3>2. ~(h[i] <= Len(b)) /\ h[i] - Len(b) = g[i - Len(a)]
      BY <1>3, <3>1
    <3> QED BY <1>2, <1>3, <2>1, <2>2, <2>4, <3>1, <3>2
  <2> QED BY <1>3, <2>3, <2>4
<1> QED BY <1>5, <1>6, <1>7 DEF Within

(* A place among the last n - k + 1 of n elements and l more.              *)
LEMMA Shifted ==
    ASSUME NEW n \in Nat, NEW l \in Nat, NEW k \in Nat, k >= 1, k <= n + 1,
           NEW j \in Int, j >= 1, j <= n - k + 1 + l
    PROVE  \E x \in 1 .. n + l :
              /\ x = j + k - 1
              /\ j <= n - k + 1 => /\ j \in 1 .. n - k + 1 /\ x <= n
                                  /\ k + j - 1 = x
              /\ ~(j <= n - k + 1) => ~(x <= n) /\ x - n = j - (n - k + 1)
<1>1. j + k - 1 \in 1 .. n + l
  OBVIOUS
<1> QED BY <1>1

(* p is q without its first k - 1 elements.                                *)
Suffix(p, q, k) ==
    \A j \in DOMAIN p : /\ j \in Nat /\ j >= 1
                        /\ j + k - 1 \in DOMAIN q /\ p[j] = q[j + k - 1]

(* Without the first k - 1 elements of b, b and t have the same elements,  *)
(* each k - 1 places further to the front.                                 *)
LEMMA SuffixConcat ==
    ASSUME NEW S, NEW b \in Seq(S), NEW t \in Seq(S), NEW k \in 1 .. Len(b) + 1,
           NEW r, r = SubSeq(b, k, Len(b)), NEW p, p = r \o t, NEW q, q = b \o t
    PROVE  Suffix(p, q, k)
<1>1. /\ Len(b) \in Nat /\ Len(t) \in Nat
      /\ k \in Nat /\ k >= 1 /\ k <= Len(b) + 1
  OBVIOUS
<1>2. r \in Seq(S)
  BY <1>1, WithinSubSeq
<1>3. /\ Len(r) = Len(b) - k + 1
      /\ \A i \in 1 .. Len(b) - k + 1 : r[i] = b[k + i - 1]
  <2>1. \A i \in k .. Len(b) : b[i] \in S
    BY <1>1
  <2>2. /\ Len(r) = IF k <= Len(b) THEN Len(b) - k + 1 ELSE 0
        /\ \A i \in 1 .. Len(b) - k + 1 : r[i] = b[k + i - 1]
    BY <1>1, <2>1, SubSeqProperties
  <2> QED BY <1>1, <2>2
<1>4. /\ DOMAIN q = 1 .. Len(b) + Len(t)
      /\ \A i \in 1 .. Len(b) + Len(t) :
            q[i] = IF i <= Len(b) THEN b[i] ELSE t[i - Len(b)]
  BY ConcatProperties
<1>5. /\ DOMAIN p = 1 .. Len(r) + Len(t)
      /\ \A i \in 1 .. Len(r) + Len(t) :
            p[i] = IF i <= Len(r) THEN r[i] ELSE t[i - Len(r)]
  BY <1>2, ConcatProperties
<1> SUFFICES ASSUME NEW j \in DOMAIN p
             PROVE  /\ j \in Nat /\ j >= 1
                    /\ j + k - 1 \in DOMAIN q /\ p[j] = q[j + k - 1]
  BY DEF Suffix
<1> DEFINE n == Len(b)
           l == Len(t)
<1>6. n \in Nat /\ l \in Nat /\ k \in Nat /\ k >= 1 /\ k <= n + 1
  BY <1>1
<1>7. /\ Len(r) = n - k + 1
      /\ DOMAIN q = 1 .. n + l /\ DOMAIN p = 1 .. Len(r) + l
      /\ \A i \in 1 .. n - k + 1 : r[i] = b[k + i - 1]
      /\ \A i \in 1 .. n + l : q[i] = IF i <= n THEN b[i] ELSE t[i - n]
      /\ \A i \in 1 .. Len(r) + l :
            p[i] = IF i <= Len(r) THEN r[i] ELSE t[i - Len(r)]
  BY <1>3, <1>4, <1>5
<1> HIDE DEF n, l
<1>8. j \in 1 .. n - k + 1 + l
  BY <1>7
<1>9. /\ j \in Int /\ j >= 1 /\ j <= n - k + 1 + l
  BY <1>6, <1>8
<1>10. PICK x \in 1 .. n + l :
          /\ x = j + k - 1
          /\ j <= n - k + 1 => /\ j \in 1 .. n - k + 1 /\ x <= n
                              /\ k + j - 1 = x
          /\ ~(j <= n - k + 1) => ~(x <= n) /\ x - n = j - (n - k + 1)
  BY <1>6, <1>9, Shifted, Zenon
<1>11. p[j] = IF j <= n - k + 1 THEN r[j] ELSE t[j - (n - k + 1)]
  BY <1>7, <1>8
<1>12. q[x] = IF x <= n THEN b[x] ELSE t[x - n]
  BY <1>7
<1>13. CASE j <= n - k + 1
  BY <1>7, <1>9, <1>10, <1>11, <1>12, <1>13
<1>14. CASE ~(j <= n - k + 1)
  BY <1>7, <1>9, <1>10, <1>11, <1>12, <1>14
<1> QED BY <1>13, <1>14

-----------------------------------------------------------------------------
(* Messages and the frames in a buffer.                                    *)

(* A cell is one of a message.                                             *)
LEMMA CellOf ==
    ASSUME NEW s \in Seq(CellSet), NEW i \in DOMAIN s
    PROVE  s[i].of \in Messages
<1>1. s[i] \in CellSet
  BY LenProperties
<1> HIDE DEF Messages
<1> QED BY <1>1 DEF CellSet

(* A message has at least one cell.                                        *)
LEMMA LengthType ==
    ASSUME ReaderAssumption, NEW m
    PROVE  Length(m) \in Nat \ {0}
  BY DEF ReaderAssumption, Length

(* The cells of a message are cells, and of that message.                  *)
LEMMA CellsType ==
    ASSUME ReaderAssumption, NEW m \in Messages
    PROVE  /\ Cells(m) \in Seq(CellSet)
           /\ \A i \in DOMAIN Cells(m) : Cells(m)[i].of = m
<1>1. Length(m) \in Nat
  BY LengthType
<1>2. \A k \in 1 .. Length(m) : [of |-> m, k |-> k] \in CellSet
  BY <1>1 DEF CellSet
<1>3. Cells(m) \in [1 .. Length(m) -> CellSet]
  BY <1>2 DEF Cells
<1> QED BY <1>1, <1>3, SeqDef DEF Cells

(* A poll is a message.                                                    *)
LEMMA RequestType == Request \in Messages
  BY DEF Request, Message, Messages

(* What the reader would answer now is a message with a verdict.           *)
LEMMA SceneType == Types => Scene \in Messages /\ Verdict(Scene)
  BY DEF Types, Scene, Message, Messages, Verdict

(* A preamble is looked for inside the buffer only.                        *)
LEMMA StartsInside ==
    ASSUME ReaderAssumption, NEW b \in Seq(CellSet)
    PROVE  StartsAt(b) \in SUBSET (1 .. Len(b))
<1>1. Len(b) \in Nat /\ MinFrameLength \in Nat \ {0} /\ MaxFrameLength \in Nat
  BY DEF ReaderAssumption
<1>2. CASE Len(b) < MinFrameLength
  BY <1>1, <1>2 DEF Limit, StartsAt
<1>3. CASE ~(Len(b) < MinFrameLength)
  <2> DEFINE T == {Len(b) - MinFrameLength + 1, MaxFrameLength + 1}
  <2>1. T \in SUBSET Nat /\ T # {}
    BY <1>1, <1>3
  <2>2. Min(T) \in Nat /\ Min(T) <= Len(b) - MinFrameLength + 1
    BY <2>1, MinExists
  <2>3. Limit(b) = Min(T)
    BY <1>3 DEF Limit
  <2> HIDE DEF T
  <2>4. Limit(b) \in Nat /\ Limit(b) <= Len(b)
    BY <1>1, <2>2, <2>3
  <2> QED BY <1>1, <2>4 DEF StartsAt
<1> QED BY <1>2, <1>3

(* The first frame is one, and what is behind it is a part of the buffer.  *)
LEMMA FirstFrame ==
    ASSUME ReaderAssumption, NEW b \in Seq(CellSet), FramesIn(b) # {}
    PROVE  LET i == Min(FramesIn(b))
           IN  /\ i \in 1 .. Len(b)
               /\ i + Length(b[i].of) \in 2 .. Len(b) + 1
               /\ i < i + Length(b[i].of)
<1> DEFINE i == Min(FramesIn(b))
<1>1. FramesIn(b) \in SUBSET (1 .. Len(b)) /\ FramesIn(b) \in SUBSET Nat
  BY StartsInside DEF FramesIn
<1>2. i \in FramesIn(b)
  BY <1>1, MinExists
<1>3. i \in 1 .. Len(b) /\ FrameAt(b, i)
  BY <1>1, <1>2 DEF FramesIn
<1>4. Length(b[i].of) \in Nat \ {0}
  BY LengthType
<1> HIDE DEF i
<1>5. i + Length(b[i].of) \in 2 .. Len(b) + 1 /\ i < i + Length(b[i].of)
  <2>1. i + Length(b[i].of) - 1 <= Len(b)
    BY <1>3 DEF FrameAt
  <2>2. Len(b) \in Nat
    OBVIOUS
  <2> QED BY <1>3, <1>4, <2>1, <2>2
<1> QED BY <1>3, <1>5 DEF i

(* Garbage is discarded from the front.                                    *)
LEMMA GarbageInFront ==
    ASSUME ReaderAssumption, NEW b \in Seq(CellSet)
    PROVE  discard_garbage(b) \in Seq(CellSet) /\ Within(discard_garbage(b), b)
<1>1. CASE StartsAt(b) # {}
  <2>1. Len(b) \in Nat /\ StartsAt(b) \in SUBSET (0 .. Len(b))
    BY StartsInside
  <2>2. Max(StartsAt(b)) \in 1 .. Len(b)
    BY <1>1, <2>1, MaxExists, StartsInside
  <2>3. /\ From(b, Max(StartsAt(b))) \in Seq(CellSet)
        /\ Within(From(b, Max(StartsAt(b))), b)
    BY <2>1, <2>2, WithinSubSeq DEF From
  <2> QED BY <2>3, WithinSelf DEF discard_garbage
<1>2. CASE StartsAt(b) = {}
  BY <1>2, WithinSelf DEF discard_garbage
<1> QED BY <1>1, <1>2

-----------------------------------------------------------------------------
(* The row of cells.                                                       *)

(* A step that takes cells away from the row and changes neither the scene *)
(* nor what has been reported keeps it in order.                           *)
LEMMA PipeShrinks ==
    ASSUME PipeOK, Within(Pipe', Pipe), UNCHANGED <<tag, placement, reported_tag, reports>>
    PROVE  PipeOK'
<1>1. InOrder(Pipe')
  BY WithinInOrder DEF PipeOK
<1>2. Scene' = Scene /\ LastReport' = LastReport
  BY DEF Scene, LastReport
<1>3. \A i \in DOMAIN Pipe' : Fits(Pipe'[i].of, Scene, LastReport, reported_tag)
  BY DEF PipeOK, Within
<1> QED BY <1>1, <1>2, <1>3 DEF PipeOK

(* So does a step that adds cells of the reader's answer or of what is not *)
(* a verdict.                                                              *)
LEMMA PipeGrows ==
    ASSUME Types, PipeOK, NEW new \in Seq(CellSet),
           NEW m, m = Scene \/ ~Verdict(m), \A i \in DOMAIN new : new[i].of = m,
           line' = line \o new,
           UNCHANGED <<rx_frame, chunk, tag, placement, reported_tag, reports>>
    PROVE  PipeOK'
<1>1. Pipe \in Seq(CellSet) /\ Pipe' = Pipe \o new
  <2>1. rx_frame \o chunk \in Seq(CellSet) /\ line \in Seq(CellSet)
    BY ConcatProperties DEF Types
  <2>2. Pipe' = (rx_frame \o chunk) \o (line \o new)
    BY DEF Pipe
  <2>3. Pipe \in Seq(CellSet)
    BY <2>1, ConcatProperties DEF Pipe
  <2>4. \A s, t, u \in Seq(CellSet) : (s \o t) \o u = s \o (t \o u)
    BY ConcatAssociative, SMTT(90)
  <2>5. ((rx_frame \o chunk) \o line) \o new = (rx_frame \o chunk) \o (line \o new)
    BY <2>1, <2>4, ZenonT(60)
  <2> QED BY <2>2, <2>3, <2>5 DEF Pipe
<1>2. Scene' = Scene /\ LastReport' = LastReport
  BY DEF Scene, LastReport
<1>3. Before(Scene, Scene)
  BY DEF Before, Scene, Message, Types
<1>4. /\ DOMAIN Pipe' = 1 .. Len(Pipe) + Len(new) /\ DOMAIN Pipe = 1 .. Len(Pipe)
      /\ DOMAIN new = 1 .. Len(new) /\ Len(Pipe) \in Nat /\ Len(new) \in Nat
  BY <1>1, ConcatProperties
<1>5. \A i \in DOMAIN Pipe' : \/ /\ i \in DOMAIN Pipe
                                 /\ Pipe'[i] = Pipe[i]
                              \/ i > Len(Pipe) /\ Pipe'[i].of = m
  <2>1. \A i \in 1 .. Len(Pipe) + Len(new) :
            Pipe'[i] = IF i <= Len(Pipe) THEN Pipe[i] ELSE new[i - Len(Pipe)]
    BY <1>1, ConcatProperties
  <2>2. ASSUME NEW i \in 1 .. Len(Pipe) + Len(new), ~(i <= Len(Pipe))
        PROVE  i - Len(Pipe) \in DOMAIN new /\ i > Len(Pipe)
    BY <1>4, <2>2
  <2> QED BY <1>4, <2>1, <2>2
<1>6. \A i \in DOMAIN Pipe' : Fits(Pipe'[i].of, Scene, LastReport, reported_tag)
  <2>1. Fits(m, Scene, LastReport, reported_tag)
    BY <1>3 DEF Fits, PipeOK
  <2> QED BY <1>5, <2>1 DEF PipeOK
<1>7. InOrder(Pipe')
  <2> SUFFICES ASSUME NEW i \in DOMAIN Pipe', NEW j \in DOMAIN Pipe', i < j,
                      Verdict(Pipe'[i].of), Verdict(Pipe'[j].of)
               PROVE  Before(Pipe'[i].of, Pipe'[j].of)
    BY DEF InOrder
  <2>1. CASE j \in DOMAIN Pipe /\ Pipe'[j] = Pipe[j]
    <3>1. i \in DOMAIN Pipe /\ Pipe'[i] = Pipe[i]
      BY <1>4, <1>5, <2>1
    <3> QED BY <2>1, <3>1 DEF PipeOK, InOrder
  <2>2. CASE Pipe'[j].of = m
    <3>1. m = Scene
      BY <2>2
    <3> QED BY <1>3, <1>5, <2>2, <3>1 DEF PipeOK, Fits
  <2> QED BY <1>5, <2>1, <2>2
<1> QED BY <1>2, <1>6, <1>7 DEF PipeOK

(* What is reported follows what was reported before, and what is behind   *)
(* the message handled stays ahead.                                        *)
LEMMA HandleOrder ==
    ASSUME Types, ReportsInOrder, NEW m \in Messages,
           Verdict(m) => Ahead(m, LastReport, reported_tag), Handle(m)
    PROVE  /\ reports' \in Seq(Nat) /\ reported_tag' \in Tags \cup {NoTag}
           /\ ReportsInOrder'
           /\ \A n \in Messages : /\ Ahead(n, LastReport, reported_tag)
                                  /\ Verdict(m) => Before(m, n)
                                  => Ahead(n, LastReport', reported_tag')
<1>1. CASE m.status = "Success" /\ m.tag # reported_tag
  <2>1. reports' = Append(reports, m.placement) /\ reported_tag' = m.tag
    BY <1>1 DEF Handle
  <2>2. m.placement \in Nat /\ m.tag \in Tags \cup {NoTag}
    BY DEF Messages
  <2>3. /\ reports' \in Seq(Nat) /\ reports \in Seq(Nat)
        /\ Len(reports') = Len(reports) + 1 /\ Len(reports) \in Nat
        /\ DOMAIN reports' = 1 .. Len(reports) + 1 /\ DOMAIN reports = 1 .. Len(reports)
        /\ \A i \in 1 .. Len(reports) : reports'[i] = reports[i] /\ reports[i] \in Nat
        /\ reports'[Len(reports) + 1] = m.placement
    BY <2>1, <2>2 DEF Types
  <2>4. LastReport' = m.placement
    BY <2>3 DEF LastReport
  <2>5. LastReport < m.placement
    <3>1. Ahead(m, LastReport, reported_tag)
      BY <1>1 DEF Verdict
    <3>2. LastReport \in Nat
      BY <2>3 DEF LastReport
    <3> QED BY <1>1, <2>2, <3>1, <3>2 DEF Ahead
  <2>6. \A i \in 1 .. Len(reports) : reports[i] <= LastReport
    <3> SUFFICES ASSUME NEW i \in 1 .. Len(reports)
                 PROVE  reports[i] <= LastReport
      OBVIOUS
    <3>1. LastReport = reports[Len(reports)] /\ Len(reports) \in 1 .. Len(reports)
      BY <2>3 DEF LastReport
    <3>2. /\ Len(reports) \in Nat /\ DOMAIN reports = 1 .. Len(reports)
          /\ reports[i] \in Nat /\ reports[Len(reports)] \in Nat
      BY <3>1 DEF Types
    <3>3. CASE i = Len(reports)
      BY <3>1, <3>2, <3>3
    <3>4. CASE i < Len(reports)
      BY <3>1, <3>2, <3>4 DEF ReportsInOrder
    <3>5. i = Len(reports) \/ i < Len(reports)
      <4> DEFINE n == Len(reports)
      <4>1. n \in Nat /\ i \in 1 .. n
        BY <3>2
      <4> HIDE DEF n
      <4>2. i = n \/ i < n
        BY <4>1
      <4> QED BY <4>2 DEF n
    <3> QED BY <3>3, <3>4, <3>5
  <2>7. ReportsInOrder'
    <3> SUFFICES ASSUME NEW i \in DOMAIN reports', NEW j \in DOMAIN reports', i < j
                 PROVE  reports'[i] < reports'[j]
      BY DEF ReportsInOrder
    <3>1. i \in 1 .. Len(reports)
      BY <2>3
    <3>2. CASE j = Len(reports) + 1
      <4>1. LastReport \in Nat
        BY <2>3 DEF LastReport
      <4> QED BY <2>2, <2>3, <2>5, <2>6, <3>1, <3>2, <4>1
    <3>3. CASE j \in 1 .. Len(reports)
      BY <2>3, <3>1, <3>3 DEF ReportsInOrder
    <3> QED BY <2>3, <3>2, <3>3
  <2>8. ASSUME NEW n \in Messages, Before(m, n)
        PROVE  Ahead(n, LastReport', reported_tag')
    BY <2>1, <2>4, <2>8 DEF Ahead, Before
  <2> QED BY <1>1, <2>1, <2>2, <2>3, <2>7, <2>8 DEF Verdict
<1>2. CASE m.status = "NoTag"
  <2>1. reports' = reports /\ reported_tag' = NoTag
    BY <1>2 DEF Handle
  <2>2. LastReport' = LastReport /\ LastReport \in Nat
    BY <2>1 DEF LastReport, Types
  <2>3. ASSUME NEW n \in Messages, Ahead(n, LastReport, reported_tag), Before(m, n)
        PROVE  Ahead(n, LastReport', reported_tag')
    <3>1. LastReport <= m.placement
      BY <1>2 DEF Verdict, Ahead
    <3>2. m.placement \in Nat /\ n.placement \in Nat
      BY DEF Messages
    <3>3. ~(LastReport = n.placement /\ n.status = "Success")
      BY <1>2, <2>2, <2>3, <3>1, <3>2 DEF Before
    <3> QED BY <2>2, <2>3, <3>3 DEF Ahead
  <2> QED BY <1>2, <2>1, <2>3 DEF Types, ReportsInOrder, Verdict
<1>3. CASE \/ m.status \notin {"Success", "NoTag"}
           \/ m.status = "Success" /\ m.tag = reported_tag
  <2>1. reports' = reports /\ reported_tag' = reported_tag
    BY <1>3 DEF Handle
  <2>2. LastReport' = LastReport
    BY <2>1 DEF LastReport
  <2> QED BY <2>1, <2>2 DEF Types, ReportsInOrder
<1> QED BY <1>1, <1>2, <1>3

-----------------------------------------------------------------------------
(* Every step keeps the invariant.                                         *)

rowVars == <<rx_frame, chunk, line, tag, placement, reported_tag, reports>>

(* A step that changes none of the row, the scene and the reports keeps    *)
(* the invariant.                                                          *)
LEMMA InvUnchanged ==
    ASSUME IInv, UNCHANGED rowVars
    PROVE  IInv'
<1>1. Pipe' = Pipe /\ Scene' = Scene /\ LastReport' = LastReport
  BY DEF rowVars, Pipe, Scene, LastReport
<1> QED BY <1>1 DEF rowVars, IInv, Types, PipeOK, ReportsInOrder

(* A step takes cells from the line or the buffer.                         *)
LEMMA InvShrinks ==
    ASSUME IInv, {rx_frame', chunk', line'} \subseteq Seq(CellSet),
           Within(rx_frame' \o chunk', rx_frame \o chunk), Within(line', line),
           UNCHANGED <<tag, placement, reported_tag, reports>>
    PROVE  IInv'
<1>1. Types'
  BY DEF IInv, Types
<1>2. /\ rx_frame \o chunk \in Seq(CellSet) /\ rx_frame' \o chunk' \in Seq(CellSet)
      /\ line \in Seq(CellSet) /\ line' \in Seq(CellSet)
  BY ConcatProperties DEF IInv, Types
<1>3. Within(Pipe', Pipe)
  BY <1>2, WithinConcat DEF Pipe
<1>4. PipeOK'
  BY <1>3, PipeShrinks DEF IInv
<1> QED BY <1>1, <1>4 DEF IInv, ReportsInOrder

(* A step adds cells to the line.                                          *)
LEMMA InvGrows ==
    ASSUME IInv, NEW new \in Seq(CellSet),
           NEW m, m = Scene \/ ~Verdict(m), \A i \in DOMAIN new : new[i].of = m,
           line' = line \o new,
           UNCHANGED <<rx_frame, chunk, tag, placement, reported_tag, reports>>
    PROVE  IInv'
<1>1. Types'
  BY ConcatProperties DEF IInv, Types
<1>2. PipeOK'
  BY PipeGrows DEF IInv
<1> QED BY <1>1, <1>2 DEF IInv, ReportsInOrder

(* The query thread adds echoes, whole or in part.                         *)
LEMMA InvQuery ==
    ASSUME ReaderAssumption, IInv, QueryCount \/ QueryWrite \/ QueryWriteFails
    PROVE  IInv'
<1> USE DEF loop, reader, device, scene
<1>1. CASE QueryCount
  BY <1>1, InvUnchanged DEF QueryCount, rowVars
<1>2. ASSUME NEW n \in 0 .. RequestLength, Echo(n),
             UNCHANGED <<reader, scene>>
      PROVE  IInv'
  <2>1. CASE IgnoreEcho
    <3> DEFINE new == SubSeq(Cells(Request), 1, n)
    <3>1. /\ Cells(Request) \in Seq(CellSet)
          /\ \A i \in DOMAIN Cells(Request) : Cells(Request)[i].of = Request
      BY CellsType, RequestType
    <3>2. DOMAIN Cells(Request) = 1 .. RequestLength /\ RequestLength \in Nat
      BY DEF Cells, Length, Request, Message, ReaderAssumption
    <3>3. Len(Cells(Request)) = RequestLength
      BY <3>1, <3>2, LenProperties
    <3>4. new \in Seq(CellSet) /\ Within(new, Cells(Request))
      BY <3>1, <3>2, <3>3, WithinSubSeq
    <3>5. \A i \in DOMAIN new : new[i].of = Request
      BY <3>1, <3>4 DEF Within
    <3>6. ~Verdict(Request)
      BY DEF Verdict, Request, Message
    <3>7. line' = line \o new
      BY <1>2, <2>1 DEF Echo
    <3> HIDE DEF new
    <3> QED BY <1>2, <3>4, <3>5, <3>6, <3>7, InvGrows
  <2>2. CASE ~IgnoreEcho
    BY <1>2, <2>2, InvUnchanged DEF Echo, rowVars
  <2> QED BY <2>1, <2>2
<1>3. CASE QueryWrite
  BY <1>2, <1>3 DEF QueryWrite, ReaderAssumption
<1>4. CASE QueryWriteFails
  <2>1. CASE io = "open"
    BY <1>2, <1>4, <2>1 DEF QueryWriteFails, ReaderAssumption
  <2>2. CASE io # "open"
    BY <1>4, <2>2, InvUnchanged DEF QueryWriteFails, rowVars
  <2> QED BY <2>1, <2>2
<1> QED BY <1>1, <1>3, <1>4

(* What is read moves on.                                                  *)
LEMMA InvReadBegins ==
    ASSUME IInv, ReadBegins
    PROVE  IInv'
<1>1. PICK n \in 1 .. Len(line) : chunk' = SubSeq(line, 1, n) /\ line' = From(line, n + 1)
  BY DEF ReadBegins
<1>2. UNCHANGED <<rx_frame, tag, placement, reported_tag, reports>> /\ chunk = <<>>
  BY DEF ReadBegins, scene
<1>3. line \in Seq(CellSet) /\ rx_frame \in Seq(CellSet) /\ Len(line) \in Nat
  BY DEF IInv, Types
<1>4. chunk' \in Seq(CellSet) /\ line' \in Seq(CellSet)
  BY <1>1, <1>3, WithinSubSeq DEF From
<1>5. chunk' \o line' = line
  <2>1. SubSeq(line, 1, n) \o SubSeq(line, n + 1, Len(line)) = SubSeq(line, 1, Len(line))
    BY <1>3, ConcatAdjacentSubSeq
  <2> QED BY <1>1, <1>3, <2>1, SubSeqFull DEF From
<1>6. Pipe' = Pipe
  <2>1. \A s, t, u \in Seq(CellSet) : (s \o t) \o u = s \o (t \o u)
    BY ConcatAssociative, SMTT(90)
  <2>2. (rx_frame \o chunk') \o line' = rx_frame \o (chunk' \o line')
    BY <1>3, <1>4, <2>1, Zenon
  <2>3. rx_frame \o chunk = rx_frame
    BY <1>2, <1>3, ConcatEmptySeq
  <2> QED BY <1>2, <1>5, <2>2, <2>3 DEF Pipe
<1>7. Scene' = Scene /\ LastReport' = LastReport
  BY <1>2 DEF Scene, LastReport
<1> QED BY <1>2, <1>3, <1>4, <1>6, <1>7 DEF IInv, Types, PipeOK, ReportsInOrder

(* What is read may be dropped ...                                         *)
LEMMA InvReadDiscards ==
    ASSUME IInv, chunk' = <<>>,
           UNCHANGED <<rx_frame, line, tag, placement, reported_tag, reports>>
    PROVE  IInv'
<1>1. /\ {rx_frame, chunk, line} \subseteq Seq(CellSet)
      /\ {rx_frame', chunk', line'} \subseteq Seq(CellSet)
  BY DEF IInv, Types
<1>2. rx_frame' \o chunk' = SubSeq(rx_frame \o chunk, 1, Len(rx_frame))
  <2>1. /\ rx_frame \o chunk \in Seq(CellSet)
        /\ Len(rx_frame \o chunk) = Len(rx_frame) + Len(chunk)
        /\ \A i \in 1 .. Len(rx_frame) + Len(chunk) :
              (rx_frame \o chunk)[i] = IF i <= Len(rx_frame) THEN rx_frame[i]
                                       ELSE chunk[i - Len(rx_frame)]
        /\ Len(rx_frame) \in Nat /\ Len(chunk) \in Nat
    BY <1>1, ConcatProperties
  <2> DEFINE t == SubSeq(rx_frame \o chunk, 1, Len(rx_frame))
  <2>2. t \in Seq(CellSet)
    BY <2>1, WithinSubSeq
  <2>3. /\ Len(t) = Len(rx_frame)
        /\ \A i \in 1 .. Len(rx_frame) : t[i] = (rx_frame \o chunk)[i]
    BY <2>1
  <2>4. \A i \in 1 .. Len(rx_frame) : t[i] = rx_frame[i]
    BY <2>1, <2>3
  <2> HIDE DEF t
  <2>5. t = rx_frame
    BY <1>1, <2>2, <2>3, <2>4, SeqEqual
  <2>6. rx_frame' \o chunk' = rx_frame
    BY <1>1, ConcatEmptySeq
  <2> QED BY <2>5, <2>6 DEF t
<1>3. /\ rx_frame \o chunk \in Seq(CellSet)
      /\ Len(rx_frame) \in 0 .. Len(rx_frame \o chunk)
      /\ 1 \in 1 .. Len(rx_frame \o chunk) + 1
  BY <1>1, ConcatProperties
<1>4. Within(rx_frame' \o chunk', rx_frame \o chunk)
  BY <1>2, <1>3, WithinSubSeq
<1>5. Within(line', line)
  BY WithinSelf
<1> QED BY <1>1, <1>4, <1>5, InvShrinks

(* ... or is collected: a frame is handled and what follows it is kept,    *)
(* or garbage is discarded.                                                *)
LEMMA InvReadCollects ==
    ASSUME ReaderAssumption, IInv, ReadCollects
    PROVE  IInv'
<1> DEFINE b == rx_frame \o chunk
<1>1. chunk' = <<>> /\ UNCHANGED <<line, tag, placement>>
  BY DEF ReadCollects, device, scene
<1>2. /\ {rx_frame, chunk, line} \subseteq Seq(CellSet) /\ b \in Seq(CellSet)
      /\ Len(b) \in Nat
  BY ConcatProperties DEF IInv, Types
<1>3. CASE Len(b) > BufferLength
  BY <1>1, <1>3, InvReadDiscards DEF ReadCollects
<1>4. CASE ~(Len(b) > BufferLength) /\ FramesIn(b) = {}
  <2>1. rx_frame' = discard_garbage(b) /\ UNCHANGED <<reported_tag, reports>>
    BY <1>4 DEF ReadCollects
  <2>2. rx_frame' \in Seq(CellSet) /\ Within(rx_frame', b)
    BY <1>2, <2>1, GarbageInFront
  <2>3. rx_frame' \o chunk' = rx_frame'
    BY <1>1, <2>2, ConcatEmptySeq
  <2>4. Within(line', line)
    BY <1>1, WithinSelf
  <2>5. {rx_frame', chunk', line'} \subseteq Seq(CellSet)
    BY <1>1, <1>2, <2>2
  <2> QED BY <1>1, <2>1, <2>2, <2>3, <2>4, <2>5, InvShrinks
<1>5. CASE ~(Len(b) > BufferLength) /\ FramesIn(b) # {}
  <2> DEFINE i == Min(FramesIn(b))
             m == b[i].of
             k == i + Length(m)
  <2>1. Handle(m) /\ rx_frame' = SubSeq(b, k, Len(b))
    BY <1>5 DEF ReadCollects, clear, From
  <2>2. i \in 1 .. Len(b) /\ k \in 2 .. Len(b) + 1 /\ i < k
    BY <1>2, <1>5, FirstFrame
  <2> HIDE DEF b, k, i
  <2>3. m \in Messages
    BY <1>2, <2>2, CellOf, LenProperties
  <2>4. rx_frame' \in Seq(CellSet) /\ rx_frame' \o chunk' = rx_frame'
    BY <1>1, <1>2, <2>1, <2>2, WithinSubSeq, ConcatEmptySeq
  <2>5. /\ Pipe = b \o line /\ Pipe' = rx_frame' \o line
        /\ Pipe \in Seq(CellSet) /\ Pipe' \in Seq(CellSet)
    BY <1>1, <1>2, <2>4, ConcatProperties DEF Pipe, b
  <2>7. ASSUME NEW j \in DOMAIN Pipe'
        PROVE  /\ j \in Nat /\ j >= 1
               /\ j + k - 1 \in DOMAIN Pipe /\ Pipe'[j] = Pipe[j + k - 1]
    <3>1. /\ k \in 1 .. Len(b) + 1 /\ b \in Seq(CellSet) /\ line \in Seq(CellSet)
          /\ rx_frame' = SubSeq(b, k, Len(b))
          /\ Pipe' = rx_frame' \o line /\ Pipe = b \o line
      BY <1>2, <2>1, <2>2, <2>5
    <3>2. Suffix(Pipe', Pipe, k)
      BY <3>1, SuffixConcat
    <3> QED BY <2>7, <3>2 DEF Suffix
  <2>8. /\ Len(Pipe) = Len(b) + Len(line) /\ DOMAIN Pipe = 1 .. Len(Pipe)
        /\ Len(line) \in Nat
    BY <1>2, <2>5, ConcatProperties
  <2>9. i \in DOMAIN Pipe /\ Pipe[i].of = m
    BY <1>2, <2>2, <2>5, <2>8, ConcatProperties
  <2>10. Verdict(m) => Before(m, Scene) /\ Ahead(m, LastReport, reported_tag)
    BY <2>9 DEF IInv, PipeOK, Fits
  <2> HIDE DEF m
  <2>11. /\ reports' \in Seq(Nat) /\ reported_tag' \in Tags \cup {NoTag}
         /\ ReportsInOrder'
         /\ \A n \in Messages : /\ Ahead(n, LastReport, reported_tag)
                                /\ Verdict(m) => Before(m, n)
                                => Ahead(n, LastReport', reported_tag')
    BY <2>1, <2>3, <2>10, HandleOrder DEF IInv
  <2>12. Types'
    BY <1>1, <1>2, <2>4, <2>11 DEF IInv, Types
  <2>13. Within(Pipe', Pipe)
    <3> DEFINE f == [j \in DOMAIN Pipe' |-> j + k - 1]
    <3>1. f \in [DOMAIN Pipe' -> DOMAIN Pipe]
      BY <2>7
    <3>2. \A j, l \in DOMAIN Pipe' : j < l => f[j] < f[l]
      BY <2>2, <2>7
    <3>3. \A j \in DOMAIN Pipe' : Pipe'[j] = Pipe[f[j]]
      BY <2>7
    <3> HIDE DEF f
    <3> QED BY <3>1, <3>2, <3>3 DEF Within
  <2>14. InOrder(Pipe')
    BY <2>13, WithinInOrder DEF IInv, PipeOK
  <2>15. Scene' = Scene /\ Scene \in Messages
    BY <1>1, SceneType DEF Scene, IInv
  <2>16. Ahead(Scene', LastReport', reported_tag')
    BY <2>10, <2>11, <2>15 DEF IInv, PipeOK
  <2>17. ASSUME NEW j \in DOMAIN Pipe'
         PROVE  Fits(Pipe'[j].of, Scene', LastReport', reported_tag')
    <3>1. /\ j + k - 1 \in DOMAIN Pipe /\ Pipe'[j].of = Pipe[j + k - 1].of
          /\ i < j + k - 1
      BY <1>2, <2>2, <2>7
    <3>2. Pipe[j + k - 1].of \in Messages
      BY <2>5, <3>1, CellOf
    <3>3. Fits(Pipe[j + k - 1].of, Scene, LastReport, reported_tag)
      BY <3>1 DEF IInv, PipeOK
    <3>4. Verdict(m) /\ Verdict(Pipe[j + k - 1].of) => Before(m, Pipe[j + k - 1].of)
      BY <2>9, <3>1 DEF IInv, PipeOK, InOrder
    <3> QED BY <2>11, <2>15, <3>1, <3>2, <3>3, <3>4 DEF Fits
  <2> QED BY <2>11, <2>12, <2>14, <2>16, <2>17 DEF IInv, PipeOK
<1> QED BY <1>3, <1>4, <1>5

(* What was on its way is lost with the connection.                        *)
LEMMA InvLineLost ==
    ASSUME IInv, line' = <<>>,
           UNCHANGED <<rx_frame, chunk, tag, placement, reported_tag, reports>>
    PROVE  IInv'
<1>1. line \in Seq(CellSet) /\ {rx_frame', chunk', line'} \subseteq Seq(CellSet)
  BY DEF IInv, Types
<1>2. SubSeq(line, 1, 0) = <<>> /\ Within(SubSeq(line, 1, 0), line)
  <2>1. Len(line) \in Nat
    BY <1>1
  <2> QED BY <1>1, <2>1, WithinSubSeq, SubSeqEmpty
<1>3. Within(rx_frame' \o chunk', rx_frame \o chunk)
  BY WithinSelf
<1> QED BY <1>1, <1>2, <1>3, InvShrinks

(* Steps of the loop touch nothing of the row but the line.                *)
LEMMA InvMain ==
    ASSUME IInv, MainStep \/ OpenFails \/ ReadError
    PROVE  IInv'
<1> USE DEF reader, device, scene, OthersUnchanged, Unfailing
<1>1. CASE Create \/ Open \/ Woken \/ Destroy \/ Sleep \/ OpenFails
  BY <1>1, InvUnchanged DEF Create, Open, Woken, Destroy, Sleep, OpenFails, rowVars
<1>2. CASE Close \/ ReadError
  BY <1>2, InvLineLost DEF Close, ReadError
<1> QED BY <1>1, <1>2 DEF MainStep

(* The reader answers what is in front of it.                              *)
LEMMA InvAnswers ==
    ASSUME ReaderAssumption, IInv, Answer \/ AnswerCollision
    PROVE  IInv'
<1>1. ASSUME NEW m \in Messages, Sends(m), m = Scene \/ ~Verdict(m)
      PROVE  IInv'
  <2>1. CASE io = "open"
    <3>1. line' = line \o Cells(m)
      BY <1>1, <2>1 DEF Sends
    <3> QED BY <1>1, <3>1, CellsType, InvGrows DEF Sends, reader, scene
  <2>2. CASE io # "open"
    BY <1>1, <2>2, InvUnchanged DEF Sends, reader, scene, rowVars
  <2> QED BY <2>1, <2>2
<1>2. CASE Answer
  BY <1>1, <1>2, SceneType DEF Answer, Scene, IInv
<1>3. CASE AnswerCollision
  <2>1. /\ Message("Collision", NoTag, placement) \in Messages
        /\ ~Verdict(Message("Collision", NoTag, placement))
    BY DEF Message, Messages, Verdict, IInv, Types
  <2> QED BY <1>1, <1>3, <2>1 DEF AnswerCollision
<1> QED BY <1>2, <1>3

(* The scene moves on.                                                     *)
LEMMA InvScene ==
    ASSUME ReaderAssumption, IInv, Place \/ Remove
    PROVE  IInv'
<1>1. UNCHANGED <<rx_frame, chunk, line, reported_tag, reports>>
  BY DEF Place, Remove, reader, device
<1>2. /\ placement \in Nat /\ placement' \in Nat /\ NoTag \notin Tags
      /\ tag' \in Tags \cup {NoTag} /\ tag \in Tags \cup {NoTag}
  BY DEF Place, Remove, IInv, Types, ReaderAssumption
<1>3. Types'
  BY <1>1, <1>2 DEF IInv, Types
<1>4. Pipe' = Pipe /\ LastReport' = LastReport /\ LastReport \in Nat
  BY <1>1 DEF Pipe, LastReport, IInv, Types
<1>5. /\ Scene.placement = placement /\ Scene'.placement = placement'
      /\ \/ placement' = placement + 1
         \/ placement' = placement /\ Scene'.status = "NoTag"
  BY DEF Scene, Message, Place, Remove
<1>6. ASSUME NEW n \in Messages, Before(n, Scene)
      PROVE  Before(n, Scene')
  <2>1. n.placement \in Nat
    BY DEF Messages
  <2> QED BY <1>2, <1>5, <1>6, <2>1 DEF Before
<1>7. Ahead(Scene', LastReport', reported_tag')
  BY <1>1, <1>2, <1>4, <1>5 DEF Ahead, IInv, PipeOK
<1>8. \A i \in DOMAIN Pipe : Pipe[i].of \in Messages
  <2>1. Pipe \in Seq(CellSet)
    BY ConcatProperties DEF Pipe, IInv, Types
  <2> QED BY <2>1, CellOf
<1>9. \A i \in DOMAIN Pipe : Fits(Pipe[i].of, Scene', LastReport, reported_tag)
  BY <1>6, <1>8 DEF Fits, IInv, PipeOK
<1> QED BY <1>1, <1>3, <1>4, <1>7, <1>9 DEF IInv, PipeOK, ReportsInOrder

(* The row is empty at first.                                              *)
LEMMA InvInit == Init => IInv
<1> SUFFICES ASSUME Init PROVE IInv
  OBVIOUS
<1>1. Types /\ reports = <<>> /\ placement = 0
  BY DEF Init, Types
<1>2. Pipe = <<>>
  <2>1. <<>> \o <<>> = <<>>
    BY EmptySeq, ConcatEmptySeq
  <2> QED BY <2>1 DEF Init, Pipe
<1>3. Ahead(Scene, LastReport, reported_tag)
  BY <1>1 DEF Init, Ahead, Scene, Message, LastReport
<1> QED BY <1>1, <1>2, <1>3 DEF IInv, PipeOK, InOrder, ReportsInOrder

(* The invariant is inductive.                                             *)
LEMMA InvNext ==
    ASSUME ReaderAssumption, IInv, [Next]_vars
    PROVE  IInv'
<1>1. CASE QueryCount \/ QueryWrite \/ QueryWriteFails
  BY <1>1, InvQuery
<1>2. CASE ReadBegins
  BY <1>2, InvReadBegins
<1>3. CASE ReadDiscards
  BY <1>3, InvReadDiscards DEF ReadDiscards, device, scene
<1>4. CASE ReadCollects
  BY <1>4, InvReadCollects
<1>5. CASE MainStep \/ OpenFails \/ ReadError
  BY <1>5, InvMain
<1>6. CASE Answer \/ AnswerCollision
  BY <1>6, InvAnswers
<1>7. CASE Place \/ Remove
  BY <1>7, InvScene
<1>8. CASE UNCHANGED vars
  BY <1>8, InvUnchanged DEF vars, reader, device, scene, rowVars
<1> QED BY <1>1, <1>2, <1>3, <1>4, <1>5, <1>6, <1>7, <1>8 DEF Next, Running

-----------------------------------------------------------------------------

(* StronglinkSL032: reported_tag and the order of the answers are enough   *)
(* for each tag put in front of the reader to be reported at most once and *)
(* in order, whatever parts of the answers the discarded echoes, broken    *)
(* connections and the search for frames leave.                            *)
THEOREM ReportedInOrder == Spec => []ReportsInOrder
<1>1. Init => IInv
  BY InvInit
<1>2. IInv /\ [Next]_vars => IInv'
  BY InvNext, ReaderAssumption
<1>3. IInv => ReportsInOrder
  BY DEF IInv
<1> QED BY <1>1, <1>2, <1>3, PTL DEF Spec

-----------------------------------------------------------------------------
(* Types.                                                                  *)

(* A cell of a message that may be on its way while p is the number of the *)
(* last placement.                                                         *)
Sound(p) ==
    {c \in CellSet : /\ c.k \in 1 .. Length(c.of) /\ c.of.placement <= p
                     /\ c.of.status = "Success" => c.of.placement > 0}

(* A wake is consumed before the next one can come.                        *)
LoopTyped ==
    /\ Loop!LoopTypeOK
    /\ main \in {"close", "destroy"} => wakes < WakeBound
    /\ connections \in Nat

RowTyped ==
    /\ {chunk, rx_frame, line} \subseteq Seq(Sound(placement))
    /\ Len(rx_frame) <= BufferLength

SceneTyped ==
    /\ placement \in 0 .. MaxPlacements
    /\ tag # NoTag => placement > 0
    /\ {reported_tag, tag, answered} \subseteq Tags \cup {NoTag}
    /\ reports \in Seq(1 .. MaxPlacements)

Counted ==
    /\ query \in {"sleep", "write"} /\ crashed \in BOOLEAN
    /\ {still_to_discard, to_discard, asked, faults} \subseteq Nat

TInv == LoopTyped /\ RowTyped /\ SceneTyped /\ Counted

LEMMA TInvTypes == TInv => TypeOK
<1> SUFFICES ASSUME TInv PROVE TypeOK
  OBVIOUS
<1>1. ASSUME NEW s \in {chunk, rx_frame, line}, NEW i \in DOMAIN s
      PROVE  s[i].k \in 1 .. Length(s[i].of) /\ s[i].of.placement \in 0 .. placement
  <2>1. s \in Seq(Sound(placement)) /\ placement \in Nat
    BY DEF TInv, RowTyped, SceneTyped
  <2>2. s[i] \in Sound(placement)
    BY <1>1, <2>1, ElementOfSeq, LenProperties
  <2>3. s[i].of \in Messages
    BY <2>2 DEF Sound, CellSet
  <2>4. s[i].of.placement \in Nat
    BY <2>3 DEF Messages
  <2>5. s[i].k \in 1 .. Length(s[i].of) /\ s[i].of.placement <= placement
    BY <2>2 DEF Sound
  <2> QED BY <2>1, <2>4, <2>5
<1> QED BY <1>1 DEF TypeOK, TInv, LoopTyped, RowTyped, SceneTyped, Counted

LEMMA SoundSet ==
    ASSUME NEW p, NEW s \in Seq(Sound(p))
    PROVE  s \in Seq(CellSet)
<1>1. Sound(p) \subseteq CellSet
  BY DEF Sound
<1> HIDE DEF Sound, CellSet
<1>2. Len(s) \in Nat /\ \A i \in 1 .. Len(s) : s[i] \in CellSet
  BY <1>1, ElementOfSeq
<1> QED BY <1>2, SeqDef, LenProperties

(* More placements, more cells.                                            *)
LEMMA SoundGrows ==
    ASSUME NEW p \in Nat, NEW q \in Nat, p <= q, NEW s \in Seq(Sound(p))
    PROVE  s \in Seq(Sound(q))
<1>1. Sound(p) \subseteq Sound(q)
  <2> SUFFICES ASSUME NEW c \in Sound(p)
               PROVE  c \in Sound(q)
    OBVIOUS
  <2>1. c \in CellSet /\ c.of.placement <= p
    BY DEF Sound
  <2>2. c.of \in Messages
    BY <2>1 DEF CellSet
  <2>3. c.of.placement \in Nat
    BY <2>2 DEF Messages
  <2>4. c.of.placement <= q
    BY <2>1, <2>3
  <2> QED BY <2>4 DEF Sound
<1> HIDE DEF Sound
<1>2. Len(s) \in Nat /\ \A i \in 1 .. Len(s) : s[i] \in Sound(q)
  BY <1>1, ElementOfSeq
<1> QED BY <1>2, SeqDef, LenProperties

(* The end of a sequence.                                                  *)
LEMMA EndOf ==
    ASSUME NEW S, NEW b \in Seq(S), NEW k \in 1 .. Len(b) + 1
    PROVE  From(b, k) \in Seq(S) /\ Len(From(b, k)) <= Len(b)
<1>1. Len(b) \in Nat /\ k \in Nat /\ k >= 1
  OBVIOUS
<1>2. From(b, k) \in Seq(S)
  BY <1>1, WithinSubSeq DEF From
<1>3. \A i \in k .. Len(b) : b[i] \in S
  BY <1>1, ElementOfSeq
<1>4. Len(From(b, k)) = IF k <= Len(b) THEN Len(b) - k + 1 ELSE 0
  BY <1>1, <1>3, SubSeqProperties DEF From
<1> QED BY <1>1, <1>2, <1>4

LEMMA GarbageIs ==
    ASSUME ReaderAssumption, NEW b \in Seq(CellSet)
    PROVE  \E k \in 1 .. Len(b) + 1 : discard_garbage(b) = From(b, k)
<1>1. Len(b) \in Nat /\ From(b, 1) = b
  BY SubSeqFull DEF From
<1>2. CASE StartsAt(b) # {}
  <2>1. StartsAt(b) \in SUBSET (0 .. Len(b))
    BY <1>1, StartsInside
  <2>2. Max(StartsAt(b)) \in 1 .. Len(b)
    BY <1>1, <1>2, <2>1, MaxExists, StartsInside
  <2> QED BY <1>1, <2>2 DEF discard_garbage
<1>3. CASE StartsAt(b) = {}
  BY <1>1, <1>3 DEF discard_garbage
<1> QED BY <1>2, <1>3

(* The loop.                                                               *)
LEMMA LoopStep ==
    ASSUME ReaderAssumption, LoopTyped, MainStep \/ OpenFails \/ ReadError
    PROVE  LoopTyped'
<1> USE DEF LoopTyped, Loop!LoopTypeOK, ReaderAssumption, Unfailing
<1>1. CASE Create
  BY <1>1 DEF Create, Loop!NewGensio
<1>2. CASE Open
  BY <1>2 DEF Open, Loop!OpenGensio
<1>3. CASE OpenFails
  BY <1>3 DEF OpenFails, Loop!OpenThrows
<1>4. CASE Woken
  <2>1. /\ wakes \in Int /\ wakes > 0 /\ wakes <= WakeBound /\ WakeBound \in Nat
        /\ wakes' = wakes - 1 /\ main' = "close" /\ tx_enabled' = FALSE /\ io' = io
        /\ connections' = connections
    BY <1>4 DEF Woken, Loop!WaitReturns
  <2>2. wakes' \in 0 .. WakeBound /\ wakes' < WakeBound
    BY <2>1
  <2> QED BY <2>1, <2>2, Zenon
<1>5. CASE Close
  BY <1>5 DEF Close, Loop!CloseGensio
<1>6. CASE Sleep
  BY <1>6 DEF Sleep, Loop!Retry
<1>7. CASE Destroy
  BY <1>7 DEF Destroy, Loop!FreeGensio
<1>8. CASE ReadError
  BY <1>8 DEF ReadError, Loop!Break
<1> QED BY <1>1, <1>2, <1>3, <1>4, <1>5, <1>6, <1>7, <1>8 DEF MainStep

LEMMA LoopStays == LoopTyped /\ UNCHANGED loop => LoopTyped'
  BY DEF LoopTyped, Loop!LoopTypeOK, loop

LEMMA FunctionIsSeq ==
    ASSUME NEW S, NEW k \in Nat, NEW f \in [1 .. k -> S]
    PROVE  f \in Seq(S) /\ DOMAIN f = 1 .. k
  BY SeqDef

(* The row when cells of a message are added ...                           *)
LEMMA RowGrows ==
    ASSUME ReaderAssumption, RowTyped, placement \in Nat,
           NEW m \in Messages, m.placement <= placement,
           m.status = "Success" => m.placement > 0,
           NEW n \in 0 .. Length(m), line' = line \o SubSeq(Cells(m), 1, n),
           UNCHANGED <<chunk, rx_frame, placement>>
    PROVE  RowTyped'
<1>1. Length(m) \in Nat
  BY LengthType
<1>2. \A k \in 1 .. Length(m) : [of |-> m, k |-> k] \in Sound(placement)
  BY <1>1 DEF Sound, CellSet
<1>3. Cells(m) \in [1 .. Length(m) -> Sound(placement)]
  BY <1>2 DEF Cells
<1>4. Cells(m) \in Seq(Sound(placement)) /\ DOMAIN Cells(m) = 1 .. Length(m)
  BY <1>1, <1>3, FunctionIsSeq
<1>a. Len(Cells(m)) = Length(m)
  BY <1>1, <1>4, LenProperties
<1> HIDE DEF Sound
<1>5. SubSeq(Cells(m), 1, n) \in Seq(Sound(placement))
  BY <1>1, <1>4, <1>a, WithinSubSeq
<1>6. line' \in Seq(Sound(placement))
  BY <1>5, ConcatProperties DEF RowTyped
<1> QED BY <1>6 DEF RowTyped

LEMMA RowStays ==
    ASSUME RowTyped, UNCHANGED <<chunk, rx_frame, line, placement>>
    PROVE  RowTyped'
  BY DEF RowTyped

LEMMA WholeMessage ==
    ASSUME ReaderAssumption, NEW m \in Messages
    PROVE  /\ Length(m) \in Nat \ {0} /\ Len(Cells(m)) = Length(m)
           /\ Cells(m) = SubSeq(Cells(m), 1, Length(m))
<1>1. Length(m) \in Nat \ {0} /\ Cells(m) \in Seq(CellSet)
  BY LengthType, CellsType
<1>2. DOMAIN Cells(m) = 1 .. Length(m)
  BY DEF Cells
<1>3. Len(Cells(m)) = Length(m)
  BY <1>1, <1>2, LenProperties
<1> QED BY <1>1, <1>3, SubSeqFull

LEMMA TQuery ==
    ASSUME ReaderAssumption, TInv, QueryCount \/ QueryWrite \/ QueryWriteFails
    PROVE  TInv'
<1> USE DEF reader, device, scene
<1>1. LoopTyped'
  BY LoopStays DEF TInv, QueryCount, QueryWrite, QueryWriteFails
<1>2. SceneTyped'
  BY DEF TInv, SceneTyped, QueryCount, QueryWrite, QueryWriteFails
<1>3. Counted'
  <2>1. /\ query' \in {"sleep", "write"}
        /\ {still_to_discard', to_discard', asked', faults'} \subseteq Nat
    <3>1. /\ {still_to_discard, to_discard, asked, faults, RequestLength} \subseteq Nat
          /\ query \in {"sleep", "write"}
      BY DEF TInv, Counted, ReaderAssumption
    <3>2. CASE QueryCount
      BY <3>1, <3>2 DEF QueryCount, Polls, Fails
    <3>3. CASE QueryWrite
      BY <3>1, <3>3 DEF QueryWrite
    <3>4. CASE QueryWriteFails
      <4>1. faults' = faults \/ faults' = faults + 1
        BY <3>4, Zenon DEF QueryWriteFails, Fails
      <4>2. query' = "sleep" /\ UNCHANGED <<still_to_discard, to_discard, asked>>
        BY <3>4, Zenon DEF QueryWriteFails
      <4> QED BY <3>1, <4>1, <4>2
    <3> QED BY <3>2, <3>3, <3>4
  <2>2. crashed' = crashed \/ crashed' \in {FALSE, io = "gone"}
    BY Zenon DEF QueryCount, QueryWrite, QueryWriteFails
  <2>3. crashed' \in BOOLEAN
    BY <2>2, Zenon DEF TInv, Counted
  <2> QED BY <2>1, <2>3 DEF Counted
<1>4. ASSUME NEW n \in 0 .. RequestLength, Echo(n), UNCHANGED <<reader, scene>>
      PROVE  RowTyped'
  <2>1. CASE IgnoreEcho
    <3>1. /\ Request \in Messages /\ Request.placement = 0 /\ Request.status = "Request"
          /\ Length(Request) = RequestLength /\ placement \in Nat
      BY RequestType DEF Request, Message, Length, TInv, SceneTyped
    <3>2. Request.placement <= placement
      BY <3>1
    <3>3. line' = line \o SubSeq(Cells(Request), 1, n)
      BY <1>4, <2>1 DEF Echo
    <3> HIDE DEF Request
    <3> QED BY <1>4, <3>1, <3>2, <3>3, RowGrows DEF TInv
  <2>2. CASE ~IgnoreEcho
    BY <1>4, <2>2, RowStays DEF Echo, TInv
  <2> QED BY <2>1, <2>2
<1>5. RowTyped'
  <2>1. CASE QueryCount
    BY <2>1, RowStays DEF QueryCount, TInv
  <2>2. CASE QueryWrite
    BY <1>4, <2>2 DEF QueryWrite, ReaderAssumption
  <2>3. CASE QueryWriteFails /\ io = "open"
    BY <1>4, <2>3 DEF QueryWriteFails, ReaderAssumption
  <2>4. CASE QueryWriteFails /\ io # "open"
    BY <2>4, RowStays DEF QueryWriteFails, TInv
  <2> QED BY <2>1, <2>2, <2>3, <2>4
<1> QED BY <1>1, <1>2, <1>3, <1>5 DEF TInv

LEMMA TReadBegins ==
    ASSUME TInv, ReadBegins
    PROVE  TInv'
<1> USE DEF scene
<1>1. LoopTyped' /\ SceneTyped' /\ Counted'
  BY LoopStays DEF TInv, SceneTyped, Counted, ReadBegins
<1>2. PICK n \in 1 .. Len(line) : chunk' = SubSeq(line, 1, n) /\ line' = From(line, n + 1)
  BY DEF ReadBegins
<1>3. line \in Seq(Sound(placement)) /\ Len(line) \in Nat
  BY DEF TInv, RowTyped
<1> HIDE DEF Sound
<1>4. chunk' \in Seq(Sound(placement))
  BY <1>2, <1>3, WithinSubSeq
<1>5. line' \in Seq(Sound(placement))
  BY <1>2, <1>3, EndOf
<1>6. RowTyped'
  BY <1>4, <1>5 DEF RowTyped, ReadBegins, TInv
<1> QED BY <1>1, <1>6 DEF TInv

LEMMA TReadDiscards ==
    ASSUME TInv, ReadDiscards
    PROVE  TInv'
<1> USE DEF device, scene
<1>1. LoopTyped' /\ SceneTyped'
  BY LoopStays DEF TInv, SceneTyped, ReadDiscards
<1>2. RowTyped'
  BY DEF TInv, RowTyped, ReadDiscards
<1>3. Counted'
  <2>1. chunk \in Seq(Sound(placement))
    BY DEF TInv, RowTyped
  <2>2. Len(chunk) \in Nat
    BY <2>1
  <2> QED BY <2>2 DEF TInv, Counted, ReadDiscards
<1> QED BY <1>1, <1>2, <1>3 DEF TInv

LEMMA TReadCollects ==
    ASSUME ReaderAssumption, TInv, ReadCollects
    PROVE  TInv'
<1> USE DEF device, scene
<1> DEFINE b == rx_frame \o chunk
<1>1. LoopTyped' /\ Counted'
  <2>1. crashed' \in {crashed, TRUE}
    BY Zenon DEF ReadCollects
  <2>2. crashed' \in BOOLEAN
    BY <2>1, Zenon DEF TInv, Counted
  <2> QED BY <2>2, LoopStays DEF TInv, Counted, ReadCollects
<1>2. /\ chunk' = <<>> /\ UNCHANGED <<line, tag, placement, answered>>
      /\ rx_frame \in Seq(Sound(placement)) /\ chunk \in Seq(Sound(placement))
      /\ line \in Seq(Sound(placement)) /\ placement \in Nat
  BY DEF TInv, RowTyped, SceneTyped, ReadCollects
<1>3. b \in Seq(Sound(placement))
  BY <1>2, ConcatProperties
<1>4. b \in Seq(CellSet) /\ Len(b) \in Nat
  BY <1>3, SoundSet
<1> HIDE DEF b
<1>5. ASSUME NEW k \in 1 .. Len(b) + 1, rx_frame' = From(b, k), ~(Len(b) > BufferLength)
      PROVE  RowTyped'
  <2>1. rx_frame' \in Seq(Sound(placement)) /\ Len(rx_frame') <= Len(b)
    BY <1>3, <1>5, EndOf
  <2>2. BufferLength \in Nat /\ Len(rx_frame') \in Nat
    BY <2>1 DEF BufferLength, ReaderAssumption
  <2>3. chunk' \in Seq(Sound(placement))
    BY <1>2, EmptySeq
  <2> QED BY <1>2, <1>4, <1>5, <2>1, <2>2, <2>3 DEF RowTyped
<1>6. CASE Len(b) > BufferLength
  <2>1. UNCHANGED <<rx_frame, reported_tag, reports>>
    BY <1>6 DEF ReadCollects, b
  <2>2. RowTyped' /\ SceneTyped'
    BY <1>2, <2>1 DEF TInv, RowTyped, SceneTyped
  <2> QED BY <1>1, <2>2 DEF TInv
<1>7. CASE ~(Len(b) > BufferLength) /\ FramesIn(b) = {}
  <2>1. rx_frame' = discard_garbage(b) /\ UNCHANGED <<reported_tag, reports>>
    BY <1>7 DEF ReadCollects, b
  <2>2. RowTyped'
    BY <1>4, <1>5, <1>7, <2>1, GarbageIs
  <2>3. SceneTyped'
    BY <1>2, <2>1 DEF TInv, SceneTyped
  <2> QED BY <1>1, <2>2, <2>3 DEF TInv
<1>8. CASE ~(Len(b) > BufferLength) /\ FramesIn(b) # {}
  <2> DEFINE i == Min(FramesIn(b))
             m == b[i].of
  <2>1. Handle(m) /\ rx_frame' = From(b, i + Length(m))
    BY <1>8 DEF ReadCollects, clear, b
  <2>2. i \in 1 .. Len(b) /\ i + Length(m) \in 2 .. Len(b) + 1
    BY <1>4, <1>8, FirstFrame
  <2>3. i + Length(m) \in 1 .. Len(b) + 1
    BY <1>4, <2>2
  <2>4. RowTyped'
    BY <1>5, <1>8, <2>1, <2>3
  <2>5. b[i] \in Sound(placement)
    BY <1>3, <2>2, ElementOfSeq
  <2>6. m \in Messages
    BY <2>5 DEF Sound, CellSet
  <2>7. m.tag \in Tags \cup {NoTag} /\ m.placement \in Nat
    BY <2>6 DEF Messages
  <2>8. m.placement <= placement /\ (m.status = "Success" => m.placement > 0)
    BY <2>5 DEF Sound
  <2> HIDE DEF m
  <2>9. m.status = "Success" => m.placement \in 1 .. MaxPlacements
    BY <2>7, <2>8 DEF TInv, SceneTyped, ReaderAssumption
  <2>10. reported_tag' \in Tags \cup {NoTag}
    BY <2>1, <2>7 DEF Handle, TInv, SceneTyped
  <2>11. reports' \in Seq(1 .. MaxPlacements)
    BY <2>1, <2>9, AppendProperties DEF Handle, TInv, SceneTyped
  <2>12. SceneTyped'
    BY <1>2, <2>10, <2>11 DEF TInv, SceneTyped
  <2> QED BY <1>1, <2>4, <2>12 DEF TInv
<1> QED BY <1>6, <1>7, <1>8

LEMMA TMain ==
    ASSUME ReaderAssumption, TInv, MainStep \/ OpenFails \/ ReadError
    PROVE  TInv'
<1>1. LoopTyped'
  BY LoopStep DEF TInv
<1> USE DEF reader, device, scene, OthersUnchanged, Unfailing
<1>2. /\ UNCHANGED <<reader, scene, answered, query, still_to_discard, crashed>>
      /\ line' \in {line, <<>>} /\ asked' \in {asked, 0}
      /\ faults' \in {faults, faults + 1}
  BY DEF MainStep, OpenFails, ReadError, Create, Open, Woken, Close, Sleep, Destroy, Fails
<1>3. SceneTyped' /\ Counted'
  BY <1>2 DEF TInv, SceneTyped, Counted
<1>4. RowTyped'
  BY <1>2, EmptySeq DEF TInv, RowTyped
<1> QED BY <1>1, <1>3, <1>4 DEF TInv

LEMMA TAnswers ==
    ASSUME ReaderAssumption, TInv, Answer \/ AnswerCollision
    PROVE  TInv'
<1> USE DEF reader, scene
<1>1. LoopTyped' /\ SceneTyped' /\ Counted'
  BY LoopStays DEF TInv, SceneTyped, Counted, Answer, AnswerCollision, Sends
<1>2. ASSUME NEW m \in Messages, Sends(m), m.placement = placement,
             m.status = "Success" => placement > 0
      PROVE  RowTyped'
  <2>1. CASE io = "open"
    <3>1. line' = line \o Cells(m)
      BY <1>2, <2>1 DEF Sends
    <3>2. Length(m) \in Nat /\ line' = line \o SubSeq(Cells(m), 1, Length(m))
      BY <3>1, WholeMessage
    <3>a. Length(m) \in 0 .. Length(m)
      BY <3>2
    <3>3. m.placement <= placement /\ placement \in Nat /\ UNCHANGED <<chunk, rx_frame, placement>>
      BY <1>2 DEF Sends, TInv, SceneTyped
    <3> QED BY <1>2, <3>2, <3>a, <3>3, RowGrows DEF TInv
  <2>2. CASE io # "open"
    BY <1>2, <2>2, RowStays DEF Sends, TInv
  <2> QED BY <2>1, <2>2
<1>3. /\ placement \in Nat /\ tag \in Tags \cup {NoTag}
      /\ tag # NoTag => placement > 0
  BY DEF TInv, SceneTyped
<1>4. CASE Answer
  <2> DEFINE m == Message(IF tag = NoTag THEN "NoTag" ELSE "Success", tag, placement)
  <2>1. /\ m \in Messages /\ Sends(m) /\ m.placement = placement
        /\ m.status = "Success" => placement > 0
    BY <1>3, <1>4 DEF Answer, Message, Messages
  <2> HIDE DEF m
  <2> QED BY <1>1, <1>2, <2>1 DEF TInv
<1>5. CASE AnswerCollision
  <2> DEFINE m == Message("Collision", NoTag, placement)
  <2>1. /\ m \in Messages /\ Sends(m) /\ m.placement = placement
        /\ m.status = "Success" => placement > 0
    BY <1>3, <1>5 DEF AnswerCollision, Message, Messages
  <2> HIDE DEF m
  <2> QED BY <1>1, <1>2, <2>1 DEF TInv
<1> QED BY <1>4, <1>5

LEMMA TScene ==
    ASSUME ReaderAssumption, TInv, Place \/ Remove
    PROVE  TInv'
<1> USE DEF reader, device
<1>1. LoopTyped' /\ Counted'
  BY LoopStays DEF TInv, Counted, Place, Remove
<1>2. SceneTyped'
  BY DEF TInv, SceneTyped, Place, Remove, ReaderAssumption
<1>3. placement \in Nat /\ placement' \in Nat /\ placement <= placement'
  BY DEF TInv, SceneTyped, Place, Remove
<1>4. RowTyped'
  BY <1>3, SoundGrows DEF TInv, RowTyped, Place, Remove
<1> QED BY <1>1, <1>2, <1>4 DEF TInv

LEMMA TInit == ReaderAssumption /\ Init => TInv
<1> SUFFICES ASSUME ReaderAssumption, Init PROVE TInv
  OBVIOUS
<1>1. LoopTyped
  <2>1. 0 \in 0 .. WakeBound
    BY DEF ReaderAssumption
  <2>2. /\ io = "null" /\ main = "create" /\ wakes = 0 /\ tx_enabled = FALSE
        /\ connections = 0
    BY DEF Init
  <2> QED BY <2>1, <2>2 DEF LoopTyped, Loop!LoopTypeOK
<1>2. Counted
  <2>1. /\ query = "sleep" /\ crashed = FALSE /\ still_to_discard = 0
        /\ to_discard = 0 /\ asked = 0 /\ faults = 0
    BY DEF Init
  <2>2. crashed \in BOOLEAN
    BY <2>1, Zenon
  <2>3. {still_to_discard, to_discard, asked, faults} \subseteq Nat
    BY <2>1
  <2> QED BY <2>1, <2>2, <2>3, Zenon DEF Counted
<1>3. SceneTyped
  BY EmptySeq DEF Init, SceneTyped, ReaderAssumption
<1>4. RowTyped
  BY EmptySeq DEF Init, RowTyped, BufferLength, ReaderAssumption
<1> QED BY <1>1, <1>2, <1>3, <1>4 DEF TInv

LEMMA TNext ==
    ASSUME ReaderAssumption, TInv, [Next]_vars
    PROVE  TInv'
<1>1. CASE QueryCount \/ QueryWrite \/ QueryWriteFails
  BY <1>1, TQuery
<1>2. CASE ReadBegins
  BY <1>2, TReadBegins
<1>3. CASE ReadDiscards
  BY <1>3, TReadDiscards
<1>4. CASE ReadCollects
  BY <1>4, TReadCollects
<1>5. CASE MainStep \/ OpenFails \/ ReadError
  BY <1>5, TMain
<1>6. CASE Answer \/ AnswerCollision
  BY <1>6, TAnswers
<1>7. CASE Place \/ Remove
  BY <1>7, TScene
<1>8. CASE UNCHANGED vars
  BY <1>8, LoopStays DEF vars, reader, device, scene, TInv, RowTyped, SceneTyped, Counted
<1> QED BY <1>1, <1>2, <1>3, <1>4, <1>5, <1>6, <1>7, <1>8 DEF Next, Running

(* Every variable keeps its type; what is in the buffer, in the read in    *)
(* progress and on the line are parts of messages about tags that have     *)
(* been in front of the reader (StronglinkSL032, ready).                   *)
THEOREM TypeCorrect == Spec => []TypeOK
<1>1. Init => TInv
  BY TInit, ReaderAssumption
<1>2. TInv /\ [Next]_vars => TInv'
  BY TNext, ReaderAssumption
<1> QED BY <1>1, <1>2, TInvTypes, PTL DEF Spec

-----------------------------------------------------------------------------
(* As long as nothing fails every exchange is a row of its own, echo and   *)
(* answer, which is discarded, collected and handled to its last cell      *)
(* before the next one begins.                                             *)

Echoed == IF IgnoreEcho THEN Cells(Request) ELSE <<>>

Answers == {m \in Messages : m.status # "Request"}

Still == /\ rx_frame = <<>> /\ chunk = <<>> /\ line = <<>> /\ asked = 0
         /\ to_discard = 0 /\ reported_tag = answered

Idle == Still /\ query = "sleep" /\ still_to_discard = 0

Writing == Still /\ query = "write" /\ still_to_discard = Len(Echoed)

(* The tag reported last when m has been handled.                          *)
Noted(m) == CASE m.status = "Success" -> m.tag
              [] m.status = "NoTag"   -> NoTag
              [] OTHER                -> reported_tag

(* a is what has been answered so far.                                     *)
Answered(a) ==
    \/ a = <<>> /\ asked = 1 /\ reported_tag = answered
    \/ asked = 0 /\ \E m \in Answers : a = Cells(m) /\ answered = Noted(m)

(* A row of three parts.                                                   *)
Parts(g, b, l, row) == (g \o b) \o l = row

(* g has been discarded.  What is still to discard is the rest of the      *)
(* echo, until a read that goes beyond it is collected.                    *)
Underway(g, a) ==
    /\ Parts(g \o rx_frame, chunk, line, Echoed \o a)
    /\ Len(g) <= Len(Echoed)
    /\ IF rx_frame = <<>>
       THEN /\ still_to_discard + to_discard = Len(Echoed) - Len(g)
            /\ IF chunk = <<>> THEN to_discard = 0 ELSE still_to_discard = 0
       ELSE /\ still_to_discard = 0 /\ to_discard = 0
            /\ Len(Echoed) < Len(g) + Len(rx_frame)
            /\ Len(g) + Len(rx_frame) < Len(Echoed) + Len(a)

Exchange ==
    query = "sleep" /\ \E g, a \in Seq(CellSet) : Answered(a) /\ Underway(g, a)

Off == main \in {"create", "open"} /\ io # "open" /\ ~tx_enabled /\ Idle

On == main = "wait" /\ io = "open" /\ (Idle \/ Writing \/ Exchange)

InStep == ~crashed /\ wakes = 0 /\ (Off \/ On)

Sync == faults = 0 => InStep

LEMMA EchoedType ==
    ASSUME ReaderAssumption
    PROVE  /\ Echoed \in Seq(CellSet)
           /\ Len(Echoed) = IF IgnoreEcho THEN RequestLength ELSE 0
           /\ Len(Echoed) \in Nat /\ Len(Echoed) < MinFrameLength
           /\ \A i \in 1 .. Len(Echoed) : Echoed[i].of = Request
<1>1. RequestLength \in Nat /\ MinFrameLength \in Nat /\ RequestLength < MinFrameLength
  BY DEF ReaderAssumption
<1>2. CASE IgnoreEcho
  <2>1. /\ Echoed = Cells(Request) /\ Cells(Request) \in Seq(CellSet)
        /\ \A i \in DOMAIN Cells(Request) : Cells(Request)[i].of = Request
    BY <1>2, RequestType, CellsType DEF Echoed
  <2>2. Length(Request) = RequestLength
    BY DEF Length, Request, Message
  <2>3. Len(Cells(Request)) = RequestLength
    BY <2>2, RequestType, WholeMessage
  <2>4. DOMAIN Cells(Request) = 1 .. RequestLength
    BY <2>2 DEF Cells
  <2> QED BY <1>1, <1>2, <2>1, <2>3, <2>4
<1>3. CASE ~IgnoreEcho
  <2>1. Echoed = <<>> /\ Echoed \in Seq(CellSet) /\ Len(Echoed) = 0
    BY <1>3, EmptySeq DEF Echoed
  <2> QED BY <1>1, <1>3, <2>1
<1> QED BY <1>2, <1>3

LEMMA AnswerLength ==
    ASSUME ReaderAssumption, NEW m \in Answers
    PROVE  /\ m \in Messages /\ m.status # "Request"
           /\ Cells(m) \in Seq(CellSet) /\ Len(Cells(m)) = Length(m)
           /\ Length(m) \in Nat /\ MinFrameLength <= Length(m)
           /\ Length(m) <= TagLength
           /\ \A i \in 1 .. Length(m) : Cells(m)[i] = [of |-> m, k |-> i]
<1>1. m \in Messages /\ m.status # "Request"
  BY DEF Answers
<1>2. Cells(m) \in Seq(CellSet) /\ Len(Cells(m)) = Length(m)
  BY <1>1, CellsType, WholeMessage
<1>3. /\ MinFrameLength \in Nat /\ TagLength \in Nat /\ MinFrameLength <= TagLength
  BY DEF ReaderAssumption
<1>4. /\ Length(m) \in Nat /\ MinFrameLength <= Length(m)
      /\ Length(m) <= TagLength
  BY <1>1, <1>3 DEF Length
<1> QED BY <1>1, <1>2, <1>4 DEF Cells

(* The cell at a place behind the discarded part of a row.                 *)
LEMMA CellBehind ==
    ASSUME NEW S, NEW g \in Seq(S), NEW b \in Seq(S), NEW l \in Seq(S),
           NEW e \in Seq(S), NEW a \in Seq(S),
           Parts(g, b, l, e \o a)
    PROVE  /\ Len(g) \in Nat /\ Len(b) \in Nat /\ Len(l) \in Nat
           /\ Len(e) \in Nat /\ Len(a) \in Nat
           /\ Len(g) + Len(b) + Len(l) = Len(e) + Len(a)
           /\ \A i \in 1 .. Len(b) :
                 b[i] = IF Len(g) + i <= Len(e) THEN e[Len(g) + i]
                        ELSE a[Len(g) + i - Len(e)]
<1>1. /\ Len(g) \in Nat /\ Len(b) \in Nat /\ Len(l) \in Nat
      /\ Len(e) \in Nat /\ Len(a) \in Nat
  OBVIOUS
<1>2. /\ g \o b \in Seq(S) /\ Len(g \o b) = Len(g) + Len(b)
      /\ \A i \in 1 .. Len(g) + Len(b) :
            (g \o b)[i] = IF i <= Len(g) THEN g[i] ELSE b[i - Len(g)]
  BY ConcatProperties
<1>3. /\ Len((g \o b) \o l) = Len(g) + Len(b) + Len(l)
      /\ \A i \in 1 .. Len(g) + Len(b) + Len(l) :
            ((g \o b) \o l)[i] = IF i <= Len(g) + Len(b) THEN (g \o b)[i]
                                 ELSE l[i - (Len(g) + Len(b))]
  BY <1>2, ConcatProperties
<1>4. /\ Len(e \o a) = Len(e) + Len(a)
      /\ \A i \in 1 .. Len(e) + Len(a) :
            (e \o a)[i] = IF i <= Len(e) THEN e[i] ELSE a[i - Len(e)]
  BY ConcatProperties
<1>5. Len(g) + Len(b) + Len(l) = Len(e) + Len(a)
  BY <1>3, <1>4 DEF Parts
<1>6. ASSUME NEW i \in 1 .. Len(b)
      PROVE  b[i] = IF Len(g) + i <= Len(e) THEN e[Len(g) + i]
                    ELSE a[Len(g) + i - Len(e)]
  <2> DEFINE j == Len(g) + i
  <2>1. /\ i \in Int /\ j \in Int /\ j - Len(g) = i /\ ~(j <= Len(g))
        /\ j <= Len(g) + Len(b)
        /\ j \in 1 .. Len(g) + Len(b) /\ j \in 1 .. Len(g) + Len(b) + Len(l)
        /\ j \in 1 .. Len(e) + Len(a)
    BY <1>1, <1>5
  <2> HIDE DEF j
  <2>2. (g \o b)[j] = b[i]
    BY <1>2, <2>1
  <2>3. ((g \o b) \o l)[j] = b[i]
    BY <1>3, <2>1, <2>2
  <2>4. (e \o a)[j] = IF j <= Len(e) THEN e[j] ELSE a[j - Len(e)]
    BY <1>4, <2>1
  <2> QED BY <2>3, <2>4 DEF j, Parts
<1> QED BY <1>1, <1>5, <1>6

(* A buffer that has collected a part of the answer: there is a frame in   *)
(* it, the answer, if and only if nothing is left on the line; it is at    *)
(* the end, nothing is discarded before it is found, and the buffer        *)
(* suffices.                                                               *)
LEMMA AnswerFound ==
    ASSUME ReaderAssumption, NEW g \in Seq(CellSet), NEW b \in Seq(CellSet),
           NEW l \in Seq(CellSet), NEW m \in Answers,
           Parts(g, b, l, Echoed \o Cells(m)),
           Len(g) <= Len(Echoed), Len(Echoed) < Len(g) + Len(b)
    PROVE  /\ Len(b) <= BufferLength
           /\ l = <<>> =>
                 \E s \in 1 .. Len(b) : /\ FramesIn(b) = {s} /\ b[s].of = m
                                        /\ clear(b, s) = <<>>
           /\ l # <<>> => /\ FramesIn(b) = {} /\ discard_garbage(b) = b
                          /\ Len(g) + Len(b) < Len(Echoed) + Length(m)
<1> DEFINE e == Len(Echoed)
           n == Length(m)
           x == Len(g)
           y == Len(b)
           s == e - x + 1
<1>1. /\ m.status # "Request" /\ Cells(m) \in Seq(CellSet) /\ Len(Cells(m)) = n
      /\ n \in Nat /\ MinFrameLength <= n /\ n <= TagLength
      /\ \A i \in 1 .. n : Cells(m)[i] = [of |-> m, k |-> i]
  BY AnswerLength
<1>2. /\ Echoed \in Seq(CellSet) /\ e \in Nat /\ e < MinFrameLength
      /\ \A i \in 1 .. e : Echoed[i].of = Request
  BY EchoedType
<1>3. /\ x \in Nat /\ y \in Nat /\ Len(l) \in Nat
      /\ x + y + Len(l) = e + n
      /\ \A i \in 1 .. y : b[i] = IF x + i <= e THEN Echoed[x + i] ELSE Cells(m)[x + i - e]
  <2>1. /\ Len(g) \in Nat /\ Len(b) \in Nat /\ Len(l) \in Nat
        /\ Len(g) + Len(b) + Len(l) = Len(Echoed) + Len(Cells(m))
        /\ \A i \in 1 .. Len(b) :
              b[i] = IF Len(g) + i <= Len(Echoed) THEN Echoed[Len(g) + i]
                     ELSE Cells(m)[Len(g) + i - Len(Echoed)]
    <3>1. Echoed \in Seq(CellSet) /\ Cells(m) \in Seq(CellSet)
      BY <1>1, <1>2
    <3> HIDE DEF e, n, x, y, s
    <3> DEFINE E == Echoed
               A == Cells(m)
    <3>2. E \in Seq(CellSet) /\ A \in Seq(CellSet) /\ Parts(g, b, l, E \o A)
      BY <3>1
    <3> HIDE DEF E, A, CellSet
    <3>3. /\ Len(g) \in Nat /\ Len(b) \in Nat /\ Len(l) \in Nat
          /\ Len(g) + Len(b) + Len(l) = Len(E) + Len(A)
          /\ \A i \in 1 .. Len(b) :
                b[i] = IF Len(g) + i <= Len(E) THEN E[Len(g) + i]
                       ELSE A[Len(g) + i - Len(E)]
      BY <3>2, CellBehind
    <3> QED BY <3>3 DEF E, A
  <2> QED BY <1>1, <2>1
<1>4. x <= e /\ e < x + y
  OBVIOUS
<1>5. /\ MinFrameLength \in Nat /\ TagLength \in Nat /\ MaxFrameLength \in Nat
      /\ TagLength <= MaxFrameLength /\ MinFrameLength > 0
      /\ BufferLength = 2 * MaxFrameLength
  BY DEF ReaderAssumption, BufferLength
<1>6. l = <<>> <=> Len(l) = 0
  OBVIOUS
<1>7. \A i \in 1 .. y : i < s => b[i].of = Request
  <2> SUFFICES ASSUME NEW i \in 1 .. y, i < s
               PROVE  b[i].of = Request
    OBVIOUS
  <2>1. x + i <= e /\ x + i \in 1 .. e
    BY <1>2, <1>3
  <2> QED BY <1>2, <1>3, <2>1
<1>8. \A i \in 1 .. y : i >= s => b[i] = [of |-> m, k |-> i - s + 1]
  <2> SUFFICES ASSUME NEW i \in 1 .. y, i >= s
               PROVE  b[i] = [of |-> m, k |-> i - s + 1]
    OBVIOUS
  <2>1. ~(x + i <= e) /\ x + i - e \in 1 .. n /\ x + i - e = i - s + 1
    <3>1. /\ n \in Nat /\ e \in Nat /\ x \in Nat /\ y \in Nat /\ Len(l) \in Nat
          /\ x + y + Len(l) = e + n
      BY <1>1, <1>2, <1>3
    <3>2. s = e + 1 - x
      OBVIOUS
    <3> HIDE DEF e, n, x, y, s
    <3> QED BY <3>1, <3>2
  <2> QED BY <1>1, <1>3, <2>1
<1>9. s \in 1 .. y /\ s <= e + 1
  BY <1>2, <1>3, <1>4
<1> HIDE DEF e, n, x, y, s
<1>10. y <= BufferLength
  BY <1>1, <1>2, <1>3, <1>4, <1>5
<1>11. StartsAt(b) \subseteq {s}
  <2> SUFFICES ASSUME NEW i \in StartsAt(b)
               PROVE  i = s
    OBVIOUS
  <2>1. i \in 1 .. y /\ Preamble(b[i])
    BY StartsInside DEF StartsAt, y
  <2>2. Request.status = "Request"
    BY DEF Request, Message
  <2>3. ~(i < s)
    BY <1>7, <2>1, <2>2 DEF Preamble
  <2>4. i \in Int /\ s \in Int
    BY <1>9, <2>1
  <2>5. i - s + 1 = 1
    <3>1. i >= s
      BY <2>3, <2>4
    <3>2. b[i] = [of |-> m, k |-> i - s + 1]
      BY <1>8, <2>1, <3>1
    <3>3. b[i].k = 1
      BY <2>1 DEF Preamble
    <3> QED BY <3>2, <3>3
  <2> QED BY <2>4, <2>5
<1>12. b[s] = [of |-> m, k |-> 1] /\ s \in Nat
  <2>1. s >= s /\ s - s + 1 = 1 /\ s \in Nat
    BY <1>9
  <2> QED BY <1>8, <1>9, <2>1
<1>13. ASSUME l = <<>>
       PROVE  FramesIn(b) = {s} /\ clear(b, s) = <<>>
  <2>1. Len(l) = 0
    BY <1>6, <1>13
  <2>2. s + n - 1 = y /\ s + n = y + 1
    BY <1>1, <1>2, <1>3, <2>1 DEF s
  <2>3. s \in 1 .. Limit(b)
    <3> DEFINE T == {Len(b) - MinFrameLength + 1, MaxFrameLength + 1}
    <3>1. ~(Len(b) < MinFrameLength)
      BY <1>1, <1>3, <1>4, <1>5, <2>2, <1>9 DEF y
    <3>2. T \in SUBSET Nat /\ T # {}
      BY <1>3, <1>5, <3>1 DEF y
    <3>3. Min(T) \in T
      BY <3>2, MinExists
    <3>4. s <= Len(b) - MinFrameLength + 1 /\ s <= MaxFrameLength + 1
      BY <1>1, <1>2, <1>3, <1>5, <1>9, <2>2 DEF y
    <3>5. s <= Min(T) /\ Min(T) \in Nat
      BY <3>2, <3>3, <3>4
    <3> HIDE DEF T
    <3>6. s <= Limit(b) /\ Limit(b) \in Nat
      BY <3>1, <3>5 DEF Limit, T
    <3> QED BY <1>9, <3>6
  <2>4. s \in StartsAt(b)
    BY <1>1, <1>12, <2>3 DEF StartsAt, Preamble
  <2>5. SubSeq(b, s, y) = Cells(m)
    <3>1. y \in 0 .. Len(b) /\ s \in 1 .. Len(b) + 1
      BY <1>3, <1>9 DEF y
    <3>2. SubSeq(b, s, y) \in Seq(CellSet)
      BY <3>1, WithinSubSeq
    <3>3. \A i \in s .. y : b[i] \in CellSet
      BY <1>9, <1>3, ElementOfSeq DEF y
    <3>4. /\ Len(SubSeq(b, s, y)) = y - s + 1
          /\ \A i \in 1 .. y - s + 1 : SubSeq(b, s, y)[i] = b[s + i - 1]
      BY <1>3, <1>9, <3>3, SubSeqProperties
    <3>5. y - s + 1 = n
      BY <1>1, <1>3, <1>9, <2>2
    <3>6. \A i \in 1 .. n : SubSeq(b, s, y)[i] = Cells(m)[i]
      <4> SUFFICES ASSUME NEW i \in 1 .. n
                   PROVE  SubSeq(b, s, y)[i] = Cells(m)[i]
        OBVIOUS
      <4>1. /\ s + i - 1 \in 1 .. y /\ s + i - 1 >= s /\ (s + i - 1) - s + 1 = i
            /\ i \in 1 .. y - s + 1
        BY <1>1, <1>3, <1>9, <3>5
      <4>2. b[s + i - 1] = [of |-> m, k |-> i]
        BY <1>8, <4>1
      <4> QED BY <1>1, <3>4, <4>1, <4>2
    <3> DEFINE t == SubSeq(b, s, y)
    <3>7. t \in Seq(CellSet) /\ Len(t) = n /\ \A i \in 1 .. n : t[i] = Cells(m)[i]
      BY <3>2, <3>4, <3>5, <3>6
    <3> HIDE DEF t
    <3>8. t = Cells(m)
      BY <1>1, <3>7, SeqEqual
    <3> QED BY <3>8 DEF t
  <2>6. FrameAt(b, s)
    <3>1. b[s].of = m
      BY <1>12
    <3>2. s + Length(b[s].of) - 1 = y
      BY <2>2, <3>1 DEF n
    <3>3. y <= Len(b)
      BY <1>3 DEF y
    <3>4. SubSeq(b, s, s + Length(b[s].of) - 1) = Cells(b[s].of)
      BY <2>5, <3>1, <3>2, Zenon
    <3> QED BY <3>2, <3>3, <3>4 DEF FrameAt
  <2>7. FramesIn(b) = {s}
    BY <1>11, <2>4, <2>6 DEF FramesIn
  <2>8. clear(b, s) = <<>>
    <3>1. clear(b, s) = SubSeq(b, y + 1, y)
      BY <1>12, <2>2 DEF clear, From, y, n
    <3>2. y \in Int /\ y + 1 \in Int /\ y + 1 > y
      BY <1>3
    <3> QED BY <3>1, <3>2, SubSeqEmpty
  <2> QED BY <2>7, <2>8
<1>14. ASSUME l # <<>>
       PROVE  FramesIn(b) = {} /\ discard_garbage(b) = b /\ x + y < e + n
  <2>1. Len(l) > 0
    BY <1>3, <1>6, <1>14
  <2>2. x + y < e + n /\ ~(s + n - 1 <= y)
    BY <1>1, <1>2, <1>3, <2>1 DEF s
  <2>3. ~FrameAt(b, s)
    BY <1>12, <2>2 DEF FrameAt, y, n
  <2>4. FramesIn(b) = {}
    BY <1>11, <2>3 DEF FramesIn
  <2>5. Limit(b) # MaxFrameLength + 1
    <3> DEFINE T == {Len(b) - MinFrameLength + 1, MaxFrameLength + 1}
    <3>1. CASE Len(b) < MinFrameLength
      BY <1>5, <3>1 DEF Limit
    <3>2. CASE ~(Len(b) < MinFrameLength)
      <4>1. T \in SUBSET Nat /\ T # {}
        BY <1>3, <1>5, <3>2 DEF y
      <4>2. Min(T) \in Nat /\ Min(T) <= Len(b) - MinFrameLength + 1
        BY <4>1, MinExists
      <4>3. Len(b) - MinFrameLength + 1 < MaxFrameLength + 1
        BY <1>1, <1>2, <1>3, <1>5, <2>2 DEF y
      <4>4. Limit(b) = Min(T)
        BY <3>2 DEF Limit
      <4> HIDE DEF T
      <4> QED BY <1>3, <1>5, <4>2, <4>3, <4>4 DEF y
    <3> QED BY <3>1, <3>2
  <2>6. discard_garbage(b) = b
    BY <2>5 DEF discard_garbage
  <2> QED BY <2>2, <2>4, <2>6
<1>15. s \in 1 .. Len(b) /\ b[s].of = m
  BY <1>9, <1>12 DEF y
<1> QED BY <1>10, <1>13, <1>14, <1>15 DEF e, n, x, y

LEMMA RowCells ==
    ASSUME TInv
    PROVE  /\ rx_frame \in Seq(CellSet) /\ chunk \in Seq(CellSet) /\ line \in Seq(CellSet)
           /\ Len(rx_frame) \in Nat /\ Len(chunk) \in Nat /\ Len(line) \in Nat
<1>1. /\ rx_frame \in Seq(Sound(placement)) /\ chunk \in Seq(Sound(placement))
      /\ line \in Seq(Sound(placement))
  BY DEF TInv, RowTyped
<1> QED BY <1>1, SoundSet

(* The middle part moves to its neighbour.                                 *)
LEMMA PartsMove ==
    ASSUME NEW S, NEW g \in Seq(S), NEW r \in Seq(S), NEW c \in Seq(S),
           NEW l \in Seq(S), NEW row
    PROVE  /\ g \o r \in Seq(S) /\ Len(g \o r) = Len(g) + Len(r)
           /\ r \o c \in Seq(S) /\ Len(r \o c) = Len(r) + Len(c)
           /\ Parts(g \o r, c, l, row) <=> Parts(g, r \o c, l, row)
           /\ Parts(g, c, l, row) <=> Parts(g, <<>>, c \o l, row)
           /\ Parts(g, c, l, row) <=> Parts(g \o c, <<>>, l, row)
<1>1. g \o r \in Seq(S) /\ Len(g \o r) = Len(g) + Len(r)
  BY ConcatProperties
<1>2. r \o c \in Seq(S) /\ Len(r \o c) = Len(r) + Len(c)
  BY ConcatProperties
<1>3. (g \o r) \o c = g \o (r \o c)
  BY ConcatAssociative, SMTT(90)
<1>4. (g \o c) \o l = g \o (c \o l)
  BY ConcatAssociative, SMTT(90)
<1>5. g \o <<>> = g
  BY ConcatEmptySeq
<1>6. (g \o c) \o <<>> = g \o c
  <2>1. g \o c \in Seq(S)
    BY ConcatProperties
  <2> QED BY <2>1, ConcatEmptySeq
<1> QED BY <1>1, <1>2, <1>3, <1>4, <1>5, <1>6, Zenon DEF Parts

(* Concatenation, as an operator the provers do not look into.             *)
Joined(s, t) == s \o t

LEMMA JoinedAssociative ==
    ASSUME NEW S, NEW s \in Seq(S), NEW t \in Seq(S), NEW u \in Seq(S)
    PROVE  Joined(Joined(s, t), u) = Joined(s, Joined(t, u))
<1>1. (s \o t) \o u = s \o (t \o u)
  BY ConcatAssociative, SMTT(90)
<1> QED BY <1>1, Zenon DEF Joined

(* What is added to the line is added to the row.                          *)
LEMMA PartsGrow ==
    ASSUME NEW S, NEW g \in Seq(S), NEW c \in Seq(S), NEW l \in Seq(S),
           NEW d \in Seq(S), NEW row, Parts(g, c, l, row)
    PROVE  Parts(g, c, l \o d, row \o d)
<1>1. Joined(g, c) \in Seq(S)
  BY ConcatProperties DEF Joined
<1>2. Joined(Joined(Joined(g, c), l), d) = Joined(Joined(g, c), Joined(l, d))
  BY <1>1, JoinedAssociative
<1> QED BY <1>2, Zenon DEF Parts, Joined

(* How many cells a row has.                                               *)
LEMMA PartsLength ==
    ASSUME NEW S, NEW g \in Seq(S), NEW b \in Seq(S), NEW l \in Seq(S),
           NEW e \in Seq(S), NEW a \in Seq(S), Parts(g, b, l, e \o a)
    PROVE  /\ Len(g) \in Nat /\ Len(b) \in Nat /\ Len(l) \in Nat
           /\ Len(e) \in Nat /\ Len(a) \in Nat
           /\ Len(g) + Len(b) + Len(l) = Len(e) + Len(a)
  BY CellBehind

LEMMA SettledIdle ==
    ASSUME ReaderAssumption, TInv, Exchange
    PROVE  ~Settled
<1> SUFFICES ASSUME Settled PROVE FALSE
  OBVIOUS
<1>1. PICK g \in Seq(CellSet), a \in Seq(CellSet) : Answered(a) /\ Underway(g, a)
  BY DEF Exchange
<1>2. chunk = <<>> /\ line = <<>> /\ asked = 0
  BY DEF Settled
<1>3. PICK m \in Answers : a = Cells(m)
  BY <1>1, <1>2 DEF Answered
<1>4. Len(a) \in Nat /\ Len(a) > 0
  BY <1>3, AnswerLength DEF ReaderAssumption
<1>5. Echoed \in Seq(CellSet) /\ Len(Echoed) \in Nat
  BY EchoedType
<1>6. /\ g \o rx_frame \in Seq(CellSet) /\ Len(g \o rx_frame) = Len(g) + Len(rx_frame)
  BY RowCells, ConcatProperties
<1>7. Parts(g \o rx_frame, chunk, line, Echoed \o a)
  BY <1>1 DEF Underway
<1>8. Len(g \o rx_frame) + Len(chunk) + Len(line) = Len(Echoed) + Len(a)
  <2> DEFINE gr == g \o rx_frame
             e == Echoed
  <2>1. /\ gr \in Seq(CellSet) /\ e \in Seq(CellSet) /\ Parts(gr, chunk, line, e \o a)
    BY <1>5, <1>6, <1>7
  <2> HIDE DEF gr, e, CellSet
  <2>2. Len(gr) + Len(chunk) + Len(line) = Len(e) + Len(a)
    BY <2>1, RowCells, PartsLength
  <2> QED BY <2>2 DEF gr, e
<1>9. Len(chunk) = 0 /\ Len(line) = 0 /\ Len(g) \in Nat
  BY <1>2
<1>10. Len(g) + Len(rx_frame) = Len(Echoed) + Len(a)
  BY <1>5, <1>6, <1>8, <1>9, RowCells
<1>11. CASE rx_frame = <<>>
  <2>1. Len(rx_frame) = 0 /\ Len(g) <= Len(Echoed)
    BY <1>1, <1>11 DEF Underway
  <2> QED BY <1>4, <1>5, <1>9, <1>10, <2>1
<1>12. CASE rx_frame # <<>>
  <2>1. Len(g) + Len(rx_frame) < Len(Echoed) + Len(a)
    BY <1>1, <1>12 DEF Underway
  <2> QED BY <1>4, <1>5, <1>9, <1>10, <2>1, RowCells
<1> QED BY <1>11, <1>12

(* Cells on their way belong to an exchange.                               *)
LEMMA ExchangeIs ==
    ASSUME InStep, line # <<>> \/ chunk # <<>> \/ asked # 0
    PROVE  On /\ Exchange
  BY DEF InStep, Off, On, Idle, Writing, Still

LEMMA FailsDisturbs ==
    ASSUME TInv, NEW x, Fails(x)
    PROVE  faults' # 0
<1>1. faults \in Nat /\ faults' = faults + 1
  BY DEF TInv, Counted, Fails
<1>2. faults' # 0
  BY <1>1
<1> QED BY <1>2

LEMMA SyncStays ==
    ASSUME InStep, UNCHANGED <<loop, crashed, env, query, still_to_discard, chunk,
                               to_discard, rx_frame, reported_tag, device>>
    PROVE  InStep'
<1> USE DEF loop, device
<1>1. Exchange => Exchange'
  BY DEF Exchange, Answered, Noted, Underway, Parts
<1>2. /\ Idle => Idle'
      /\ Writing => Writing'
  BY DEF Idle, Writing, Still
<1>3. Off => Off'
  BY <1>2 DEF Off
<1>4. On => On'
  BY <1>1, <1>2 DEF On
<1> QED BY <1>3, <1>4 DEF InStep

LEMMA SyncQueryCount ==
    ASSUME ReaderAssumption, TInv, InStep, faults' = 0, QueryCount
    PROVE  InStep'
<1> USE DEF loop, reader, device, scene
<1>1. ~Fails("late")
  BY FailsDisturbs
<1>2. Settled /\ io = "open" /\ query = "sleep"
  BY <1>1 DEF QueryCount, Polls
<1>3. On /\ Idle
  BY <1>2, SettledIdle DEF InStep, Off, On, Writing
<1>4. still_to_discard' = Len(Echoed)
  <2>1. still_to_discard = 0 /\ RequestLength \in Nat
    BY <1>3 DEF Idle, ReaderAssumption
  <2>2. still_to_discard' = IF IgnoreEcho THEN RequestLength ELSE 0
    BY <2>1 DEF QueryCount
  <2> QED BY <2>2, EchoedType
<1>5. Writing'
  BY <1>3, <1>4 DEF Idle, Writing, Still, QueryCount
<1>6. On'
  BY <1>3, <1>5 DEF On, QueryCount
<1> QED BY <1>6 DEF InStep, QueryCount

LEMMA SyncQueryWrite ==
    ASSUME ReaderAssumption, TInv, InStep, QueryWrite
    PROVE  InStep'
<1> USE DEF loop, reader, scene
<1>1. On /\ Writing
  BY DEF InStep, Off, On, Idle, Exchange, QueryWrite
<1>2. /\ rx_frame = <<>> /\ chunk = <<>> /\ line = <<>> /\ asked = 0
      /\ to_discard = 0 /\ reported_tag = answered /\ still_to_discard = Len(Echoed)
  BY <1>1 DEF Writing, Still
<1>3. line' = Echoed
  <2>1. CASE IgnoreEcho
    <3>1. /\ Request \in Messages /\ Length(Request) = RequestLength
          /\ Cells(Request) \in Seq(CellSet)
      BY RequestType, CellsType DEF Length, Request, Message
    <3>2. Cells(Request) = SubSeq(Cells(Request), 1, RequestLength)
      BY <3>1, WholeMessage
    <3>3. line' = <<>> \o Cells(Request)
      BY <1>2, <2>1, <3>2 DEF QueryWrite, Echo
    <3> QED BY <2>1, <3>1, <3>3, ConcatEmptySeq DEF Echoed
  <2>2. CASE ~IgnoreEcho
    BY <1>2, <2>2 DEF QueryWrite, Echo, Echoed
  <2> QED BY <2>1, <2>2
<1>4. asked' = 1
  BY <1>2 DEF QueryWrite
<1>5. Answered(<<>>)'
  BY <1>2, <1>4 DEF Answered, QueryWrite
<1>6. Underway(<<>>, <<>>)'
  <2>1. Echoed \in Seq(CellSet) /\ Len(Echoed) \in Nat
    BY EchoedType
  <2>2. <<>> \in Seq(CellSet) /\ <<>> \o <<>> = <<>> /\ Len(<<>>) = 0
    BY EmptySeq, ConcatEmptySeq
  <2>3. <<>> \o Echoed = Echoed /\ Echoed \o <<>> = Echoed
    BY <2>1, ConcatEmptySeq
  <2>4. UNCHANGED <<rx_frame, chunk, to_discard, still_to_discard>>
    BY DEF QueryWrite
  <2>5. Parts(<<>> \o rx_frame', chunk', line', Echoed \o <<>>)
    BY <1>2, <1>3, <2>2, <2>3, <2>4 DEF Parts
  <2>6. still_to_discard' + to_discard' = Len(Echoed) - 0
    BY <1>2, <2>1, <2>4
  <2> QED BY <1>2, <2>1, <2>2, <2>4, <2>5, <2>6 DEF Underway
<1>7. Exchange'
  <2>1. <<>> \in Seq(CellSet)
    BY EmptySeq
  <2> QED BY <1>5, <1>6, <2>1 DEF Exchange, QueryWrite
<1>8. On'
  BY <1>1, <1>7 DEF On, QueryWrite
<1> QED BY <1>8 DEF InStep, QueryWrite

LEMMA SyncQueryWriteFails ==
    ASSUME TInv, InStep, faults' = 0, QueryWriteFails
    PROVE  InStep'
<1>1. query = "write"
  BY DEF QueryWriteFails
<1>2. io = "open"
  BY <1>1 DEF InStep, Off, On, Idle
<1>3. Fails("partial")
  BY <1>2 DEF QueryWriteFails
<1> QED BY <1>3, FailsDisturbs

(* What a read takes from the line.                                        *)
LEMMA ReadParts ==
    ASSUME NEW S, NEW l \in Seq(S), NEW n \in 1 .. Len(l)
    PROVE  /\ SubSeq(l, 1, n) \in Seq(S) /\ From(l, n + 1) \in Seq(S)
           /\ SubSeq(l, 1, n) # <<>>
           /\ SubSeq(l, 1, n) \o From(l, n + 1) = l
<1>1. Len(l) \in Nat /\ n \in Nat /\ n >= 1 /\ n <= Len(l)
  OBVIOUS
<1>2. SubSeq(l, 1, n) \in Seq(S) /\ SubSeq(l, n + 1, Len(l)) \in Seq(S)
  BY <1>1, WithinSubSeq
<1>3. SubSeq(l, 1, n) \o SubSeq(l, n + 1, Len(l)) = SubSeq(l, 1, Len(l))
  BY <1>1, ConcatAdjacentSubSeq
<1>4. \A i \in 1 .. n : l[i] \in S
  BY <1>1, ElementOfSeq
<1>5. Len(SubSeq(l, 1, n)) = n
  <2>1. Len(SubSeq(l, 1, n)) = IF 1 <= n THEN n - 1 + 1 ELSE 0
    BY <1>1, <1>4, SubSeqProperties
  <2> QED BY <1>1, <2>1
<1>6. SubSeq(l, 1, n) # <<>>
  BY <1>1, <1>5
<1> QED BY <1>2, <1>3, <1>6, SubSeqFull DEF From

LEMMA SyncReadBegins ==
    ASSUME ReaderAssumption, TInv, InStep, ReadBegins
    PROVE  InStep'
<1> USE DEF loop, scene
<1>1. PICK n \in 1 .. Len(line) : chunk' = SubSeq(line, 1, n) /\ line' = From(line, n + 1)
  BY DEF ReadBegins
<1>2. line # <<>>
  BY <1>1
<1>3. On /\ Exchange
  BY <1>2, ExchangeIs
<1>4. PICK g \in Seq(CellSet), a \in Seq(CellSet) : Answered(a) /\ Underway(g, a)
  BY <1>3 DEF Exchange
<1>5. /\ chunk' \in Seq(CellSet) /\ line' \in Seq(CellSet) /\ chunk' # <<>>
      /\ chunk' \o line' = line
  BY <1>1, RowCells, ReadParts
<1>6. /\ chunk = <<>> /\ UNCHANGED <<rx_frame, query, asked, reported_tag, answered>>
      /\ to_discard' = still_to_discard /\ still_to_discard' = 0
  BY DEF ReadBegins
<1>7. Parts(g \o rx_frame', chunk', line', Echoed \o a)
  <2> DEFINE gr == g \o rx_frame
             row == Echoed \o a
  <2>1. gr \in Seq(CellSet)
    BY RowCells, ConcatProperties
  <2>2. Parts(gr, <<>>, line, row)
    BY <1>4, <1>6 DEF Underway
  <2> HIDE DEF gr, row
  <2>3. Parts(gr, chunk', line', row)
    BY <1>5, <2>1, <2>2, PartsMove
  <2> QED BY <1>6, <2>3 DEF gr, row
<1>8. Underway(g, a)'
  <2>1. still_to_discard \in Nat /\ to_discard \in Nat
    BY DEF TInv, Counted
  <2> QED BY <1>4, <1>5, <1>6, <1>7, <2>1 DEF Underway
<1>9. Answered(a)'
  BY <1>4, <1>6 DEF Answered, Noted
<1>10. Exchange'
  BY <1>3, <1>6, <1>8, <1>9 DEF Exchange
<1>11. On'
  BY <1>3, <1>10 DEF On, ReadBegins
<1> QED BY <1>11 DEF InStep, ReadBegins

LEMMA SyncReadDiscards ==
    ASSUME ReaderAssumption, TInv, InStep, ReadDiscards
    PROVE  InStep'
<1> USE DEF loop, device, scene
<1>1. On /\ Exchange
  BY ExchangeIs DEF ReadDiscards
<1>2. PICK g \in Seq(CellSet), a \in Seq(CellSet) : Answered(a) /\ Underway(g, a)
  BY <1>1 DEF Exchange
<1>3. /\ chunk # <<>> /\ to_discard >= Len(chunk)
      /\ chunk' = <<>> /\ to_discard' = 0
      /\ still_to_discard' = still_to_discard + (to_discard - Len(chunk))
      /\ UNCHANGED <<rx_frame, line, query, asked, reported_tag, answered>>
  BY DEF ReadDiscards
<1>4. Len(chunk) \in Nat /\ Len(chunk) > 0 /\ to_discard \in Nat /\ Len(g) \in Nat
  <2>1. to_discard \in Nat
    BY DEF TInv, Counted
  <2>2. chunk \in Seq(CellSet) /\ Len(g) \in Nat
    BY RowCells
  <2> HIDE DEF CellSet
  <2>3. Len(chunk) \in Nat /\ Len(chunk) # 0
    BY <1>3, <2>2, EmptySeq
  <2> QED BY <2>1, <2>2, <2>3
<1>5. rx_frame = <<>>
  BY <1>2, <1>3, <1>4 DEF Underway
<1>6. still_to_discard = 0 /\ to_discard = Len(Echoed) - Len(g) /\ Len(Echoed) \in Nat
  BY <1>2, <1>3, <1>4, <1>5, EchoedType DEF Underway
<1>7. g \o <<>> = g
  BY ConcatEmptySeq
<1>8. /\ g \o chunk \in Seq(CellSet) /\ Len(g \o chunk) = Len(g) + Len(chunk)
      /\ (g \o chunk) \o <<>> = g \o chunk
  BY RowCells, ConcatProperties, ConcatEmptySeq
<1>9. Parts((g \o chunk) \o rx_frame', chunk', line', Echoed \o a)
  <2> DEFINE row == Echoed \o a
  <2>1. Parts(g, chunk, line, row)
    BY <1>2, <1>5, <1>7 DEF Underway
  <2> HIDE DEF row
  <2>2. Parts(g \o chunk, <<>>, line, row)
    BY <2>1, RowCells, PartsMove
  <2> QED BY <1>3, <1>5, <1>8, <2>2 DEF row
<1>h. PICK h \in Seq(CellSet) : h = g \o chunk
  BY <1>8
<1>10. Underway(h, a)'
  <2>1. /\ Len(g \o chunk) <= Len(Echoed)
        /\ still_to_discard' + to_discard' = Len(Echoed) - Len(g \o chunk)
    BY <1>3, <1>4, <1>6, <1>8
  <2>2. /\ Parts(h \o rx_frame', chunk', line', Echoed \o a)
        /\ Len(h) <= Len(Echoed)
        /\ still_to_discard' + to_discard' = Len(Echoed) - Len(h)
    BY <1>9, <1>h, <2>1
  <2> QED BY <1>3, <1>5, <2>2 DEF Underway
<1>11. Answered(a)'
  BY <1>2, <1>3 DEF Answered, Noted
<1>12. Exchange'
  <2>1. query' = "sleep"
    BY <1>1, <1>3 DEF Exchange
  <2> QED BY <1>10, <1>11, <2>1 DEF Exchange
<1>13. On'
  BY <1>1, <1>12 DEF On, ReadDiscards
<1> QED BY <1>13 DEF InStep, ReadDiscards

LEMMA SyncReadCollects ==
    ASSUME ReaderAssumption, TInv, InStep, ReadCollects
    PROVE  InStep'
<1> USE DEF loop, device, scene
<1> DEFINE b == rx_frame \o chunk
<1>1. On /\ Exchange
  BY ExchangeIs DEF ReadCollects
<1>2. PICK g \in Seq(CellSet), a \in Seq(CellSet) : Answered(a) /\ Underway(g, a)
  BY <1>1 DEF Exchange
<1>3. /\ chunk # <<>> /\ to_discard < Len(chunk) /\ chunk' = <<>> /\ to_discard' = 0
      /\ UNCHANGED <<line, query, asked, answered, still_to_discard, main, io, wakes>>
  BY DEF ReadCollects
<1>4. /\ Len(chunk) \in Nat /\ Len(chunk) > 0 /\ to_discard \in Nat
      /\ Len(rx_frame) \in Nat /\ Len(g) \in Nat
  BY <1>3, RowCells DEF TInv, Counted
<1>5. /\ Echoed \in Seq(CellSet) /\ Len(Echoed) \in Nat /\ Len(g) <= Len(Echoed)
      /\ Parts(g \o rx_frame, chunk, line, Echoed \o a)
  BY <1>2, EchoedType DEF Underway
<1>6. b \in Seq(CellSet) /\ Len(b) = Len(rx_frame) + Len(chunk)
  BY RowCells, ConcatProperties
<1>7. Parts(g, b, line, Echoed \o a)
  <2> DEFINE row == Echoed \o a
  <2>1. Parts(g \o rx_frame, chunk, line, row)
    BY <1>5
  <2> HIDE DEF row
  <2>2. Parts(g, rx_frame \o chunk, line, row)
    BY <2>1, RowCells, PartsMove
  <2> QED BY <2>2 DEF row
<1>8. still_to_discard = 0 /\ Len(Echoed) < Len(g) + Len(b)
  <2>1. CASE rx_frame = <<>>
    <3>1. still_to_discard = 0 /\ to_discard = Len(Echoed) - Len(g) /\ Len(rx_frame) = 0
      BY <1>2, <1>3, <1>4, <1>5, <2>1 DEF Underway
    <3> QED BY <1>3, <1>4, <1>5, <1>6, <3>1
  <2>2. CASE rx_frame # <<>>
    <3>1. still_to_discard = 0 /\ Len(Echoed) < Len(g) + Len(rx_frame)
      BY <1>2, <2>2 DEF Underway
    <3> QED BY <1>4, <1>5, <1>6, <3>1
  <2> QED BY <2>1, <2>2
<1>9. Len(b) \in Nat /\ Len(line) \in Nat
  BY <1>6, RowCells
<1> HIDE DEF b
<1>a. Len(g) + Len(b) + Len(line) = Len(Echoed) + Len(a)
  <2> DEFINE e == Echoed
  <2>1. /\ Parts(g, b, line, e \o a) /\ e \in Seq(CellSet)
        /\ b \in Seq(CellSet) /\ line \in Seq(CellSet)
    BY <1>5, <1>6, <1>7, RowCells
  <2> HIDE DEF e, CellSet
  <2>2. Len(g) + Len(b) + Len(line) = Len(e) + Len(a)
    BY <2>1, PartsLength
  <2> QED BY <2>2 DEF e
<1>10. asked = 0 /\ \E m \in Answers : a = Cells(m) /\ answered = Noted(m)
  <2>1. a # <<>>
    BY <1>4, <1>5, <1>8, <1>9, <1>a
  <2> QED BY <1>2, <2>1 DEF Answered
<1>11. PICK m \in Answers : a = Cells(m) /\ answered = Noted(m)
  BY <1>10
<1>12. /\ Len(b) <= BufferLength
       /\ line = <<>> =>
             \E s \in 1 .. Len(b) : /\ FramesIn(b) = {s} /\ b[s].of = m
                                    /\ clear(b, s) = <<>>
       /\ line # <<>> => /\ FramesIn(b) = {} /\ discard_garbage(b) = b
                         /\ Len(g) + Len(b) < Len(Echoed) + Length(m)
  <2>1. /\ b \in Seq(CellSet) /\ line \in Seq(CellSet)
        /\ Parts(g, b, line, Echoed \o Cells(m))
        /\ Len(g) <= Len(Echoed) /\ Len(Echoed) < Len(g) + Len(b)
    BY <1>5, <1>6, <1>7, <1>8, <1>11, RowCells
  <2> HIDE DEF CellSet
  <2> QED BY <2>1, AnswerFound
<1>13. ~(Len(b) > BufferLength)
  BY <1>9, <1>12 DEF BufferLength, ReaderAssumption
<1>14. UNCHANGED crashed
  BY <1>13 DEF ReadCollects, b
<1>15. query' = "sleep"
  BY <1>1, <1>3 DEF Exchange
<1>16. CASE line = <<>>
  <2>1. PICK s \in 1 .. Len(b) : FramesIn(b) = {s} /\ b[s].of = m /\ clear(b, s) = <<>>
    BY <1>12, <1>16
  <2>2. Min(FramesIn(b)) = s
    <3>1. {s} \in SUBSET Nat /\ {s} # {}
      BY <1>9
    <3> QED BY <2>1, <3>1, MinExists
  <2>3. Handle(m) /\ rx_frame' = <<>>
    BY <1>13, <2>1, <2>2 DEF ReadCollects, b
  <2>4. reported_tag' = answered
    BY <1>11, <2>3 DEF Handle, Noted
  <2>5. Idle'
    BY <1>3, <1>8, <1>10, <1>15, <1>16, <2>3, <2>4 DEF Idle, Still
  <2>6. On'
    BY <1>1, <1>3, <2>5 DEF On
  <2> QED BY <1>3, <1>14, <2>6 DEF InStep
<1>17. CASE line # <<>>
  <2>1. rx_frame' = b /\ UNCHANGED reported_tag
    BY <1>12, <1>13, <1>17 DEF ReadCollects, b
  <2>2. b # <<>>
    BY <1>4, <1>6
  <2>3. g \o b \in Seq(CellSet)
    BY <1>6, ConcatProperties
  <2>4. Parts(g \o b, <<>>, line, Echoed \o a)
    <3> DEFINE row == Echoed \o a
    <3>1. Parts(g, b, line, row)
      BY <1>7
    <3> HIDE DEF row
    <3>2. Parts(g \o b, <<>>, line, row)
      BY <1>6, <3>1, RowCells, PartsMove
    <3> QED BY <3>2 DEF row
  <2>5. Len(a) = Length(m)
    BY <1>11, AnswerLength
  <2>6. Underway(g, a)'
    BY <1>3, <1>5, <1>8, <1>12, <1>17, <2>1, <2>2, <2>4, <2>5 DEF Underway
  <2>7. Answered(a)'
    BY <1>3, <1>10, <1>11, <2>1 DEF Answered, Noted
  <2>8. On'
    BY <1>1, <1>3, <1>15, <2>6, <2>7 DEF On, Exchange
  <2> QED BY <1>3, <1>14, <2>8 DEF InStep
<1> QED BY <1>16, <1>17

LEMMA SyncMain ==
    ASSUME ReaderAssumption, TInv, InStep, faults = 0, faults' = 0,
           UNCHANGED env, MainStep \/ OpenFails \/ ReadError
    PROVE  InStep'
<1>1. CASE ReadError
  BY <1>1, FailsDisturbs DEF ReadError
<1> USE DEF OthersUnchanged, reader, device, scene
<1>2. CASE OpenFails
  BY <1>2, FailsDisturbs DEF OpenFails
<1>3. ~(Woken \/ Close \/ Destroy \/ Sleep)
  BY DEF InStep, Off, On, Woken, Close, Destroy, Sleep, Loop!WaitReturns,
     Loop!CloseGensio, Loop!FreeGensio, Loop!Retry
<1>4. CASE Create \/ Open
  <2>1. /\ UNCHANGED <<query, still_to_discard, reader, device, scene, crashed>>
        /\ main # "wait"
    BY <1>4 DEF Create, Open, Unfailing, Loop!NewGensio, Loop!OpenGensio
  <2>2. Off /\ Idle
    BY <2>1 DEF InStep, Off, On
  <2>3. Idle'
    BY <2>1, <2>2 DEF Idle, Still
  <2>4. CASE Create
    BY <2>1, <2>2, <2>3, <2>4 DEF InStep, Off, Create, Loop!NewGensio
  <2>5. CASE Open
    BY <2>1, <2>2, <2>3, <2>5 DEF InStep, On, Open, Loop!OpenGensio
  <2> QED BY <1>4, <2>4, <2>5
<1> QED BY <1>1, <1>2, <1>3, <1>4 DEF MainStep

LEMMA SyncAnswers ==
    ASSUME ReaderAssumption, TInv, InStep, UNCHANGED env, Answer \/ AnswerCollision
    PROVE  InStep'
<1> USE DEF loop, reader, scene
<1>1. PICK m \in Answers : Sends(m) /\ (reported_tag = answered => answered' = Noted(m))
  <2>1. placement \in Nat /\ tag \in Tags \cup {NoTag}
    BY DEF TInv, SceneTyped
  <2>2. CASE Answer
    <3> DEFINE m == Message(IF tag = NoTag THEN "NoTag" ELSE "Success", tag, placement)
    <3>1. m \in Answers /\ Sends(m) /\ answered' = tag
      BY <2>1, <2>2 DEF Answer, Answers, Message, Messages
    <3>2. Noted(m) = tag
      BY DEF Noted, Message
    <3> HIDE DEF m
    <3> QED BY <3>1, <3>2
  <2>3. CASE AnswerCollision
    <3> DEFINE m == Message("Collision", NoTag, placement)
    <3>1. m \in Answers /\ Sends(m) /\ answered' = answered
      BY <2>1, <2>3 DEF AnswerCollision, Answers, Message, Messages
    <3>2. Noted(m) = reported_tag
      BY DEF Noted, Message
    <3> HIDE DEF m
    <3> QED BY <3>1, <3>2
  <2> QED BY <2>2, <2>3
<1>2. /\ asked > 0 /\ asked' = asked - 1
      /\ UNCHANGED <<main, io, wakes, query, still_to_discard, chunk, to_discard,
                     rx_frame, reported_tag, crashed>>
  BY <1>1 DEF Sends
<1>3. On /\ Exchange
  BY <1>2, ExchangeIs
<1>4. PICK g \in Seq(CellSet), a \in Seq(CellSet) : Answered(a) /\ Underway(g, a)
  BY <1>3 DEF Exchange
<1>5. a = <<>> /\ asked = 1 /\ reported_tag = answered
  BY <1>2, <1>4 DEF Answered
<1>6. line' = line \o Cells(m)
  BY <1>1, <1>3 DEF On, Sends
<1>7. Cells(m) \in Seq(CellSet)
  BY AnswerLength
<1>8. Echoed \in Seq(CellSet) /\ Len(Echoed) \in Nat /\ Len(a) = 0
  BY <1>5, EchoedType
<1>9. rx_frame = <<>>
  <2>1. rx_frame # <<>> =>
            /\ Len(Echoed) < Len(g) + Len(rx_frame)
            /\ Len(g) + Len(rx_frame) < Len(Echoed) + Len(a)
    BY <1>4 DEF Underway
  <2>2. Len(g) \in Nat /\ Len(rx_frame) \in Nat
    BY RowCells
  <2> QED BY <1>8, <2>1, <2>2
<1>10. Parts(g \o rx_frame', chunk', line', Echoed \o Cells(m))
  <2> DEFINE gr == g \o rx_frame
             e == Echoed
             c == Cells(m)
  <2>1. /\ gr \in Seq(CellSet) /\ e \in Seq(CellSet) /\ c \in Seq(CellSet)
    BY <1>7, <1>8, RowCells, ConcatProperties
  <2>a. Parts(gr, chunk, line, e)
    <3>1. Echoed \o a = Echoed
      BY <1>5, <1>8, ConcatEmptySeq
    <3> QED BY <1>4, <3>1 DEF Underway
  <2> HIDE DEF gr, e, c, CellSet
  <2>2. Parts(gr, chunk, line \o c, e \o c)
    BY <2>1, <2>a, RowCells, PartsGrow
  <2> QED BY <1>2, <1>6, <2>2 DEF gr, e, c
<1>11. Underway(g, Cells(m))'
  <2> DEFINE c == Cells(m)
  <2>1. Parts(g \o rx_frame', chunk', line', Echoed \o c)
    BY <1>10
  <2> HIDE DEF c
  <2>2. Underway(g, c)'
    BY <1>2, <1>4, <1>9, <2>1 DEF Underway
  <2> QED BY <2>2 DEF c
<1>12. Answered(Cells(m))'
  <2>1. asked' = 0
    BY <1>2, <1>5
  <2>2. answered' = Noted(m)'
    BY <1>1, <1>2, <1>5 DEF Noted
  <2> QED BY <2>1, <2>2 DEF Answered
<1>13. Exchange'
  <2> DEFINE c == Cells(m)
  <2>1. c \in Seq(CellSet) /\ Answered(c)' /\ Underway(g, c)'
    BY <1>7, <1>11, <1>12
  <2> HIDE DEF c, CellSet
  <2> QED BY <1>2, <1>3, <2>1 DEF Exchange
<1>14. On'
  BY <1>2, <1>3, <1>13 DEF On
<1> QED BY <1>2, <1>14 DEF InStep

LEMMA SyncInit ==
    ASSUME ReaderAssumption, Init
    PROVE  Sync
<1>1. Idle
  BY DEF Init, Idle, Still
<1>2. Off
  BY <1>1 DEF Init, Off
<1> QED BY <1>2 DEF Init, Sync, InStep

LEMMA SyncNext ==
    ASSUME ReaderAssumption, TInv, Sync, [Next]_vars
    PROVE  Sync'
<1> SUFFICES ASSUME faults' = 0
             PROVE  InStep'
  BY DEF Sync
<1>1. UNCHANGED env
  BY DEF Next, vars
<1>2. ASSUME faults # 0
      PROVE  FALSE
  <2>1. faults # 0 /\ faults' = 0
    BY <1>1, <1>2
  <2>2. faults' = faults \/ faults' = faults + 1
    <3>1. CASE Running
      BY <3>1, Zenon DEF Running, Unfailing, QueryCount, Polls, Fails, QueryWrite, QueryWriteFails,
         ReadBegins, ReadDiscards, ReadCollects, ReadError, MainStep, OpenFails,
         Create, Open, Woken, Close, Sleep, Destroy, OthersUnchanged,
         Answer, AnswerCollision, Sends, Place, Remove
    <3>2. CASE UNCHANGED vars
      BY <3>2 DEF vars
    <3> QED BY <3>1, <3>2 DEF Next
  <2>3. faults \in Nat
    BY DEF TInv, Counted
  <2> QED BY <2>1, <2>2, <2>3
<1>3. faults = 0 /\ InStep
  BY <1>2 DEF Sync
<1>4. CASE Running
  <2>1. CASE QueryCount
    BY <1>3, <2>1, SyncQueryCount
  <2>2. CASE QueryWrite
    BY <1>3, <2>2, SyncQueryWrite
  <2>3. CASE QueryWriteFails
    BY <1>3, <2>3, SyncQueryWriteFails
  <2>4. CASE ReadBegins
    BY <1>3, <2>4, SyncReadBegins
  <2>5. CASE ReadDiscards
    BY <1>3, <2>5, SyncReadDiscards
  <2>6. CASE ReadCollects
    BY <1>3, <2>6, SyncReadCollects
  <2>7. CASE MainStep \/ OpenFails \/ ReadError
    BY <1>1, <1>3, <2>7, SyncMain
  <2>8. CASE Answer \/ AnswerCollision
    BY <1>1, <1>3, <2>8, SyncAnswers
  <2>9. CASE Place \/ Remove
    BY <1>1, <1>3, <2>9, SyncStays DEF Place, Remove, reader
  <2> QED BY <1>4, <2>1, <2>2, <2>3, <2>4, <2>5, <2>6, <2>7, <2>8, <2>9 DEF Running
<1>5. CASE UNCHANGED vars
  BY <1>3, <1>5, SyncStays DEF vars, reader
<1> QED BY <1>4, <1>5 DEF Next

(* StronglinkSL032Event::read: as long as nothing fails driver and reader  *)
(* stay in step.  The echoes that are discarded are all of the echoes and  *)
(* none of the answers, in whatever chunks they come and however the query *)
(* thread counts the next echo meanwhile, each answer is found and handled *)
(* before the next request, and the fixed buffer suffices.                 *)
THEOREM InStepWithReader == Spec => []UpToDate
<1>1. Init => TInv /\ Sync
  BY TInit, SyncInit, ReaderAssumption
<1>2. (TInv /\ Sync) /\ [Next]_vars => (TInv /\ Sync)'
  BY TNext, SyncNext, ReaderAssumption
<1>3. TInv /\ Sync => UpToDate
  <2> SUFFICES ASSUME TInv, Sync, faults = 0
               PROVE  ~crashed /\ (Settled => reported_tag = answered)
    BY DEF UpToDate
  <2>1. ~crashed /\ (Off \/ On)
    BY DEF Sync, InStep
  <2>2. Settled => Idle \/ Writing
    BY <2>1, SettledIdle, ReaderAssumption DEF Off, On
  <2> QED BY <2>1, <2>2 DEF Idle, Writing, Still
<1> QED BY <1>1, <1>2, <1>3, PTL DEF Spec

=============================================================================
